-------------------------- MODULE RecordStoreProofs --------------------------
(***************************************************************************)
(* Proofs about RecordStore for any goroutines, identities, names and      *)
(* uuids, about its two instances ConnStore and CmdTemplateStore, and that *)
(* it implements Registry.                                                 *)
(***************************************************************************)
EXTENDS ConnStore, CmdTemplateStore, RecordStoreRefinement, ListProofs

-----------------------------------------------------------------------------
(* What the list edits return. *)

(* In a list without duplicates the first match of an identity is there.   *)
LEMMA HitFacts ==
  ASSUME NEW s \in Seq(Record), Distinct(s), NEW key \in KeysOf(s)
  PROVE  Hit(s, key) \in DOMAIN s /\ s[Hit(s, key)].key = key
<1>1. PICK i \in DOMAIN s : s[i].key = key
  BY DEF KeysOf
<1>2. \A j \in 1..(i - 1) : s[j].key # key
  BY <1>1, LenProperties DEF Distinct
<1>. QED
  BY <1>1, <1>2 DEF Hit

(* A fresh record at the head keeps the others and the list distinct.      *)
LEMMA PrependFacts ==
  ASSUME NEW s \in Seq(Record), Distinct(s), NEW rec \in Record,
         rec.id \notin IdsOf(s), rec.key \notin KeysOf(s)
  PROVE  /\ Prepend(rec, s) \in Seq(Record)
         /\ Distinct(Prepend(rec, s))
         /\ Members(Prepend(rec, s)) = {rec} \cup Members(s)
         /\ DOMAIN Prepend(rec, s) = 1..(Len(s) + 1)
         /\ Prepend(rec, s)[1] = rec
         /\ \A i \in DOMAIN s : Prepend(rec, s)[i + 1] = s[i]
<1> DEFINE t == Prepend(rec, s)
<1>1. /\ t \in Seq(Record)
      /\ Len(t) = Len(s) + 1
      /\ t[1] = rec
      /\ \A i \in 2..Len(t) : t[i] = s[i - 1]
  BY ConcatProperties, <<rec>> \in Seq(Record) DEF Prepend
<1>2. /\ DOMAIN s = 1..Len(s) /\ DOMAIN t = 1..(Len(s) + 1) /\ Len(s) \in Nat
      /\ \A i \in DOMAIN s : i + 1 \in DOMAIN t /\ t[i + 1] = s[i]
      /\ \A i \in DOMAIN t : i # 1 => i - 1 \in DOMAIN s /\ t[i] = s[i - 1]
  BY <1>1, LenProperties
<1>3. Distinct(t)
  <2> SUFFICES ASSUME NEW i \in DOMAIN t, NEW j \in DOMAIN t,
                      t[i].id = t[j].id \/ t[i].key = t[j].key
               PROVE  i = j
    BY DEF Distinct
  <2>1. CASE i = 1 /\ j # 1
    BY <2>1, <1>1, <1>2 DEF IdsOf, KeysOf
  <2>2. CASE j = 1 /\ i # 1
    BY <2>2, <1>1, <1>2 DEF IdsOf, KeysOf
  <2>3. CASE i # 1 /\ j # 1
    BY <2>3, <1>2 DEF Distinct
  <2>. QED
    BY <2>1, <2>2, <2>3
<1>4. Members(t) = {rec} \cup Members(s)
  <2>1. Members(t) \subseteq {rec} \cup Members(s)
    BY <1>1, <1>2 DEF Members
  <2>2. {rec} \cup Members(s) \subseteq Members(t)
    BY <1>1, <1>2 DEF Members
  <2>. QED
    BY <2>1, <2>2
<1>. QED
  BY <1>1, <1>2, <1>3, <1>4

(* A rename keeps uuids and identities where they are, and every record of *)
(* another identity as it is.                                              *)
LEMMA RenamedFacts ==
  ASSUME NEW s \in Seq(Record), Distinct(s), NEW key \in KeysOf(s),
         NEW name \in Names
  PROVE  /\ Renamed(s, key, name) \in Seq(Record)
         /\ Distinct(Renamed(s, key, name))
         /\ \A rec \in Members(s) :
              rec.key # key => rec \in Members(Renamed(s, key, name))
         /\ [s[Hit(s, key)] EXCEPT !.name = name]
              \in Members(Renamed(s, key, name)) \cap Record
         /\ DOMAIN Renamed(s, key, name) = DOMAIN s
         /\ \A i \in DOMAIN s : Renamed(s, key, name)[i].id = s[i].id
<1> DEFINE t == Renamed(s, key, name)
           h == Hit(s, key)
           r == [s[h] EXCEPT !.name = name]
<1>1. h \in DOMAIN s /\ s[h].key = key
  BY HitFacts
<1>2. s[h] \in Record
  BY <1>1, ElementOfSeq, LenProperties
<1>3. r \in Record /\ r.id = s[h].id /\ r.key = s[h].key
  BY <1>2 DEF Record
<1>4. t = [s EXCEPT ![h] = r]
  BY DEF Renamed
<1>5. /\ t \in Seq(Record)
      /\ DOMAIN t = DOMAIN s
      /\ t[h] = r
      /\ \A i \in DOMAIN s : i # h => t[i] = s[i]
  BY <1>1, <1>3, <1>4, ExceptSeq, LenProperties
<1>6. \A i \in DOMAIN s : t[i].id = s[i].id /\ t[i].key = s[i].key
  BY <1>1, <1>3, <1>5
<1>7. Distinct(t)
  BY <1>5, <1>6 DEF Distinct
<1>8. \A rec \in Members(s) : rec.key # key => rec \in Members(t)
  BY <1>1, <1>5 DEF Members
<1>. QED
  BY <1>1, <1>3, <1>5, <1>6, <1>7, <1>8 DEF Members

(* A deletion keeps every record of another uuid, in the order they had,   *)
(* and adds none.                                                          *)
LEMMA WithoutFacts ==
  ASSUME NEW s \in Seq(Record), Distinct(s), NEW id
  PROVE  /\ Without(s, id) \in Seq(Record)
         /\ Distinct(Without(s, id))
         /\ \A rec \in Members(s) : rec.id # id => rec \in Members(Without(s, id))
         /\ Members(Without(s, id)) \subseteq Members(s)
         /\ \A i, j \in DOMAIN Without(s, id) :
              i < j => \E a, b \in DOMAIN s :
                         /\ a < b
                         /\ Without(s, id)[i] = s[a] /\ Without(s, id)[j] = s[b]
<1>1. CASE id \notin IdsOf(s)
  BY <1>1 DEF Without
<1>2. CASE id \in IdsOf(s)
  <2> DEFINE k == CHOOSE i \in DOMAIN s : s[i].id = id
             t == [i \in 1..(Len(s) - 1) |-> IF i < k THEN s[i] ELSE s[i + 1]]
  <2>1. k \in DOMAIN s /\ s[k].id = id
    BY <1>2 DEF IdsOf
  <2>2. Without(s, id) = t
    BY <1>2 DEF Without
  <2>3. DOMAIN s = 1..Len(s) /\ Len(s) \in Nat /\ DOMAIN t = 1..(Len(s) - 1)
    BY LenProperties
  <2>4. \A i \in DOMAIN t : /\ i < k => i \in DOMAIN s /\ t[i] = s[i]
                            /\ ~(i < k) => i + 1 \in DOMAIN s /\ t[i] = s[i + 1]
    BY <2>3
  <2> HIDE DEF t, k
  <2>5. \A i \in DOMAIN t : t[i] \in Record
    BY <2>4, ElementOfSeq, <2>3
  <2>6. t \in Seq(Record)
    <3>1. t = [i \in 1..(Len(s) - 1) |-> t[i]]
      BY DEF t
    <3>2. Len(s) - 1 \in Nat
      BY <2>1, <2>3
    <3>. QED
      BY <3>1, <3>2, <2>3, <2>5, IsASeq
  <2>7. Distinct(t)
    <3> SUFFICES ASSUME NEW i \in DOMAIN t, NEW j \in DOMAIN t,
                        t[i].id = t[j].id \/ t[i].key = t[j].key
                 PROVE  i = j
      BY DEF Distinct
    <3>1. PICK a \in DOMAIN s : t[i] = s[a] /\ a = IF i < k THEN i ELSE i + 1
      BY <2>4
    <3>2. PICK b \in DOMAIN s : t[j] = s[b] /\ b = IF j < k THEN j ELSE j + 1
      BY <2>4
    <3>3. a = b
      BY <3>1, <3>2 DEF Distinct
    <3>. QED
      BY <3>1, <3>2, <3>3, <2>1, <2>3
  <2>8. ASSUME NEW rec \in Members(s), rec.id # id
        PROVE  rec \in Members(t)
    <3>1. PICK a \in DOMAIN s : rec = s[a]
      BY DEF Members
    <3>2. a # k
      BY <3>1, <2>1, <2>8
    <3>3. CASE a < k
      BY <3>1, <3>3, <2>1, <2>3, <2>4 DEF Members
    <3>4. CASE a > k
      <4>1. a - 1 \in DOMAIN t /\ t[a - 1] = s[a]
        BY <3>4, <2>1, <2>3, <2>4
      <4>. QED
        BY <4>1, <3>1 DEF Members
    <3>. QED
      BY <3>2, <3>3, <3>4, <2>1, <2>3
  <2>9. Members(t) \subseteq Members(s)
    BY <2>4 DEF Members
  <2>10. ASSUME NEW i \in DOMAIN t, NEW j \in DOMAIN t, i < j
         PROVE  \E a, b \in DOMAIN s : a < b /\ t[i] = s[a] /\ t[j] = s[b]
    <3>1. PICK a \in DOMAIN s : t[i] = s[a] /\ a = IF i < k THEN i ELSE i + 1
      BY <2>4
    <3>2. PICK b \in DOMAIN s : t[j] = s[b] /\ b = IF j < k THEN j ELSE j + 1
      BY <2>4
    <3>3. a < b
      BY <2>10, <3>1, <3>2, <2>1, <2>3
    <3>. QED
      BY <3>1, <3>2, <3>3
  <2>. QED
    BY <2>2, <2>6, <2>7, <2>8, <2>9, <2>10
<1>. QED
  BY <1>1, <1>2

-----------------------------------------------------------------------------
(* The inductive invariant. *)

(* A goroutine serves a call unless it is idle, and fails only by returning. *)
CallInv ==
  \A p \in Procs :
    /\ pc[p] = "idle" <=> req[p] = NoReq
    /\ err[p] # "none" => pc[p] = "returning"
    /\ pc[p] \in {"writing", "truncated"} =>
         req[p].op \in {"save", "delete"} /\ ~Invalid(req[p])

(* The mutex is held exactly by the goroutines past their Lock or RLock.   *)
LockInv ==
  /\ \A p \in Procs : p \in readers <=> pc[p] \in Holding /\ req[p].op = "list"
  /\ \A p \in Procs : writer = p <=> pc[p] \in Holding /\ req[p].op # "list"
  /\ writer # NoProc => readers = {}

(* The file is torn while a writer is between truncation and write, and    *)
(* for good once a write broke off; nobody writes after that.              *)
FileInv ==
  /\ Distinct(items)
  /\ disk = "torn" => items = << >>
  /\ disk = "torn" <=> damaged \/ \E p \in Procs : pc[p] = "truncated"
  /\ damaged => \A p \in Procs : pc[p] \notin {"writing", "truncated"}
  /\ \A p \in Procs : err[p] = "parse" => damaged

(* A slice about to be written is a valid list that misses no acknowledged *)
(* record but those its own call supersedes.                               *)
SliceInv ==
  \A p \in Procs :
    pc[p] \in {"writing", "truncated"} =>
      /\ Distinct(buf[p])
      /\ req[p].op = "save" => ret[p] \in Record \cap Members(buf[p])
      /\ \A rec \in acked :
           ~Supersedes(req[p], rec) => rec \in Members(buf[p])

(* A successful Save about to return stored its record.                    *)
ResultInv ==
  \A p \in Procs :
    pc[p] = "returning" /\ req[p].op = "save" /\ err[p] = "none" =>
      disk # "torn" /\ ret[p] \in Record \cap Members(items)

(* An acknowledged record is stored, or the call that superseded it took   *)
(* effect and is about to return.                                          *)
SupersededBy(p, rec) ==
  pc[p] = "returning" /\ err[p] = "none" /\ Supersedes(req[p], rec)

AckedInv ==
  disk # "torn" =>
    \A rec \in acked :
      rec \in Members(items) \/ \E p \in Procs : SupersededBy(p, rec)

(* A list about to be returned holds every acknowledged record.            *)
ListInv ==
  \A p \in Procs :
    pc[p] = "returning" /\ req[p].op = "list" /\ err[p] = "none" =>
      acked \subseteq Members(buf[p])

IInv == /\ TypeOK /\ CallInv /\ LockInv /\ FileInv
        /\ SliceInv /\ ResultInv /\ AckedInv /\ ListInv

-----------------------------------------------------------------------------
(* The steps by what they do to the invariant. *)

Fails(p) == Reject(p) \/ ParseFails(p) \/ Fault(p)
Answers(p) == List(p) \/ SaveKnown(p)
Edits(p) == SaveRenamed(p) \/ SaveNew(p) \/ Delete(p)

LEMMA NextCases ==
  ASSUME Next
  PROVE  \/ \E p \in Procs :
              \/ \E r \in Request : Call(p, r)
              \/ RLock(p) \/ Lock(p) \/ Fails(p) \/ Answers(p) \/ Edits(p)
              \/ Truncate(p) \/ WriteData(p) \/ Return(p)
         \/ Crash
  BY DEF Next, Acquire, Advance, Fails, Answers, Edits

(* A call is a list, a save or a delete, and its fields are typed.         *)
LEMMA RequestFacts ==
  ASSUME NEW r \in Request
  PROVE  /\ r # NoReq
         /\ r.op \in {"list", "save", "delete"}
         /\ r.op = "save" => /\ r.key \in Keys \cup InvalidKeys
                             /\ r.name \in CustomNames \cup {NoName}
         /\ r.op = "delete" => r.id \in IDs
  BY DEF Request, ListReq, SaveReq, DeleteReq, NoReq

(* The goroutines that are past Lock serve a call.                         *)
LEMMA HoldingFacts ==
  ASSUME TypeOK, CallInv, NEW p \in Procs, pc[p] # "idle"
  PROVE  req[p] \in Request
  BY DEF TypeOK, CallInv

(* A failure ends the method; only a failed write leaves a trace.          *)
LEMMA FailsFacts ==
  ASSUME TypeOK, NEW p \in Procs, Fails(p)
  PROVE  /\ pc[p] \in {"locked", "writing", "truncated"}
         /\ pc' = [pc EXCEPT ![p] = "returning"]
         /\ \E e \in {"invalid", "io", "parse"} :
              /\ err' = [err EXCEPT ![p] = e]
              /\ e = "parse" => pc[p] = "locked" /\ disk = "torn"
         /\ ret' = [ret EXCEPT ![p] = NoRecord]
         /\ damaged' = (damaged \/ pc[p] = "truncated")
         /\ UNCHANGED <<disk, items, writer, readers, req, buf, acked>>
  BY DEF TypeOK, Fails, Fault, Reject, ParseFails, ReadFails, OpenFails,
         WriteFails, Fail, Goto, mutex

(* A method that does not write returns what it loaded.                    *)
LEMMA AnswersFacts ==
  ASSUME TypeOK, CallInv, FileInv, NEW p \in Procs, Answers(p)
  PROVE  /\ pc[p] = "locked" /\ disk # "torn"
         /\ req[p].op \in {"list", "save"}
         /\ pc' = [pc EXCEPT ![p] = "returning"]
         /\ buf' = [buf EXCEPT ![p] = items]
         /\ \E rec \in Record \cup {NoRecord} :
              /\ ret' = [ret EXCEPT ![p] = rec]
              /\ req[p].op = "save" => rec \in Record \cap Members(items)
         /\ UNCHANGED <<disk, items, writer, readers, req, err, acked, damaged>>
<1>1. CASE List(p)
  BY <1>1 DEF List, Loads, Goto, mutex, history
<1>2. CASE SaveKnown(p)
  <2>1. HitOf(p) \in Record \cap Members(items)
    <3>1. Hit(items, req[p].key) \in DOMAIN items
      BY <1>2, HitFacts DEF SaveKnown, Known, TypeOK, FileInv
    <3>. QED
      BY <3>1, ElementOfSeq, LenProperties DEF HitOf, Members, TypeOK
  <2>. QED
    BY <1>2, <2>1 DEF SaveKnown, Saves, Loads, Goto, mutex, history
<1>. QED
  BY <1>1, <1>2 DEF Answers

(* A method that writes prepares a valid list, in which every stored       *)
(* record is left that its call does not supersede.                        *)
LEMMA EditsFacts ==
  ASSUME TypeOK, CallInv, FileInv, NEW p \in Procs, Edits(p)
  PROVE  /\ pc[p] = "locked" /\ disk # "torn"
         /\ req[p].op \in {"save", "delete"} /\ ~Invalid(req[p])
         /\ pc' = [pc EXCEPT ![p] = "writing"]
         /\ \E s \in Seq(Record), rec \in Record \cup {NoRecord} :
              /\ buf' = [buf EXCEPT ![p] = s]
              /\ ret' = [ret EXCEPT ![p] = rec]
              /\ Distinct(s)
              /\ req[p].op = "save" => rec \in Record \cap Members(s)
              /\ \A old \in Members(items) :
                   ~Supersedes(req[p], old) => old \in Members(s)
         /\ UNCHANGED <<disk, items, writer, readers, req, err, acked, damaged>>
<1> USE DEF Loads, Goto, mutex, history
<1>0. items \in Seq(Record) /\ Distinct(items)
  BY DEF TypeOK, FileInv
<1>1. CASE SaveRenamed(p)
  <2>1. /\ req[p].op = "save" /\ ~Invalid(req[p])
        /\ req[p].key \in KeysOf(items) /\ req[p].name # NoName
    BY <1>1 DEF SaveRenamed, Saves, Known, Renames
  <2>2. req[p] \in Request
    BY <1>1, HoldingFacts DEF SaveRenamed
  <2>3. req[p].name \in Names
    BY <2>1, <2>2, RequestFacts DEF Names
  <2> DEFINE s == Renamed(items, req[p].key, req[p].name)
             rec == [HitOf(p) EXCEPT !.name = req[p].name]
  <2>4. /\ s \in Seq(Record) /\ Distinct(s)
        /\ rec \in Record \cap Members(s)
        /\ \A old \in Members(items) : old.key # req[p].key => old \in Members(s)
    BY <1>0, <2>1, <2>3, RenamedFacts DEF HitOf
  <2>5. buf' = [buf EXCEPT ![p] = s] /\ ret' = [ret EXCEPT ![p] = rec]
    BY <1>1 DEF SaveRenamed
  <2> HIDE DEF s, rec
  <2>6. \A old \in Members(items) :
          ~Supersedes(req[p], old) => old \in Members(s)
    BY <2>1, <2>4 DEF Supersedes
  <2>. QED
    BY <1>1, <2>1, <2>4, <2>5, <2>6 DEF SaveRenamed
<1>2. CASE SaveNew(p)
  <2>1. /\ req[p].op = "save" /\ ~Invalid(req[p])
        /\ req[p].key \notin KeysOf(items)
    BY <1>2 DEF SaveNew, Saves, Known
  <2>2. req[p] \in Request
    BY <1>2, HoldingFacts DEF SaveNew
  <2>3. /\ req[p].key \in Keys
        /\ DisplayName(req[p].key, req[p].name) \in Names
    BY <2>1, <2>2, RequestFacts DEF Invalid, DisplayName, Names
  <2>4. PICK id \in FreshIDs :
          Loads(p, "writing",
            Prepend([id |-> id, key |-> req[p].key,
                     name |-> DisplayName(req[p].key, req[p].name)], items),
            [id |-> id, key |-> req[p].key,
             name |-> DisplayName(req[p].key, req[p].name)])
    BY <1>2 DEF SaveNew
  <2> DEFINE rec == [id |-> id, key |-> req[p].key,
                     name |-> DisplayName(req[p].key, req[p].name)]
             s == Prepend(rec, items)
  <2>5. /\ rec \in Record /\ rec.id \notin IdsOf(items)
        /\ rec.key \notin KeysOf(items)
    BY <2>1, <2>3 DEF FreshIDs, Record
  <2>6. buf' = [buf EXCEPT ![p] = s] /\ ret' = [ret EXCEPT ![p] = rec]
    BY <2>4
  <2>6a. pc[p] = "locked" /\ disk # "torn" /\ pc' = [pc EXCEPT ![p] = "writing"]
         /\ UNCHANGED <<disk, items, mutex, req, err, history>>
    BY <2>4
  <2> HIDE DEF rec
  <2>7. s \in Seq(Record) /\ Distinct(s) /\ Members(s) = {rec} \cup Members(items)
    BY <1>0, <2>5, PrependFacts
  <2> HIDE DEF s
  <2>. QED
    BY <2>1, <2>5, <2>6, <2>6a, <2>7
<1>3. CASE Delete(p)
  <2> DEFINE s == Without(items, req[p].id)
  <2>1. /\ s \in Seq(Record) /\ Distinct(s)
        /\ \A old \in Members(items) : old.id # req[p].id => old \in Members(s)
    BY <1>0, WithoutFacts
  <2>2. req[p].op = "delete" /\ ~Invalid(req[p])
    BY <1>3 DEF Delete, Invalid
  <2>3. buf' = [buf EXCEPT ![p] = s] /\ ret' = [ret EXCEPT ![p] = NoRecord]
    BY <1>3 DEF Delete
  <2> HIDE DEF s
  <2>4. \A old \in Members(items) :
          ~Supersedes(req[p], old) => old \in Members(s)
    BY <2>1, <2>2 DEF Supersedes
  <2>. QED
    BY <1>3, <2>1, <2>2, <2>3, <2>4 DEF Delete
<1>. QED
  BY <1>1, <1>2, <1>3 DEF Edits

(* A writer holds the mutex alone. *)
LEMMA WriterAlone ==
  ASSUME LockInv, NEW p \in Procs, NEW q \in Procs,
         pc[p] \in Holding, pc[q] \in Holding, req[p].op # "list"
  PROVE  p = q
  BY ProcsAssumption DEF LockInv

(* While a goroutine has loaded nothing yet, no superseding call is past   *)
(* its write, so every acknowledged record is in the file.                 *)
LEMMA AckedStored ==
  ASSUME LockInv, AckedInv, NEW p \in Procs, pc[p] = "locked", disk # "torn"
  PROVE  acked \subseteq Members(items)
<1> SUFFICES ASSUME NEW rec \in acked, rec \notin Members(items)
             PROVE  FALSE
  OBVIOUS
<1>1. PICK q \in Procs : SupersededBy(q, rec)
  BY DEF AckedInv
<1>2. pc[q] = "returning" /\ req[q].op # "list"
  BY <1>1 DEF SupersededBy, Supersedes
<1>. QED
  BY <1>2, WriterAlone DEF Holding

(* Every step keeps the types. *)
LEMMA TypeOKStep ==
  ASSUME TypeOK, CallInv, FileInv, ResultInv, Next
  PROVE  TypeOK'
<1> USE DEF TypeOK, mutex, history
<1>1. ASSUME NEW p \in Procs, NEW r \in Request, Call(p, r)
     PROVE  TypeOK'
  BY <1>1 DEF Call, Goto, Holding
<1>2. ASSUME NEW p \in Procs, RLock(p)
     PROVE  TypeOK'
  BY <1>2 DEF RLock, Goto, Holding
<1>3. ASSUME NEW p \in Procs, Lock(p)
     PROVE  TypeOK'
  BY <1>3 DEF Lock, Goto, Holding
<1>4. ASSUME NEW p \in Procs, Fails(p)
     PROVE  TypeOK'
  BY <1>4, FailsFacts DEF Holding
<1>5. ASSUME NEW p \in Procs, Answers(p)
     PROVE  TypeOK'
  <2>1. PICK rec \in Record \cup {NoRecord} : ret' = [ret EXCEPT ![p] = rec]
    BY <1>5, AnswersFacts
  <2>2. /\ pc' = [pc EXCEPT ![p] = "returning"]
        /\ buf' = [buf EXCEPT ![p] = items]
        /\ UNCHANGED <<disk, items, writer, readers, req, err, acked, damaged>>
    BY <1>5, AnswersFacts
  <2>. QED
    BY <2>1, <2>2 DEF Holding
<1>6. ASSUME NEW p \in Procs, Edits(p)
     PROVE  TypeOK'
  <2>1. PICK s \in Seq(Record), rec \in Record \cup {NoRecord} :
          buf' = [buf EXCEPT ![p] = s] /\ ret' = [ret EXCEPT ![p] = rec]
    BY <1>6, EditsFacts
  <2>2. /\ pc' = [pc EXCEPT ![p] = "writing"]
        /\ UNCHANGED <<disk, items, writer, readers, req, err, acked, damaged>>
    BY <1>6, EditsFacts
  <2>. QED
    BY <2>1, <2>2 DEF Holding
<1>7. ASSUME NEW p \in Procs, Truncate(p)
     PROVE  TypeOK'
  BY <1>7, EmptySeq DEF Truncate, Goto, Holding
<1>8. ASSUME NEW p \in Procs, WriteData(p)
     PROVE  TypeOK'
  BY <1>8 DEF WriteData, Goto, Holding
<1>9. ASSUME NEW p \in Procs, Return(p)
     PROVE  TypeOK'
  BY <1>9, EmptySeq DEF Return, Goto, ResultInv
<1>10. ASSUME Crash
     PROVE  TypeOK'
  BY <1>10, EmptySeq DEF Crash
<1>. QED
  BY <1>1, <1>2, <1>3, <1>4, <1>5, <1>6, <1>7, <1>8, <1>9, <1>10, NextCases

(* A goroutine gets and loses its call with its program counter. *)
LEMMA CallInvStep ==
  ASSUME TypeOK, CallInv, FileInv, Next
  PROVE  CallInv'
<1> USE DEF TypeOK, CallInv, mutex, history
<1>1. ASSUME NEW p \in Procs, NEW r \in Request, Call(p, r)
     PROVE  CallInv'
  BY <1>1, RequestFacts DEF Call, Goto
<1>2. ASSUME NEW p \in Procs, RLock(p)
     PROVE  CallInv'
  BY <1>2 DEF RLock, Goto
<1>3. ASSUME NEW p \in Procs, Lock(p)
     PROVE  CallInv'
  BY <1>3 DEF Lock, Goto
<1>4. ASSUME NEW p \in Procs, Fails(p)
     PROVE  CallInv'
  BY <1>4, FailsFacts
<1>5. ASSUME NEW p \in Procs, Answers(p)
     PROVE  CallInv'
  BY <1>5, AnswersFacts
<1>6. ASSUME NEW p \in Procs, Edits(p)
     PROVE  CallInv'
  BY <1>6, EditsFacts DEF Invalid
<1>7. ASSUME NEW p \in Procs, Truncate(p)
     PROVE  CallInv'
  BY <1>7 DEF Truncate, Goto
<1>8. ASSUME NEW p \in Procs, WriteData(p)
     PROVE  CallInv'
  BY <1>8 DEF WriteData, Goto
<1>9. ASSUME NEW p \in Procs, Return(p)
     PROVE  CallInv'
  BY <1>9 DEF Return, Goto
<1>10. ASSUME Crash
     PROVE  CallInv'
  BY <1>10 DEF Crash
<1>. QED
  BY <1>1, <1>2, <1>3, <1>4, <1>5, <1>6, <1>7, <1>8, <1>9, <1>10, NextCases

(* Mutual exclusion: a lock is taken only when nobody excludes it. *)
LEMMA LockInvStep ==
  ASSUME TypeOK, CallInv, FileInv, LockInv, Next
  PROVE  LockInv'
<1> USE DEF TypeOK, LockInv, mutex, history, Holding
<1>1. ASSUME NEW p \in Procs, NEW r \in Request, Call(p, r)
     PROVE  LockInv'
  BY <1>1, ProcsAssumption, RequestFacts DEF Call, Goto
<1>2. ASSUME NEW p \in Procs, RLock(p)
     PROVE  LockInv'
  BY <1>2 DEF RLock, Goto
<1>3. ASSUME NEW p \in Procs, Lock(p)
     PROVE  LockInv'
  BY <1>3, ProcsAssumption DEF Lock, Goto
<1>4. ASSUME NEW p \in Procs, Fails(p)
     PROVE  LockInv'
  <2>1. /\ pc[p] \in Holding /\ pc' = [pc EXCEPT ![p] = "returning"]
        /\ UNCHANGED <<writer, readers, req>>
    BY <1>4, FailsFacts
  <2>. QED
    BY <2>1
<1>5. ASSUME NEW p \in Procs, Answers(p)
     PROVE  LockInv'
  BY <1>5, AnswersFacts
<1>6. ASSUME NEW p \in Procs, Edits(p)
     PROVE  LockInv'
  BY <1>6, EditsFacts
<1>7. ASSUME NEW p \in Procs, Truncate(p)
     PROVE  LockInv'
  BY <1>7 DEF Truncate, Goto
<1>8. ASSUME NEW p \in Procs, WriteData(p)
     PROVE  LockInv'
  BY <1>8 DEF WriteData, Goto
<1>9. ASSUME NEW p \in Procs, Return(p)
     PROVE  LockInv'
  BY <1>9, ProcsAssumption DEF Return, Goto
<1>10. ASSUME Crash
     PROVE  LockInv'
  BY <1>10, ProcsAssumption DEF Crash
<1>. QED
  BY <1>1, <1>2, <1>3, <1>4, <1>5, <1>6, <1>7, <1>8, <1>9, <1>10, NextCases

(* The file is torn only under a writer or after a broken write. *)
LEMMA FileInvStep ==
  ASSUME TypeOK, CallInv, LockInv, FileInv, SliceInv, Next
  PROVE  FileInv'
<1> USE DEF TypeOK, FileInv, mutex, history
<1>1. ASSUME NEW p \in Procs, NEW r \in Request, Call(p, r)
     PROVE  FileInv'
  BY <1>1 DEF Call, Goto
<1>2. ASSUME NEW p \in Procs, RLock(p)
     PROVE  FileInv'
  BY <1>2 DEF RLock, Goto
<1>3. ASSUME NEW p \in Procs, Lock(p)
     PROVE  FileInv'
  BY <1>3 DEF Lock, Goto
<1>4. ASSUME NEW p \in Procs, Fails(p)
     PROVE  FileInv'
  <2>1. /\ pc[p] \in {"locked", "writing", "truncated"}
        /\ pc' = [pc EXCEPT ![p] = "returning"]
        /\ damaged' = (damaged \/ pc[p] = "truncated")
        /\ UNCHANGED <<disk, items>>
    BY <1>4, FailsFacts
  <2>2. \A q \in Procs : pc[q] \in {"writing", "truncated"} => p = q
    BY <2>1, WriterAlone DEF CallInv, Holding
  <2>3. disk = "torn" <=> damaged' \/ \E q \in Procs : pc'[q] = "truncated"
    BY <2>1, <2>2
  <2>4. damaged' => \A q \in Procs : pc'[q] \notin {"writing", "truncated"}
    BY <2>1, <2>2
  <2>5. PICK e \in {"invalid", "io", "parse"} :
          /\ err' = [err EXCEPT ![p] = e]
          /\ e = "parse" => pc[p] = "locked" /\ disk = "torn"
    BY <1>4, FailsFacts
  <2>6. e = "parse" => damaged
    BY <2>2, <2>5
  <2>7. \A q \in Procs : err'[q] = "parse" => damaged'
    BY <2>1, <2>5, <2>6
  <2>. QED
    BY <2>1, <2>3, <2>4, <2>7
<1>5. ASSUME NEW p \in Procs, Answers(p)
     PROVE  FileInv'
  BY <1>5, AnswersFacts
<1>6. ASSUME NEW p \in Procs, Edits(p)
     PROVE  FileInv'
  BY <1>6, EditsFacts
<1>7. ASSUME NEW p \in Procs, Truncate(p)
     PROVE  FileInv'
  BY <1>7, EmptySeq DEF Truncate, Goto, Distinct
<1>8. ASSUME NEW p \in Procs, WriteData(p)
     PROVE  FileInv'
  <2>1. \A q \in Procs : pc[q] \in {"writing", "truncated"} => p = q
    BY <1>8, WriterAlone DEF WriteData, Goto, CallInv, Holding
  <2>2. Distinct(buf[p])
    BY <1>8 DEF WriteData, Goto, SliceInv
  <2>. QED
    BY <1>8, <2>1, <2>2 DEF WriteData, Goto
<1>9. ASSUME NEW p \in Procs, Return(p)
     PROVE  FileInv'
  BY <1>9 DEF Return, Goto
<1>10. ASSUME Crash
     PROVE  FileInv'
  BY <1>10 DEF Crash
<1>. QED
  BY <1>1, <1>2, <1>3, <1>4, <1>5, <1>6, <1>7, <1>8, <1>9, <1>10, NextCases

(* The list a writer prepared stays complete until it is written. *)
LEMMA SliceInvStep ==
  ASSUME TypeOK, CallInv, LockInv, FileInv, SliceInv, AckedInv, Next
  PROVE  SliceInv'
<1> USE DEF TypeOK, SliceInv, mutex, history
<1>1. ASSUME NEW p \in Procs, NEW r \in Request, Call(p, r)
     PROVE  SliceInv'
  BY <1>1 DEF Call, Goto
<1>2. ASSUME NEW p \in Procs, RLock(p)
     PROVE  SliceInv'
  BY <1>2 DEF RLock, Goto
<1>3. ASSUME NEW p \in Procs, Lock(p)
     PROVE  SliceInv'
  BY <1>3 DEF Lock, Goto
<1>4. ASSUME NEW p \in Procs, Fails(p)
     PROVE  SliceInv'
  BY <1>4, FailsFacts
<1>5. ASSUME NEW p \in Procs, Answers(p)
     PROVE  SliceInv'
  <2>1. /\ pc' = [pc EXCEPT ![p] = "returning"]
        /\ \A q \in Procs \ {p} : buf'[q] = buf[q] /\ ret'[q] = ret[q]
        /\ UNCHANGED <<req, acked>>
    BY <1>5, AnswersFacts
  <2>. QED
    BY <2>1
<1>6. ASSUME NEW p \in Procs, Edits(p)
     PROVE  SliceInv'
  <2>1. acked \subseteq Members(items)
    BY <1>6, EditsFacts, AckedStored
  <2>2. PICK s \in Seq(Record), rec \in Record \cup {NoRecord} :
          /\ buf' = [buf EXCEPT ![p] = s]
          /\ ret' = [ret EXCEPT ![p] = rec]
          /\ Distinct(s)
          /\ req[p].op = "save" => rec \in Record \cap Members(s)
          /\ \A old \in Members(items) :
               ~Supersedes(req[p], old) => old \in Members(s)
    BY <1>6, EditsFacts
  <2>3. pc' = [pc EXCEPT ![p] = "writing"] /\ UNCHANGED <<req, acked>>
    BY <1>6, EditsFacts
  <2>. QED
    BY <2>1, <2>2, <2>3
<1>7. ASSUME NEW p \in Procs, Truncate(p)
     PROVE  SliceInv'
  BY <1>7 DEF Truncate, Goto
<1>8. ASSUME NEW p \in Procs, WriteData(p)
     PROVE  SliceInv'
  BY <1>8 DEF WriteData, Goto
<1>9. ASSUME NEW p \in Procs, Return(p)
     PROVE  SliceInv'
  BY <1>9 DEF Return, Goto, LockInv, CallInv, Holding, Supersedes
<1>10. ASSUME Crash
     PROVE  SliceInv'
  BY <1>10 DEF Crash
<1>. QED
  BY <1>1, <1>2, <1>3, <1>4, <1>5, <1>6, <1>7, <1>8, <1>9, <1>10, NextCases

(* A Save returns the record it stored. *)
LEMMA ResultInvStep ==
  ASSUME TypeOK, CallInv, LockInv, FileInv, SliceInv, ResultInv, Next
  PROVE  ResultInv'
<1> USE DEF TypeOK, ResultInv, mutex, history
<1>1. ASSUME NEW p \in Procs, NEW r \in Request, Call(p, r)
     PROVE  ResultInv'
  BY <1>1 DEF Call, Goto
<1>2. ASSUME NEW p \in Procs, RLock(p)
     PROVE  ResultInv'
  BY <1>2 DEF RLock, Goto
<1>3. ASSUME NEW p \in Procs, Lock(p)
     PROVE  ResultInv'
  BY <1>3 DEF Lock, Goto
<1>4. ASSUME NEW p \in Procs, Fails(p)
     PROVE  ResultInv'
  <2>1. /\ pc' = [pc EXCEPT ![p] = "returning"] /\ err'[p] # "none"
        /\ \A q \in Procs \ {p} : err'[q] = err[q] /\ ret'[q] = ret[q]
        /\ UNCHANGED <<disk, items, req>>
    BY <1>4, FailsFacts
  <2>. QED
    BY <2>1
<1>5. ASSUME NEW p \in Procs, Answers(p)
     PROVE  ResultInv'
  BY <1>5, AnswersFacts
<1>6. ASSUME NEW p \in Procs, Edits(p)
     PROVE  ResultInv'
  BY <1>6, EditsFacts
<1>7. ASSUME NEW p \in Procs, Truncate(p)
     PROVE  ResultInv'
  <2>1. pc[p] = "writing" /\ pc' = [pc EXCEPT ![p] = "truncated"]
    BY <1>7 DEF Truncate, Goto
  <2>2. \A q \in Procs : pc[q] # "returning"
    BY <2>1, WriterAlone DEF CallInv, Holding
  <2>3. \A q \in Procs : pc'[q] # "returning"
    BY <2>1, <2>2
  <2>. QED
    BY <2>3
<1>8. ASSUME NEW p \in Procs, WriteData(p)
     PROVE  ResultInv'
  <2>1. \A q \in Procs : pc[q] = "returning" => p = q
    BY <1>8, WriterAlone DEF WriteData, Goto, CallInv, Holding
  <2>2. req[p].op = "save" => ret[p] \in Record \cap Members(buf[p])
    BY <1>8 DEF WriteData, Goto, SliceInv
  <2>. QED
    BY <1>8, <2>1, <2>2 DEF WriteData, Goto
<1>9. ASSUME NEW p \in Procs, Return(p)
     PROVE  ResultInv'
  BY <1>9 DEF Return, Goto
<1>10. ASSUME Crash
     PROVE  ResultInv'
  BY <1>10 DEF Crash
<1>. QED
  BY <1>1, <1>2, <1>3, <1>4, <1>5, <1>6, <1>7, <1>8, <1>9, <1>10, NextCases

(* An acknowledged record leaves the file only by a superseding call. *)
LEMMA AckedInvStep ==
  ASSUME TypeOK, CallInv, LockInv, FileInv, SliceInv, ResultInv, AckedInv, Next
  PROVE  AckedInv'
<1> USE DEF TypeOK, AckedInv, SupersededBy, mutex, history
<1>1. ASSUME NEW p \in Procs, NEW r \in Request, Call(p, r)
     PROVE  AckedInv'
  BY <1>1 DEF Call, Goto
<1>2. ASSUME NEW p \in Procs, RLock(p)
     PROVE  AckedInv'
  BY <1>2 DEF RLock, Goto
<1>3. ASSUME NEW p \in Procs, Lock(p)
     PROVE  AckedInv'
  BY <1>3 DEF Lock, Goto
<1>4. ASSUME NEW p \in Procs, Fails(p)
     PROVE  AckedInv'
  BY <1>4, FailsFacts
<1>5. ASSUME NEW p \in Procs, Answers(p)
     PROVE  AckedInv'
  BY <1>5, AnswersFacts
<1>6. ASSUME NEW p \in Procs, Edits(p)
     PROVE  AckedInv'
  BY <1>6, EditsFacts
<1>7. ASSUME NEW p \in Procs, Truncate(p)
     PROVE  AckedInv'
  BY <1>7 DEF Truncate, Goto
<1>8. ASSUME NEW p \in Procs, WriteData(p)
     PROVE  AckedInv'
  BY <1>8 DEF WriteData, Goto, SliceInv, CallInv
<1>9. ASSUME NEW p \in Procs, Return(p)
     PROVE  AckedInv'
  <2> SUFFICES ASSUME disk # "torn", NEW rec \in acked', rec \notin Members(items)
               PROVE  \E q \in Procs : SupersededBy(q, rec)'
    BY <1>9 DEF Return
  <2>1. rec \in acked /\ ~(err[p] = "none" /\ Supersedes(req[p], rec))
    <3>1. err[p] = "none" /\ req[p].op = "save" => ret[p] \in Members(items)
      BY <1>9 DEF Return, Goto, ResultInv
    <3>2. CASE err[p] # "none"
      BY <1>9, <3>2 DEF Return
    <3>3. CASE err[p] = "none" /\ req[p].op = "save"
      BY <1>9, <3>1, <3>3 DEF Return
    <3>4. CASE err[p] = "none" /\ req[p].op # "save"
      BY <1>9, <3>4 DEF Return
    <3>. QED
      BY <3>2, <3>3, <3>4
  <2>2. PICK q \in Procs : SupersededBy(q, rec)
    BY <2>1
  <2>3. q # p
    BY <2>1, <2>2
  <2>4. pc'[q] = pc[q] /\ err'[q] = err[q] /\ req'[q] = req[q]
    BY <1>9, <2>3 DEF Return, Goto
  <2>. QED
    BY <2>2, <2>4 DEF Supersedes
<1>10. ASSUME Crash
     PROVE  AckedInv'
  BY <1>10 DEF Crash, Undisputed, CallInv
<1>. QED
  BY <1>1, <1>2, <1>3, <1>4, <1>5, <1>6, <1>7, <1>8, <1>9, <1>10, NextCases

(* No writer returns while a reader holds what it loaded. *)
LEMMA ListInvStep ==
  ASSUME TypeOK, CallInv, LockInv, FileInv, SliceInv, AckedInv, ListInv, Next
  PROVE  ListInv'
<1> USE DEF TypeOK, ListInv, mutex, history
<1>1. ASSUME NEW p \in Procs, NEW r \in Request, Call(p, r)
     PROVE  ListInv'
  BY <1>1 DEF Call, Goto
<1>2. ASSUME NEW p \in Procs, RLock(p)
     PROVE  ListInv'
  BY <1>2 DEF RLock, Goto
<1>3. ASSUME NEW p \in Procs, Lock(p)
     PROVE  ListInv'
  BY <1>3 DEF Lock, Goto
<1>4. ASSUME NEW p \in Procs, Fails(p)
     PROVE  ListInv'
  BY <1>4, FailsFacts
<1>5. ASSUME NEW p \in Procs, Answers(p)
     PROVE  ListInv'
  <2>1. acked \subseteq Members(items)
    BY <1>5, AnswersFacts, AckedStored
  <2>2. /\ pc' = [pc EXCEPT ![p] = "returning"]
        /\ buf' = [buf EXCEPT ![p] = items]
        /\ UNCHANGED <<req, err, acked>>
    BY <1>5, AnswersFacts
  <2>. QED
    BY <2>1, <2>2
<1>6. ASSUME NEW p \in Procs, Edits(p)
     PROVE  ListInv'
  BY <1>6, EditsFacts
<1>7. ASSUME NEW p \in Procs, Truncate(p)
     PROVE  ListInv'
  BY <1>7 DEF Truncate, Goto
<1>8. ASSUME NEW p \in Procs, WriteData(p)
     PROVE  ListInv'
  BY <1>8 DEF WriteData, Goto, CallInv
<1>9. ASSUME NEW p \in Procs, Return(p)
     PROVE  ListInv'
  <2> SUFFICES ASSUME NEW q \in Procs, pc'[q] = "returning",
                      req'[q].op = "list", err'[q] = "none"
               PROVE  acked' \subseteq Members(buf'[q])
    OBVIOUS
  <2>1. q # p /\ pc[q] = "returning" /\ buf'[q] = buf[q]
        /\ req[q].op = "list" /\ err[q] = "none"
    BY <1>9 DEF Return, Goto
  <2>2. req[p].op = "list"
    BY <1>9, <2>1, WriterAlone DEF Return, Goto, Holding
  <2>3. acked' \subseteq acked
    BY <1>9, <2>2 DEF Return
  <2>. QED
    BY <2>1, <2>3
<1>10. ASSUME Crash
     PROVE  ListInv'
  BY <1>10 DEF Crash
<1>. QED
  BY <1>1, <1>2, <1>3, <1>4, <1>5, <1>6, <1>7, <1>8, <1>9, <1>10, NextCases

-----------------------------------------------------------------------------
(* The theorems. *)

LEMMA Initialization == Init => IInv
<1> SUFFICES ASSUME Init PROVE IInv
  OBVIOUS
<1> USE DEF Init
<1>1. TypeOK
  BY EmptySeq DEF TypeOK
<1>2. CallInv /\ SliceInv /\ ResultInv /\ AckedInv /\ ListInv
  BY DEF CallInv, SliceInv, ResultInv, AckedInv, ListInv
<1>3. LockInv
  BY ProcsAssumption DEF LockInv, Holding
<1>4. FileInv
  BY EmptySeq DEF FileInv, Distinct
<1>. QED
  BY <1>1, <1>2, <1>3, <1>4 DEF IInv

LEMMA Invariance == IInv /\ [Next]_vars => IInv'
<1> SUFFICES ASSUME IInv, [Next]_vars PROVE IInv'
  OBVIOUS
<1>1. CASE Next
  BY <1>1, TypeOKStep, CallInvStep, LockInvStep, FileInvStep, SliceInvStep,
     ResultInvStep, AckedInvStep, ListInvStep DEF IInv
<1>2. CASE UNCHANGED vars
  BY <1>2 DEF vars, mutex, local, history, IInv, TypeOK, CallInv, LockInv,
     FileInv, SliceInv, ResultInv, AckedInv, ListInv, SupersededBy
<1>. QED
  BY <1>1, <1>2

LEMMA InvariantHolds == Spec => []IInv
  BY Initialization, Invariance, PTL DEF Spec

(* Every variable keeps its type: no step of a method leaves a value its   *)
(* code could not produce.                                                 *)
THEOREM TypeCorrect == Spec => []TypeOK
<1>1. IInv => TypeOK
  BY DEF IInv
<1>. QED
  BY <1>1, InvariantHolds, PTL

(* The deduplication of Save holds under any interleaving, failure and     *)
(* kill: no uuid and no identity is stored twice.                          *)
THEOREM NoDuplicatesHolds == Spec => []NoDuplicates
<1>1. IInv => NoDuplicates
  BY DEF IInv, FileInv, NoDuplicates
<1>. QED
  BY <1>1, InvariantHolds, PTL

(* Save and Delete lose no acknowledged record of another call.            *)
THEOREM AckedKeptHolds == Spec => []AckedKept
<1>1. IInv => AckedKept
  BY DEF IInv, AckedInv, AckedKept, SupersededBy, Undisputed
<1>. QED
  BY <1>1, InvariantHolds, PTL

(* List returns every record acknowledged before it returns.               *)
THEOREM ReadsAckedHolds == Spec => []ReadsAcked
<1>1. IInv => ReadsAcked
  BY DEF IInv, ListInv, ReadsAcked
<1>. QED
  BY <1>1, InvariantHolds, PTL

(* No goroutine reads the file between truncation and write.               *)
THEOREM NoTornReadHolds == Spec => []NoTornRead
<1>1. IInv => NoTornRead
  BY DEF IInv, FileInv, NoTornRead
<1>. QED
  BY <1>1, InvariantHolds, PTL

(* A file that a broken write left torn is never written again.            *)
THEOREM TornForeverHolds == Spec => TornForever
<1>1. ASSUME IInv, [Next]_vars, damaged
      PROVE  disk' = "torn" /\ items' = items
  <2>1. /\ disk = "torn"
        /\ \A p \in Procs : pc[p] \notin {"writing", "truncated"}
    BY <1>1 DEF IInv, FileInv
  <2>2. UNCHANGED <<disk, items>>
    <3>1. CASE UNCHANGED vars
      BY <3>1 DEF vars
    <3>2. CASE Crash
      BY <3>2 DEF Crash
    <3>3. ASSUME NEW p \in Procs, NEW r \in Request, Call(p, r)
          PROVE  UNCHANGED <<disk, items>>
      BY <3>3 DEF Call
    <3>4. ASSUME NEW p \in Procs, RLock(p) \/ Lock(p) \/ Return(p)
          PROVE  UNCHANGED <<disk, items>>
      BY <3>4 DEF RLock, Lock, Return
    <3>5. ASSUME NEW p \in Procs, Fails(p)
          PROVE  UNCHANGED <<disk, items>>
      BY <1>1, <3>5, FailsFacts DEF IInv
    <3>6. ASSUME NEW p \in Procs, Answers(p) \/ Edits(p)
          PROVE  UNCHANGED <<disk, items>>
      BY <1>1, <3>6, AnswersFacts, EditsFacts DEF IInv
    <3>7. ASSUME NEW p \in Procs, Truncate(p) \/ WriteData(p)
          PROVE  UNCHANGED <<disk, items>>
      BY <2>1, <3>7 DEF Truncate, WriteData, Goto
    <3>. QED
      BY <1>1, <3>1, <3>2, <3>3, <3>4, <3>5, <3>6, <3>7, NextCases
  <2>. QED
    BY <2>1, <2>2
<1>2. IInv /\ [Next]_vars => [damaged => disk' = "torn" /\ items' = items]_vars
  BY <1>1
<1>. QED
  BY <1>2, InvariantHolds, PTL DEF Spec, TornForever

-----------------------------------------------------------------------------
(* The filtered lists. *)

(* The members of a sifted list are the elements at those places.          *)
LEMMA SiftMembers ==
  ASSUME NEW S, NEW s \in Seq(S), NEW I \in SUBSET (DOMAIN s)
  PROVE  Members(Sift(s, I)) = {s[i] : i \in I}
<1>1. PICK at : Places(at, Sift(s, I), s, I)
  BY SiftFacts
<1>2. ASSUME NEW k \in DOMAIN Sift(s, I)
      PROVE  Sift(s, I)[k] \in {s[i] : i \in I}
  BY <1>1 DEF Places
<1>3. ASSUME NEW i \in I
      PROVE  \E k \in DOMAIN Sift(s, I) : Sift(s, I)[k] = s[i]
  BY <1>1 DEF Places
<1>. QED
  BY <1>2, <1>3 DEF Members

(* A connection is offered in exactly one of the two panels.               *)
THEOREM OfferedOnceHolds == Spec => []OfferedOnce
<1>1. ASSUME IInv PROVE OfferedOnce
  <2> SUFFICES ASSUME NEW p \in Procs, pc[p] = "returning", req[p].op = "list",
                      err[p] = "none", NEW rec \in acked
               PROVE  (rec \in Members(ListDB(buf[p])))
                        # (rec \in Members(ListByType(buf[p], "redis")))
    BY DEF OfferedOnce
  <2>1. buf[p] \in Seq(Record) /\ rec \in Members(buf[p])
    BY <1>1 DEF IInv, TypeOK, ListInv
  <2>2. Members(ListDB(buf[p]))
          = {buf[p][i] : i \in {j \in DOMAIN buf[p] : TypeOf(buf[p][j]) # "redis"}}
    BY <2>1, SiftMembers DEF ListDB
  <2>3. Members(ListByType(buf[p], "redis"))
          = {buf[p][i] : i \in {j \in DOMAIN buf[p] : TypeOf(buf[p][j]) = "redis"}}
    BY <2>1, SiftMembers DEF ListByType
  <2>. QED
    BY <2>1, <2>2, <2>3 DEF Members
<1>. QED
  BY <1>1, InvariantHolds, PTL

(* A filtered list of templates has all acknowledged ones of its kind and  *)
(* none of the other kind.                                                 *)
THEOREM KindsApartHolds == Spec => []KindsApart
<1>1. ASSUME IInv PROVE KindsApart
  <2> SUFFICES ASSUME NEW p \in Procs, NEW kind \in Kinds, pc[p] = "returning",
                      req[p].op = "list", err[p] = "none"
               PROVE  /\ \A rec \in Members(ListKind(buf[p], kind)) : rec.key[3] = kind
                      /\ \A rec \in acked :
                           rec.key[3] = kind => rec \in Members(ListKind(buf[p], kind))
    BY DEF KindsApart
  <2>1. buf[p] \in Seq(Record) /\ acked \subseteq Members(buf[p])
    BY <1>1 DEF IInv, TypeOK, ListInv
  <2>2. kind # ""
    BY DEF Kinds
  <2>3. Members(ListKind(buf[p], kind))
          = {buf[p][i] : i \in {j \in DOMAIN buf[p] : buf[p][j].key[3] = kind}}
    BY <2>1, <2>2, SiftMembers DEF ListKind
  <2>. QED
    BY <2>1, <2>3 DEF Members
<1>. QED
  BY <1>1, InvariantHolds, PTL

-----------------------------------------------------------------------------
(* The acknowledgements. *)

(* Two Saves of one identity got the same record: what a Save returns is   *)
(* stored, and so is every acknowledged record, unless its call took it.   *)
THEOREM SaveIsIdempotentHolds == Spec => []SaveIsIdempotent
<1>1. Init => SaveIsIdempotent
  BY DEF Init, SaveIsIdempotent
<1>2. ASSUME IInv, SaveIsIdempotent, [Next]_vars
      PROVE  SaveIsIdempotent'
  <2>1. CASE acked' \subseteq acked
    BY <1>2, <2>1 DEF SaveIsIdempotent
  <2>2. ASSUME NEW p \in Procs, Return(p), err[p] = "none", req[p].op = "save"
        PROVE  SaveIsIdempotent'
    <3>1. /\ disk # "torn" /\ ret[p] \in Members(items)
          /\ acked' = {rec \in acked : ~Supersedes(req[p], rec)} \cup {ret[p]}
          /\ pc[p] \in Holding
      BY <1>2, <2>2 DEF IInv, ResultInv, Return, Goto, Holding
    <3>2. ASSUME NEW t \in acked, ~Supersedes(req[p], t), t.key = ret[p].key
          PROVE  t = ret[p]
      <4>1. CASE t \in Members(items)
        BY <1>2, <3>1, <3>2, <4>1 DEF IInv, FileInv, Distinct, Members
      <4>2. ASSUME NEW q \in Procs, SupersededBy(q, t)
            PROVE  FALSE
        <5>1. pc[q] \in Holding /\ Supersedes(req[q], t)
          BY <4>2 DEF SupersededBy, Holding
        <5>2. p = q
          BY <1>2, <2>2, <3>1, <5>1, WriterAlone DEF IInv
        <5>. QED
          BY <3>2, <5>1, <5>2
      <4>. QED
        BY <1>2, <3>1, <4>1, <4>2 DEF IInv, AckedInv
    <3>. QED
      BY <1>2, <3>1, <3>2 DEF SaveIsIdempotent
  <2>3. ASSUME NEW p \in Procs, Return(p), ~(err[p] = "none" /\ req[p].op = "save")
        PROVE  acked' \subseteq acked
    BY <2>3 DEF Return
  <2>4. CASE Crash
    BY <2>1, <2>4 DEF Crash
  <2>5. CASE UNCHANGED acked
    BY <2>1, <2>5
  <2>6. ASSUME NEW p \in Procs, Fails(p) \/ Answers(p) \/ Edits(p)
        PROVE  UNCHANGED acked
    BY <1>2, <2>6, FailsFacts, AnswersFacts, EditsFacts DEF IInv
  <2>7. ASSUME NEW p \in Procs, NEW r \in Request, Call(p, r)
        PROVE  UNCHANGED acked
    BY <2>7 DEF Call, history
  <2>8. ASSUME NEW p \in Procs, RLock(p) \/ Lock(p) \/ Truncate(p) \/ WriteData(p)
        PROVE  UNCHANGED acked
    BY <2>8 DEF RLock, Lock, Truncate, WriteData, history
  <2>9. CASE UNCHANGED vars
    BY <2>5, <2>9 DEF vars, history
  <2>. QED
    BY <1>2, <2>1, <2>2, <2>3, <2>4, <2>5, <2>6, <2>7, <2>8, <2>9, NextCases
<1>3. SaveIsIdempotent /\ IInv /\ [Next]_vars => SaveIsIdempotent'
  BY <1>2
<1>. QED
  BY <1>1, <1>3, InvariantHolds, PTL DEF Spec

-----------------------------------------------------------------------------
(* The two stores take no step that RecordStore does not take. *)

(* Every behaviour of the template store is one of a RecordStore, when its *)
(* identities are the templates.                                           *)
THEOREM TemplatesAreRecords ==
  ASSUME Templates \subseteq Keys \cup InvalidKeys
  PROVE  TemplateSpec => Spec
<1>1. TemplateRequest \subseteq Request
  BY DEF TemplateRequest, Request, SaveReq
<1>2. [TemplateNext]_vars => [Next]_vars
  BY <1>1 DEF TemplateNext, Next, ListTemplates, SaveTemplate, DeleteTemplate,
              Acquire, Advance
<1>. QED
  BY <1>2, PTL DEF TemplateSpec, Spec

(* The template store answers a Save twice alike and keeps the kinds apart. *)
THEOREM TemplatesHold ==
  ASSUME Templates \subseteq Keys \cup InvalidKeys
  PROVE  TemplateSpec => [](SaveIsIdempotent /\ KindsApart)
<1>1. TemplateSpec => Spec
  BY TemplatesAreRecords
<1>. QED
  BY <1>1, SaveIsIdempotentHolds, KindsApartHolds, PTL

LEMMA ConnSteps == [ConnNext]_conn => [Next]_vars
BY DEF ConnNext, conn, Next, Save, Acquire, Advance, Fault

(* Every behaviour of the connection store is one of a RecordStore.        *)
THEOREM ConnectionsAreRecords == ConnSpec => Spec
<1>1. ConnInit => Init
  BY DEF ConnInit
<1>. QED
  BY <1>1, ConnSteps, PTL DEF ConnSpec, Spec

(* So the connection store loses and duplicates nothing, and offers each   *)
(* connection in one panel.                                                *)
THEOREM ConnectionsHold ==
  ConnSpec => [](NoDuplicates /\ AckedKept /\ ReadsAcked /\ OfferedOnce)
BY ConnectionsAreRecords, NoDuplicatesHolds, AckedKeptHolds, ReadsAckedHolds,
   OfferedOnceHolds, PTL

-----------------------------------------------------------------------------
(* The order of the list. *)

Elements(b) == {b[i] : i \in DOMAIN b}

(* The list s shows its uuids latest first, by their order in b.           *)
LatestFirst(s, b) ==
  \A i, j \in DOMAIN s :
    i < j => \E k, l \in DOMAIN b : k < l /\ b[k] = s[j].id /\ b[l] = s[i].id

(* The births as they are when the slice of p is written.                  *)
BirthsWith(p) ==
  IF req[p].op = "save" /\ ret[p].id \notin Elements(born)
  THEN Append(born, ret[p].id) ELSE born

(* Each stored uuid has one birth, and the list and every slice about to   *)
(* be written are in their order.                                          *)
BornInv ==
  /\ born \in Seq(IDs)
  /\ \A i, j \in DOMAIN born : born[i] = born[j] => i = j
  /\ disk # "torn" => Elements(born) = IdsOf(items) /\ LatestFirst(items, born)
  /\ \A p \in Procs :
       pc[p] \in {"writing", "truncated"} =>
         /\ LatestFirst(buf[p], BirthsWith(p))
         /\ IdsOf(buf[p]) \subseteq Elements(BirthsWith(p))
         /\ req[p].op = "save" =>
              /\ ret[p].id \in IDs
              /\ ret[p].id \notin Elements(born) =>
                   IdsOf(buf[p]) = Elements(born) \cup {ret[p].id}

(* A new last birth. *)
LEMMA AppendedBirth ==
  ASSUME NEW b \in Seq(IDs), NEW id \in IDs, id \notin Elements(b),
         \A i, j \in DOMAIN b : b[i] = b[j] => i = j
  PROVE  /\ Append(b, id) \in Seq(IDs)
         /\ Elements(Append(b, id)) = Elements(b) \cup {id}
         /\ DOMAIN Append(b, id) = 1..(Len(b) + 1)
         /\ Append(b, id)[Len(b) + 1] = id
         /\ \A i \in DOMAIN b : i \in 1..Len(b) /\ Append(b, id)[i] = b[i]
         /\ \A i, j \in DOMAIN Append(b, id) :
              Append(b, id)[i] = Append(b, id)[j] => i = j
<1> DEFINE t == Append(b, id)
<1>1. /\ t \in Seq(IDs) /\ Len(t) = Len(b) + 1 /\ Len(b) \in Nat
      /\ \A i \in 1..Len(b) : t[i] = b[i]
      /\ t[Len(b) + 1] = id
      /\ DOMAIN b = 1..Len(b)
  BY AppendProperties, LenProperties
<1>2. DOMAIN t = 1..(Len(b) + 1)
  BY <1>1, LenProperties
<1> HIDE DEF t
<1>3. \A i \in DOMAIN t : i \in DOMAIN b \/ i = Len(b) + 1
  BY <1>1, <1>2
<1>4. Elements(t) = Elements(b) \cup {id}
  <2>1. Elements(t) \subseteq Elements(b) \cup {id}
    BY <1>1, <1>3 DEF Elements
  <2>2. \A i \in DOMAIN b : i \in DOMAIN t
    BY <1>1, <1>2
  <2>3. Len(b) + 1 \in DOMAIN t
    BY <1>1, <1>2
  <2>4. Elements(b) \cup {id} \subseteq Elements(t)
    BY <1>1, <2>2, <2>3 DEF Elements
  <2>. QED
    BY <2>1, <2>4
<1>5. \A i, j \in DOMAIN t : t[i] = t[j] => i = j
  BY <1>1, <1>3 DEF Elements
<1>. QED
  BY <1>1, <1>2, <1>4, <1>5 DEF t

(* Forgetting births keeps the others and their order. *)
LEMMA SiftedBirths ==
  ASSUME NEW b \in Seq(IDs), NEW s \in Seq(Record),
         \A i, j \in DOMAIN b : b[i] = b[j] => i = j,
         IdsOf(s) \subseteq Elements(b), LatestFirst(s, b),
         NEW t, t = Sift(b, {i \in DOMAIN b : b[i] \in IdsOf(s)})
  PROVE  /\ t \in Seq(IDs)
         /\ \A i, j \in DOMAIN t : t[i] = t[j] => i = j
         /\ Elements(t) = IdsOf(s)
         /\ LatestFirst(s, t)
<1> DEFINE I == {i \in DOMAIN b : b[i] \in IdsOf(s)}
<1>0. I \in SUBSET (DOMAIN b) /\ t = Sift(b, I)
  OBVIOUS
<1>1. t \in Seq(IDs) /\ \E at : Places(at, t, b, I)
  <2> HIDE DEF I
  <2>1. Sift(b, I) \in Seq(IDs) /\ \E at : Places(at, Sift(b, I), b, I)
    BY <1>0, SiftFacts, Zenon
  <2>. QED
    BY <1>0, <2>1, Zenon
<1>2. PICK at : Places(at, t, b, I)
  BY <1>1
<1>3. DOMAIN t \subseteq Nat /\ DOMAIN b \subseteq Nat
  <2>1. /\ DOMAIN t = 1..Len(t) /\ Len(t) \in Nat
        /\ DOMAIN b = 1..Len(b) /\ Len(b) \in Nat
    BY <1>1, LenProperties
  <2> HIDE DEF I
  <2>. QED
    BY <2>1
<1>4. /\ \A k \in DOMAIN t : at[k] \in I /\ t[k] = b[at[k]]
      /\ \A k, l \in DOMAIN t : k < l => at[k] < at[l]
      /\ \A i \in I : \E k \in DOMAIN t : at[k] = i
  BY <1>2 DEF Places
<1>5. \A i \in I : i \in DOMAIN b /\ b[i] \in IdsOf(s)
  OBVIOUS
<1>6. \A i \in DOMAIN b : b[i] \in IdsOf(s) => i \in I
  OBVIOUS
<1> HIDE DEF I
<1>7. ASSUME NEW i \in DOMAIN t, NEW j \in DOMAIN t, t[i] = t[j]
      PROVE  i = j
  <2>1. at[i] = at[j]
    BY <1>4, <1>5, <1>7
  <2>2. ~(i < j) /\ ~(j < i)
    BY <1>3, <1>4, <1>5, <2>1
  <2>. QED
    BY <1>3, <2>2
<1>8. Elements(t) = IdsOf(s)
  <2>1. Elements(t) \subseteq IdsOf(s)
    BY <1>4, <1>5 DEF Elements
  <2>2. ASSUME NEW id \in IdsOf(s)
        PROVE  id \in Elements(t)
    <3>1. PICK i \in DOMAIN b : b[i] = id
      BY DEF Elements
    <3>2. PICK k \in DOMAIN t : at[k] = i
      BY <1>4, <1>6, <3>1
    <3>. QED
      BY <1>4, <3>1, <3>2 DEF Elements
  <2>. QED
    BY <2>1, <2>2
<1>9. ASSUME NEW i \in DOMAIN s, NEW j \in DOMAIN s, i < j
      PROVE  \E k, l \in DOMAIN t : k < l /\ t[k] = s[j].id /\ t[l] = s[i].id
  <2>1. PICK k \in DOMAIN b, l \in DOMAIN b :
          k < l /\ b[k] = s[j].id /\ b[l] = s[i].id
    BY <1>9 DEF LatestFirst
  <2>2. k \in I /\ l \in I
    BY <1>6, <2>1 DEF IdsOf
  <2>3. PICK m \in DOMAIN t : at[m] = k
    BY <1>4, <2>2
  <2>4. PICK n \in DOMAIN t : at[n] = l
    BY <1>4, <2>2
  <2>5. m < n
    BY <1>3, <1>4, <2>1, <2>3, <2>4
  <2>6. t[m] = s[j].id /\ t[n] = s[i].id
    BY <1>4, <2>1, <2>3, <2>4
  <2>. QED
    BY <2>5, <2>6
<1>. QED
  BY <1>1, <1>7, <1>8, <1>9 DEF LatestFirst

(* A method that writes keeps the order and puts only a new uuid first.    *)
LEMMA EditsKeepOrder ==
  ASSUME TypeOK, CallInv, FileInv, BornInv, NEW p \in Procs, Edits(p)
  PROVE  \E s \in Seq(Record), rec \in Record \cup {NoRecord} :
           /\ buf' = [buf EXCEPT ![p] = s]
           /\ ret' = [ret EXCEPT ![p] = rec]
           /\ IF req[p].op = "save" /\ rec.id \notin Elements(born)
              THEN /\ rec.id \in IDs
                   /\ IdsOf(s) = Elements(born) \cup {rec.id}
                   /\ LatestFirst(s, Append(born, rec.id))
              ELSE /\ req[p].op = "save" => rec.id \in IDs
                   /\ IdsOf(s) \subseteq Elements(born)
                   /\ LatestFirst(s, born)
<1> USE DEF Loads, Goto
<1>0. items \in Seq(Record) /\ Distinct(items)
  BY DEF TypeOK, FileInv
<1>1. disk # "torn"
  BY EditsFacts
<1>2. Elements(born) = IdsOf(items) /\ LatestFirst(items, born)
  BY <1>1 DEF BornInv
<1>3. DOMAIN items = 1..Len(items) /\ Len(items) \in Nat
  BY <1>0, LenProperties
<1>4. CASE SaveRenamed(p)
  <2>1. req[p].op = "save" /\ req[p].key \in KeysOf(items) /\ req[p].name # NoName
    BY <1>4 DEF SaveRenamed, Saves, Known, Renames
  <2>2. req[p] \in Request
    BY <1>4, HoldingFacts DEF SaveRenamed
  <2>3. req[p].name \in Names
    BY <2>1, <2>2, RequestFacts DEF Names
  <2> DEFINE s == Renamed(items, req[p].key, req[p].name)
             rec == [HitOf(p) EXCEPT !.name = req[p].name]
  <2>4. /\ s \in Seq(Record)
        /\ rec \in Record \cap Members(s)
        /\ DOMAIN s = DOMAIN items
        /\ \A i \in DOMAIN items : s[i].id = items[i].id
    BY <1>0, <2>1, <2>3, RenamedFacts DEF HitOf
  <2>5. buf' = [buf EXCEPT ![p] = s] /\ ret' = [ret EXCEPT ![p] = rec]
    BY <1>4 DEF SaveRenamed
  <2> HIDE DEF s, rec
  <2>6. IdsOf(s) = IdsOf(items)
    BY <2>4 DEF IdsOf
  <2>7. rec.id \in IdsOf(s) /\ rec.id \in IDs
    BY <2>4 DEF Members, IdsOf, Record
  <2>8. LatestFirst(s, born)
    BY <1>2, <2>4 DEF LatestFirst
  <2>. QED
    BY <1>2, <2>4, <2>5, <2>6, <2>7, <2>8
<1>5. CASE SaveNew(p)
  <2>1. req[p].op = "save" /\ ~Invalid(req[p]) /\ req[p].key \notin KeysOf(items)
    BY <1>5 DEF SaveNew, Saves, Known
  <2>2. req[p] \in Request
    BY <1>5, HoldingFacts DEF SaveNew
  <2>3. /\ req[p].key \in Keys
        /\ DisplayName(req[p].key, req[p].name) \in Names
    BY <2>1, <2>2, RequestFacts DEF Invalid, DisplayName, Names
  <2>4. PICK id \in FreshIDs :
          Loads(p, "writing",
            Prepend([id |-> id, key |-> req[p].key,
                     name |-> DisplayName(req[p].key, req[p].name)], items),
            [id |-> id, key |-> req[p].key,
             name |-> DisplayName(req[p].key, req[p].name)])
    BY <1>5 DEF SaveNew
  <2> DEFINE rec == [id |-> id, key |-> req[p].key,
                     name |-> DisplayName(req[p].key, req[p].name)]
             s == Prepend(rec, items)
             b == Append(born, rec.id)
  <2>5. /\ rec \in Record /\ rec.id \notin IdsOf(items) /\ rec.id \in IDs
        /\ rec.key \notin KeysOf(items)
    BY <2>1, <2>3 DEF FreshIDs, Record
  <2>6. buf' = [buf EXCEPT ![p] = s] /\ ret' = [ret EXCEPT ![p] = rec]
    BY <2>4
  <2> HIDE DEF rec
  <2>7. /\ s \in Seq(Record) /\ Members(s) = {rec} \cup Members(items)
        /\ DOMAIN s = 1..(Len(items) + 1) /\ s[1] = rec
        /\ \A i \in DOMAIN items : s[i + 1] = items[i]
    BY <1>0, <2>5, PrependFacts
  <2> HIDE DEF s
  <2>8. IdsOf(s) = {r.id : r \in Members(s)} /\ IdsOf(items) = {r.id : r \in Members(items)}
    BY DEF IdsOf, Members
  <2>9. IdsOf(s) = Elements(born) \cup {rec.id}
    BY <1>2, <2>7, <2>8
  <2>10. born \in Seq(IDs) /\ rec.id \notin Elements(born)
         /\ \A i, j \in DOMAIN born : born[i] = born[j] => i = j
    BY <1>2, <2>5 DEF BornInv
  <2>11. /\ DOMAIN b = 1..(Len(born) + 1)
         /\ b[Len(born) + 1] = rec.id
         /\ \A i \in DOMAIN born : i \in 1..Len(born) /\ b[i] = born[i]
         /\ Len(born) \in Nat
    BY <2>5, <2>10, AppendedBirth, LenProperties
  <2> HIDE DEF b
  <2>12. LatestFirst(s, b)
    <3> SUFFICES ASSUME NEW i \in DOMAIN s, NEW j \in DOMAIN s, i < j
                 PROVE  \E k, l \in DOMAIN b :
                          k < l /\ b[k] = s[j].id /\ b[l] = s[i].id
      BY DEF LatestFirst
    <3>1. /\ j - 1 \in DOMAIN items /\ s[j] = items[j - 1]
      BY <1>3, <2>7
    <3>2. CASE i = 1
      <4>1. items[j - 1].id \in Elements(born)
        BY <1>2, <3>1 DEF IdsOf
      <4>2. PICK k \in DOMAIN born : born[k] = items[j - 1].id
        BY <4>1 DEF Elements
      <4>3. /\ k \in DOMAIN b /\ Len(born) + 1 \in DOMAIN b /\ k < Len(born) + 1
            /\ b[k] = s[j].id /\ b[Len(born) + 1] = s[i].id
        BY <2>7, <2>11, <3>1, <3>2, <4>2
      <4>. QED
        BY <4>3
    <3>3. CASE i # 1
      <4>1. i - 1 \in DOMAIN items /\ s[i] = items[i - 1] /\ i - 1 < j - 1
        BY <1>3, <2>7, <3>3
      <4>2. PICK k \in DOMAIN born, l \in DOMAIN born :
              k < l /\ born[k] = items[j - 1].id /\ born[l] = items[i - 1].id
        BY <1>2, <3>1, <4>1 DEF LatestFirst
      <4>3. /\ k \in DOMAIN b /\ l \in DOMAIN b
            /\ b[k] = s[j].id /\ b[l] = s[i].id
        BY <2>11, <3>1, <4>1, <4>2
      <4>. QED
        BY <4>2, <4>3
    <3>. QED
      BY <3>2, <3>3
  <2>. QED
    BY <2>1, <2>5, <2>6, <2>7, <2>9, <2>10, <2>12 DEF b
<1>6. CASE Delete(p)
  <2> DEFINE s == Without(items, req[p].id)
  <2>1. /\ s \in Seq(Record)
        /\ Members(s) \subseteq Members(items)
        /\ \A i, j \in DOMAIN s :
             i < j => \E a, b \in DOMAIN items :
                        a < b /\ s[i] = items[a] /\ s[j] = items[b]
    BY <1>0, WithoutFacts
  <2>2. req[p].op = "delete"
    BY <1>6 DEF Delete
  <2>3. buf' = [buf EXCEPT ![p] = s] /\ ret' = [ret EXCEPT ![p] = NoRecord]
    BY <1>6 DEF Delete
  <2> HIDE DEF s
  <2>4. IdsOf(s) \subseteq IdsOf(items)
    BY <2>1 DEF IdsOf, Members
  <2>5. LatestFirst(s, born)
    <3> SUFFICES ASSUME NEW i \in DOMAIN s, NEW j \in DOMAIN s, i < j
                 PROVE  \E k, l \in DOMAIN born :
                          k < l /\ born[k] = s[j].id /\ born[l] = s[i].id
      BY DEF LatestFirst
    <3>1. PICK a \in DOMAIN items, b \in DOMAIN items :
            a < b /\ s[i] = items[a] /\ s[j] = items[b]
      BY <2>1
    <3>. QED
      BY <1>2, <3>1 DEF LatestFirst
  <2>. QED
    BY <1>2, <2>1, <2>2, <2>3, <2>4, <2>5
<1>. QED
  BY <1>4, <1>5, <1>6 DEF Edits

(* The list and the births change together. *)
LEMMA BornInvStep ==
  ASSUME IInv, BornInv, ConnNext
  PROVE  BornInv'
<1> USE DEF BirthsWith, mutex
<1>1. TypeOK /\ CallInv /\ LockInv /\ FileInv
  BY DEF IInv
<1>2. ASSUME NEW p \in Procs, NEW r \in Request, Call(p, r), UNCHANGED born
      PROVE  BornInv'
  BY <1>1, <1>2 DEF Call, Goto, BornInv, TypeOK
<1>3. ASSUME NEW p \in Procs, RLock(p) \/ Lock(p), UNCHANGED born
      PROVE  BornInv'
  BY <1>1, <1>3 DEF RLock, Lock, Goto, BornInv, TypeOK
<1>4. ASSUME NEW p \in Procs, Fails(p), UNCHANGED born
      PROVE  BornInv'
  <2>1. /\ pc' = [pc EXCEPT ![p] = "returning"]
        /\ ret' = [ret EXCEPT ![p] = NoRecord]
        /\ UNCHANGED <<disk, items, req, buf>>
    BY <1>1, <1>4, FailsFacts
  <2>. QED
    BY <1>1, <1>4, <2>1 DEF BornInv, TypeOK
<1>5. ASSUME NEW p \in Procs, Answers(p), UNCHANGED born
      PROVE  BornInv'
  <2>1. /\ pc' = [pc EXCEPT ![p] = "returning"]
        /\ \A q \in Procs \ {p} : buf'[q] = buf[q] /\ ret'[q] = ret[q]
        /\ UNCHANGED <<disk, items, req>>
    BY <1>1, <1>5, AnswersFacts DEF TypeOK
  <2>. QED
    BY <1>1, <1>5, <2>1 DEF BornInv, TypeOK
<1>6. ASSUME NEW p \in Procs, Edits(p), UNCHANGED born
      PROVE  BornInv'
  <2>1. PICK s \in Seq(Record), rec \in Record \cup {NoRecord} :
           /\ buf' = [buf EXCEPT ![p] = s]
           /\ ret' = [ret EXCEPT ![p] = rec]
           /\ IF req[p].op = "save" /\ rec.id \notin Elements(born)
              THEN /\ rec.id \in IDs
                   /\ IdsOf(s) = Elements(born) \cup {rec.id}
                   /\ LatestFirst(s, Append(born, rec.id))
              ELSE /\ req[p].op = "save" => rec.id \in IDs
                   /\ IdsOf(s) \subseteq Elements(born)
                   /\ LatestFirst(s, born)
    BY <1>1, <1>6, EditsKeepOrder
  <2>2. pc' = [pc EXCEPT ![p] = "writing"] /\ UNCHANGED <<disk, items, req>>
    BY <1>1, <1>6, EditsFacts
  <2>3. rec.id \in IDs /\ rec.id \notin Elements(born) =>
          Elements(Append(born, rec.id)) = Elements(born) \cup {rec.id}
    BY AppendedBirth DEF BornInv
  <2>4. /\ buf'[p] = s /\ ret'[p] = rec /\ pc'[p] = "writing" /\ req'[p] = req[p]
        /\ \A q \in Procs \ {p} : /\ buf'[q] = buf[q] /\ ret'[q] = ret[q]
                                 /\ pc'[q] = pc[q] /\ req'[q] = req[q]
    BY <1>1, <2>1, <2>2 DEF TypeOK
  <2>5. /\ LatestFirst(s, BirthsWith(p)')
        /\ IdsOf(s) \subseteq Elements(BirthsWith(p)')
        /\ req[p].op = "save" =>
              /\ rec.id \in IDs
              /\ rec.id \notin Elements(born) =>
                   IdsOf(s) = Elements(born) \cup {rec.id}
    BY <1>6, <2>1, <2>3, <2>4
  <2>6. ASSUME NEW q \in Procs \ {p}
        PROVE  BirthsWith(q)' = BirthsWith(q)
    BY <1>6, <2>4
  <2>7. \A q \in Procs : pc'[q] \in {"writing", "truncated"} =>
          /\ LatestFirst(buf'[q], BirthsWith(q)')
          /\ IdsOf(buf'[q]) \subseteq Elements(BirthsWith(q)')
    <3> SUFFICES ASSUME NEW q \in Procs, pc'[q] \in {"writing", "truncated"}
                 PROVE  /\ LatestFirst(buf'[q], BirthsWith(q)')
                        /\ IdsOf(buf'[q]) \subseteq Elements(BirthsWith(q)')
      OBVIOUS
    <3>1. CASE q = p
      BY <2>4, <2>5, <3>1
    <3>2. CASE q # p
      <4>1. buf'[q] = buf[q] /\ pc[q] \in {"writing", "truncated"}
        BY <2>4, <3>2
      <4>2. BirthsWith(q)' = BirthsWith(q)
        BY <2>6, <3>2
      <4>. QED
        BY <4>1, <4>2 DEF BornInv
    <3>. QED
      BY <3>1, <3>2
  <2> HIDE DEF BirthsWith
  <2>. QED
    BY <1>6, <2>2, <2>4, <2>5, <2>7 DEF BornInv
<1>7. ASSUME NEW p \in Procs, Truncate(p), UNCHANGED born
      PROVE  BornInv'
  BY <1>1, <1>7 DEF Truncate, Goto, BornInv, TypeOK
<1>8. ASSUME NEW p \in Procs, WriteData(p), Note(p)
      PROVE  BornInv'
  <2>1. /\ pc[p] = "truncated" /\ pc' = [pc EXCEPT ![p] = "returning"]
        /\ items' = buf[p] /\ disk' = "whole" /\ req[p].op \in {"save", "delete"}
        /\ UNCHANGED <<req, buf, ret>>
    BY <1>1, <1>8 DEF WriteData, Goto, CallInv
  <2>2. \A q \in Procs : pc'[q] \notin {"writing", "truncated"}
    BY <1>1, <2>1, WriterAlone DEF Holding, CallInv, TypeOK
  <2>3. /\ LatestFirst(buf[p], BirthsWith(p))
        /\ IdsOf(buf[p]) \subseteq Elements(BirthsWith(p))
        /\ req[p].op = "save" =>
             /\ ret[p].id \in IDs
             /\ ret[p].id \notin Elements(born) =>
                  IdsOf(buf[p]) = Elements(born) \cup {ret[p].id}
        /\ born \in Seq(IDs)
        /\ \A i, j \in DOMAIN born : born[i] = born[j] => i = j
    BY <2>1 DEF BornInv
  <2>4. CASE req[p].op = "save" /\ ret[p].id \notin Elements(born)
    <3>1. born' = Append(born, ret[p].id) /\ BirthsWith(p) = born'
      BY <1>8, <2>4 DEF Note, Elements
    <3>2. /\ born' \in Seq(IDs)
          /\ Elements(born') = Elements(born) \cup {ret[p].id}
          /\ \A i, j \in DOMAIN born' : born'[i] = born'[j] => i = j
      BY <2>3, <2>4, <3>1, AppendedBirth
    <3>. QED
      BY <2>1, <2>2, <2>3, <2>4, <3>1, <3>2 DEF BornInv
  <2>5. CASE ~(req[p].op = "save" /\ ret[p].id \notin Elements(born))
    <3>1. BirthsWith(p) = born
      BY <2>5
    <3>2. born' = Sift(born, {i \in DOMAIN born : born[i] \in IdsOf(buf[p])})
      BY <1>8, <2>1, <2>5 DEF Note, Elements
    <3>3. buf[p] \in Seq(Record)
      BY <1>1 DEF TypeOK
    <3>4. /\ born' \in Seq(IDs)
          /\ \A i, j \in DOMAIN born' : born'[i] = born'[j] => i = j
          /\ Elements(born') = IdsOf(buf[p])
          /\ LatestFirst(buf[p], born')
      BY <2>3, <3>1, <3>2, <3>3, SiftedBirths
    <3>. QED
      BY <2>1, <2>2, <3>4 DEF BornInv
  <2>. QED
    BY <2>4, <2>5
<1>9. ASSUME NEW p \in Procs, Return(p), UNCHANGED born
      PROVE  BornInv'
  BY <1>1, <1>9 DEF Return, Goto, BornInv, TypeOK
<1>10. ASSUME Crash, UNCHANGED born
       PROVE  BornInv'
  BY <1>1, <1>10 DEF Crash, BornInv, TypeOK
<1>. QED
  BY <1>2, <1>3, <1>4, <1>5, <1>6, <1>7, <1>8, <1>9, <1>10
     DEF ConnNext, Save, Acquire, Fails, Answers, Edits

(* The panel shows connections by the time they were first saved, newest   *)
(* first, whatever renames, deletes, failures and kills came between.      *)
THEOREM NewestFirstHolds == ConnSpec => []NewestFirst
<1>1. ConnInit => BornInv
  BY EmptySeq DEF ConnInit, Init, BornInv, LatestFirst, Elements, IdsOf
<1>2. IInv /\ BornInv /\ [ConnNext]_conn => BornInv'
  <2>1. ASSUME BornInv, UNCHANGED conn
        PROVE  BornInv'
    <3>1. UNCHANGED <<born, items, disk, pc, req, buf, ret>>
      BY <2>1 DEF conn, vars, local
    <3>2. \A p \in Procs : UNCHANGED BirthsWith(p)
      BY <3>1 DEF BirthsWith
    <3>. QED
      BY <2>1, <3>1, <3>2 DEF BornInv
  <2>. QED
    BY <2>1, BornInvStep
<1>3. ASSUME IInv, BornInv
      PROVE  NewestFirst
  <2> SUFFICES ASSUME NEW i \in DOMAIN items, NEW j \in DOMAIN items, i < j
               PROVE  BirthOf(items[i].id) > BirthOf(items[j].id)
    BY DEF NewestFirst
  <2>1. disk # "torn"
    BY <1>3 DEF IInv, FileInv
  <2>2. PICK k \in DOMAIN born, l \in DOMAIN born :
          k < l /\ born[k] = items[j].id /\ born[l] = items[i].id
    BY <1>3, <2>1 DEF BornInv, LatestFirst
  <2>3. BirthOf(items[j].id) = k /\ BirthOf(items[i].id) = l
    BY <1>3, <2>2 DEF BornInv, BirthOf
  <2>4. k \in Nat /\ l \in Nat
    BY <1>3, LenProperties DEF BornInv
  <2>. QED
    BY <2>2, <2>3, <2>4
<1>4. ConnSpec => []IInv
  BY ConnectionsAreRecords, InvariantHolds, PTL
<1>. QED
  BY <1>1, <1>2, <1>3, <1>4, PTL DEF ConnSpec

-----------------------------------------------------------------------------
(* The store implements the atomic list. *)

(* A goroutine that loaded nothing yet has nothing to return, a list never *)
(* writes, and only a call that is about to return has failed.             *)
FreshInv ==
  \A p \in Procs :
    pc[p] \in {"idle", "waiting", "locked"} =>
      buf[p] = << >> /\ ret[p] = NoRecord /\ err[p] = "none"

(* What a Save is about to write, against the file as it still is.         *)
SaveEdit(p) ==
  \/ /\ req[p].key \notin KeysOf(items)
     /\ \E id \in IDs \ IdsOf(items) :
          buf[p] = Prepend([id |-> id, key |-> req[p].key,
                            name |-> DisplayName(req[p].key, req[p].name)], items)
  \/ /\ req[p].key \in KeysOf(items) /\ req[p].name # NoName
     /\ buf[p] = Renamed(items, req[p].key, req[p].name)

(* The slice of a writer is its edit of the list in the file: nobody wrote *)
(* the file since it was loaded.                                           *)
EditInv ==
  \A p \in Procs :
    pc[p] = "writing" =>
      /\ req[p].op = "save" => SaveEdit(p) /\ ret[p].key = req[p].key
      /\ req[p].op = "delete" =>
           buf[p] = Without(items, req[p].id) /\ ret[p] = NoRecord

RefInv == FreshInv /\ EditInv

(* What an edit leaves is what it promises the writer. *)
LEMMA EditsAreEdits ==
  ASSUME TypeOK, CallInv, FileInv, NEW p \in Procs, Edits(p)
  PROVE  /\ req[p].op = "save" => SaveEdit(p)' /\ ret'[p].key = req'[p].key
         /\ req[p].op = "delete" =>
              buf'[p] = Without(items', req'[p].id) /\ ret'[p] = NoRecord
<1> USE DEF Loads, Goto
<1>0. items \in Seq(Record) /\ Distinct(items)
  BY DEF TypeOK, FileInv
<1>1. CASE SaveRenamed(p)
  <2>1. /\ req[p].op = "save"
        /\ req[p].key \in KeysOf(items) /\ req[p].name # NoName
        /\ UNCHANGED <<items, req>>
    BY <1>1 DEF SaveRenamed, Saves, Known, Renames
  <2>2. /\ buf'[p] = Renamed(items, req[p].key, req[p].name)
        /\ ret'[p] = [HitOf(p) EXCEPT !.name = req[p].name]
    BY <1>1 DEF SaveRenamed, TypeOK
  <2>3. HitOf(p) \in Record /\ HitOf(p).key = req[p].key
    BY <1>0, <2>1, HitFacts, ElementOfSeq, LenProperties DEF HitOf
  <2>4. ret'[p].key = req[p].key
    BY <2>2, <2>3 DEF Record
  <2>. QED
    BY <2>1, <2>2, <2>4 DEF SaveEdit
<1>2. CASE SaveNew(p)
  <2>1. /\ req[p].op = "save" /\ req[p].key \notin KeysOf(items)
    BY <1>2 DEF SaveNew, Saves, Known
  <2>2. PICK id \in FreshIDs :
          Loads(p, "writing",
            Prepend([id |-> id, key |-> req[p].key,
                     name |-> DisplayName(req[p].key, req[p].name)], items),
            [id |-> id, key |-> req[p].key,
             name |-> DisplayName(req[p].key, req[p].name)])
    BY <1>2 DEF SaveNew
  <2>3. id \in IDs \ IdsOf(items)
    BY DEF FreshIDs
  <2>4. /\ UNCHANGED <<items, req>>
        /\ buf'[p] = Prepend([id |-> id, key |-> req[p].key,
                     name |-> DisplayName(req[p].key, req[p].name)], items)
        /\ ret'[p] = [id |-> id, key |-> req[p].key,
                     name |-> DisplayName(req[p].key, req[p].name)]
    BY <2>2 DEF TypeOK
  <2>5. ret'[p].key = req[p].key
    BY <2>4
  <2>. QED
    BY <2>1, <2>3, <2>4, <2>5 DEF SaveEdit
<1>3. CASE Delete(p)
  BY <1>3 DEF Delete, TypeOK
<1>. QED
  BY <1>1, <1>2, <1>3 DEF Edits

LEMMA FreshInvStep ==
  ASSUME TypeOK, CallInv, FileInv, FreshInv, Next
  PROVE  FreshInv'
<1> USE DEF FreshInv, TypeOK, mutex, history
<1>1. ASSUME NEW p \in Procs, NEW r \in Request, Call(p, r)
      PROVE  FreshInv'
  BY <1>1 DEF Call, Goto
<1>2. ASSUME NEW p \in Procs, RLock(p) \/ Lock(p)
      PROVE  FreshInv'
  BY <1>2 DEF RLock, Lock, Goto
<1>3. ASSUME NEW p \in Procs, Fails(p)
      PROVE  FreshInv'
  <2>1. /\ pc' = [pc EXCEPT ![p] = "returning"] /\ UNCHANGED buf
        /\ \A q \in Procs \ {p} : err'[q] = err[q] /\ ret'[q] = ret[q]
    BY <1>3, FailsFacts
  <2>. QED
    BY <2>1
<1>4. ASSUME NEW p \in Procs, Answers(p)
      PROVE  FreshInv'
  <2>1. /\ pc' = [pc EXCEPT ![p] = "returning"] /\ UNCHANGED err
        /\ \A q \in Procs \ {p} : buf'[q] = buf[q] /\ ret'[q] = ret[q]
    BY <1>4, AnswersFacts
  <2>. QED
    BY <2>1
<1>5. ASSUME NEW p \in Procs, Edits(p)
      PROVE  FreshInv'
  <2>1. /\ pc' = [pc EXCEPT ![p] = "writing"] /\ UNCHANGED err
        /\ \A q \in Procs \ {p} : buf'[q] = buf[q] /\ ret'[q] = ret[q]
    BY <1>5, EditsFacts
  <2>. QED
    BY <2>1
<1>6. ASSUME NEW p \in Procs, Truncate(p) \/ WriteData(p)
      PROVE  FreshInv'
  BY <1>6 DEF Truncate, WriteData, Goto
<1>7. ASSUME NEW p \in Procs, Return(p)
      PROVE  FreshInv'
  BY <1>7 DEF Return, Goto
<1>8. ASSUME Crash
      PROVE  FreshInv'
  BY <1>8 DEF Crash
<1>. QED
  BY <1>1, <1>2, <1>3, <1>4, <1>5, <1>6, <1>7, <1>8, NextCases

LEMMA EditInvStep ==
  ASSUME TypeOK, CallInv, LockInv, FileInv, EditInv, Next
  PROVE  EditInv'
<1> USE DEF EditInv, TypeOK, mutex, history
<1>1. ASSUME NEW p \in Procs, NEW r \in Request, Call(p, r)
      PROVE  EditInv'
  BY <1>1 DEF Call, Goto, SaveEdit
<1>2. ASSUME NEW p \in Procs, RLock(p) \/ Lock(p)
      PROVE  EditInv'
  <2>1. /\ \A q \in Procs : pc'[q] = "writing" => pc[q] = "writing"
        /\ UNCHANGED <<items, req, buf, ret>>
    BY <1>2 DEF RLock, Lock, Goto
  <2>. QED
    BY <2>1 DEF SaveEdit
<1>3. ASSUME NEW p \in Procs, Fails(p) \/ Answers(p)
      PROVE  EditInv'
  <2>1. /\ pc'[p] # "writing"
        /\ \A q \in Procs \ {p} :
             pc'[q] = pc[q] /\ buf'[q] = buf[q] /\ ret'[q] = ret[q]
        /\ UNCHANGED <<items, req>>
    <3>1. CASE Fails(p)
      BY <3>1, FailsFacts
    <3>2. CASE Answers(p)
      BY <3>2, AnswersFacts
    <3>. QED
      BY <1>3, <3>1, <3>2
  <2>2. \A q \in Procs \ {p} : SaveEdit(q)' <=> SaveEdit(q)
    BY <2>1 DEF SaveEdit
  <2>. QED
    BY <2>1, <2>2
<1>4. ASSUME NEW p \in Procs, Edits(p)
      PROVE  EditInv'
  <2>1. /\ pc' = [pc EXCEPT ![p] = "writing"] /\ UNCHANGED <<items, req>>
        /\ \A q \in Procs \ {p} : buf'[q] = buf[q] /\ ret'[q] = ret[q]
    BY <1>4, EditsFacts
  <2>2. \A q \in Procs \ {p} : SaveEdit(q)' <=> SaveEdit(q)
    BY <2>1 DEF SaveEdit
  <2>3. /\ req[p].op = "save" => SaveEdit(p)' /\ ret'[p].key = req'[p].key
        /\ req[p].op = "delete" =>
              buf'[p] = Without(items', req'[p].id) /\ ret'[p] = NoRecord
    BY <1>4, EditsAreEdits
  <2>. QED
    BY <2>1, <2>2, <2>3
<1>5. ASSUME NEW p \in Procs, Truncate(p) \/ WriteData(p)
      PROVE  EditInv'
  <2>1. /\ pc[p] \in {"writing", "truncated"} /\ req[p].op # "list"
        /\ pc'[p] # "writing" /\ \A q \in Procs \ {p} : pc'[q] = pc[q]
    BY <1>5 DEF Truncate, WriteData, Goto, CallInv
  <2>2. \A q \in Procs : pc'[q] # "writing"
    BY <2>1, WriterAlone DEF Holding
  <2>. QED
    BY <2>2
<1>6. ASSUME NEW p \in Procs, Return(p)
      PROVE  EditInv'
  BY <1>6 DEF Return, Goto, SaveEdit
<1>7. ASSUME Crash
      PROVE  EditInv'
  BY <1>7 DEF Crash
<1>. QED
  BY <1>1, <1>2, <1>3, <1>4, <1>5, <1>6, <1>7, NextCases

(* The results the atomic list is to give. *)
Results == [p \in Procs |-> ResultOf(p)]

(* The step that makes a call take effect fills in its result, and leaves  *)
(* the results of the others alone.                                        *)
LEMMA ResultStep ==
  ASSUME NEW p \in Procs,
         \A q \in Procs \ {p} : ResultOf(q)' = ResultOf(q)
  PROVE  Results' = [Results EXCEPT ![p] = ResultOf(p)']
BY DEF Results

(* Where no result changes, all of them stay. *)
LEMMA ResultsKept ==
  ASSUME \A q \in Procs : ResultOf(q)' = ResultOf(q)
  PROVE  Results' = Results
BY DEF Results

(* At most one goroutine is between truncation and write.                  *)
LEMMA OneTruncates ==
  ASSUME CallInv, LockInv, NEW p \in Procs, pc[p] = "truncated"
  PROVE  Truncating = {p} /\ ListOf = buf[p] /\ ~LostOf
<1>1. Truncating = {p}
  BY WriterAlone DEF Truncating, CallInv, Holding
<1>. QED
  BY <1>1 DEF ListOf, LostOf

(* While another goroutine has the mutex for writing, the list is the file. *)
LEMMA ListIsFile ==
  ASSUME \A p \in Procs : pc[p] # "truncated"
  PROVE  Truncating = {} /\ ListOf = items /\ (LostOf <=> disk = "torn")
BY DEF Truncating, ListOf, LostOf

(* A step of the atomic list, in the terms of the store. *)
LEMMA AbstractSteps ==
  ASSUME NEW p \in Procs
  PROVE  /\ UNCHANGED <<ListOf, LostOf, req, Results>> => UNCHANGED R!rvars
         /\ R!Succeeded(p) <=> Results[p].err = "none"
         /\ \A e, rec, s :
              /\ req[p] # NoReq /\ Results[p] = [err |-> "pending"]
              /\ Results' = [Results EXCEPT ![p] =
                               [err |-> e, rec |-> rec, list |-> s]]
              /\ req' = req
              => R!Result(p, e, rec, s)
BY DEF R!rvars, R!Succeeded, R!Result, R!NoCall, R!Pending, NoReq, Results

(* A call that is made. *)
LEMMA CallRefines ==
  ASSUME TypeOK, CallInv, NEW p \in Procs, NEW r \in Request, Call(p, r)
  PROVE  R!RegistryNext
<1>1. /\ pc[p] = "idle" /\ pc' = [pc EXCEPT ![p] = "waiting"]
      /\ req[p] = NoReq /\ req' = [req EXCEPT ![p] = r]
      /\ UNCHANGED <<disk, items, buf, ret, err>>
  BY DEF Call, Goto, CallInv
<1>2. Truncating' = Truncating
  BY <1>1 DEF Truncating, TypeOK
<1>3. UNCHANGED <<ListOf, LostOf>>
  BY <1>1, <1>2 DEF ListOf, LostOf
<1>4. \A q \in Procs : ResultOf(q)' = ResultOf(q)
  BY <1>1 DEF ResultOf, TypeOK
<1>5. Results' = Results
  BY <1>4, ResultsKept
<1>6. R!Invoke(p, r)
  BY <1>1, <1>3, <1>5 DEF R!Invoke, R!NoCall, NoReq, Results
<1>. QED
  BY <1>6 DEF R!RegistryNext, Request, ListReq, SaveReq, DeleteReq

(* Taking the mutex, preparing a list and writing what was promised are    *)
(* not seen from outside.                                                  *)
LEMMA HiddenSteps ==
  ASSUME TypeOK, CallInv, LockInv, FileInv, NEW p \in Procs,
         RLock(p) \/ Lock(p) \/ Edits(p) \/ WriteData(p)
  PROVE  UNCHANGED R!rvars
<1>1. CASE RLock(p) \/ Lock(p) \/ Edits(p)
  <2>1. /\ pc[p] \notin {"truncated", "returning"}
        /\ pc'[p] \notin {"truncated", "returning"}
        /\ \A q \in Procs \ {p} :
             pc'[q] = pc[q] /\ buf'[q] = buf[q] /\ ret'[q] = ret[q]
        /\ UNCHANGED <<disk, items, req, err>>
    <3>1. CASE RLock(p) \/ Lock(p)
      BY <3>1 DEF RLock, Lock, Goto, TypeOK
    <3>2. CASE Edits(p)
      BY <3>2, EditsFacts DEF TypeOK
    <3>. QED
      BY <1>1, <3>1, <3>2
  <2>2. \A q \in Procs : ResultOf(q)' = ResultOf(q)
    BY <2>1 DEF ResultOf
  <2>3. Truncating' = Truncating
    BY <2>1 DEF Truncating
  <2>4. p \notin Truncating
    BY <2>1 DEF Truncating
  <2>5. Truncating # {} => (CHOOSE q \in Truncating : TRUE) \in Procs \ {p}
    BY <2>4 DEF Truncating
  <2>6. UNCHANGED <<ListOf, LostOf>>
    BY <2>1, <2>3, <2>5 DEF ListOf, LostOf
  <2>. QED
    BY <2>1, <2>2, <2>6, ResultsKept, AbstractSteps
<1>2. CASE WriteData(p)
  <2>1. /\ pc[p] = "truncated" /\ pc' = [pc EXCEPT ![p] = "returning"]
        /\ disk' = "whole" /\ items' = buf[p]
        /\ UNCHANGED <<req, buf, ret, err>>
    BY <1>2 DEF WriteData, Goto
  <2>2. Truncating = {p} /\ ListOf = buf[p] /\ ~LostOf
    BY <2>1, OneTruncates
  <2>3. \A q \in Procs : pc'[q] # "truncated"
    BY <2>1, <2>2 DEF Truncating, TypeOK
  <2>4. UNCHANGED <<ListOf, LostOf>>
    BY <2>1, <2>2, <2>3 DEF Truncating, ListOf, LostOf
  <2>5. \A q \in Procs : ResultOf(q)' = ResultOf(q)
    BY <2>1 DEF ResultOf, TypeOK
  <2>. QED
    BY <2>1, <2>4, <2>5, ResultsKept, AbstractSteps
<1>. QED
  BY <1>1, <1>2

(* A failure refuses the call, or breaks off a write that took effect.     *)
LEMMA FailsRefines ==
  ASSUME TypeOK, CallInv, LockInv, FileInv, FreshInv, NEW p \in Procs, Fails(p)
  PROVE  R!RegistryNext
<1>1. /\ pc[p] \in {"locked", "writing", "truncated"}
      /\ pc' = [pc EXCEPT ![p] = "returning"]
      /\ ret' = [ret EXCEPT ![p] = NoRecord]
      /\ UNCHANGED <<disk, items, req, buf>>
      /\ req[p] # NoReq /\ err[p] = "none"
  BY FailsFacts DEF CallInv, TypeOK
<1>2. PICK e \in {"invalid", "io", "parse"} :
        /\ err' = [err EXCEPT ![p] = e]
        /\ e = "parse" => pc[p] = "locked" /\ disk = "torn"
        /\ e = "invalid" => Invalid(req[p])
        /\ pc[p] = "truncated" => e = "io"
  BY DEF Fails, Fault, Reject, ParseFails, ReadFails, OpenFails, WriteFails,
         Fail, Goto
<1>3. \A q \in Procs \ {p} : ResultOf(q)' = ResultOf(q)
  BY <1>1, <1>2 DEF ResultOf, TypeOK
<1>4. ResultOf(p)' = [err |-> e, rec |-> NoRecord, list |-> << >>]
  <2>1. req[p].op = "list" => buf[p] = << >>
    BY <1>1 DEF FreshInv, CallInv
  <2>. QED
    BY <1>1, <1>2, <2>1 DEF ResultOf, TypeOK
<1>5. Results' = [Results EXCEPT ![p] =
                    [err |-> e, rec |-> NoRecord, list |-> << >>]]
  BY <1>3, <1>4, ResultStep
<1>6. CASE pc[p] = "truncated"
  <2>1. Truncating = {p} /\ ~LostOf
    BY <1>6, OneTruncates
  <2>2. \A q \in Procs : pc'[q] # "truncated"
    BY <1>1, <2>1 DEF Truncating, TypeOK
  <2>3. disk = "torn" /\ items = << >>
    BY <1>6 DEF FileInv
  <2>4. ListOf' = << >> /\ LostOf'
    BY <1>1, <2>2, <2>3 DEF ListOf, LostOf, Truncating
  <2>5. Results[p].err = "none" /\ req[p].op \in {"save", "delete"}
    BY <1>1, <1>6 DEF Results, ResultOf, CallInv
  <2>6. R!BreakOff(p)
    BY <1>1, <1>2, <1>5, <1>6, <2>1, <2>4, <2>5, AbstractSteps
       DEF R!BreakOff, R!Writes, R!NoRec, NoRecord, Results
  <2>. QED
    BY <2>6 DEF R!RegistryNext
<1>7. CASE pc[p] # "truncated"
  <2>1. Truncating' = Truncating /\ p \notin Truncating
    BY <1>1, <1>7 DEF Truncating, TypeOK
  <2>2. UNCHANGED <<ListOf, LostOf>>
    BY <1>1, <2>1 DEF ListOf, LostOf
  <2>3. Results[p] = [err |-> "pending"]
    BY <1>1, <1>7 DEF Results, ResultOf
  <2>4. R!Result(p, e, R!NoRec, << >>)
    BY <1>1, <1>5, <2>3, AbstractSteps DEF R!NoRec, NoRecord
  <2>5. e = "parse" => LostOf
    <3>1. SUFFICES ASSUME e = "parse"
                   PROVE  LostOf
      OBVIOUS
    <3>2. pc[p] = "locked" /\ disk = "torn"
      BY <1>2, <3>1
    <3>3. \A q \in Procs : pc[q] # "truncated"
      <4> SUFFICES ASSUME NEW q \in Procs, pc[q] = "truncated"
                   PROVE  FALSE
        OBVIOUS
      <4>1. req[q].op # "list"
        BY DEF CallInv
      <4>. QED
        BY <3>2, <4>1, WriterAlone DEF Holding
    <3>. QED
      BY <3>2, <3>3 DEF LostOf, Truncating
  <2>6. R!Refuse(p, e)
    BY <1>2, <2>2, <2>4, <2>5 DEF R!Refuse, R!InvalidCall, Invalid
  <2>. QED
    BY <2>6 DEF R!RegistryNext
<1>. QED
  BY <1>6, <1>7

(* The atomic list edits as the store does. *)
LEMMA SameEdits ==
  ASSUME NEW s, NEW key, NEW name, NEW id, NEW rec
  PROVE  /\ R!KeysOf(s) = KeysOf(s) /\ R!IdsOf(s) = IdsOf(s)
         /\ R!Members(s) = Members(s)
         /\ R!DisplayName(key, name) = DisplayName(key, name)
         /\ R!Prepend(rec, s) = Prepend(rec, s)
         /\ R!Without(s, id) = Without(s, id)
         /\ R!Renamed(s, key, name) = Renamed(s, key, name)
<1>1. R!Hit(s, key) = Hit(s, key)
  BY DEF R!Hit, Hit
<1>2. R!IdsOf(s) = IdsOf(s)
  BY DEF R!IdsOf, IdsOf
<1>3. R!Without(s, id) = Without(s, id)
  BY <1>2 DEF R!Without, Without
<1>4. R!Renamed(s, key, name) = Renamed(s, key, name)
  BY <1>1 DEF R!Renamed, Renamed
<1>. QED
  BY <1>2, <1>3, <1>4
     DEF R!KeysOf, KeysOf, R!Members, Members, R!DisplayName, DisplayName,
         R!Prepend, Prepend

(* Giving a record the name it has changes nothing. *)
LEMMA RenamedToItself ==
  ASSUME NEW s \in Seq(Record), Distinct(s), NEW key \in KeysOf(s)
  PROVE  Renamed(s, key, s[Hit(s, key)].name) = s
<1> DEFINE h == Hit(s, key)
           r == [s[h] EXCEPT !.name = s[h].name]
<1>1. h \in DOMAIN s
  BY HitFacts
<1>2. s[h] \in Record
  BY <1>1, ElementOfSeq, LenProperties
<1>3. r = s[h]
  BY <1>2 DEF Record
<1>4. Renamed(s, key, s[h].name) = [s EXCEPT ![h] = r]
  BY DEF Renamed
<1>5. s = [i \in DOMAIN s |-> s[i]]
  BY LenProperties
<1> HIDE DEF h, r
<1>6. [s EXCEPT ![h] = r] = s
  BY <1>1, <1>3, <1>5
<1>. QED
  BY <1>4, <1>6 DEF h

(* A call that reads takes effect when it has loaded the list. *)
LEMMA AnswersRefines ==
  ASSUME TypeOK, CallInv, LockInv, FileInv, FreshInv,
         NEW p \in Procs, Answers(p)
  PROVE  R!RegistryNext
<1>1. /\ pc[p] = "locked" /\ disk # "torn"
      /\ pc' = [pc EXCEPT ![p] = "returning"]
      /\ buf' = [buf EXCEPT ![p] = items]
      /\ UNCHANGED <<disk, items, req, err>>
      /\ req[p] # NoReq /\ err[p] = "none"
  BY AnswersFacts DEF FreshInv, CallInv
<1>2. PICK rec \in Record \cup {NoRecord} :
        /\ ret' = [ret EXCEPT ![p] = rec]
        /\ req[p].op = "save" => rec \in Record \cap Members(items)
  BY AnswersFacts
<1>3. \A q \in Procs : pc[q] # "truncated"
  <2>1. disk # "torn"
    BY <1>1
  <2>. QED
    BY <2>1 DEF FileInv
<1>4. ListOf = items /\ LostOf = FALSE /\ ListOf' = items /\ LostOf' = FALSE
  BY <1>1, <1>3 DEF ListOf, LostOf, Truncating, TypeOK
<1>5. \A q \in Procs \ {p} : ResultOf(q)' = ResultOf(q)
  BY <1>1, <1>2 DEF ResultOf, TypeOK
<1>6. Results[p] = [err |-> "pending"]
  BY <1>1 DEF Results, ResultOf
<1>7. CASE List(p)
  <2>1. req[p].op = "list" /\ ret'[p] = NoRecord
    BY <1>7 DEF List, Loads, TypeOK
  <2>2. ResultOf(p)' = [err |-> "none", rec |-> NoRecord, list |-> items]
    BY <1>1, <2>1 DEF ResultOf, TypeOK
  <2>3. R!Result(p, "none", NoRecord, items)
    BY <1>1, <1>5, <1>6, <2>2, ResultStep, AbstractSteps
  <2>4. R!PerformList(p)
    BY <1>4, <2>1, <2>3
       DEF R!PerformList, R!Accepts, R!InvalidCall, R!NoRec, NoRecord
  <2>. QED
    BY <2>4 DEF R!RegistryNext
<1>8. CASE SaveKnown(p)
  <2>1. /\ req[p].op = "save" /\ ~Invalid(req[p])
        /\ req[p].key \in KeysOf(items)
        /\ req[p].name # NoName => HitOf(p).name = req[p].name
        /\ ret'[p] = HitOf(p)
    BY <1>8 DEF SaveKnown, Saves, Known, Renames, Loads, TypeOK
  <2>2. HitOf(p) \in Members(items) /\ HitOf(p).key = req[p].key
    BY <2>1, HitFacts DEF HitOf, Members, TypeOK, FileInv
  <2>3. ResultOf(p)' = [err |-> "none", rec |-> HitOf(p), list |-> << >>]
    BY <1>1, <2>1 DEF ResultOf, TypeOK
  <2>4. R!Result(p, "none", HitOf(p), << >>)
    BY <1>1, <1>5, <1>6, <2>3, ResultStep, AbstractSteps
  <2>5. req[p].name # NoName =>
          items = Renamed(items, req[p].key, req[p].name)
    BY <2>1, RenamedToItself DEF HitOf, TypeOK, FileInv
  <2>6. R!PerformSave(p)
    BY <1>4, <2>1, <2>2, <2>4, <2>5, SameEdits
       DEF R!PerformSave, R!Accepts, R!InvalidCall, Invalid
  <2>. QED
    BY <2>6 DEF R!RegistryNext
<1>. QED
  BY <1>7, <1>8 DEF Answers

(* A call that writes takes effect when it truncates the file. *)
LEMMA TruncateRefines ==
  ASSUME TypeOK, CallInv, LockInv, FileInv, SliceInv, EditInv,
         NEW p \in Procs, Truncate(p)
  PROVE  R!RegistryNext
<1>1. /\ pc[p] = "writing" /\ pc' = [pc EXCEPT ![p] = "truncated"]
      /\ disk' = "torn" /\ items' = << >>
      /\ UNCHANGED <<req, buf, ret, err>>
  BY DEF Truncate, Goto
<1>2. /\ req[p].op \in {"save", "delete"} /\ ~Invalid(req[p])
      /\ req[p] # NoReq /\ err[p] = "none"
  BY <1>1 DEF CallInv
<1>3. \A q \in Procs : pc[q] # "truncated"
  <2>1. \A q \in Procs : pc[q] = "truncated" => req[q].op # "list"
    BY DEF CallInv
  <2>. QED
    BY <1>1, <2>1, WriterAlone DEF Holding
<1>4. ListOf = items /\ LostOf = FALSE
  BY <1>1, <1>3, ListIsFile DEF FileInv, LostOf
<1>5. Truncating' = {p}
  BY <1>1, <1>3 DEF Truncating, TypeOK
<1>6. ListOf' = buf[p] /\ LostOf' = FALSE
  BY <1>1, <1>5 DEF ListOf, LostOf
<1>7. \A q \in Procs \ {p} : ResultOf(q)' = ResultOf(q)
  BY <1>1 DEF ResultOf, TypeOK
<1>8. Results[p] = [err |-> "pending"]
  BY <1>1 DEF Results, ResultOf
<1>9. ResultOf(p)' = [err |-> "none", rec |-> ret[p], list |-> << >>]
  BY <1>1, <1>2 DEF ResultOf, TypeOK
<1>10. R!Result(p, "none", ret[p], << >>)
  BY <1>1, <1>2, <1>7, <1>8, <1>9, ResultStep, AbstractSteps
<1>11. R!Accepts(p)
  BY <1>2, <1>4 DEF R!Accepts, R!InvalidCall, Invalid
<1>12. CASE req[p].op = "delete"
  <2>1. buf[p] = Without(items, req[p].id) /\ ret[p] = NoRecord
    BY <1>1, <1>12 DEF EditInv
  <2>2. R!PerformDelete(p)
    BY <1>4, <1>6, <1>10, <1>11, <1>12, <2>1, SameEdits
       DEF R!PerformDelete, R!NoRec, NoRecord
  <2>. QED
    BY <2>2 DEF R!RegistryNext
<1>13. CASE req[p].op = "save"
  <2>1. SaveEdit(p) /\ ret[p].key = req[p].key /\ ret[p] \in Members(buf[p])
    BY <1>1, <1>13 DEF EditInv, SliceInv
  <2>2. \/ /\ req[p].key \notin R!KeysOf(ListOf)
           /\ \E id \in IDs \ R!IdsOf(ListOf) :
                ListOf' = R!Prepend([id |-> id, key |-> req[p].key,
                             name |-> R!DisplayName(req[p].key, req[p].name)],
                             ListOf)
        \/ /\ req[p].key \in R!KeysOf(ListOf)
           /\ ListOf' = IF req[p].name = NoName THEN ListOf
                        ELSE R!Renamed(ListOf, req[p].key, req[p].name)
    BY <1>4, <1>6, <2>1, SameEdits DEF SaveEdit
  <2>3. ret[p] \in R!Members(ListOf')
    BY <1>6, <2>1, SameEdits
  <2>4. R!PerformSave(p)
    BY <1>4, <1>6, <1>10, <1>11, <1>13, <2>1, <2>2, <2>3 DEF R!PerformSave
  <2>. QED
    BY <2>4 DEF R!RegistryNext
<1>. QED
  BY <1>2, <1>12, <1>13

(* The result reaches the caller. *)
LEMMA ReturnRefines ==
  ASSUME TypeOK, CallInv, NEW p \in Procs, Return(p)
  PROVE  R!RegistryNext
<1>1. /\ pc[p] = "returning" /\ pc' = [pc EXCEPT ![p] = "idle"]
      /\ req' = [req EXCEPT ![p] = NoReq]
      /\ \A q \in Procs \ {p} :
           /\ pc'[q] = pc[q] /\ req'[q] = req[q] /\ buf'[q] = buf[q]
           /\ ret'[q] = ret[q] /\ err'[q] = err[q]
      /\ UNCHANGED <<disk, items>>
  BY DEF Return, Goto, TypeOK
<1>2. Truncating' = Truncating /\ p \notin Truncating
  BY <1>1 DEF Truncating, TypeOK
<1>3. Truncating # {} => (CHOOSE q \in Truncating : TRUE) \in Procs \ {p}
  BY <1>2 DEF Truncating
<1>4. UNCHANGED <<ListOf, LostOf>>
  BY <1>1, <1>2, <1>3 DEF ListOf, LostOf
<1>5. Results' = [Results EXCEPT ![p] = [err |-> "pending"]]
  <2>1. \A q \in Procs \ {p} : ResultOf(q)' = ResultOf(q)
    BY <1>1 DEF ResultOf
  <2>2. ResultOf(p)' = [err |-> "pending"]
    BY <1>1 DEF ResultOf, TypeOK
  <2>. QED
    BY <2>1, <2>2, ResultStep
<1>6. Results[p] # [err |-> "pending"]
  <2>1. Results[p].err = err[p] /\ err[p] # "pending"
    BY <1>1 DEF Results, ResultOf, TypeOK
  <2>. QED
    BY <2>1
<1>7. R!Respond(p)
  BY <1>1, <1>4, <1>5, <1>6 DEF R!Respond, R!Pending, R!NoCall, NoReq, Results
<1>. QED
  BY <1>7 DEF R!RegistryNext

(* A kill forgets the calls, and loses the list only in mid-write. *)
LEMMA CrashRefines ==
  ASSUME TypeOK, CallInv, LockInv, FileInv, Crash
  PROVE  R!RegistryNext
<1>1. /\ pc' = [p \in Procs |-> "idle"]
      /\ req' = [p \in Procs |-> NoReq]
      /\ UNCHANGED <<disk, items>>
  BY DEF Crash
<1>2. Truncating' = {} /\ ListOf' = items /\ (LostOf' <=> disk = "torn")
  BY <1>1 DEF Truncating, ListOf, LostOf
<1>3. Results' = [p \in Procs |-> [err |-> "pending"]]
  BY <1>1 DEF Results, ResultOf
<1>4. req' = [p \in Procs |-> R!NoCall] /\ Results' = [p \in Procs |-> R!Pending]
  BY <1>1, <1>3 DEF R!NoCall, R!Pending, NoReq
<1>5. CASE \A p \in Procs : pc[p] # "truncated"
  <2>1. UNCHANGED <<ListOf, LostOf>>
    BY <1>2, <1>5, ListIsFile DEF LostOf
  <2>2. R!Restart
    BY <1>4, <2>1 DEF R!Restart, Results
  <2>. QED
    BY <2>2 DEF R!RegistryNext
<1>6. CASE \E p \in Procs : pc[p] = "truncated"
  <2>1. PICK p \in Procs : pc[p] = "truncated"
    BY <1>6
  <2>2. R!Writes(p) /\ R!Succeeded(p)
    BY <2>1 DEF R!Writes, R!Succeeded, ResultOf, CallInv
  <2>3. ListOf' = << >> /\ LostOf' = TRUE
    BY <1>2, <2>1 DEF FileInv, LostOf
  <2>4. R!Restart
    BY <1>4, <2>2, <2>3 DEF R!Restart, Results
  <2>. QED
    BY <2>4 DEF R!RegistryNext
<1>. QED
  BY <1>5, <1>6

(* Every step of the store is a step of the atomic list, or none.          *)
LEMMA StepRefines ==
  ASSUME IInv, RefInv, Next
  PROVE  R!RegistryNext \/ UNCHANGED R!rvars
BY NextCases, CallRefines, HiddenSteps, FailsRefines, AnswersRefines,
   TruncateRefines, ReturnRefines, CrashRefines DEF IInv, RefInv

(* Save, List and Delete are atomic: seen from its callers the store is a  *)
(* list on which every call takes effect at one instant and returns what   *)
(* the list gives, whatever interleaves and fails; only a write that is    *)
(* cut short loses the list, and for good.                                 *)
THEOREM RefinementHolds == Spec => IsRegistry
<1>1. Init => RefInv
  BY DEF Init, RefInv, FreshInv, EditInv
<1>2. IInv /\ RefInv /\ [Next]_vars => RefInv'
  <2>1. CASE UNCHANGED vars
    <3>1. UNCHANGED <<items, pc, req, buf, ret, err>>
      BY <2>1 DEF vars, local
    <3>. QED
      BY <3>1 DEF RefInv, FreshInv, EditInv, SaveEdit
  <2>. QED
    BY <2>1, FreshInvStep, EditInvStep DEF IInv, RefInv
<1>3. Init => R!RegistryInit
  BY DEF Init, R!RegistryInit, R!NoCall, R!Pending, NoReq, ListOf, LostOf,
         Truncating, ResultOf
<1>4. IInv /\ RefInv /\ [Next]_vars => [R!RegistryNext]_(R!rvars)
  <2>1. CASE UNCHANGED vars
    <3>1. UNCHANGED <<disk, items, pc, req, buf, ret, err>>
      BY <2>1 DEF vars, local
    <3>2. UNCHANGED Truncating
      BY <3>1 DEF Truncating
    <3>3. \A q \in Procs : ResultOf(q)' = ResultOf(q)
      BY <3>1 DEF ResultOf
    <3>4. UNCHANGED <<ListOf, LostOf, req, Results>>
      BY <3>1, <3>2, <3>3, ResultsKept DEF ListOf, LostOf
    <3>. QED
      BY <3>4 DEF R!rvars, Results
  <2>. QED
    BY <2>1, StepRefines
<1>. QED
  BY <1>1, <1>2, <1>3, <1>4, InvariantHolds, PTL
     DEF Spec, IsRegistry, R!RegistrySpec

=============================================================================
