------------------------------ MODULE ConnStore ------------------------------
(***************************************************************************)
(* ConnStore: the saved database and redis connections as a RecordStore.   *)
(* The identity of a connection is its type and DSN; of the DSN, buildName *)
(* shows a part (host and database) and leaves out the rest (user,         *)
(* password, whatever is beyond 40 runes), so two identities may get the   *)
(* same automatic name.                                                    *)
(***************************************************************************)
EXTENDS RecordStore

CONSTANTS ConnTypes, Shown, Hidden

VARIABLES
  born,  \* history: the uuids in the order their records were first written
  named  \* history: named[n] is the record the last write of a Save named n

conn == <<vars, born, named>>

ConnKeys == ConnTypes \X Shown \X Hidden

TypeOf(rec) == rec.key[1]

BuildName == [k \in ConnKeys |-> <<k[1], k[2]>>]

(* Faulty variant: the database panel shows every connection. *)
ListEverything(s) == s

ListDB(s) == Sift(s, {i \in DOMAIN s : TypeOf(s[i]) # "redis"})

ListByType(s, type) == Sift(s, {i \in DOMAIN s : TypeOf(s[i]) = type})

HasName(s, name) == \E i \in DOMAIN s : s[i].name = name

(* The first record of this name in list order. *)
FindByName(s, name) ==
  s[CHOOSE i \in DOMAIN s :
      s[i].name = name /\ \A j \in 1..(i - 1) : s[j].name # name]

ConnInit == Init /\ born = << >> /\ named = [n \in Names |-> NoRecord]

(* A Save writes a record: remember when it was new, and its name. *)
Note(p) ==
  /\ born' = IF req[p].op # "save" \/ ret[p].id \in {born[i] : i \in DOMAIN born}
             THEN Sift(born, {i \in DOMAIN born : born[i] \in IdsOf(items')})
             ELSE Append(born, ret[p].id)
  /\ named' = [n \in Names |->
                 IF req[p].op = "save" /\ ret[p].name = n THEN ret[p]
                 ELSE IF named[n] \in Members(items') THEN named[n]
                 ELSE NoRecord]

Save(p) == Reject(p) \/ SaveKnown(p) \/ SaveRenamed(p) \/ SaveNew(p)

ConnNext ==
  \/ \E p \in Procs :
       \/ WriteData(p) /\ Note(p)
       \/ /\ \/ \E r \in Request : Call(p, r)
             \/ Acquire(p) \/ List(p) \/ Save(p) \/ Delete(p)
             \/ ParseFails(p) \/ Truncate(p) \/ Return(p) \/ Fault(p)
          /\ UNCHANGED <<born, named>>
  \/ Crash /\ UNCHANGED <<born, named>>

ConnSpec == ConnInit /\ [][ConnNext]_conn

-----------------------------------------------------------------------------

BirthOf(id) == CHOOSE i \in DOMAIN born : born[i] = id

(* The list shows connections by the time they were first saved, newest    *)
(* first, whatever renames and deletes came between.  List's comment       *)
(* (connstore.go:37) says "按保存时间倒序", by save time, which is so for first  *)
(* saves only: a record that is saved again keeps its place, and that is   *)
(* how FindsLatest fails.                                                  *)
NewestFirst ==
  \A i, j \in DOMAIN items :
    i < j => BirthOf(items[i].id) > BirthOf(items[j].id)

(* A connection whose Save was acknowledged is offered in one panel and    *)
(* not in the other, in every list a reader gets before it is disputed.    *)
OfferedOnce ==
  \A p \in Procs :
    pc[p] = "returning" /\ req[p].op = "list" /\ err[p] = "none" =>
      \A rec \in acked :
        Undisputed(rec) =>
          (rec \in Members(ListDB(buf[p])))
            # (rec \in Members(ListByType(buf[p], "redis")))

(* FindByName returns the latest saved connection of a name                *)
(* (connstore.go:74), as long as it is stored under that name.             *)
FindsLatest ==
  disk # "torn" =>
    \A n \in Names :
      HasName(items, n) /\ named[n] \in Members(items) =>
        FindByName(items, n) = named[n]

=============================================================================
