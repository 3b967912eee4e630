----------------------------- MODULE RecordStore -----------------------------
(***************************************************************************)
(* A list store of the service layer: a JSON file (jsonStore) guarded by a *)
(* sync.RWMutex.  ConnStore and CmdTemplateStore are its two instances.    *)
(*                                                                         *)
(* Every request runs in a goroutine p of the HTTP server.  pc[p] follows  *)
(* the store method it calls:                                              *)
(*                                                                         *)
(*   idle -> waiting -> locked -> returning -> idle        (List, no edit) *)
(*   idle -> waiting -> locked -> writing -> truncated -> returning -> idle*)
(*                                                                         *)
(* os.WriteFile truncates the file and then writes it, so a save has two   *)
(* steps, and the file holds an unreadable prefix ("torn") between them.   *)
(* The process may be killed anywhere, and a read, an open or a write may  *)
(* fail.                                                                   *)
(***************************************************************************)
EXTENDS Records

CONSTANTS
  Procs,       \* goroutines serving requests
  NoProc,      \* nobody
  InvalidKeys  \* identities Save rejects (a blank template name or command)

(* NoProc stands for an unlocked mutex. *)
ASSUME ProcsAssumption == NoProc \notin Procs

VARIABLES
  disk,     \* what os.ReadFile finds: no file, a whole JSON list, or a torn one
  items,    \* the list in the file when it is whole, else << >>
  writer,   \* holder of mu.Lock
  readers,  \* holders of mu.RLock
  pc,       \* where each goroutine is
  req,      \* the call it serves
  buf,      \* the method's local slice
  ret,      \* the record Save returns
  err,      \* the error the method returns
  acked,    \* history: records returned by a Save and not superseded since
  damaged   \* history: a write was cut short by a failure or a kill

mutex == <<writer, readers>>
local == <<pc, req, buf, ret, err>>
history == <<acked, damaged>>
vars == <<disk, items, mutex, local, history>>

ListReq == [op : {"list"}]
SaveReq == [op : {"save"}, key : Keys \cup InvalidKeys,
            name : CustomNames \cup {NoName}]
DeleteReq == [op : {"delete"}, id : IDs]
Request == ListReq \cup SaveReq \cup DeleteReq

NoReq == [op |-> "none"]
NoRecord == [id |-> "none"]

Holding == {"locked", "writing", "truncated", "returning"}

(* A call that may replace or remove this record. *)
Supersedes(r, rec) ==
  \/ r.op = "delete" /\ r.id = rec.id
  \/ r.op = "save" /\ r.key = rec.key /\ r.name # NoName

Undisputed(rec) == \A p \in Procs : ~Supersedes(req[p], rec)

-----------------------------------------------------------------------------

Init ==
  /\ disk = "absent" /\ items = << >>
  /\ writer = NoProc /\ readers = {}
  /\ pc = [p \in Procs |-> "idle"]
  /\ req = [p \in Procs |-> NoReq]
  /\ buf = [p \in Procs |-> << >>]
  /\ ret = [p \in Procs |-> NoRecord]
  /\ err = [p \in Procs |-> "none"]
  /\ acked = {} /\ damaged = FALSE

Goto(p, from, to) == pc[p] = from /\ pc' = [pc EXCEPT ![p] = to]

Call(p, r) ==
  /\ Goto(p, "idle", "waiting")
  /\ req' = [req EXCEPT ![p] = r]
  /\ UNCHANGED <<disk, items, mutex, buf, ret, err, history>>

(* Faulty variant: List takes no lock. *)
RLockNever(p) ==
  /\ Goto(p, "waiting", "locked")
  /\ req[p].op = "list"
  /\ UNCHANGED <<disk, items, mutex, req, buf, ret, err, history>>

(* mu.RLock: shared with other readers. *)
RLock(p) ==
  /\ Goto(p, "waiting", "locked")
  /\ req[p].op = "list"
  /\ writer = NoProc
  /\ readers' = readers \cup {p}
  /\ UNCHANGED <<disk, items, writer, req, buf, ret, err, history>>

(* Faulty variant: Save and Delete take the lock for reading. *)
LockShared(p) ==
  /\ Goto(p, "waiting", "locked")
  /\ req[p].op # "list"
  /\ writer = NoProc
  /\ readers' = readers \cup {p}
  /\ UNCHANGED <<disk, items, writer, req, buf, ret, err, history>>

(* Faulty variant: a writer does not wait for the readers. *)
LockEarly(p) ==
  /\ Goto(p, "waiting", "locked")
  /\ req[p].op # "list"
  /\ writer = NoProc
  /\ writer' = p
  /\ UNCHANGED <<disk, items, readers, req, buf, ret, err, history>>

(* mu.Lock: exclusive. *)
Lock(p) ==
  /\ Goto(p, "waiting", "locked")
  /\ req[p].op # "list"
  /\ writer = NoProc /\ readers = {}
  /\ writer' = p
  /\ UNCHANGED <<disk, items, readers, req, buf, ret, err, history>>

Invalid(r) == r.op = "save" /\ r.key \in InvalidKeys

Fail(p, from, e) ==
  /\ Goto(p, from, "returning")
  /\ err' = [err EXCEPT ![p] = e]
  /\ ret' = [ret EXCEPT ![p] = NoRecord]
  /\ UNCHANGED <<items, mutex, req, buf, acked>>

(* Save of a template with a blank name or command, under the lock. *)
Reject(p) ==
  /\ Invalid(req[p])
  /\ Fail(p, "locked", "invalid")
  /\ UNCHANGED <<disk, damaged>>

(* os.ReadFile fails with something else than "does not exist". *)
ReadFails(p) ==
  /\ ~Invalid(req[p])
  /\ Fail(p, "locked", "io")
  /\ UNCHANGED <<disk, damaged>>

(* json.Unmarshal rejects a torn file. *)
ParseFails(p) ==
  /\ ~Invalid(req[p])
  /\ disk = "torn"
  /\ Fail(p, "locked", "parse")
  /\ UNCHANGED <<disk, damaged>>

(* Faulty variant: the error of json.Unmarshal is dropped. *)
LoadsAnything(p, to, list, rec) ==
  /\ Goto(p, "locked", to)
  /\ buf' = [buf EXCEPT ![p] = list]
  /\ ret' = [ret EXCEPT ![p] = rec]
  /\ UNCHANGED <<disk, items, mutex, req, err, history>>

(* load succeeds, and the method goes on with the edited list. *)
Loads(p, to, list, rec) ==
  /\ disk # "torn"
  /\ Goto(p, "locked", to)
  /\ buf' = [buf EXCEPT ![p] = list]
  /\ ret' = [ret EXCEPT ![p] = rec]
  /\ UNCHANGED <<disk, items, mutex, req, err, history>>

List(p) ==
  /\ req[p].op = "list"
  /\ Loads(p, "returning", items, NoRecord)

Saves(p) == req[p].op = "save" /\ ~Invalid(req[p])

(* Faulty variant: nothing is deduplicated. *)
KnownNever(p) == FALSE

(* Faulty variant: the display name counts when records are compared. *)
KnownByName(p) ==
  \E rec \in Members(items) :
    rec.key = req[p].key /\ rec.name = DisplayName(req[p].key, req[p].name)

Known(p) == req[p].key \in KeysOf(items)

HitOf(p) == items[Hit(items, req[p].key)]

Renames(p) == req[p].name # NoName /\ HitOf(p).name # req[p].name

(* The identity is stored already and keeps its name: nothing is written. *)
SaveKnown(p) ==
  /\ Saves(p) /\ Known(p) /\ ~Renames(p)
  /\ Loads(p, "returning", items, HitOf(p))

(* Faulty variant: the renamed record is returned, and not written. *)
SaveRenamedUnwritten(p) ==
  /\ Saves(p) /\ Known(p) /\ Renames(p)
  /\ Loads(p, "returning", items, [HitOf(p) EXCEPT !.name = req[p].name])

(* The identity is stored under another name: the record is renamed where  *)
(* it stands, and keeps its uuid.                                          *)
SaveRenamed(p) ==
  /\ Saves(p) /\ Known(p) /\ Renames(p)
  /\ Loads(p, "writing", Renamed(items, req[p].key, req[p].name),
           [HitOf(p) EXCEPT !.name = req[p].name])

(* uuid.New never collides with a uuid that is stored, was handed to a     *)
(* client or is named by a call.                                           *)
FreshIDs ==
  IDs \ (IdsOf(items) \cup {rec.id : rec \in acked}
           \cup {req[p].id : p \in {q \in Procs : req[q].op = "delete"}})

(* A new identity goes to the head of the list. *)
SaveNew(p) ==
  /\ Saves(p) /\ ~Known(p)
  /\ \E id \in FreshIDs :
       LET rec == [id |-> id, key |-> req[p].key,
                   name |-> DisplayName(req[p].key, req[p].name)]
       IN  Loads(p, "writing", Prepend(rec, items), rec)

(* The file is rewritten even when no record has this uuid. *)
Delete(p) ==
  /\ req[p].op = "delete"
  /\ Loads(p, "writing", Without(items, req[p].id), NoRecord)

(* os.WriteFile cannot open the file: it is left as it was. *)
OpenFails(p) ==
  /\ Fail(p, "writing", "io")
  /\ UNCHANGED <<disk, damaged>>

(* os.WriteFile opens with O_CREATE|O_TRUNC. *)
Truncate(p) ==
  /\ Goto(p, "writing", "truncated")
  /\ disk' = "torn" /\ items' = << >>
  /\ UNCHANGED <<mutex, req, buf, ret, err, history>>

WriteData(p) ==
  /\ Goto(p, "truncated", "returning")
  /\ disk' = "whole" /\ items' = buf[p]
  /\ UNCHANGED <<mutex, req, buf, ret, err, history>>

(* A full disk: a prefix of the list stays in the file. *)
WriteFails(p) ==
  /\ Fail(p, "truncated", "io")
  /\ damaged' = TRUE
  /\ UNCHANGED disk

(* Faulty variant: an error path returns without unlocking. *)
ReturnLocked(p) ==
  /\ Goto(p, "returning", "idle")
  /\ writer' = IF writer = p /\ err[p] = "none" THEN NoProc ELSE writer
  /\ readers' = readers \ {p}
  /\ req' = [req EXCEPT ![p] = NoReq]
  /\ buf' = [buf EXCEPT ![p] = << >>]
  /\ ret' = [ret EXCEPT ![p] = NoRecord]
  /\ err' = [err EXCEPT ![p] = "none"]
  /\ UNCHANGED <<disk, items, history>>

(* The deferred unlock, and the caller gets the result. *)
Return(p) ==
  /\ Goto(p, "returning", "idle")
  /\ writer' = IF writer = p THEN NoProc ELSE writer
  /\ readers' = readers \ {p}
  /\ acked' =
       IF err[p] # "none" THEN acked
       ELSE {rec \in acked : ~Supersedes(req[p], rec)}
              \cup (IF req[p].op = "save" THEN {ret[p]} ELSE {})
  /\ req' = [req EXCEPT ![p] = NoReq]
  /\ buf' = [buf EXCEPT ![p] = << >>]
  /\ ret' = [ret EXCEPT ![p] = NoRecord]
  /\ err' = [err EXCEPT ![p] = "none"]
  /\ UNCHANGED <<disk, items, damaged>>

(* The process is killed and started again: main handles no signal, so the *)
(* calls in flight vanish and only the file survives.                      *)
Crash ==
  /\ pc' = [p \in Procs |-> "idle"]
  /\ req' = [p \in Procs |-> NoReq]
  /\ buf' = [p \in Procs |-> << >>]
  /\ ret' = [p \in Procs |-> NoRecord]
  /\ err' = [p \in Procs |-> "none"]
  /\ writer' = NoProc /\ readers' = {}
  /\ acked' = {rec \in acked : Undisputed(rec)}
  /\ damaged' = (damaged \/ \E p \in Procs : pc[p] = "truncated")
  /\ UNCHANGED <<disk, items>>

-----------------------------------------------------------------------------

Acquire(p) == RLock(p) \/ Lock(p)

(* What a goroutine that holds the mutex does when nothing fails. *)
Advance(p) ==
  \/ Reject(p) \/ ParseFails(p)
  \/ List(p) \/ SaveKnown(p) \/ SaveRenamed(p) \/ SaveNew(p) \/ Delete(p)
  \/ Truncate(p) \/ WriteData(p) \/ Return(p)

Fault(p) == ReadFails(p) \/ OpenFails(p) \/ WriteFails(p)

Next ==
  \/ \E p \in Procs :
       \/ \E r \in Request : Call(p, r)
       \/ Acquire(p) \/ Advance(p) \/ Fault(p)
  \/ Crash

(* A running goroutine is scheduled, and sync.RWMutex starves nobody: a    *)
(* call that finds it free again and again gets it.                        *)
Fairness == \A p \in Procs : WF_vars(Advance(p)) /\ SF_vars(Acquire(p))

Spec == Init /\ [][Next]_vars

FairSpec == Spec /\ Fairness

-----------------------------------------------------------------------------

TypeOK ==
  /\ disk \in {"absent", "whole", "torn"}
  /\ items \in Seq(Record)
  /\ writer \in Procs \cup {NoProc}
  /\ readers \in SUBSET Procs
  /\ pc \in [Procs -> {"idle", "waiting"} \cup Holding]
  /\ req \in [Procs -> Request \cup {NoReq}]
  /\ buf \in [Procs -> Seq(Record)]
  /\ ret \in [Procs -> Record \cup {NoRecord}]
  /\ err \in [Procs -> {"none", "invalid", "io", "parse"}]
  /\ acked \in SUBSET Record
  /\ damaged \in BOOLEAN

(* No uuid and no identity is ever stored twice, however saves and deletes *)
(* interleave (connstore.go "去重", cmdtemplate.go "去重").                 *)
NoDuplicates == Distinct(items)

(* What a Save acknowledged stays in a readable file, uuid, identity and   *)
(* name, until a call that renames or deletes it is made: no lost update   *)
(* between the load and the write of two methods, across kills as well.    *)
AckedKept ==
  disk # "torn" =>
    \A rec \in acked : Undisputed(rec) => rec \in Members(items)

(* A list contains every record acknowledged before it returns, unless it  *)
(* is disputed: a reader sees all the writes that finished.                *)
ReadsAcked ==
  \A p \in Procs :
    pc[p] = "returning" /\ req[p].op = "list" /\ err[p] = "none" =>
      \A rec \in acked : Undisputed(rec) => rec \in Members(buf[p])

(* A method meets a half-written file only after a write was cut short by  *)
(* a failure or a kill: the mutex hides the window between truncation and  *)
(* write from every other goroutine.                                       *)
NoTornRead == \A p \in Procs : err[p] = "parse" => damaged

(* Save and Delete load before they write, so nothing ever repairs a file  *)
(* that a write left torn.                                                 *)
TornForever == [][damaged => disk' = "torn" /\ items' = items]_vars

(* Every call ends, by a return or because the process was killed.         *)
EveryCallEnds == \A p \in Procs : pc[p] # "idle" ~> pc[p] = "idle"

=============================================================================
