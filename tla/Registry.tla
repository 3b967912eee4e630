------------------------------- MODULE Registry -------------------------------
(***************************************************************************)
(* What a list store promises its callers: an atomic list of records.      *)
(* Every call takes effect at one instant between its invocation and its   *)
(* response, or is refused and changes nothing.  The one exception is      *)
(* owned up to: a write that breaks off loses the whole list, for good.    *)
(***************************************************************************)
EXTENDS Records

CONSTANTS Procs, InvalidKeys

VARIABLES
  list,   \* the records, newest identity first
  lost,   \* a write broke off and the list cannot be read any more
  call,   \* call[p]: the call of client p
  result  \* result[p]: its result, once it took effect

rvars == <<list, lost, call, result>>

NoCall == [op |-> "none"]
Pending == [err |-> "pending"]
NoRec == [id |-> "none"]

Succeeded(p) == result[p].err = "none"
Writes(p) == call[p].op \in {"save", "delete"}
InvalidCall(p) == call[p].op = "save" /\ call[p].key \in InvalidKeys

RegistryInit ==
  /\ list = << >> /\ lost = FALSE
  /\ call = [p \in Procs |-> NoCall]
  /\ result = [p \in Procs |-> Pending]

Invoke(p, r) ==
  /\ call[p] = NoCall
  /\ call' = [call EXCEPT ![p] = r]
  /\ UNCHANGED <<list, lost, result>>

Result(p, e, rec, s) ==
  /\ call[p] # NoCall /\ result[p] = Pending
  /\ result' = [result EXCEPT ![p] = [err |-> e, rec |-> rec, list |-> s]]
  /\ UNCHANGED call

(* An unreadable list is reported only when it was lost, an invalid call   *)
(* only when it is one; an i/o error may happen at any time.               *)
Refuse(p, e) ==
  /\ e = "parse" => lost
  /\ e = "invalid" => InvalidCall(p)
  /\ Result(p, e, NoRec, << >>)
  /\ UNCHANGED <<list, lost>>

Accepts(p) == ~lost /\ ~InvalidCall(p)

PerformList(p) ==
  /\ Accepts(p) /\ call[p].op = "list"
  /\ Result(p, "none", NoRec, list)
  /\ UNCHANGED <<list, lost>>

PerformDelete(p) ==
  /\ Accepts(p) /\ call[p].op = "delete"
  /\ list' = Without(list, call[p].id)
  /\ Result(p, "none", NoRec, << >>)
  /\ UNCHANGED lost

(* Save returns the one record of the identity: new at the head, renamed   *)
(* in its place when a name is given, or as it stands.                     *)
PerformSave(p) ==
  /\ Accepts(p) /\ call[p].op = "save"
  /\ LET key == call[p].key  name == call[p].name
     IN  \/ /\ key \notin KeysOf(list)
            /\ \E id \in IDs \ IdsOf(list) :
                 list' = Prepend([id |-> id, key |-> key,
                                  name |-> DisplayName(key, name)], list)
         \/ /\ key \in KeysOf(list)
            /\ list' = IF name = NoName THEN list ELSE Renamed(list, key, name)
  /\ \E rec \in Members(list') :
       rec.key = call[p].key /\ Result(p, "none", rec, << >>)
  /\ UNCHANGED lost

(* A write that took effect breaks off before its caller hears of it.      *)
BreakOff(p) ==
  /\ Writes(p) /\ Succeeded(p)
  /\ list' = << >> /\ lost' = TRUE
  /\ result' = [result EXCEPT ![p] =
                  [err |-> "io", rec |-> NoRec, list |-> << >>]]
  /\ UNCHANGED call

Respond(p) ==
  /\ result[p] # Pending
  /\ call' = [call EXCEPT ![p] = NoCall]
  /\ result' = [result EXCEPT ![p] = Pending]
  /\ UNCHANGED <<list, lost>>

(* A restart forgets the calls; it may lose the list only if it cuts short *)
(* a write.                                                                *)
Restart ==
  /\ call' = [p \in Procs |-> NoCall]
  /\ result' = [p \in Procs |-> Pending]
  /\ \/ UNCHANGED <<list, lost>>
     \/ /\ \E p \in Procs : Writes(p) /\ Succeeded(p)
        /\ list' = << >> /\ lost' = TRUE

RegistryNext ==
  \/ \E p \in Procs :
       \/ \E r \in [op : {"list"}]
                     \cup [op : {"delete"}, id : IDs]
                     \cup [op : {"save"}, key : Keys \cup InvalidKeys,
                           name : CustomNames \cup {NoName}] : Invoke(p, r)
       \/ \E e \in {"invalid", "io", "parse"} : Refuse(p, e)
       \/ PerformList(p) \/ PerformDelete(p) \/ PerformSave(p)
       \/ BreakOff(p) \/ Respond(p)
  \/ Restart

RegistrySpec == RegistryInit /\ [][RegistryNext]_rvars

=============================================================================
