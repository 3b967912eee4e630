------------------------------ MODULE PoolClients -----------------------------
(***************************************************************************)
(* What the requests of DBService and RedisService have in common: each    *)
(* gets a handle of a PoolCache, works with it in stages of its own, and   *)
(* one kind of request (ListTables, Ping) saves its settings as a          *)
(* connection at the end.  The services say what the stages are and when   *)
(* one is left.                                                            *)
(***************************************************************************)
EXTENDS PoolCache

VARIABLES
  stage,  \* what a request does with its handle: nothing yet, rows, saving
  saved   \* the settings in the connection store

clientvars == <<poolvars, stage, saved>>

Stages == {"none", "rows", "saving"}

ClientInit ==
  /\ PoolInit
  /\ stage = [p \in Procs |-> "none"]
  /\ saved = {}

Stage(p, from, to) ==
  /\ pc[p] = "using"
  /\ stage[p] = from /\ stage' = [stage EXCEPT ![p] = to]

Request(p) == (\E c \in Settings : Begin(p, c)) /\ UNCHANGED <<stage, saved>>

TakeLock(p) == Lock(p) /\ UNCHANGED <<stage, saved>>

GetHandle(p) == Get(p) /\ UNCHANGED <<stage, saved>>

(* The request goes on to another stage with its handle. *)
Works(p, from, to) ==
  /\ Stage(p, from, to)
  /\ UNCHANGED <<poolvars, saved>>

(* The request ends with an answer or an error and saves nothing. *)
Ends(p, from) ==
  /\ Stage(p, from, "none")
  /\ Finish(p)
  /\ UNCHANGED saved

(* The handler saves the connection, which may fail, and answers. *)
Saves(p) ==
  /\ Stage(p, "saving", "none")
  /\ saved' \in {saved, saved \cup {want[p]}}
  /\ Finish(p)

ServersChange ==
  /\ \E s \in Servers, state \in {"up", "down", "silent"} : Change(s, state)
  /\ UNCHANGED <<stage, saved>>

(* What the requests may do at all, whichever service they are of. *)
ClientNext ==
  \/ \E p \in Procs :
       \/ Request(p) \/ TakeLock(p) \/ GetHandle(p) \/ Saves(p)
       \/ \E from \in Stages : Ends(p, from)
       \/ \E from, to \in Stages : Works(p, from, to)
  \/ ServersChange

ClientSpec == ClientInit /\ [][ClientNext]_clientvars

-----------------------------------------------------------------------------

(* The key of a saved connection answered: a redis connection with some    *)
(* password, a database with these very settings.                          *)
SavedKeyAnswered == \A c \in saved : \E d \in pinged : KeyOf[d] = KeyOf[c]

=============================================================================
