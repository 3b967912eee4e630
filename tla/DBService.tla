------------------------------ MODULE DBService ------------------------------
(***************************************************************************)
(* The database requests (Query, ListTables, DescribeTable) on a PoolCache,*)
(* and the connection that ListTables saves when it succeeds.  The key of  *)
(* a pool is the type and the whole DSN.                                   *)
(*                                                                         *)
(* database/sql gives at most MaxOpenConns connections of a pool away and  *)
(* makes the others wait; a query holds one until its rows are closed.     *)
(* Neither Ping nor Query has a deadline.                                  *)
(***************************************************************************)
EXTENDS PoolClients, FiniteSets

CONSTANT MaxOpenConns  \* dbMaxOpenConns

(* A pool gives at least one connection away. *)
ASSUME MaxOpenConnsAssumption == MaxOpenConns \in Nat \ {0}

(* Faulty variant: the pools are kept by server. *)
DBKeyByServer == Server

DBKey == [c \in Settings |-> c]

InUse(h) == {p \in Procs : stage[p] = "rows" /\ got[p] = h}

(* db.Query has a connection of the pool. *)
Connect(p) ==
  /\ Works(p, "none", "rows")
  /\ Cardinality(InUse(got[p])) < MaxOpenConns

(* Query and DescribeTable: the rows are read and closed. *)
Rows(p) == Ends(p, "rows") /\ Answering(p)

(* ListTables: the tables are read and the rows closed. *)
ListTables(p) == Works(p, "rows", "saving") /\ Answering(p)

(* An error of the query or of the connection, whatever the request. *)
QueryFails(p) == Ends(p, "rows") /\ ~Silent(p)

(* The handler of ListTables saves the connection; when that fails, so     *)
(* does the request.                                                       *)
DBServe(p) ==
  GetHandle(p) \/ Connect(p) \/ Rows(p) \/ ListTables(p) \/ QueryFails(p) \/ Saves(p)

DBNext ==
  \/ \E p \in Procs : Request(p) \/ TakeLock(p) \/ DBServe(p)
  \/ ServersChange

DBSpec == ClientInit /\ [][DBNext]_clientvars

(* Goroutines are scheduled; sync.RWMutex starves nobody, and database/sql *)
(* serves the requests that wait for a connection in their order.          *)
DBFairness ==
  \A p \in Procs :
    /\ WF_clientvars(DBServe(p)) /\ SF_clientvars(TakeLock(p))
    /\ SF_clientvars((Hit(p) \/ Miss(p)) /\ GetHandle(p))
    /\ SF_clientvars(Connect(p))

DBFairSpec == DBSpec /\ DBFairness

-----------------------------------------------------------------------------

(* What is saved answered with these very settings, password included      *)
(* (handler/db.go:58): a pool is never shared between two DSNs.            *)
SavedAnswered == saved \subseteq pinged

(* A request ends, unless a server falls silent: it is the only thing that *)
(* can hold up a request, but then it may be somebody else's server.       *)
EndsUnlessSilent ==
  \A p \in Procs :
    pc[p] # "idle" ~> pc[p] = "idle" \/ \E s \in Servers : net[s] = "silent"

=============================================================================
