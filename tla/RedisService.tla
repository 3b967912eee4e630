----------------------------- MODULE RedisService -----------------------------
(***************************************************************************)
(* The redis requests on a PoolCache, and the connection that the Ping     *)
(* handler saves.  The key of a client is its address and database number: *)
(* the password is not part of it.                                         *)
(*                                                                         *)
(* The ping of a new client and every command have a deadline (5 to 10 s), *)
(* so a silent server is an error in the end.                              *)
(***************************************************************************)
EXTENDS PoolClients

CONSTANTS Addresses, Passwords  \* an address stands for address and database

VARIABLE heard  \* history: the server answered something during this request

redisvars == <<clientvars, heard>>

RedisSettings == [addr : Addresses, password : Passwords]

RedisServer == [c \in RedisSettings |-> c.addr]

(* poolKey *)
RedisKey == [c \in RedisSettings |-> c.addr]

RedisInit == ClientInit /\ heard = [p \in Procs |-> FALSE]

GetClient(p) ==
  /\ GetHandle(p)
  /\ heard' = [heard EXCEPT ![p] = pc[p] = "pinging" /\ pc'[p] = "using"]

(* INFO gives the version, or an error of INFO gives "PONG": Ping succeeds *)
(* both ways.                                                              *)
Ping(p) ==
  /\ Works(p, "none", "saving")
  /\ heard' = [heard EXCEPT ![p] = @ \/ Answering(p)]

(* ScanKeys, GetValue and Exec return an answer or report the error. *)
Command(p) ==
  /\ Ends(p, "none")
  /\ heard' = [heard EXCEPT ![p] = FALSE]

(* The Ping handler saves the connection and ignores the error of Save. *)
SavePinged(p) ==
  /\ Saves(p)
  /\ heard' = [heard EXCEPT ![p] = FALSE]

RedisServe(p) == GetClient(p) \/ Ping(p) \/ Command(p) \/ SavePinged(p)

RedisNext ==
  \/ \E p \in Procs :
       \/ (Request(p) \/ TakeLock(p)) /\ UNCHANGED heard
       \/ RedisServe(p)
  \/ ServersChange /\ UNCHANGED heard

RedisSpec == RedisInit /\ [][RedisNext]_redisvars

(* Goroutines are scheduled, and sync.RWMutex starves nobody. *)
RedisFairness ==
  \A p \in Procs :
    /\ WF_redisvars(RedisServe(p)) /\ SF_redisvars(TakeLock(p) /\ UNCHANGED heard)
    /\ SF_redisvars((Hit(p) \/ Miss(p)) /\ GetClient(p))

RedisFairSpec == RedisSpec /\ RedisFairness

-----------------------------------------------------------------------------

(* Every request ends, whatever the servers do: the ping under the write   *)
(* lock and every command have a deadline.                                 *)
RequestsEnd == \A p \in Procs : pc[p] # "idle" ~> pc[p] = "idle"

(* Ping tests the connection (redis.go:76 "Ping 测试连通性"): it succeeds   *)
(* only when the server answered something during the call, and lets the   *)
(* settings of the call in.                                                *)
PingReaches ==
  \A p \in Procs : stage[p] = "saving" => heard[p] /\ want[p] \in Accepted

=============================================================================
