------------------------------ MODULE PoolCache ------------------------------
(***************************************************************************)
(* The connection pools of DBService and RedisService: a map from a key    *)
(* made of the connection settings to an open handle, an sql.DB or a       *)
(* redis.Client, guarded by a sync.RWMutex.                                *)
(*                                                                         *)
(* A request looks under the read lock, and on a miss looks again under    *)
(* the write lock, opens a handle and pings the server, all under that     *)
(* lock, and publishes the handle when the ping succeeds.  Handles are     *)
(* never removed.  The process starts with an empty map, so a restart is   *)
(* just another beginning.                                                 *)
(*                                                                         *)
(* The servers come and go.  A silent server accepts packets and answers   *)
(* nothing: a redis ping gives up after 5 s, a database ping never does.   *)
(***************************************************************************)
EXTENDS Naturals

CONSTANTS
  Procs, NoProc,  \* goroutines serving requests; nobody
  Settings,       \* type and DSN of a database; address, password, db of a redis
  NoSettings,     \* no settings
  Server,         \* Server[c]: the server c points to
  KeyOf,          \* KeyOf[c]: the key of c in the map
  Accepted,       \* settings the servers let in
  Malformed,      \* settings sql.Open refuses without a connection
  Handles,        \* pool objects
  NoHandle,       \* no entry in the map
  PingTimesOut    \* a ping of a silent server gives up

(* The sentinels are not values, and only settings are accepted or refused. *)
ASSUME PoolAssumption ==
  /\ NoProc \notin Procs /\ NoSettings \notin Settings
  /\ NoHandle \notin Handles
  /\ DOMAIN Server = Settings /\ DOMAIN KeyOf = Settings
  /\ Accepted \subseteq Settings /\ Malformed \subseteq Settings \ Accepted
  /\ PingTimesOut \in BOOLEAN

PoolKeys == {KeyOf[c] : c \in Settings}
Servers == {Server[c] : c \in Settings}

VARIABLES
  net,     \* net[s]: what server s does when asked
  pools,   \* the map
  made,    \* made[h]: the settings h was opened with, NoSettings if not open
  writer,  \* holder of mu.Lock
  pc,      \* where each request is
  want,    \* the settings it asks for
  got,     \* the handle it holds
  pinged   \* history: settings with which a ping succeeded

pool == <<pools, made, writer, pc, want, got, pinged>>
poolvars == <<net, pool>>

PoolInit ==
  /\ net \in [Servers -> {"up", "down", "silent"}]
  /\ pools = [k \in PoolKeys |-> NoHandle]
  /\ made = [h \in Handles |-> NoSettings]
  /\ writer = NoProc
  /\ pc = [p \in Procs |-> "idle"]
  /\ want = [p \in Procs |-> NoSettings]
  /\ got = [p \in Procs |-> NoHandle]
  /\ pinged = {}

Goto(p, from, to) == pc[p] = from /\ pc' = [pc EXCEPT ![p] = to]

Key(p) == KeyOf[want[p]]

Missing(p) == pools[Key(p)] = NoHandle

Begin(p, c) ==
  /\ Goto(p, "idle", "looking")
  /\ want' = [want EXCEPT ![p] = c]
  /\ UNCHANGED <<net, pools, made, writer, got, pinged>>

(* The request goes on with the published handle. *)
Takes(p, from) ==
  /\ Goto(p, from, "using")
  /\ pools[Key(p)] # NoHandle
  /\ got' = [got EXCEPT ![p] = pools[Key(p)]]

(* The lookup under mu.RLock is one step that a writer excludes. *)
Hit(p) ==
  /\ writer = NoProc
  /\ Takes(p, "looking")
  /\ UNCHANGED <<net, pools, made, writer, want, pinged>>

Miss(p) ==
  /\ writer = NoProc
  /\ Goto(p, "looking", "waiting")
  /\ Missing(p)
  /\ UNCHANGED <<net, pools, made, writer, want, got, pinged>>

Lock(p) ==
  /\ writer = NoProc
  /\ Goto(p, "waiting", "locked")
  /\ writer' = p
  /\ UNCHANGED <<net, pools, made, want, got, pinged>>

(* Another request published the handle between the two locks. *)
HitLocked(p) ==
  /\ Takes(p, "locked")
  /\ writer' = NoProc
  /\ UNCHANGED <<net, pools, made, want, pinged>>

(* Faulty variant: an error path returns without unlocking. *)
GivesUpLocked(p, from) ==
  /\ Goto(p, from, "idle")
  /\ want' = [want EXCEPT ![p] = NoSettings]
  /\ got' = [got EXCEPT ![p] = NoHandle]
  /\ UNCHANGED <<net, pools, writer, pinged>>

(* The request fails and lets go of the lock. *)
GivesUp(p, from) ==
  /\ Goto(p, from, "idle")
  /\ writer' = NoProc
  /\ want' = [want EXCEPT ![p] = NoSettings]
  /\ got' = [got EXCEPT ![p] = NoHandle]
  /\ UNCHANGED <<net, pools, pinged>>

OpenFails(p) ==
  /\ GivesUp(p, "locked")
  /\ Missing(p) /\ want[p] \in Malformed
  /\ UNCHANGED made

(* Faulty variant: the map is not looked at again under the lock. *)
OpenAnyway(p) ==
  /\ Goto(p, "locked", "pinging")
  /\ want[p] \notin Malformed
  /\ \E h \in Handles :
       /\ made[h] = NoSettings
       /\ made' = [made EXCEPT ![h] = want[p]]
       /\ got' = [got EXCEPT ![p] = h]
  /\ UNCHANGED <<net, pools, writer, want, pinged>>

(* Faulty variant: the handle is published before the ping. *)
OpenPublished(p) ==
  /\ Goto(p, "locked", "pinging")
  /\ Missing(p) /\ want[p] \notin Malformed
  /\ \E h \in Handles :
       /\ made[h] = NoSettings
       /\ made' = [made EXCEPT ![h] = want[p]]
       /\ got' = [got EXCEPT ![p] = h]
       /\ pools' = [pools EXCEPT ![Key(p)] = h]
  /\ UNCHANGED <<net, writer, want, pinged>>

(* sql.Open or redis.NewClient: a new object, no connection yet. *)
Open(p) ==
  /\ Goto(p, "locked", "pinging")
  /\ Missing(p) /\ want[p] \notin Malformed
  /\ \E h \in Handles :
       /\ made[h] = NoSettings
       /\ made' = [made EXCEPT ![h] = want[p]]
       /\ got' = [got EXCEPT ![p] = h]
  /\ UNCHANGED <<net, pools, writer, want, pinged>>

Answering(p) == net[Server[want[p]]] = "up"
Silent(p) == net[Server[want[p]]] = "silent"

PingOk(p) ==
  /\ Goto(p, "pinging", "using")
  /\ Answering(p) /\ want[p] \in Accepted
  /\ pools' = [pools EXCEPT ![Key(p)] = got[p]]
  /\ writer' = NoProc
  /\ pinged' = pinged \cup {want[p]}
  /\ UNCHANGED <<net, made, want, got>>

(* Faulty variant: the handle of a failed ping is not closed. *)
PingFailsUnclosed(p) ==
  /\ GivesUp(p, "pinging")
  /\ Silent(p) => PingTimesOut
  /\ UNCHANGED made

(* Faulty variant: the error of the ping is dropped. *)
PingFailsPublished(p) ==
  /\ Goto(p, "pinging", "using")
  /\ Silent(p) => PingTimesOut
  /\ pools' = [pools EXCEPT ![Key(p)] = got[p]]
  /\ writer' = NoProc
  /\ UNCHANGED <<net, made, want, got, pinged>>

(* A refusal, a lost connection or a timeout: the handle is closed. *)
PingFails(p) ==
  /\ GivesUp(p, "pinging")
  /\ Silent(p) => PingTimesOut
  /\ made' = [made EXCEPT ![got[p]] = NoSettings]

(* The request has its answer. *)
Finish(p) ==
  /\ Goto(p, "using", "idle")
  /\ want' = [want EXCEPT ![p] = NoSettings]
  /\ got' = [got EXCEPT ![p] = NoHandle]
  /\ UNCHANGED <<net, pools, made, writer, pinged>>

(* The network and the servers change on their own. *)
Change(s, state) ==
  /\ net[s] # state
  /\ net' = [net EXCEPT ![s] = state]
  /\ UNCHANGED pool

-----------------------------------------------------------------------------

(* getDB and getClient, apart from the wait for mu.Lock. *)
Get(p) ==
  Hit(p) \/ Miss(p) \/ HitLocked(p) \/ OpenFails(p) \/ Open(p) \/ PingOk(p)
    \/ PingFails(p)

PoolNext ==
  \/ \E p \in Procs :
       \/ \E c \in Settings : Begin(p, c)
       \/ Lock(p) \/ Get(p) \/ Finish(p)
  \/ \E s \in Servers, state \in {"up", "down", "silent"} : Change(s, state)

PoolSpec == PoolInit /\ [][PoolNext]_poolvars

-----------------------------------------------------------------------------

PoolTypeOK ==
  /\ net \in [Servers -> {"up", "down", "silent"}]
  /\ pools \in [PoolKeys -> Handles \cup {NoHandle}]
  /\ made \in [Handles -> Settings \cup {NoSettings}]
  /\ writer \in Procs \cup {NoProc}
  /\ want \in [Procs -> Settings \cup {NoSettings}]
  /\ got \in [Procs -> Handles \cup {NoHandle}]
  /\ pc \in [Procs -> {"idle", "looking", "waiting", "locked", "pinging", "using"}]
  /\ \A p \in Procs : pc[p] \in {"pinging", "using"} => got[p] \in Handles
  /\ pinged \in SUBSET Settings

Pinging(h) == \E p \in Procs : pc[p] = "pinging" /\ got[p] = h

(* A request works with an open handle that was opened under its own key:  *)
(* nobody closes a handle that another request has.                        *)
UsesOpenHandle ==
  \A p \in Procs :
    got[p] # NoHandle =>
      made[got[p]] # NoSettings /\ KeyOf[made[got[p]]] = Key(p)

(* Every open handle is in the map or is being tried: none is lost with    *)
(* its connections when a ping fails or two requests open the same key.    *)
NoHandleLeaks ==
  \A h \in Handles :
    made[h] # NoSettings => Pinging(h) \/ \E k \in PoolKeys : pools[k] = h

(* Two requests never have two pools of the same key open, not even while  *)
(* they are racing to fill the map.                                        *)
OneHandlePerKey ==
  \A g, h \in Handles :
    made[g] # NoSettings /\ made[h] # NoSettings /\ KeyOf[made[g]] = KeyOf[made[h]]
      => g = h

(* A published handle is one whose own settings answered a ping. *)
PublishedAnswered ==
  \A k \in PoolKeys : pools[k] # NoHandle => made[pools[k]] \in pinged

(* A published handle stays: no later request replaces it or takes it out. *)
PublishedStays ==
  [][\A k \in PoolKeys : pools[k] # NoHandle => pools'[k] = pools[k]]_poolvars

=============================================================================
