------------------------------ MODULE PoolProofs ------------------------------
(* Proofs about PoolCache for any goroutines, settings and handles; that   *)
(* requests which come and go as PoolClients says use it so, and save what *)
(* answered; that the requests of DBService and RedisService are such, and *)
(* what the commands of RedisService find whatever is written meanwhile,   *)
(* and which words they send.                                              *)
EXTENDS DBService, RedisCommands, ListProofs, FiniteSetTheorems

USE PoolAssumption

-----------------------------------------------------------------------------
(* The inductive invariant of the pool map. *)

(* Busy requests have settings, and only those that opened or took a       *)
(* handle have one.                                                        *)
RequestInv ==
  \A p \in Procs :
    /\ pc[p] # "idle" => want[p] \in Settings
    /\ pc[p] \notin {"pinging", "using"} => got[p] = NoHandle

(* Whoever opens and pings holds the lock. *)
LockInv == \A p \in Procs : pc[p] \in {"locked", "pinging"} => writer = p

(* The handle that is being tried is open, under the settings of its       *)
(* request, and not published; its key is not in the map.                  *)
TryInv ==
  \A p \in Procs :
    pc[p] = "pinging" =>
      /\ made[got[p]] = want[p]
      /\ pools[Key(p)] = NoHandle
      /\ \A k \in PoolKeys : pools[k] # got[p]

(* A published handle is open under its key and answered once. *)
MapInv ==
  \A k \in PoolKeys :
    pools[k] # NoHandle =>
      made[pools[k]] \in pinged /\ KeyOf[made[pools[k]]] = k

(* A request works with the handle that is published under its key. *)
UseInv == \A p \in Procs : pc[p] = "using" => got[p] = pools[Key(p)]

IInv ==
  /\ PoolTypeOK /\ RequestInv /\ LockInv /\ TryInv /\ MapInv /\ UseInv
  /\ NoHandleLeaks

(* A busy request's key is a key of the map. *)
LEMMA KeyFacts ==
  ASSUME IInv, NEW p \in Procs, pc[p] # "idle"
  PROVE  want[p] \in Settings /\ Key(p) \in PoolKeys /\ want[p] # NoSettings
BY DEF IInv, RequestInv, PoolKeys, Key

(* A map without entries, and no handle open. *)
LEMMA Initially == PoolInit => IInv
<1> SUFFICES ASSUME PoolInit PROVE IInv
  OBVIOUS
<1> USE DEF PoolInit
<1>1. PoolTypeOK
  BY DEF PoolTypeOK
<1>2. RequestInv /\ LockInv /\ TryInv /\ UseInv
  BY DEF RequestInv, LockInv, TryInv, UseInv
<1>3. MapInv /\ NoHandleLeaks
  BY DEF MapInv, NoHandleLeaks
<1>. QED
  BY <1>1, <1>2, <1>3 DEF IInv

(* Steps of one request that leave the map and the handles alone: Begin,   *)
(* Miss, Lock.                                                             *)
LEMMA QuietStep ==
  ASSUME IInv, NEW p \in Procs,
         (\E c \in Settings : Begin(p, c)) \/ Miss(p) \/ Lock(p)
  PROVE  IInv'
<1> USE DEF Begin, Miss, Lock, Goto
<1>1. PoolTypeOK'
  BY DEF IInv, PoolTypeOK
<1>2. RequestInv'
  BY DEF IInv, PoolTypeOK, RequestInv
<1>3. LockInv'
  BY DEF IInv, PoolTypeOK, LockInv
<1>4. TryInv' /\ UseInv'
  BY DEF IInv, PoolTypeOK, TryInv, UseInv, Key
<1>5. MapInv'
  BY DEF IInv, MapInv
<1>6. NoHandleLeaks'
  BY DEF IInv, PoolTypeOK, NoHandleLeaks, Pinging
<1>. QED
  BY <1>1, <1>2, <1>3, <1>4, <1>5, <1>6 DEF IInv

(* A request takes the published handle. *)
LEMMA TakeStep ==
  ASSUME IInv, NEW p \in Procs, Hit(p) \/ HitLocked(p)
  PROVE  IInv'
<1> USE DEF Hit, HitLocked, Takes, Goto
<1>1. pools[Key(p)] \in Handles
  BY KeyFacts DEF IInv, PoolTypeOK
<1>2. PoolTypeOK'
  BY <1>1 DEF IInv, PoolTypeOK
<1>3. RequestInv'
  BY DEF IInv, PoolTypeOK, RequestInv
<1>4. LockInv'
  BY DEF IInv, PoolTypeOK, LockInv
<1>5. TryInv' /\ UseInv'
  BY DEF IInv, PoolTypeOK, TryInv, UseInv, Key
<1>6. MapInv'
  BY DEF IInv, MapInv
<1>7. NoHandleLeaks'
  BY DEF IInv, PoolTypeOK, NoHandleLeaks, Pinging
<1>. QED
  BY <1>2, <1>3, <1>4, <1>5, <1>6, <1>7 DEF IInv

(* A request ends, with an answer or without a handle. *)
LEMMA EndStep ==
  ASSUME IInv, NEW p \in Procs, Finish(p) \/ OpenFails(p)
  PROVE  IInv'
<1> USE DEF Finish, OpenFails, GivesUp, Goto
<1>1. PoolTypeOK'
  BY DEF IInv, PoolTypeOK
<1>2. RequestInv'
  BY DEF IInv, PoolTypeOK, RequestInv
<1>3. LockInv'
  BY DEF IInv, PoolTypeOK, LockInv
<1>4. TryInv' /\ UseInv'
  BY DEF IInv, PoolTypeOK, TryInv, UseInv, Key
<1>5. MapInv'
  BY DEF IInv, MapInv
<1>6. NoHandleLeaks'
  BY DEF IInv, PoolTypeOK, NoHandleLeaks, Pinging
<1>. QED
  BY <1>1, <1>2, <1>3, <1>4, <1>5, <1>6 DEF IInv

(* A new handle is not in the map, since what is there is open. *)
LEMMA OpenStep ==
  ASSUME IInv, NEW p \in Procs, Open(p)
  PROVE  IInv'
<1> USE DEF Goto
<1>1. PICK h \in Handles : /\ made[h] = NoSettings
                           /\ made' = [made EXCEPT ![h] = want[p]]
                           /\ got' = [got EXCEPT ![p] = h]
  BY DEF Open
<1>2. /\ pc[p] = "locked" /\ pc' = [pc EXCEPT ![p] = "pinging"]
      /\ pools[Key(p)] = NoHandle
      /\ UNCHANGED <<net, pools, writer, want, pinged>>
  BY DEF Open, Missing
<1>3. /\ want[p] \in Settings /\ Key(p) \in PoolKeys /\ want[p] # NoSettings
  BY <1>2, KeyFacts
<1>4. \A k \in PoolKeys : pools[k] # h
  BY <1>1 DEF IInv, MapInv, PoolTypeOK
<1>5. \A q \in Procs : pc[q] # "pinging"
  BY <1>2 DEF IInv, LockInv
<1>6. PoolTypeOK'
  BY <1>1, <1>2, <1>3 DEF IInv, PoolTypeOK
<1>7. RequestInv'
  BY <1>1, <1>2, <1>3 DEF IInv, PoolTypeOK, RequestInv
<1>8. LockInv'
  BY <1>2 DEF IInv, PoolTypeOK, LockInv
<1>9. TryInv' /\ UseInv'
  BY <1>1, <1>2, <1>3, <1>4, <1>5 DEF IInv, PoolTypeOK, TryInv, UseInv, Key
<1>10. MapInv'
  BY <1>1, <1>2, <1>4 DEF IInv, PoolTypeOK, MapInv
<1>11. NoHandleLeaks'
  BY <1>1, <1>2, <1>5 DEF IInv, PoolTypeOK, NoHandleLeaks, Pinging
<1>. QED
  BY <1>6, <1>7, <1>8, <1>9, <1>10, <1>11 DEF IInv

(* The ping succeeds: the handle that was tried is published. *)
LEMMA PublishStep ==
  ASSUME IInv, NEW p \in Procs, PingOk(p)
  PROVE  IInv'
<1> USE DEF Goto
<1>1. /\ pc[p] = "pinging" /\ pc' = [pc EXCEPT ![p] = "using"]
      /\ pools' = [pools EXCEPT ![Key(p)] = got[p]]
      /\ writer' = NoProc
      /\ pinged' = pinged \cup {want[p]}
      /\ UNCHANGED <<net, made, want, got>>
  BY DEF PingOk
<1>2. /\ want[p] \in Settings /\ Key(p) \in PoolKeys
  BY <1>1, KeyFacts
<1>3. /\ got[p] \in Handles /\ made[got[p]] = want[p]
      /\ pools[Key(p)] = NoHandle
  BY <1>1 DEF IInv, TryInv, PoolTypeOK
<1>4. \A q \in Procs : q # p => pc[q] \notin {"locked", "pinging"}
  BY <1>1 DEF IInv, LockInv
<1>5. PoolTypeOK'
  BY <1>1, <1>2, <1>3 DEF IInv, PoolTypeOK
<1>6. RequestInv'
  BY <1>1 DEF IInv, PoolTypeOK, RequestInv
<1>7. LockInv' /\ TryInv'
  BY <1>1, <1>4 DEF IInv, PoolTypeOK, LockInv, TryInv
<1>8. MapInv'
  BY <1>1, <1>2, <1>3 DEF IInv, PoolTypeOK, MapInv, Key
<1>9. UseInv'
  <2> SUFFICES ASSUME NEW q \in Procs, pc'[q] = "using"
               PROVE  got'[q] = pools'[Key(q)']
    BY DEF UseInv
  <2>1. Key(q)' = Key(q)
    BY <1>1 DEF Key
  <2>2. CASE q = p
    BY <2>1, <2>2, <1>1, <1>2 DEF IInv, PoolTypeOK
  <2>3. CASE q # p
    <3>1. pc[q] = "using" /\ got[q] \in Handles /\ got[q] = pools[Key(q)]
      BY <2>3, <1>1 DEF IInv, PoolTypeOK, UseInv
    <3>2. Key(q) # Key(p)
      BY <3>1, <1>3
    <3>. QED
      BY <2>1, <3>1, <3>2, <1>1, <1>2, KeyFacts DEF IInv, PoolTypeOK
  <2>. QED
    BY <2>2, <2>3
<1>10. NoHandleLeaks'
  <2> SUFFICES ASSUME NEW h \in Handles, made'[h] # NoSettings
               PROVE  Pinging(h)' \/ \E k \in PoolKeys : pools'[k] = h
    BY DEF NoHandleLeaks
  <2>1. CASE h = got[p]
    BY <2>1, <1>1, <1>2 DEF IInv, PoolTypeOK
  <2>2. CASE h # got[p]
    <3>1. ~Pinging(h)
      BY <2>2, <1>4 DEF Pinging
    <3>2. PICK k \in PoolKeys : pools[k] = h
      BY <3>1, <1>1 DEF IInv, NoHandleLeaks
    <3>. QED
      BY <3>2, <1>1, <1>2, <1>3 DEF IInv, PoolTypeOK
  <2>. QED
    BY <2>1, <2>2
<1>. QED
  BY <1>5, <1>6, <1>7, <1>8, <1>9, <1>10 DEF IInv

(* The ping fails: the handle that was tried is closed, and nobody has it. *)
LEMMA CloseStep ==
  ASSUME IInv, NEW p \in Procs, PingFails(p)
  PROVE  IInv'
<1> USE DEF Goto
<1>1. /\ pc[p] = "pinging" /\ pc' = [pc EXCEPT ![p] = "idle"]
      /\ writer' = NoProc
      /\ want' = [want EXCEPT ![p] = NoSettings]
      /\ got' = [got EXCEPT ![p] = NoHandle]
      /\ made' = [made EXCEPT ![got[p]] = NoSettings]
      /\ UNCHANGED <<net, pools, pinged>>
  BY DEF PingFails, GivesUp
<1>2. /\ got[p] \in Handles
      /\ \A k \in PoolKeys : pools[k] # got[p]
  BY <1>1 DEF IInv, TryInv, PoolTypeOK
<1>3. \A q \in Procs : q # p => pc[q] \notin {"locked", "pinging"}
  BY <1>1 DEF IInv, LockInv
<1>4. PoolTypeOK'
  BY <1>1 DEF IInv, PoolTypeOK
<1>5. RequestInv'
  BY <1>1 DEF IInv, PoolTypeOK, RequestInv
<1>6. LockInv' /\ TryInv'
  BY <1>1, <1>3 DEF IInv, PoolTypeOK, LockInv, TryInv
<1>7. MapInv'
  BY <1>1, <1>2 DEF IInv, PoolTypeOK, MapInv
<1>8. UseInv'
  BY <1>1 DEF IInv, PoolTypeOK, UseInv, Key
<1>9. NoHandleLeaks'
  BY <1>1, <1>2, <1>3 DEF IInv, PoolTypeOK, NoHandleLeaks, Pinging
<1>. QED
  BY <1>4, <1>5, <1>6, <1>7, <1>8, <1>9 DEF IInv

(* The network changes, or nothing does. *)
LEMMA OutsideStep ==
  ASSUME IInv,
         \/ \E s \in Servers, state \in {"up", "down", "silent"} : Change(s, state)
         \/ UNCHANGED poolvars
  PROVE  IInv'
<1>1. UNCHANGED pool /\ net' \in [Servers -> {"up", "down", "silent"}]
  BY DEF Change, poolvars, pool, IInv, PoolTypeOK
<1>2. PoolTypeOK' /\ RequestInv' /\ LockInv'
  BY <1>1 DEF pool, IInv, PoolTypeOK, RequestInv, LockInv
<1>3. TryInv' /\ MapInv' /\ UseInv' /\ NoHandleLeaks'
  BY <1>1 DEF pool, IInv, TryInv, MapInv, UseInv, NoHandleLeaks, Pinging, Key
<1>. QED
  BY <1>2, <1>3 DEF IInv

(* Every step of every request keeps the invariant. *)
LEMMA Stepwise == IInv /\ [PoolNext]_poolvars => IInv'
<1> SUFFICES ASSUME IInv, [PoolNext]_poolvars PROVE IInv'
  OBVIOUS
<1>1. ASSUME NEW p \in Procs,
             (\E c \in Settings : Begin(p, c)) \/ Lock(p) \/ Get(p) \/ Finish(p)
      PROVE  IInv'
  BY <1>1, QuietStep, TakeStep, EndStep, OpenStep, PublishStep, CloseStep DEF Get
<1>. QED
  BY <1>1, OutsideStep DEF PoolNext

(* The invariant holds throughout. *)
LEMMA InvariantHolds == PoolSpec => []IInv
BY Initially, Stepwise, PTL DEF PoolSpec

-----------------------------------------------------------------------------
(* What the map promises. *)

(* The map, the handles and the requests keep their types, and a request   *)
(* that pings or uses a handle has one.                                    *)
THEOREM PoolTypeCorrect == PoolSpec => []PoolTypeOK
<1>1. IInv => PoolTypeOK
  BY DEF IInv
<1>. QED
  BY <1>1, InvariantHolds, PTL

(* A request never works with a closed handle or another key's. *)
THEOREM UsesOpenHandleHolds == PoolSpec => []UsesOpenHandle
<1>1. ASSUME IInv, NEW p \in Procs, got[p] # NoHandle
      PROVE  made[got[p]] # NoSettings /\ KeyOf[made[got[p]]] = Key(p)
  <2>1. pc[p] \in {"pinging", "using"} /\ pc[p] # "idle"
    BY <1>1 DEF IInv, RequestInv
  <2>2. CASE pc[p] = "pinging"
    BY <1>1, <2>2, KeyFacts DEF IInv, TryInv, Key
  <2>3. CASE pc[p] = "using"
    BY <1>1, <2>3, KeyFacts DEF IInv, UseInv, MapInv, PoolTypeOK
  <2>. QED
    BY <2>1, <2>2, <2>3
<1>2. IInv => UsesOpenHandle
  BY <1>1 DEF UsesOpenHandle
<1>. QED
  BY <1>2, InvariantHolds, PTL

(* No handle and none of its connections is ever lost. *)
THEOREM NoHandleLeaksHolds == PoolSpec => []NoHandleLeaks
<1>1. IInv => NoHandleLeaks
  BY DEF IInv
<1>. QED
  BY <1>1, InvariantHolds, PTL

(* Requests that race for a key open one pool of it. *)
THEOREM OneHandlePerKeyHolds == PoolSpec => []OneHandlePerKey
<1>1. ASSUME IInv, NEW g \in Handles, NEW h \in Handles,
             made[g] # NoSettings, made[h] # NoSettings,
             KeyOf[made[g]] = KeyOf[made[h]]
      PROVE  g = h
  <2> DEFINE InMap(x) == pools[KeyOf[made[x]]] = x
  <2>1. ASSUME NEW x \in Handles, made[x] # NoSettings, ~InMap(x)
        PROVE  Pinging(x) /\ pools[KeyOf[made[x]]] = NoHandle
    <3>1. Pinging(x)
      BY <1>1, <2>1 DEF IInv, NoHandleLeaks, MapInv
    <3>. QED
      BY <1>1, <3>1 DEF IInv, TryInv, Pinging, Key
  <2>2. CASE InMap(g) /\ InMap(h)
    BY <1>1, <2>2
  <2>3. CASE ~InMap(g) /\ ~InMap(h)
    BY <1>1, <2>1, <2>3 DEF IInv, LockInv, Pinging
  <2>4. CASE InMap(g) # InMap(h)
    BY <1>1, <2>1, <2>4
  <2>. QED
    BY <2>2, <2>3, <2>4
<1>2. IInv => OneHandlePerKey
  BY <1>1 DEF OneHandlePerKey
<1>. QED
  BY <1>2, InvariantHolds, PTL

(* Nothing is published without an answer to a ping with its settings. *)
THEOREM PublishedAnsweredHolds == PoolSpec => []PublishedAnswered
<1>1. IInv => PublishedAnswered
  BY DEF IInv, MapInv, PublishedAnswered
<1>. QED
  BY <1>1, InvariantHolds, PTL

(* The map only grows. *)
THEOREM PublishedStaysHolds == PoolSpec => PublishedStays
<1>1. ASSUME IInv, [PoolNext]_poolvars, NEW k \in PoolKeys, pools[k] # NoHandle
      PROVE  pools'[k] = pools[k]
  <2>1. ASSUME NEW p \in Procs, PingOk(p)
        PROVE  pools'[k] = pools[k]
    BY <1>1, <2>1 DEF PingOk, Goto, IInv, TryInv, PoolTypeOK
  <2>2. ASSUME NEW p \in Procs,
               \/ \E c \in Settings : Begin(p, c)
               \/ Lock(p) \/ Hit(p) \/ Miss(p) \/ HitLocked(p) \/ OpenFails(p)
               \/ Open(p) \/ PingFails(p) \/ Finish(p)
        PROVE  UNCHANGED pools
    BY <2>2 DEF Begin, Lock, Hit, Miss, HitLocked, OpenFails, Open, PingFails,
                GivesUp, Finish
  <2>3. CASE UNCHANGED poolvars
    BY <2>3 DEF poolvars, pool
  <2>4. ASSUME NEW s, NEW state, Change(s, state)
        PROVE  UNCHANGED pools
    BY <2>4 DEF Change, pool
  <2>. QED
    BY <1>1, <2>1, <2>2, <2>3, <2>4 DEF PoolNext, Get
<1>2. IInv /\ [PoolNext]_poolvars =>
        [\A k \in PoolKeys : pools[k] # NoHandle => pools'[k] = pools[k]]_poolvars
  BY <1>1
<1>. QED
  BY <1>2, InvariantHolds, PTL DEF PoolSpec, PublishedStays

-----------------------------------------------------------------------------
(* The requests. *)

(* Requests of either service use the map as PoolCache says. *)
LEMMA ClientStep == [ClientNext]_clientvars => [PoolNext]_poolvars
<1> SUFFICES ASSUME [ClientNext]_clientvars PROVE [PoolNext]_poolvars
  OBVIOUS
<1>1. ASSUME NEW p \in Procs, Request(p) \/ TakeLock(p) \/ GetHandle(p) \/ Saves(p)
      PROVE  [PoolNext]_poolvars
  BY <1>1 DEF Request, TakeLock, GetHandle, Saves, PoolNext
<1>2. ASSUME NEW p \in Procs, NEW from, Ends(p, from) PROVE [PoolNext]_poolvars
  BY <1>2 DEF Ends, PoolNext
<1>3. ASSUME NEW p \in Procs, NEW from, NEW to, Works(p, from, to)
      PROVE  [PoolNext]_poolvars
  BY <1>3 DEF Works
<1>. QED
  BY <1>1, <1>2, <1>3 DEF ClientNext, ServersChange, PoolNext, clientvars

(* The requests implement PoolCache: all that is proved of the map above   *)
(* holds of them.                                                          *)
THEOREM ClientsUsePool == ClientSpec => PoolSpec
<1>1. ClientInit => PoolInit
  BY DEF ClientInit
<1>. QED
  BY <1>1, ClientStep, PTL DEF ClientSpec, PoolSpec

(* A request past its handle works with it, and the key of what is saved   *)
(* has answered.                                                           *)
StageInv ==
  /\ stage \in [Procs -> Stages]
  /\ \A p \in Procs : stage[p] # "none" => pc[p] = "using"
  /\ saved \subseteq Settings
  /\ SavedKeyAnswered

(* The handle a request works with was opened for the request's key, with  *)
(* settings that answered, be they not its own.                            *)
LEMMA HandleOfKey ==
  ASSUME IInv, NEW p \in Procs, pc[p] = "using"
  PROVE  /\ want[p] \in Settings
         /\ \E d \in pinged : KeyOf[d] = KeyOf[want[p]]
<1>1. made[pools[Key(p)]] \in pinged /\ KeyOf[made[pools[Key(p)]]] = Key(p)
  BY KeyFacts DEF IInv, UseInv, MapInv, PoolTypeOK
<1>2. want[p] \in Settings
  BY DEF IInv, RequestInv
<1>. QED
  BY <1>1, <1>2 DEF Key

(* The request is taking its last step: it saves its settings or nothing.  *)
LEMMA LastStage ==
  ASSUME IInv, StageInv, NEW p \in Procs, pc[p] = "using", Finish(p),
         stage' = [stage EXCEPT ![p] = "none"],
         saved' \in {saved, saved \cup {want[p]}}
  PROVE  StageInv'
<1>1. pc' = [pc EXCEPT ![p] = "idle"] /\ UNCHANGED pinged
  BY DEF Finish, Goto
<1>. QED
  BY <1>1, HandleOfKey DEF StageInv, SavedKeyAnswered, Stages, IInv, PoolTypeOK

(* What a request saves has a key that answered a ping. *)
LEMMA StageInvHolds == ClientSpec => [](IInv /\ StageInv)
<1>1. ClientInit => StageInv
  BY DEF ClientInit, PoolInit, StageInv, SavedKeyAnswered, Stages
<1>2. ASSUME IInv, StageInv, [ClientNext]_clientvars
      PROVE  StageInv'
  <2> USE DEF StageInv, SavedKeyAnswered
  <2>1. CASE UNCHANGED clientvars
    BY <1>2, <2>1 DEF clientvars, poolvars, pool
  <2>2. CASE ServersChange
    BY <1>2, <2>2 DEF ServersChange, Change, pool
  <2>3. ASSUME NEW p \in Procs, Request(p) \/ TakeLock(p) \/ GetHandle(p)
        PROVE  StageInv'
    <3>1. /\ UNCHANGED <<stage, saved>> /\ pc[p] # "using"
          /\ \E to : pc' = [pc EXCEPT ![p] = to]
      BY <2>3 DEF Request, TakeLock, GetHandle, Get, Begin, Lock, Hit, Miss, Takes,
                  HitLocked, OpenFails, GivesUp, Open, PingOk, PingFails, Goto
    <3>2. pinged \subseteq pinged'
      BY <2>3 DEF Request, TakeLock, GetHandle, Get, Begin, Lock, Hit, Miss, Takes,
                  HitLocked, OpenFails, GivesUp, Open, PingOk, PingFails, Goto
    <3>. QED
      BY <1>2, <3>1, <3>2 DEF IInv, PoolTypeOK
  <2>4. ASSUME NEW p \in Procs, NEW from \in Stages, NEW to \in Stages,
               Works(p, from, to)
        PROVE  StageInv'
    BY <1>2, <2>4 DEF Works, Stage, poolvars, pool
  <2>5. ASSUME NEW p \in Procs, NEW from \in Stages, Ends(p, from)
        PROVE  StageInv'
    BY <1>2, <2>5, LastStage DEF Ends, Stage
  <2>6. ASSUME NEW p \in Procs, Saves(p)
        PROVE  StageInv'
    BY <1>2, <2>6, LastStage DEF Saves, Stage
  <2>. QED
    BY <1>2, <2>1, <2>2, <2>3, <2>4, <2>5, <2>6 DEF ClientNext
<1>3. ClientSpec => []IInv
  BY ClientsUsePool, InvariantHolds, PTL
<1>. QED
  BY <1>1, <1>2, <1>3, PTL DEF ClientSpec

(* What a request saves has a key that answered: a saved connection leads  *)
(* to a server that was reached.                                           *)
THEOREM SavedKeyAnsweredHolds == ClientSpec => []SavedKeyAnswered
<1>1. StageInv => SavedKeyAnswered
  BY DEF StageInv
<1>. QED
  BY <1>1, StageInvHolds, PTL

-----------------------------------------------------------------------------
(* The requests of DBService. *)

(* The database requests come and go as PoolClients says. *)
THEOREM DBIsClient == DBSpec => ClientSpec
<1>1. [DBNext]_clientvars => [ClientNext]_clientvars
  <2> SUFFICES ASSUME DBNext PROVE ClientNext
    OBVIOUS
  <2>1. ASSUME NEW p \in Procs, Request(p) \/ TakeLock(p) \/ DBServe(p)
        PROVE  ClientNext
    BY <2>1 DEF DBServe, Connect, Rows, ListTables, QueryFails, Stages, ClientNext
  <2>. QED
    BY <2>1 DEF DBNext, ClientNext
<1>. QED
  BY <1>1, PTL DEF DBSpec, ClientSpec

(* What ListTables saves answered a ping with the same type and DSN: under *)
(* keys that tell all settings apart, a saved key is a saved connection.   *)
THEOREM SavedAnsweredHolds == ASSUME KeyOf = DBKey PROVE DBSpec => []SavedAnswered
<1>1. IInv /\ StageInv => SavedAnswered
  BY DEF IInv, PoolTypeOK, StageInv, SavedKeyAnswered, SavedAnswered, DBKey
<1>. QED
  BY <1>1, StageInvHolds, DBIsClient, PTL

-----------------------------------------------------------------------------
(* The requests of RedisService. *)

(* The redis requests come and go as PoolClients says, but for the history *)
(* in heard, on which nothing depends.                                     *)
THEOREM RedisIsClient == RedisSpec => ClientSpec
<1>1. RedisInit => ClientInit
  BY DEF RedisInit
<1>2. [RedisNext]_redisvars => [ClientNext]_clientvars
  <2> SUFFICES ASSUME RedisNext PROVE ClientNext
    BY DEF redisvars
  <2>1. ASSUME NEW p \in Procs, Request(p) \/ TakeLock(p) \/ RedisServe(p)
        PROVE  ClientNext
    BY <2>1 DEF RedisServe, GetClient, Ping, Command, SavePinged, Stages, ClientNext
  <2>. QED
    BY <2>1 DEF RedisNext, ClientNext
<1>. QED
  BY <1>1, <1>2, PTL DEF RedisSpec, ClientSpec

(* A command of ScanKeys, GetValue or Exec changes nothing of the clients. *)
LEMMA CommandsStep == [CommandsNext]_commandvars => [ClientNext]_clientvars
<1> SUFFICES ASSUME [CommandsNext]_commandvars PROVE [ClientNext]_clientvars
  OBVIOUS
<1>1. CASE UNCHANGED commandvars
  BY <1>1 DEF commandvars, redisvars, clientvars
<1>2. ASSUME NEW p \in Procs, PoolSteps(p)
      PROVE  ClientNext
  BY <1>2 DEF PoolSteps, GetClient, Ping, SavePinged, Stages, ClientNext
<1>3. ASSUME NEW p \in Procs, Reply(p)
      PROVE  ClientNext
  BY <1>3 DEF Reply, Command, Stages, ClientNext
<1>4. ASSUME NEW p \in Procs,
             ReadType(p) \/ ReadTTL(p) \/ ReadValue(p) \/ ScanBatch(p) \/ Touch(p)
      PROVE  UNCHANGED clientvars
  <2>1. ASSUME NEW changes, Step(p, changes) \/ GoOn(p, changes)
        PROVE  UNCHANGED redisvars
    BY <2>1 DEF Step, GoOn
  <2>2. ReadType(p) => UNCHANGED redisvars
    BY <2>1 DEF ReadType
  <2>3. ReadTTL(p) => UNCHANGED redisvars
    BY <2>1, Zenon DEF ReadTTL
  <2>4. ReadValue(p) => UNCHANGED redisvars
    BY <2>1, Zenon DEF ReadValue
  <2>5. ScanBatch(p) => UNCHANGED redisvars
    BY <2>1, Zenon DEF ScanBatch
  <2>6. Touch(p) => UNCHANGED redisvars
    BY DEF Touch
  <2>. QED
    BY <1>4, <2>2, <2>3, <2>4, <2>5, <2>6 DEF redisvars, clientvars
<1>5. ASSUME NEW p \in Procs, StartGet(p) \/ StartScan(p) \/ Exec(p)
      PROVE  UNCHANGED clientvars
  BY <1>5 DEF StartGet, StartScan, Exec, Start, clientvars
<1>. QED
  BY <1>1, <1>2, <1>3, <1>4, <1>5 DEF CommandsNext, CommandSteps, ClientNext

(* The commands, step by step among those of other clients, come and go as *)
(* PoolClients says as well, and so use the map as PoolCache says.         *)
THEOREM CommandsAreClient == CommandsSpec => ClientSpec
<1>1. CommandsInit => ClientInit
  BY DEF CommandsInit, RedisInit
<1>. QED
  BY <1>1, CommandsStep, PTL DEF CommandsSpec, ClientSpec

(* What the Ping handler saves has an address that answered a ping, with   *)
(* some password, whatever the commands of other requests do meanwhile.    *)
THEOREM PingSavesAnswered == CommandsSpec => []SavedKeyAnswered
  BY CommandsAreClient, SavedKeyAnsweredHolds

-----------------------------------------------------------------------------
(* The commands that read keys. *)

Types == {"none", "string", "list"}

GetCmd == [op : {"get"}, at : {"type", "ttl", "value", "done"}, key : {Asked},
           steady : BOOLEAN, type : {""} \cup Types, ttl : Int,
           value : {"", "unsupported type: none"} \cup Types]

ScanCmd == [op : {"scan"}, at : {"batch", "done"}, cursor : 1..Cursors,
            limit : Nat \ {0}, found : Seq(Keys), steady : SUBSET Keys]

ExecCmd == {[op |-> "exec", at |-> "done", words |-> c.words, args |-> c.args] :
              c \in Lines}

(* Commands and keys are typed, and only a reader has a command.           *)
CmdTypeOK ==
  /\ data \in [Keys -> Contents]
  /\ cmd \in [Procs -> GetCmd \cup ScanCmd \cup ExecCmd \cup {NoCmd}]
  /\ \A p \in Procs : cmd[p] # NoCmd => p \in Readers

(* A type that was read is one, and the value that was read fits it.       *)
GetOK(c) ==
  /\ c.at # "type" => c.type \in Types
  /\ c.at = "done" =>
       CASE c.type = "string" -> c.value = "string"
         [] c.type = "list" -> c.value \in {"list", "none"}
         [] c.type = "none" -> c.value = "unsupported type: none"

(* A search has found every key that is there all along and that SCAN has  *)
(* passed; it ends behind the last cursor, or with more than it may answer. *)
ScanOK(c) ==
  /\ c.at = "batch" =>
       /\ c.steady \subseteq Present
       /\ \A k \in c.steady : Bucket[k] < c.cursor => k \in ToSet(c.found)
  /\ c.at = "done" /\ c.limit * maxScanBatches < Half =>
       \/ Len(c.found) = c.limit
       \/ Len(c.found) < c.limit /\ c.steady \subseteq ToSet(c.found)

CmdOK(c) == (c.op = "get" => GetOK(c)) /\ (c.op = "scan" => ScanOK(c))

CmdInv == CmdTypeOK /\ \A p \in Procs : CmdOK(cmd[p])

(* The four kinds of command are told apart by their op. *)
LEMMA Ops ==
  /\ \A c \in GetCmd : c.op = "get" /\ c # NoCmd
  /\ \A c \in ScanCmd : c.op = "scan" /\ c # NoCmd
  /\ \A c \in ExecCmd : c.op = "exec" /\ c # NoCmd
  /\ NoCmd.op = "none"
<1>1. NoCmd.op = "none" /\ \A c \in GetCmd : c.op = "get"
  BY DEF NoCmd, GetCmd
<1>2. \A c \in ScanCmd : c.op = "scan"
  BY DEF ScanCmd
<1>3. \A c \in ExecCmd : c.op = "exec"
  BY DEF ExecCmd
<1>. QED
  BY <1>1, <1>2, <1>3

LEMMA Kinds ==
  ASSUME CmdTypeOK, NEW p \in Procs
  PROVE  /\ cmd[p].op = "get" => cmd[p] \in GetCmd
         /\ cmd[p].op = "scan" => cmd[p] \in ScanCmd
         /\ cmd[p].op \in {"get", "scan"} => cmd[p] # NoCmd
  BY Ops DEF CmdTypeOK

(* No two requests read at a time. *)
LEMMA OneReader ==
  ASSUME CmdTypeOK, NEW p \in Procs, NEW q \in Procs,
         cmd[p] # NoCmd \/ p \in Readers, cmd[q] # NoCmd
  PROVE  p = q
  BY CommandsAssumption DEF CmdTypeOK

LEMMA AskedIsKey == Asked \in Keys
  BY CommandsAssumption DEF Asked

(* A product of two int64 below 2^63 does not wrap, and ten batches are    *)
(* more than the limit.                                                    *)
LEMMA Unwrapped ==
  ASSUME NEW limit \in Nat \ {0}, limit * maxScanBatches < Half
  PROVE  /\ Wrapped(limit * maxScanBatches) = limit * maxScanBatches
         /\ limit * maxScanBatches > limit
<1>1. maxScanBatches \in Nat /\ maxScanBatches > 1 /\ Half \in Nat \ {0}
  BY CommandsAssumption, Int64Assumption
<1>2. PICK k \in Nat : maxScanBatches = 2 + k
  <2>1. maxScanBatches - 2 \in Nat /\ maxScanBatches = 2 + (maxScanBatches - 2)
    BY <1>1
  <2>. QED
    BY <2>1
<1>3. limit * k \in Nat
  OBVIOUS
<1>4. limit * maxScanBatches = limit * 2 + limit * k
  BY <1>2
<1> DEFINE n == limit * maxScanBatches
<1>5. n \in Nat /\ n > limit /\ n < Half
  BY <1>3, <1>4
<1> HIDE DEF n
<1>6. n % (2 * Half) = n
  <2>1. 2 * Half \in Nat /\ n < 2 * Half
    BY <1>1, <1>5
  <2>. QED
    BY <1>5, <2>1
<1>7. Wrapped(n) = n
  BY <1>5, <1>6 DEF Wrapped
<1>. QED
  BY <1>5, <1>7 DEF n

(* A batch is a sequence of keys that are there, all those at the cursor   *)
(* among them.                                                             *)
LEMMA BatchFacts ==
  ASSUME CmdTypeOK, NEW cursor, NEW batch \in Batches(cursor)
  PROVE  /\ batch \in Seq(Keys)
         /\ \A k \in Present : Bucket[k] = cursor => k \in ToSet(batch)
<1> DEFINE here == {k \in Present : Bucket[k] = cursor}
<1>1. PICK again \in SUBSET Present : batch \in SetToSeqs(here \cup again)
  BY DEF Batches
<1> DEFINE S == here \cup again
           n == Cardinality(S)
<1>2. S \subseteq Keys /\ IsFiniteSet(S)
  <2>1. S \subseteq Keys
    BY DEF Present
  <2>. QED
    BY <2>1, CommandsAssumption, FS_Subset
<1>3. n \in Nat
  BY <1>2, FS_CardinalityType
<1>4. /\ batch \in [1..n -> S]
      /\ \A i, j \in 1..n : i # j => batch[i] # batch[j]
  BY <1>1 DEF SetToSeqs
<1>5. batch \in Surjection(1..n, S)
  <2>1. batch \in Injection(1..n, S)
    BY <1>4 DEF Injection, IsInjective
  <2>2. Cardinality(1..n) = n
    BY <1>3, FS_Interval
  <2>. QED
    BY <1>2, <2>1, <2>2, FS_Injection
<1>6. batch \in Seq(Keys)
  BY <1>2, <1>3, <1>4
<1>7. \A k \in S : \E i \in 1..n : batch[i] = k
  BY <1>5 DEF Surjection
<1>8. DOMAIN batch = 1..n
  BY <1>4
<1>. QED
  BY <1>6, <1>7, <1>8 DEF ToSet

(* A step of one command leaves the invariant if it leaves the command in  *)
(* order: no other request has one.                                        *)
LEMMA OneCommand ==
  ASSUME CmdInv, NEW p \in Procs, cmd[p] # NoCmd \/ p \in Readers,
         NEW c \in GetCmd \cup ScanCmd \cup ExecCmd \cup {NoCmd},
         cmd' = [cmd EXCEPT ![p] = c], c # NoCmd => p \in Readers,
         data' \in [Keys -> Contents], CmdOK(c)'
  PROVE  CmdInv'
<1>1. CmdTypeOK'
  BY DEF CmdInv, CmdTypeOK
<1>2. \A q \in Procs \ {p} : cmd[q] = NoCmd
  BY OneReader DEF CmdInv
<1>3. \A q \in Procs \ {p} : cmd'[q] = NoCmd
  BY <1>2 DEF CmdInv, CmdTypeOK
<1>4. cmd'[p] = c
  BY DEF CmdInv, CmdTypeOK
<1>5. ASSUME NEW q \in Procs
      PROVE  CmdOK(cmd[q])'
  <2>1. CASE q = p
    BY <1>4, <2>1 DEF CmdOK, GetOK, ScanOK, Present
  <2>2. CASE q # p
    BY <1>3, <2>2 DEF CmdOK, NoCmd
  <2>. QED
    BY <2>1, <2>2
<1>. QED
  BY <1>1, <1>5 DEF CmdInv

(* GetValue. *)
LEMMA GetKeepsInv ==
  ASSUME CmdInv, NEW p \in Procs,
         StartGet(p) \/ ReadType(p) \/ ReadTTL(p) \/ ReadValue(p)
  PROVE  CmdInv'
<1>0. CmdTypeOK /\ CmdOK(cmd[p]) /\ DOMAIN cmd = Procs
  BY DEF CmdInv, CmdTypeOK
<1>1. CASE StartGet(p)
  <2> DEFINE c == [op |-> "get", at |-> "type", key |-> Asked, steady |-> TRUE,
                   type |-> "", ttl |-> 0, value |-> ""]
  <2>0. c \in GetCmd /\ c.at = "type"
    BY DEF GetCmd
  <2>1. c \in GetCmd /\ CmdOK(c)' /\ c # NoCmd
    BY <2>0, Ops DEF CmdOK, GetOK
  <2>2. p \in Readers /\ cmd' = [cmd EXCEPT ![p] = c]
    BY <1>1 DEF StartGet, Start
  <2>3. data' \in [Keys -> Contents]
    BY <1>1 DEF StartGet, NoKeys, Contents
  <2> HIDE DEF c
  <2>. QED
    BY <2>1, <2>2, <2>3, OneCommand
<1>2. CASE cmd[p].op = "get" /\ (ReadType(p) \/ ReadTTL(p) \/ ReadValue(p))
  <2>0. /\ cmd[p] \in GetCmd /\ cmd[p] # NoCmd /\ p \in Readers /\ GetOK(cmd[p])
        /\ cmd[p].key \in Keys /\ data[cmd[p].key] \in Contents
    <3>1. cmd[p] \in GetCmd /\ cmd[p] # NoCmd
      BY <1>0, <1>2, Kinds
    <3>. QED
      BY <1>0, <1>2, <3>1, AskedIsKey DEF CmdTypeOK, CmdOK, GetCmd
  <2>1. \A v \in Contents : v.type \in Types /\ v.ttl \in {-2, -1, 1}
    BY DEF Contents, Gone, Types
  <2>2. CASE ReadType(p)
    <3>1. PICK c : /\ c = [cmd[p] EXCEPT !.at = "ttl", !.type = data[cmd[p].key].type]
                   /\ cmd' = [cmd EXCEPT ![p] = c] /\ data' = data
      BY <2>2 DEF ReadType, Step, GoOn
    <3>2. c \in GetCmd /\ c.at = "ttl" /\ c.type \in Types
      BY <2>0, <2>1, <3>1 DEF GetCmd
    <3>3. c # NoCmd /\ CmdOK(c)'
      BY <3>2, Ops DEF CmdOK, GetOK
    <3>. QED
      BY <1>0, <2>0, <3>1, <3>2, <3>3, OneCommand DEF CmdTypeOK
  <2>3. CASE ReadTTL(p)
    <3> DEFINE ttl == ttlToSeconds(Duration(data[cmd[p].key].ttl))
    <3>1. ttl \in Int
      <4>1. Duration(data[cmd[p].key].ttl) \in Int
        <5>1. \A n \in Int : Duration(n) \in Int
          BY Int64Assumption DEF Duration
        <5>2. data[cmd[p].key].ttl \in Int
          BY <2>0, <2>1
        <5>. QED
          BY <5>1, <5>2
      <4>2. \A d \in Int : d \div Second \in Int
        BY Int64Assumption
      <4>3. \A d \in Int : ttlToSeconds(d) \in Int
        BY <4>2 DEF ttlToSeconds
      <4>. QED
        BY <4>1, <4>3
    <3>2. PICK c \in {[cmd[p] EXCEPT !.at = "value", !.ttl = ttl],
                      [cmd[p] EXCEPT !.at = "value", !.steady = FALSE]} :
            cmd' = [cmd EXCEPT ![p] = c] /\ data' = data
      BY <2>3 DEF ReadTTL, Step, GoOn
    <3>3. At(p, "get", "ttl")
      BY <2>3 DEF ReadTTL
    <3> HIDE DEF ttl
    <3>4. c \in GetCmd /\ c # NoCmd /\ CmdOK(c)'
      BY <2>0, <3>1, <3>2, <3>3 DEF GetCmd, CmdOK, GetOK, NoCmd, At
    <3>. QED
      BY <1>0, <2>0, <3>2, <3>4, OneCommand DEF CmdTypeOK
  <2>4. CASE ReadValue(p)
    <3>1. PICK t, v, c :
            /\ t = cmd[p].type /\ v = data[cmd[p].key]
            /\ c = [cmd[p] EXCEPT !.at = "done",
                      !.value = IF t = "none" THEN "unsupported type: none" ELSE v.type]
            /\ cmd' = [cmd EXCEPT ![p] = c] /\ data' = data
            /\ t = "none" \/ Reads(t, v)
            /\ cmd[p].at = "value"
      <4>1. DOMAIN cmd[p] = {"op", "at", "key", "steady", "type", "ttl", "value"}
        BY <2>0 DEF GetCmd
      <4> QED
        BY <2>4, <4>1 DEF ReadValue, Step, GoOn, At
    <3>2. t \in Types /\ v.type \in Types
      BY <2>0, <2>1, <3>1 DEF GetOK
    <3>3. t \in {"string", "list"} => v.type = t \/ (t = "list" /\ v.type = "none")
      BY <3>1 DEF Reads, Gone
    <3>4. c \in GetCmd /\ c.type = t
      BY <2>0, <3>1, <3>2 DEF GetCmd, Types
    <3>5. c.value = IF t = "none" THEN "unsupported type: none" ELSE v.type
      BY <2>0, <3>1 DEF GetCmd
    <3>6. c # NoCmd /\ CmdOK(c)'
      BY <3>2, <3>3, <3>4, <3>5, Ops DEF CmdOK, GetOK, Types
    <3>. QED
      BY <1>0, <2>0, <3>1, <3>4, <3>6, OneCommand DEF CmdTypeOK
  <2>. QED
    BY <1>2, <2>2, <2>3, <2>4
<1>. QED
  BY <1>1, <1>2 DEF ReadType, ReadTTL, ReadValue, At

(* What was found stays found when a batch comes in. *)
LEMMA FoundStays ==
  ASSUME NEW s \in Seq(Keys), NEW t \in Seq(Keys)
  PROVE  s \o t \in Seq(Keys) /\ ToSet(s) \cup ToSet(t) \subseteq ToSet(s \o t)
<1> DEFINE u == s \o t
<1>1. /\ u \in Seq(Keys) /\ Len(u) = Len(s) + Len(t)
      /\ \A i \in 1..Len(s) : u[i] = s[i]
      /\ \A i \in 1..Len(t) : u[Len(s) + i] = t[i]
  <2>1. /\ u \in Seq(Keys) /\ Len(u) = Len(s) + Len(t)
        /\ \A i \in 1..Len(u) :
             u[i] = IF i <= Len(s) THEN s[i] ELSE t[i - Len(s)]
    BY ConcatProperties
  <2>2. Len(s) \in Nat /\ Len(t) \in Nat
    BY LenProperties
  <2> HIDE DEF u
  <2>3. ASSUME NEW i \in 1..Len(t)
        PROVE  u[Len(s) + i] = t[i]
    <3>1. /\ Len(s) + i \in 1..Len(u) /\ ~(Len(s) + i <= Len(s))
          /\ (Len(s) + i) - Len(s) = i
      BY <2>1, <2>2
    <3>. QED
      BY <2>1, <3>1
  <2>. QED
    BY <2>1, <2>2, <2>3
<1> HIDE DEF u
<1>2. /\ DOMAIN s = 1..Len(s) /\ DOMAIN t = 1..Len(t) /\ DOMAIN u = 1..Len(u)
      /\ Len(s) \in Nat /\ Len(t) \in Nat
  BY <1>1, LenProperties
<1>3. \A i \in 1..Len(s) : i \in 1..Len(u)
  BY <1>1, <1>2
<1>4. \A i \in 1..Len(t) : Len(s) + i \in 1..Len(u)
  BY <1>1, <1>2
<1>5. ToSet(s) \subseteq ToSet(u)
  BY <1>1, <1>2, <1>3 DEF ToSet
<1>6. ToSet(t) \subseteq ToSet(u)
  BY <1>1, <1>2, <1>4 DEF ToSet
<1>. QED
  BY <1>1, <1>5, <1>6 DEF u

(* One batch of a search. *)
LEMMA BatchKeepsInv ==
  ASSUME CmdInv, NEW p \in Procs, ScanBatch(p)
  PROVE  CmdInv'
<1>0. CmdTypeOK /\ CmdOK(cmd[p]) /\ cmd[p].op = "scan" /\ cmd[p].at = "batch"
  BY DEF CmdInv, ScanBatch, At
<1>1. PICK old : old = cmd[p]
  OBVIOUS
<1>2. /\ old \in ScanCmd /\ cmd[p] # NoCmd /\ p \in Readers
      /\ old.op = "scan" /\ old.at = "batch"
  BY <1>0, <1>1, Kinds DEF CmdTypeOK
<1>3. /\ old.steady \subseteq Present
      /\ \A k \in old.steady : Bucket[k] < old.cursor => k \in ToSet(old.found)
  BY <1>0, <1>1 DEF CmdOK, ScanOK
<1>41. PICK batch \in Batches(old.cursor) : \E found :
        /\ found = old.found \o batch
        /\ IF EndsScan(old.cursor, found, batch, old.limit)
           THEN Step(p, [old EXCEPT !.at = "done",
                          !.found = IF Len(found) > old.limit
                                    THEN SubSeq(found, 1, old.limit) ELSE found])
           ELSE Step(p, [old EXCEPT !.cursor = @ + 1, !.found = found])
  BY <1>1 DEF ScanBatch
<1>4. PICK found :
        /\ found = old.found \o batch
        /\ IF EndsScan(old.cursor, found, batch, old.limit)
           THEN Step(p, [old EXCEPT !.at = "done",
                          !.found = IF Len(found) > old.limit
                                    THEN SubSeq(found, 1, old.limit) ELSE found])
           ELSE Step(p, [old EXCEPT !.cursor = @ + 1, !.found = found])
  BY <1>41
<1>5. /\ batch \in Seq(Keys)
      /\ \A k \in Present : Bucket[k] = old.cursor => k \in ToSet(batch)
  BY <1>0, BatchFacts
<1>6. found \in Seq(Keys) /\ ToSet(old.found) \cup ToSet(batch) \subseteq ToSet(found)
  BY <1>2, <1>4, <1>5, FoundStays DEF ScanCmd
<1>7. old.cursor \in 1..Cursors /\ old.limit \in Nat \ {0} /\ old.steady \subseteq Keys
  BY <1>2 DEF ScanCmd
<1>8. Bucket \in [Keys -> 1..Cursors] /\ Cursors \in Nat \ {0}
  BY CommandsAssumption
<1>9. data \in [Keys -> Contents]
  BY <1>0 DEF CmdTypeOK
<1>10. \A k \in old.steady : Bucket[k] < old.cursor + 1 => k \in ToSet(found)
  <2> SUFFICES ASSUME NEW k \in old.steady, Bucket[k] < old.cursor + 1
               PROVE  k \in ToSet(found)
    OBVIOUS
  <2>1. Bucket[k] < old.cursor \/ Bucket[k] = old.cursor
    BY <1>7, <1>8
  <2>. QED
    BY <2>1, <1>3, <1>5, <1>6
<1>11. CASE EndsScan(old.cursor, found, batch, old.limit)
  <2>1. PICK kept : kept = IF Len(found) > old.limit
                           THEN SubSeq(found, 1, old.limit) ELSE found
    OBVIOUS
  <2>2. PICK c : /\ c = [old EXCEPT !.at = "done", !.found = kept]
                 /\ cmd' = [cmd EXCEPT ![p] = c] /\ data' = data
    BY <1>4, <1>11, <2>1 DEF Step, GoOn
  <2>3. Len(found) \in Nat
    BY <1>6, LenProperties
  <2>4. /\ kept \in Seq(Keys)
        /\ Len(found) > old.limit => Len(kept) = old.limit
        /\ ~(Len(found) > old.limit) => kept = found
    <3>1. CASE Len(found) > old.limit
      <4>1. 1 \in 1..(Len(found) + 1) /\ old.limit \in 0..Len(found)
        BY <1>7, <2>3, <3>1
      <4>2. SubSeq(found, 1, old.limit) \in Seq(Keys)
            /\ Len(SubSeq(found, 1, old.limit)) = old.limit
        BY <1>6, <1>7, <4>1, SubSeqProperties
      <4>. QED
        BY <2>1, <3>1, <4>2
    <3>. QED
      BY <1>6, <2>1, <3>1
  <2>5. c \in ScanCmd
    BY <1>2, <2>2, <2>4 DEF ScanCmd
  <2>6. /\ c.at = "done" /\ c.limit = old.limit /\ c.found = kept
        /\ c.steady = old.steady /\ c.op = "scan"
    BY <1>2, <2>2 DEF ScanCmd
  <2>7. old.limit * maxScanBatches < Half =>
          \/ Len(kept) = old.limit
          \/ Len(kept) < old.limit /\ old.steady \subseteq ToSet(kept)
    <3>1. CASE old.cursor = Cursors
      <4>1. \A k \in old.steady : Bucket[k] < old.cursor + 1
        BY <1>7, <1>8, <3>1
      <4>2. old.steady \subseteq ToSet(found)
        BY <1>10, <4>1
      <4>. QED
        BY <1>7, <2>3, <2>4, <4>2
    <3>2. CASE old.cursor # Cursors
      <4>1. Len(found) >= Wrapped(old.limit * maxScanBatches)
        BY <1>11, <3>2 DEF EndsScan
      <4>2. old.limit * maxScanBatches \in Nat
        BY <1>7, CommandsAssumption
      <4>3. old.limit * maxScanBatches < Half => Len(found) > old.limit
        BY <1>7, <2>3, <4>1, <4>2, Unwrapped
      <4>. QED
        BY <2>4, <4>3
    <3>. QED
      BY <3>1, <3>2
  <2>8. CmdOK(c)' /\ c # NoCmd
    BY <2>5, <2>6, <2>7, Ops DEF CmdOK, ScanOK
  <2>. QED
    BY <1>2, <1>9, <2>2, <2>5, <2>8, OneCommand
<1>12. CASE ~EndsScan(old.cursor, found, batch, old.limit)
  <2>1. PICK c : /\ c = [old EXCEPT !.cursor = @ + 1, !.found = found]
                 /\ cmd' = [cmd EXCEPT ![p] = c] /\ data' = data
    BY <1>4, <1>12 DEF Step, GoOn
  <2>2. old.cursor + 1 \in 1..Cursors
    BY <1>7, <1>8, <1>12 DEF EndsScan
  <2>3. c \in ScanCmd
    BY <1>2, <1>6, <2>1, <2>2 DEF ScanCmd
  <2>4. /\ c.at = "batch" /\ c.cursor = old.cursor + 1 /\ c.found = found
        /\ c.steady = old.steady /\ c.op = "scan"
    BY <1>2, <2>1 DEF ScanCmd
  <2>5. CmdOK(c)' /\ c # NoCmd
    BY <1>3, <1>10, <2>1, <2>3, <2>4, Ops DEF CmdOK, ScanOK, Present
  <2>. QED
    BY <1>2, <1>9, <2>1, <2>3, <2>5, OneCommand
<1>. QED
  BY <1>11, <1>12

(* A search or a line of words begins, and a request ends. *)
LEMMA EndsKeepInv ==
  ASSUME CmdInv, NEW p \in Procs, StartScan(p) \/ Exec(p) \/ Reply(p)
  PROVE  CmdInv'
<1>0. CmdTypeOK /\ data \in [Keys -> Contents]
  BY DEF CmdInv, CmdTypeOK
<1>1. CASE StartScan(p)
  <2>10. PICK n \in Limits : \E c :
          /\ c = [op |-> "scan", at |-> "batch", cursor |-> 1, limit |-> Limit(n),
                  found |-> << >>, steady |-> {k \in Keys : data'[k] # Gone}]
          /\ cmd' = [cmd EXCEPT ![p] = c] /\ p \in Readers
    BY <1>1 DEF StartScan, Start
  <2>1. PICK c :
          /\ c = [op |-> "scan", at |-> "batch", cursor |-> 1, limit |-> Limit(n),
                  found |-> << >>, steady |-> {k \in Keys : data'[k] # Gone}]
          /\ cmd' = [cmd EXCEPT ![p] = c] /\ p \in Readers
    BY <2>10
  <2>2. Limit(n) \in Nat \ {0} /\ Cursors \in Nat \ {0}
    BY CommandsAssumption DEF Limit
  <2>3. c \in ScanCmd
    BY <2>1, <2>2, EmptySeq DEF ScanCmd
  <2>4. data' \in [Keys -> Contents]
    BY <1>1 DEF StartScan, Contents, Lasting
  <2>5. \A k \in Keys : ~(Bucket[k] < 1)
    BY CommandsAssumption
  <2>6. CmdOK(c)' /\ c # NoCmd
    <3>1. c.op = "scan" /\ c.at = "batch" /\ c.cursor = 1
          /\ c.steady = {k \in Keys : data'[k] # Gone}
      BY <2>1
    <3>. QED
      BY <2>3, <2>5, <3>1, Ops DEF CmdOK, ScanOK, Present
  <2>. QED
    BY <2>1, <2>3, <2>4, <2>6, OneCommand
<1>2. CASE Exec(p)
  <2>10. PICK l \in Lines : \E c :
          /\ c = [op |-> "exec", at |-> "done", words |-> l.words, args |-> l.args]
          /\ cmd' = [cmd EXCEPT ![p] = c] /\ p \in Readers /\ data' = data
    BY <1>2 DEF Exec, Start
  <2>1. PICK c :
          /\ c = [op |-> "exec", at |-> "done", words |-> l.words, args |-> l.args]
          /\ cmd' = [cmd EXCEPT ![p] = c] /\ p \in Readers /\ data' = data
    BY <2>10
  <2>2. c \in ExecCmd
    BY <2>1 DEF ExecCmd
  <2>3. CmdOK(c)' /\ c # NoCmd
    BY <2>2, Ops DEF CmdOK
  <2>. QED
    BY <1>0, <2>1, <2>2, <2>3, OneCommand
<1>3. CASE Reply(p)
  <2>1. cmd' = [cmd EXCEPT ![p] = NoCmd]
    BY <1>3 DEF Reply
  <2>2. CmdOK(NoCmd)'
    BY Ops DEF CmdOK
  <2>3. CASE p \in Readers
    <3>1. data' \in [Keys -> Contents]
      BY <1>3, <2>3 DEF Reply, NoKeys, Contents
    <3>. QED
      BY <2>1, <2>2, <2>3, <3>1, OneCommand
  <2>4. CASE p \notin Readers
    <3>1. cmd[p] = NoCmd /\ data' = data
      BY <1>0, <1>3, <2>4 DEF CmdTypeOK, Reply
    <3>2. cmd' = cmd
      BY <1>0, <2>1, <3>1 DEF CmdTypeOK
    <3>. QED
      BY <3>1, <3>2 DEF CmdInv, CmdTypeOK, CmdOK, GetOK, ScanOK, Present
  <2>. QED
    BY <2>3, <2>4
<1>. QED
  BY <1>1, <1>2, <1>3

(* Another client changes a key that is being read or searched. *)
LEMMA TouchKeepsInv ==
  ASSUME CmdInv, NEW p \in Procs, Touch(p)
  PROVE  CmdInv'
<1>0. CmdTypeOK /\ CmdOK(cmd[p]) /\ data \in [Keys -> Contents]
  BY DEF CmdInv, CmdTypeOK
<1>1. PICK old : old = cmd[p]
  OBVIOUS
<1>2. CASE cmd[p].op = "get"
  <2>1. old \in GetCmd /\ cmd[p] # NoCmd /\ p \in Readers
    BY <1>0, <1>1, <1>2, Kinds DEF CmdTypeOK
  <2>2. PICK c : c = [old EXCEPT !.steady = FALSE] /\ cmd' = [cmd EXCEPT ![p] = c]
    BY <1>1, <1>2 DEF Touch, At
  <2>3. data' \in [Keys -> Contents]
    BY <1>0, <1>2 DEF Touch, At
  <2>4. /\ c \in GetCmd /\ c.at = old.at /\ c.type = old.type
        /\ c.value = old.value
    BY <2>1, <2>2 DEF GetCmd
  <2>5. CmdOK(c)' /\ c # NoCmd
    BY <1>0, <1>1, <1>2, <2>4, Ops DEF CmdOK, GetOK
  <2>. QED
    BY <2>1, <2>2, <2>3, <2>4, <2>5, OneCommand
<1>3. CASE At(p, "scan", "batch")
  <2>1. old \in ScanCmd /\ cmd[p] # NoCmd /\ p \in Readers /\ old.at = "batch"
    BY <1>0, <1>1, <1>3, Kinds DEF CmdTypeOK, At
  <2>20. PICK k \in Keys : \E c :
          /\ c = [old EXCEPT !.steady = @ \ {k}]
          /\ cmd' = [cmd EXCEPT ![p] = c]
          /\ data' = [data EXCEPT ![k] = IF @ = Gone THEN Lasting ELSE Gone]
    BY <1>1, <1>3 DEF Touch, At
  <2>2. PICK c :
          /\ c = [old EXCEPT !.steady = @ \ {k}]
          /\ cmd' = [cmd EXCEPT ![p] = c]
          /\ data' = [data EXCEPT ![k] = IF @ = Gone THEN Lasting ELSE Gone]
    BY <2>20
  <2>3. data' \in [Keys -> Contents]
    BY <1>0, <2>2 DEF Contents, Lasting
  <2>4. /\ c \in ScanCmd /\ c.at = "batch" /\ c.cursor = old.cursor
        /\ c.found = old.found /\ c.steady = old.steady \ {k}
    BY <2>1, <2>2 DEF ScanCmd
  <2>5. old.steady \subseteq Present /\ old.steady \subseteq Keys
    BY <1>0, <1>1, <1>3, <2>1 DEF CmdOK, ScanOK, At, ScanCmd
  <2>6. c.steady \subseteq Present'
    BY <1>0, <2>2, <2>4, <2>5 DEF Present
  <2>7. CmdOK(c)' /\ c # NoCmd
    BY <1>0, <1>1, <1>3, <2>1, <2>4, <2>6, Ops DEF CmdOK, ScanOK, At
  <2>. QED
    BY <2>1, <2>2, <2>3, <2>4, <2>7, OneCommand
<1>. QED
  BY <1>2, <1>3 DEF Touch

LEMMA CommandsInvariant == CommandsSpec => []CmdInv
<1>1. CommandsInit => CmdInv
  <2> SUFFICES ASSUME CommandsInit PROVE CmdInv
    OBVIOUS
  <2>1. CmdTypeOK
    BY DEF CommandsInit, CmdTypeOK, NoKeys, Contents
  <2>2. \A p \in Procs : CmdOK(cmd[p])
    BY Ops DEF CommandsInit, CmdOK
  <2>. QED
    BY <2>1, <2>2 DEF CmdInv
<1>2. CmdInv /\ [CommandsNext]_commandvars => CmdInv'
  <2> SUFFICES ASSUME CmdInv, [CommandsNext]_commandvars PROVE CmdInv'
    OBVIOUS
  <2>1. CASE UNCHANGED <<data, cmd>>
    BY <2>1 DEF CmdInv, CmdTypeOK, CmdOK, GetOK, ScanOK, Present
  <2>2. ASSUME NEW p \in Procs, CommandSteps(p) \/ Touch(p)
        PROVE  CmdInv'
    BY <2>2, GetKeepsInv, BatchKeepsInv, EndsKeepInv, TouchKeepsInv
       DEF CommandSteps
  <2>3. CASE UNCHANGED commandvars
    BY <2>1, <2>3 DEF commandvars
  <2>. QED
    BY <2>1, <2>2, <2>3 DEF CommandsNext
<1>. QED
  BY <1>1, <1>2, PTL DEF CommandsSpec

(* GetValue never shows one type with the value of another, whatever other *)
(* clients do to the key between its commands.                             *)
THEOREM ValueOfTypeHolds == CommandsSpec => []ValueOfType
<1>1. CmdInv => ValueOfType
  BY DEF CmdInv, CmdOK, GetOK, ValueOfType, Done, At
<1>. QED
  BY <1>1, CommandsInvariant, PTL

(* ScanKeys answers with fewer keys than its limit only when it has every  *)
(* key that was there all along, unless limit*maxScanBatches overflows.    *)
THEOREM ScanCompleteHolds == CommandsSpec => []ScanComplete
<1>1. CmdInv => ScanComplete
  BY DEF CmdInv, CmdOK, ScanOK, ScanComplete, Done, At, Steady
<1>. QED
  BY <1>1, CommandsInvariant, PTL

-----------------------------------------------------------------------------
(* The arguments of a line. *)

(* What a line is made of, and what the loop of splitCmd has.              *)
Letters == Chars \cup {"blank", "quote"}

Splits == [parts : Seq(Seq(Letters)), cur : Seq(Letters), inQ : BOOLEAN]

Nothing == [parts |-> <<>>, cur |-> <<>>, inQ |-> FALSE]

(* Reading s leads from a to b. *)
Reading(f, a, s, b) ==
  /\ f \in [0..Len(s) -> Splits] /\ f[0] = a /\ f[Len(s)] = b
  /\ \A n \in 1..Len(s) : f[n] = ReadChar(f[n - 1], s[n])

Leads(a, s, b) == s \in Seq(Letters) /\ \E f : Reading(f, a, s, b)

LEMMA ReadCharType ==
  ASSUME NEW a \in Splits, NEW c \in Letters
  PROVE  /\ ReadChar(a, c) \in Splits
         /\ ~a.inQ => ReadChar(a, "blank") =
                        [parts |-> Ended(a), cur |-> <<>>, inQ |-> FALSE]
<1>1. /\ a.parts \in Seq(Seq(Letters)) /\ a.cur \in Seq(Letters)
      /\ <<>> \in Seq(Letters)
  BY EmptySeq DEF Splits
<1>2. Append(a.parts, a.cur) \in Seq(Seq(Letters)) /\ Append(a.cur, c) \in Seq(Letters)
  BY <1>1, AppendProperties
<1>3. Ended(a) \in Seq(Seq(Letters))
  BY <1>1, <1>2 DEF Ended
<1>4. ReadChar(a, c) \in Splits
  BY <1>1, <1>2, <1>3 DEF ReadChar, Splits
<1>5. ASSUME ~a.inQ
      PROVE  ReadChar(a, "blank") = [parts |-> Ended(a), cur |-> <<>>, inQ |-> FALSE]
  <2>1. ReadChar(a, "blank") = [a EXCEPT !.parts = Ended(a), !.cur = <<>>]
    BY <1>5 DEF ReadChar
  <2>. QED
    BY <1>5, <2>1 DEF Splits
<1>. QED
  BY <1>4, <1>5

LEMMA LeadsOne ==
  ASSUME NEW a \in Splits, NEW c \in Letters
  PROVE  Leads(a, <<c>>, ReadChar(a, c))
<1> DEFINE f == [n \in 0..1 |-> IF n = 0 THEN a ELSE ReadChar(a, c)]
<1>1. PICK s \in Seq(Letters) : s = <<c>> /\ Len(s) = 1 /\ s[1] = c
  <2>1. <<c>> \in Seq(Letters) /\ Len(<<c>>) = 1 /\ <<c>>[1] = c
    OBVIOUS
  <2>. QED
    BY <2>1, Zenon
<1>2. f \in [0..1 -> Splits] /\ f[0] = a /\ f[1] = ReadChar(a, c)
  BY ReadCharType
<1> HIDE DEF f
<1>3. \A n \in 1..1 : f[n] = ReadChar(f[n - 1], s[n])
  BY <1>1, <1>2
<1>4. Reading(f, a, s, ReadChar(a, c))
  BY <1>1, <1>2, <1>3 DEF Reading
<1>. QED
  BY <1>1, <1>4 DEF Leads

LEMMA LeadsOn ==
  ASSUME NEW a, NEW s, NEW b, NEW t, NEW c, Leads(a, s, b), Leads(b, t, c)
  PROVE  Leads(a, s \o t, c)
<1>1. PICK f : Reading(f, a, s, b)
  BY DEF Leads
<1>2. PICK g : Reading(g, b, t, c)
  BY DEF Leads
<1>3. s \in Seq(Letters) /\ t \in Seq(Letters)
  BY DEF Leads
<1>4. PICK M \in Nat, N \in Nat : M = Len(s) /\ N = Len(t)
  BY <1>3, LenProperties
<1>5. PICK u \in Seq(Letters) :
        /\ u = s \o t /\ Len(u) = M + N
        /\ \A k \in 1..(M + N) : u[k] = IF k <= M THEN s[k] ELSE t[k - M]
  <2>1. /\ s \o t \in Seq(Letters) /\ Len(s \o t) = Len(s) + Len(t)
        /\ \A k \in 1..(Len(s) + Len(t)) :
             (s \o t)[k] = IF k <= Len(s) THEN s[k] ELSE t[k - Len(s)]
    BY <1>3, ConcatProperties
  <2>. QED
    BY <1>4, <2>1
<1>6. /\ f \in [0..M -> Splits] /\ f[0] = a /\ f[M] = b
      /\ \A n \in 1..M : f[n] = ReadChar(f[n - 1], s[n])
  BY <1>1, <1>4 DEF Reading
<1>7. /\ g \in [0..N -> Splits] /\ g[0] = b /\ g[N] = c
      /\ \A n \in 1..N : g[n] = ReadChar(g[n - 1], t[n])
  BY <1>2, <1>4 DEF Reading
<1> DEFINE h == [n \in 0..(M + N) |-> IF n <= M THEN f[n] ELSE g[n - M]]
<1>8. /\ \A n \in 0..M : h[n] = f[n]
      /\ \A n \in 0..N : h[M + n] = g[n]
  <2>1. \A n \in 0..M : h[n] = f[n]
    OBVIOUS
  <2>2. ASSUME NEW n \in 0..N PROVE h[M + n] = g[n]
    <3>1. M + n \in 0..(M + N) /\ (M + n) - M = n /\ (M + n <= M <=> n = 0)
      OBVIOUS
    <3>2. CASE n = 0
      BY <1>6, <1>7, <3>1, <3>2
    <3>3. CASE n # 0
      BY <3>1, <3>3
    <3>. QED
      BY <3>2, <3>3
  <2>. QED
    BY <2>1, <2>2
<1>9. h \in [0..(M + N) -> Splits]
  <2>1. ASSUME NEW n \in 0..(M + N) PROVE (IF n <= M THEN f[n] ELSE g[n - M]) \in Splits
    BY <1>6, <1>7
  <2>. QED
    BY <2>1
<1> HIDE DEF h
<1>10. ASSUME NEW n \in 1..(M + N) PROVE h[n] = ReadChar(h[n - 1], u[n])
  <2>1. CASE n <= M
    <3>1. n \in 1..M /\ n \in 0..M /\ n - 1 \in 0..M
      BY <2>1
    <3>. QED
      BY <1>5, <1>6, <1>8, <2>1, <3>1
  <2>2. CASE ~(n <= M)
    <3>1. PICK k \in 1..N : n = M + k /\ n - M = k /\ n - 1 = M + (k - 1) /\ k - 1 \in 0..N /\ k \in 0..N
      <4>1. n - M \in 1..N /\ n = M + (n - M) /\ n - 1 = M + ((n - M) - 1)
        BY <2>2
      <4>2. PICK k \in 1..N : k = n - M
        BY <4>1
      <4>. QED
        BY <4>1, <4>2
    <3>2. h[n] = g[k] /\ h[n - 1] = g[k - 1] /\ u[n] = t[k]
      BY <1>5, <1>8, <2>2, <3>1
    <3>. QED
      BY <1>7, <3>2
  <2>. QED
    BY <2>1, <2>2
<1>11. h[0] = a /\ h[M + N] = c
  <2>1. 0 \in 0..M /\ N \in 0..N
    OBVIOUS
  <2>. QED
    BY <1>6, <1>7, <1>8, <2>1
<1>12. Reading(h, a, u, c)
  BY <1>5, <1>9, <1>10, <1>11 DEF Reading
<1>. QED
  BY <1>5, <1>12 DEF Leads

(* Without quotes, and without blanks that are not between quotes, what is *)
(* read goes to the argument that is read.                                 *)
LEMMA LeadsWord ==
  ASSUME NEW a \in Splits, NEW w \in Seq(Chars), a.cur = <<>>,
         a.inQ \/ ~Contains(w, "blank")
  PROVE  Leads(a, w, [a EXCEPT !.cur = w])
<1>1. PICK N \in Nat : N = Len(w)
  BY LenProperties
<1>2. w \in Seq(Letters) /\ \A n \in 1..N : w[n] \in Chars
  BY <1>1, ElementOfSeq, CommandsAssumption DEF Letters
<1>3. \A n \in 1..N : w[n] # "quote" /\ (a.inQ \/ w[n] # "blank")
  BY <1>1, <1>2, CommandsAssumption DEF Contains
<1> DEFINE f == [n \in 0..N |-> [a EXCEPT !.cur = SubSeq(w, 1, n)]]
<1>4. \A n \in 0..N : SubSeq(w, 1, n) \in Seq(Letters)
  <2> TAKE n \in 0..N
  <2>1. \A i \in 1..n : w[i] \in Letters
    BY <1>2 DEF Letters
  <2>. QED
    BY <2>1, SubSeqProperties
<1>5. f \in [0..N -> Splits]
  BY <1>4 DEF Splits
<1>6. ASSUME NEW n \in 1..N PROVE Append(SubSeq(w, 1, n - 1), w[n]) = SubSeq(w, 1, n)
  <2>1. SubSeq(w, 1, n) = SubSeq(w, 1, n - 1) \o <<w[n]>>
    BY <1>1, <1>2, SubSeqRecursiveSecond
  <2>2. PICK e \in Letters : e = w[n]
    BY <1>2 DEF Letters
  <2>3. n - 1 \in 0..N
    OBVIOUS
  <2>4. PICK v \in Seq(Letters) : v = SubSeq(w, 1, n - 1)
    BY <1>4, <2>3
  <2>5. Append(v, e) = v \o <<e>>
    BY AppendIsConcat
  <2>. QED
    BY <2>1, <2>2, <2>4, <2>5
<1>7. ASSUME NEW n \in 1..N PROVE f[n] = ReadChar(f[n - 1], w[n])
  <2>0. n - 1 \in 0..N /\ n \in 0..N
    OBVIOUS
  <2>1. PICK v \in Seq(Letters) : v = SubSeq(w, 1, n - 1)
    BY <1>4, <2>0
  <2>2. PICK b \in Splits : b = [a EXCEPT !.cur = v] /\ b = f[n - 1]
    BY <1>5, <2>0, <2>1
  <2>3. ReadChar(b, w[n]) = [b EXCEPT !.cur = Append(@, w[n])]
    BY <1>3, <2>2 DEF ReadChar, Splits
  <2>4. ReadChar(b, w[n]) = [a EXCEPT !.cur = Append(v, w[n])]
    BY <2>2, <2>3 DEF Splits
  <2>5. Append(v, w[n]) = SubSeq(w, 1, n)
    BY <1>6, <2>1
  <2>6. f[n] = [a EXCEPT !.cur = SubSeq(w, 1, n)]
    BY <2>0
  <2>. QED
    BY <2>2, <2>4, <2>5, <2>6
<1>8. f[0] = a /\ f[N] = [a EXCEPT !.cur = w]
  <2>1. SubSeq(w, 1, 0) = <<>> /\ SubSeq(w, 1, N) = w
    BY <1>1, <1>2, SubSeqEmpty, SubSeqFull
  <2>2. 0 \in 0..N /\ N \in 0..N
    OBVIOUS
  <2>3. f[0] = [a EXCEPT !.cur = SubSeq(w, 1, 0)] /\ f[N] = [a EXCEPT !.cur = SubSeq(w, 1, N)]
    BY <2>2
  <2>4. f[0] = [a EXCEPT !.cur = <<>>] /\ f[N] = [a EXCEPT !.cur = w]
    BY <2>1, <2>3
  <2>5. a = [a EXCEPT !.cur = a.cur]
    BY DEF Splits
  <2>. QED
    BY <2>4, <2>5
<1> HIDE DEF f
<1>9. Reading(f, a, w, [a EXCEPT !.cur = w])
  BY <1>1, <1>5, <1>7, <1>8 DEF Reading
<1>. QED
  BY <1>2, <1>9 DEF Leads

(* A word is read as it is written, in quotes or not. *)
LEMMA LeadsWritten ==
  ASSUME NEW a \in Splits, NEW w \in Seq(Chars), a.cur = <<>>, ~a.inQ
  PROVE  Leads(a, Written(w), [a EXCEPT !.cur = w])
<1>1. CASE w = <<>> \/ Contains(w, "blank")
  <2>1. PICK b \in Splits : b = [a EXCEPT !.inQ = TRUE] /\ b = ReadChar(a, "quote")
    BY DEF ReadChar, Splits
  <2>2. b.cur = <<>> /\ b.inQ
    BY <2>1 DEF Splits
  <2>3. w \in Seq(Letters)
    BY DEF Letters
  <2>4. PICK c \in Splits : c = [b EXCEPT !.cur = w]
    BY <2>3 DEF Splits
  <2>5. ReadChar(c, "quote") = [a EXCEPT !.cur = w]
    <3>1. ReadChar(c, "quote") = [c EXCEPT !.inQ = FALSE]
      BY <2>2, <2>4 DEF ReadChar, Splits
    <3>. QED
      BY <2>1, <2>4, <3>1 DEF Splits
  <2>6. Leads(a, <<"quote">>, b)
    BY <2>1, LeadsOne DEF Letters
  <2>7. Leads(b, w, c)
    BY <2>2, <2>4, LeadsWord
  <2>8. Leads(a, <<"quote">> \o w, c)
    BY <2>6, <2>7, LeadsOn
  <2>9. Leads(c, <<"quote">>, ReadChar(c, "quote"))
    BY LeadsOne DEF Letters
  <2>10. Leads(a, (<<"quote">> \o w) \o <<"quote">>, [a EXCEPT !.cur = w])
    BY <2>5, <2>8, <2>9, LeadsOn
  <2>. QED
    BY <1>1, <2>10 DEF Written
<1>2. CASE ~(w = <<>> \/ Contains(w, "blank"))
  BY <1>2, LeadsWord DEF Written
<1>. QED
  BY <1>1, <1>2

(* Blanks that are not between quotes end the argument that is read, if it *)
(* has a character.                                                        *)
Seps == {<<"blank">>, <<"blank", "blank">>}

LEMMA LeadsSep ==
  ASSUME NEW a \in Splits, ~a.inQ, NEW sep \in Seps
  PROVE  Leads(a, sep, [parts |-> Ended(a), cur |-> <<>>, inQ |-> FALSE])
<1>1. PICK b : b = [parts |-> Ended(a), cur |-> <<>>, inQ |-> FALSE]
  OBVIOUS
<1>3. ReadChar(a, "blank") = b
  BY <1>1, ReadCharType DEF Letters
<1>4. b \in Splits
  BY <1>3, ReadCharType DEF Letters
<1>5. ReadChar(b, "blank") = b
  <2>1. Ended(b) = b.parts /\ ~b.inQ
    BY <1>1 DEF Ended
  <2>2. ReadChar(b, "blank") = [parts |-> Ended(b), cur |-> <<>>, inQ |-> FALSE]
    BY <1>4, <2>1, ReadCharType DEF Letters
  <2>. QED
    BY <1>1, <2>1, <2>2
<1>6. Leads(a, <<"blank">>, b) /\ Leads(b, <<"blank">>, b)
  BY <1>3, <1>4, <1>5, LeadsOne DEF Letters
<1>7. Leads(a, <<"blank">> \o <<"blank">>, b)
  BY <1>6, LeadsOn
<1>8. <<"blank">> \o <<"blank">> = <<"blank", "blank">>
  <2>1. PICK s \in Seq({"blank"}) : s = <<"blank">> /\ Len(s) = 1 /\ s[1] = "blank"
    <3>1. <<"blank">> \in Seq({"blank"}) /\ Len(<<"blank">>) = 1 /\ <<"blank">>[1] = "blank"
      OBVIOUS
    <3>. QED
      BY <3>1, Zenon
  <2>2. PICK t \in Seq({"blank"}) :
          t = <<"blank", "blank">> /\ Len(t) = 2 /\ t[1] = "blank" /\ t[2] = "blank"
    <3>1. /\ <<"blank", "blank">> \in Seq({"blank"}) /\ Len(<<"blank", "blank">>) = 2
          /\ <<"blank", "blank">>[1] = "blank" /\ <<"blank", "blank">>[2] = "blank"
      OBVIOUS
    <3>. QED
      BY <3>1, Zenon
  <2>3. /\ s \o s \in Seq({"blank"}) /\ Len(s \o s) = Len(s) + Len(s)
        /\ \A k \in 1..(Len(s) + Len(s)) :
             (s \o s)[k] = IF k <= Len(s) THEN s[k] ELSE s[k - Len(s)]
    BY ConcatProperties
  <2>4. PICK u \in Seq({"blank"}) : u = s \o s
    BY <2>3
  <2>5. /\ Len(u) = Len(s) + Len(s)
         /\ \A k \in 1..(Len(s) + Len(s)) : u[k] = IF k <= Len(s) THEN s[k] ELSE s[k - Len(s)]
    BY <2>3, <2>4
  <2>6. /\ Len(u) = 2
         /\ \A k \in 1..2 : u[k] = IF k <= 1 THEN s[k] ELSE s[k - 1]
    BY <2>1, <2>5
  <2>7. u = s \o s /\ Len(u) = 2 /\ u[1] = "blank" /\ u[2] = "blank"
    <3>1. 1 \in 1..2 /\ 2 \in 1..2 /\ 2 - 1 = 1
      OBVIOUS
    <3>. QED
      BY <2>1, <2>4, <2>6, <3>1
  <2>8. \A k \in 1..2 : k = 1 \/ k = 2
    OBVIOUS
  <2>9. u = t
    BY <2>2, <2>7, <2>8, SeqEqual
  <2>. QED
    BY <2>1, <2>2, <2>7, <2>9
<1>. QED
  BY <1>1, <1>6, <1>7, <1>8 DEF Seps

(* The loop of splitCmd arrives where reading leads. *)
LEMMA ReadUpToLeads ==
  ASSUME NEW s, NEW b, Leads(Nothing, s, b)
  PROVE  ReadUpTo(s) = b
<1>1. PICK f : Reading(f, Nothing, s, b)
  BY DEF Leads
<1>2. PICK N \in Nat : N = Len(s)
  BY LenProperties DEF Leads
<1> DEFINE Round(h, n) == IF n = 0 THEN Nothing ELSE ReadChar(h[n - 1], s[n])
           g == CHOOSE h : h = [n \in 0..N |-> IF n = 0 THEN Nothing ELSE ReadChar(h[n - 1], s[n])]
<1>3. f \in [0..N -> Splits] /\ f[N] = b /\ \A n \in 0..N : f[n] = Round(f, n)
  BY <1>1, <1>2 DEF Reading
<1>4. g = [n \in 0..N |-> Round(g, n)]
  <2>1. f = [n \in 0..N |-> Round(f, n)]
    BY <1>3
  <2>. QED
    BY <2>1
<1>5. ReadUpTo(s) = g[N]
  BY <1>2 DEF ReadUpTo, Nothing
<1> HIDE DEF g
<1> DEFINE T == {n \in Nat : n <= N => g[n] = f[n]}
<1>6. 0 \in T
  BY <1>3, <1>4
<1>7. ASSUME NEW n \in Nat, n \in T PROVE n + 1 \in T
  <2> SUFFICES ASSUME n + 1 <= N PROVE g[n + 1] = f[n + 1]
    OBVIOUS
  <2>1. g[n] = f[n] /\ n + 1 \in 0..N /\ n + 1 # 0 /\ (n + 1) - 1 = n
    BY <1>7
  <2>2. g[n + 1] = Round(g, n + 1) /\ f[n + 1] = Round(f, n + 1)
    BY <1>3, <1>4, <2>1
  <2>. QED
    BY <2>1, <2>2
<1>8. N \in T
  <2> HIDE DEF T
  <2>. QED
    BY <1>6, <1>7, Induction
<1>. QED
  BY <1>3, <1>5, <1>8

(* Of a line of words, splitCmd makes the words that are not empty. *)
LEMMA SplitLine ==
  ASSUME NEW words \in Seq(Seq(Chars)), NEW sep \in Seps
  PROVE  splitCmd(Line(words, sep)) = Sift(words, {i \in DOMAIN words : words[i] # <<>>})
<1> DEFINE I == {i \in DOMAIN words : words[i] # <<>>}
<1>1. PICK N \in Nat : N = Len(words) /\ DOMAIN words = 1..N
  BY LenProperties
<1>2. \A n \in 1..N : words[n] \in Seq(Chars)
  BY <1>1, ElementOfSeq
<1>3. PICK f : IsSifting(f, words, I, N) /\ Sift(words, I) = f[N]
  BY <1>1, SiftUnfolds
<1>4. \A n \in 0..N : f[n] = SiftStep(f, words, I, n)
  BY <1>3 DEF IsSifting
<1>5. \A w \in Seq(Chars) : Written(w) \in Seq(Letters)
  <2>1. Nothing \in Splits /\ Nothing.cur = <<>> /\ ~Nothing.inQ
    BY EmptySeq DEF Nothing, Splits
  <2>. QED
    BY <2>1, LeadsWritten DEF Leads
<1>6. sep \in Seq(Letters)
  <2>1. PICK b \in Letters : b = "blank"
    BY DEF Letters
  <2>2. <<b>> \in Seq(Letters) /\ <<b, b>> \in Seq(Letters)
    OBVIOUS
  <2>. QED
    BY <2>1, <2>2 DEF Seps
<1> DEFINE LineStep(h, n) == CASE n = 0 -> <<>>
                               [] n = 1 -> Written(words[1])
                               [] OTHER -> h[n - 1] \o sep \o Written(words[n])
           g == CHOOSE h : h = [n \in 0..N |->
                  CASE n = 0 -> <<>>
                    [] n = 1 -> Written(words[1])
                    [] OTHER -> h[n - 1] \o sep \o Written(words[n])]
<1>7. g = [n \in 0..N |-> LineStep(g, n)]
  <2> DEFINE G == [x \in (1..N) \X Seq(Letters) |->
                     IF x[1] = 1 THEN Written(words[1])
                     ELSE x[2] \o sep \o Written(words[x[1]])]
  <2>1. ASSUME NEW n \in 1..N, NEW l \in Seq(Letters)
        PROVE  (IF n = 1 THEN Written(words[1]) ELSE l \o sep \o Written(words[n])) \in Seq(Letters)
    <3>1. Written(words[n]) \in Seq(Letters)
      BY <1>2, <1>5
    <3>2. l \o sep \in Seq(Letters)
      BY <1>6, ConcatProperties
    <3>3. (l \o sep) \o Written(words[n]) \in Seq(Letters)
      BY <3>1, <3>2, ConcatProperties
    <3>. QED
      BY <3>1, <3>3
  <2>2. G \in [(1..N) \X Seq(Letters) -> Seq(Letters)]
    BY <2>1
  <2>3. \A n \in 1..N, l \in Seq(Letters) :
          G[<<n, l>>] = IF n = 1 THEN Written(words[1]) ELSE l \o sep \o Written(words[n])
    OBVIOUS
  <2> HIDE DEF G
  <2>4. PICK h : IsLoop(h, Seq(Letters), <<>>, N, G)
    BY <2>2, EmptySeq, Recursion
  <2>5. ASSUME NEW n \in 0..N PROVE h[n] = LineStep(h, n)
    <3>1. CASE n = 0
      BY <2>4, <3>1 DEF IsLoop
    <3>2. CASE n # 0
      <4>1. n \in 1..N /\ n - 1 \in 0..N
        BY <3>2
      <4>2. h[n - 1] \in Seq(Letters) /\ h[n] = G[<<n, h[n - 1]>>]
        BY <2>4, <4>1 DEF IsLoop
      <4>3. h[n] = IF n = 1 THEN Written(words[1]) ELSE h[n - 1] \o sep \o Written(words[n])
        BY <2>3, <4>1, <4>2
      <4>. QED
        BY <3>2, <4>3
    <3>. QED
      BY <3>1, <3>2
  <2> HIDE DEF LineStep
  <2>6. h = [n \in 0..N |-> LineStep(h, n)]
    BY <2>4, <2>5 DEF IsLoop
  <2> USE DEF LineStep
  <2>. QED
    BY <2>6
<1>8. Line(words, sep) = g[N]
  BY <1>1 DEF Line
<1> HIDE DEF g
<1>9. \A n \in 0..N : g[n] = LineStep(g, n)
  BY <1>7
<1> DEFINE Read(a, n) == /\ a \in Splits /\ Leads(Nothing, g[n], a) /\ ~a.inQ
                         /\ Ended(a) = f[n]
           T == {n \in Nat : n <= N => \E a : Read(a, n)}
<1>10. \A a \in Splits, n \in 1..N :
         a.parts = f[n - 1] /\ a.cur = words[n] => Ended(a) = f[n]
  <2> TAKE a \in Splits, n \in 1..N
  <2>1. f[n] = IF words[n] # <<>> THEN Append(f[n - 1], words[n]) ELSE f[n - 1]
    BY <1>1, <1>4 DEF SiftStep
  <2>. QED
    BY <2>1 DEF Ended
<1>11. Nothing \in Splits /\ Nothing.cur = <<>> /\ ~Nothing.inQ /\ Nothing.parts = <<>>
  BY EmptySeq DEF Nothing, Splits
<1>12. f[0] = <<>> /\ g[0] = <<>>
  BY <1>4, <1>9 DEF SiftStep
<1>13. 0 \in T
  <2>1. Leads(Nothing, <<>>, Nothing)
    <3>1. Reading([n \in 0..0 |-> Nothing], Nothing, <<>>, Nothing)
      BY <1>11, EmptySeq DEF Reading
    <3>. QED
      BY <3>1, EmptySeq DEF Leads
  <2>2. Ended(Nothing) = <<>>
    BY <1>11 DEF Ended
  <2>. QED
    BY <1>11, <1>12, <2>1, <2>2
<1>14. ASSUME NEW n \in Nat, n \in T PROVE n + 1 \in T
  <2> SUFFICES ASSUME n + 1 <= N PROVE \E a : Read(a, n + 1)
    OBVIOUS
  <2>1. PICK a : Read(a, n)
    BY <1>14
  <2>2. PICK m \in 1..N : m = n + 1 /\ m - 1 = n /\ m # 0 /\ (m = 1 <=> n = 0)
    OBVIOUS
  <2>3. PICK w \in Seq(Chars) : w = words[m]
    BY <1>2
  <2>4. \E b \in Splits :
          /\ b.cur = <<>> /\ ~b.inQ /\ b.parts = f[n]
          /\ Leads(Nothing, g[m], [b EXCEPT !.cur = w])
    <3>1. CASE n = 0
      <4>1. g[m] = Written(w)
        BY <1>9, <2>2, <2>3, <3>1
      <4>2. Leads(Nothing, g[m], [Nothing EXCEPT !.cur = w])
        BY <1>11, <4>1, LeadsWritten
      <4>. QED
        BY <1>11, <1>12, <3>1, <4>2
    <3>2. CASE n # 0
      <4>1. g[m] = g[n] \o sep \o Written(w)
        <5>1. m \in 0..N /\ m # 0 /\ m # 1 /\ m - 1 = n
          BY <2>2, <3>2
        <5>2. g[m] = g[m - 1] \o sep \o Written(words[m])
          BY <1>9, <5>1
        <5>. QED
          BY <2>3, <5>1, <5>2
      <4>2. PICK b : b = [parts |-> Ended(a), cur |-> <<>>, inQ |-> FALSE]
        OBVIOUS
      <4>3. b \in Splits
        <5>1. ReadChar(a, "blank") = b
          BY <2>1, <4>2, ReadCharType DEF Letters
        <5>. QED
          BY <2>1, <5>1, ReadCharType DEF Letters
      <4>4. Leads(a, sep, b)
        BY <2>1, <4>2, LeadsSep
      <4>5. Leads(b, Written(w), [b EXCEPT !.cur = w])
        BY <4>2, <4>3, LeadsWritten
      <4>6. Leads(Nothing, g[n] \o sep, b)
        BY <2>1, <4>4, LeadsOn
      <4>7. Leads(Nothing, (g[n] \o sep) \o Written(w), [b EXCEPT !.cur = w])
        BY <4>5, <4>6, LeadsOn
      <4>. QED
        BY <2>1, <4>1, <4>2, <4>3, <4>7
    <3>. QED
      BY <3>1, <3>2
  <2>5. PICK b \in Splits :
          /\ b.cur = <<>> /\ ~b.inQ /\ b.parts = f[n]
          /\ Leads(Nothing, g[m], [b EXCEPT !.cur = w])
    BY <2>4
  <2>6. PICK c \in Splits : c = [b EXCEPT !.cur = w]
    <3>1. w \in Seq(Letters)
      BY DEF Letters
    <3>. QED
      BY <3>1 DEF Splits
  <2>7. c.parts = f[m - 1] /\ c.cur = words[m] /\ ~c.inQ
    BY <2>2, <2>3, <2>5, <2>6 DEF Splits
  <2>8. Ended(c) = f[m]
    BY <1>10, <2>7
  <2>. QED
    BY <2>2, <2>5, <2>6, <2>7, <2>8
<1>15. PICK a : Read(a, N)
  <2>1. N \in T
    <3> HIDE DEF T
    <3>. QED
      BY <1>13, <1>14, Induction
  <2>. QED
    BY <2>1
<1>16. ReadUpTo(g[N]) = a
  BY <1>15, ReadUpToLeads
<1>. QED
  BY <1>3, <1>8, <1>15, <1>16 DEF splitCmd

(* The words of a command are kept, blanks in quotes included, but for an  *)
(* empty word: for any words, of any length and number.                    *)
THEOREM WordsKeptHolds == CommandsSpec => []WordsKept
<1>1. CmdInv => WordsKept
  <2> SUFFICES ASSUME CmdInv, NEW p \in Procs, cmd[p].op = "exec"
               PROVE  cmd[p].args =
                        Sift(cmd[p].words, {i \in DOMAIN cmd[p].words : cmd[p].words[i] # <<>>})
    BY DEF WordsKept, Done, At
  <2>1. cmd[p] \in ExecCmd
    BY Ops DEF CmdInv, CmdTypeOK
  <2>2. PICK c \in Lines : cmd[p].words = c.words /\ cmd[p].args = c.args
    BY <2>1 DEF ExecCmd
  <2>3. PICK w \in Words, sep \in Seps : c = [words |-> w, args |-> splitCmd(Line(w, sep))]
    BY <2>2 DEF Lines, Seps
  <2>4. splitCmd(Line(w, sep)) = Sift(w, {i \in DOMAIN w : w[i] # <<>>})
    BY SplitLine, CommandsAssumption
  <2>5. cmd[p].words = w /\ cmd[p].args = splitCmd(Line(w, sep))
    BY <2>2, <2>3
  <2>. QED
    BY <2>4, <2>5
<1>. QED
  BY <1>1, CommandsInvariant, PTL

=============================================================================
