---------------------------- MODULE ConfigProofs -----------------------------
(***************************************************************************)
(* Proofs about ConfigStore for any goroutines, documents and normaliser.  *)
(* The properties follow from what the lock protects: whoever is between   *)
(* the truncation and the write holds it, so that a torn file is seen only *)
(* after damage, and the cache and the file both hold the document of the  *)
(* last save that succeeded.                                               *)
(***************************************************************************)
EXTENDS ConfigStore, TLAPS

-----------------------------------------------------------------------------
(* The inductive invariant. *)

(* Who works under mu.Lock holds it, a Save until it has returned.         *)
LockInv ==
  \A p \in Procs :
    /\ pc[p] \in {"locked", "truncated"} => writer = p
    /\ pc[p] = "returning" /\ ~Loads(p) => writer = p

(* Only a Save truncates, and nothing but a Save has a document.           *)
CallInv ==
  \A p \in Procs :
    /\ pc[p] \in {"idle", "looking"} => Loads(p)
    /\ pc[p] = "truncated" => ~Loads(p)
    /\ pc[p] = "returning" /\ Loads(p) /\ err[p] = "none" => ans[p] \in Configs

TornInv == disk = "torn" => damaged \/ \E p \in Procs : pc[p] = "truncated"

FileInv ==
  /\ disk = "whole" => content = Norm[current]
  /\ disk = "absent" => current = Default

(* The document c is what the file has, or what Save was given.            *)
Cachable(c) == c = Norm[current] \/ (CachesRaw /\ c = current)

CacheInv == Settled /\ cache # NoConfig => Cachable(cache)

IInv ==
  /\ TypeOK /\ LockInv /\ CallInv /\ TornInv /\ FileInv /\ CacheInv /\ SaveRepairs

-----------------------------------------------------------------------------

LEMMA InitIInv == Init => IInv
<1> SUFFICES ASSUME Init PROVE IInv
  OBVIOUS
<1> USE ConfigAssumption DEF Init
<1>1. TypeOK
  BY DEF TypeOK
<1>2. LockInv /\ CallInv /\ TornInv /\ FileInv /\ CacheInv /\ SaveRepairs
  BY DEF LockInv, CallInv, TornInv, FileInv, CacheInv, SaveRepairs, Loads
<1> QED
  BY <1>1, <1>2 DEF IInv

(* What a Load reads from a file that is whole or absent.                  *)
LEMMA OnDiskCurrent ==
  ASSUME IInv, disk # "torn"
  PROVE  /\ OnDisk \in Configs /\ OnDisk # NoConfig
         /\ Settled => OnDisk = Norm[current] /\ Norm[OnDisk] = Norm[current]
<1> USE ConfigAssumption
<1>1. CASE disk = "absent"
  BY <1>1 DEF IInv, FileInv, OnDisk, TypeOK
<1>2. CASE disk = "whole"
  BY <1>2 DEF IInv, FileInv, OnDisk, TypeOK, Settled
<1> QED
  BY <1>1, <1>2 DEF IInv, TypeOK

(* A step of p that changes neither the file nor the lock, the document it *)
(* saves or what was saved, and keeps the cache or fills it from the file. *)
LEMMA AnswerKeeps ==
  ASSUME IInv, NEW p \in Procs, NEW from \in {"looking", "locked", "truncated"},
         NEW c \in Configs \cup {NoConfig}, NEW e \in {"none", "io", "parse"},
         Answer(p, from, c, e), UNCHANGED file, damaged' \in BOOLEAN,
         damaged => damaged', from = "truncated" => damaged',
         cache' \in Configs \cup {NoConfig},
         Settled /\ cache' # NoConfig => Cachable(cache'),
         Loads(p) => e # "none" \/ c \in Configs,
         ~Loads(p) => e # "none" /\ from # "looking"
  PROVE  IInv'
<1> USE ConfigAssumption DEF Answer, Goto, file
<1>1. TypeOK'
  BY DEF IInv, TypeOK
<1>2. LockInv'
  BY DEF IInv, TypeOK, LockInv, Loads
<1>3. CallInv'
  BY DEF IInv, TypeOK, CallInv, Loads
<1>4. TornInv'
  BY DEF IInv, TypeOK, TornInv
<1>5. FileInv' /\ CacheInv'
  BY DEF IInv, FileInv, CacheInv, Cachable, Settled
<1>6. SaveRepairs'
  BY DEF IInv, TypeOK, SaveRepairs, Loads
<1> QED
  BY <1>1, <1>2, <1>3, <1>4, <1>5, <1>6 DEF IInv

(* The steps that move p and change only its document or the lock.         *)
LEMMA MoveKeeps ==
  ASSUME IInv, NEW p \in Procs,
         \/ CallLoad(p) \/ (\E c \in Configs : CallSave(p, c))
         \/ LoadMisses(p) \/ Lock(p)
  PROVE  IInv'
<1> USE ConfigAssumption DEF Goto, file
<1>1. TypeOK'
  BY DEF IInv, TypeOK, CallLoad, CallSave, LoadMisses, Lock
<1>2. LockInv'
  <2>1. CASE CallLoad(p) \/ (\E c \in Configs : CallSave(p, c)) \/ LoadMisses(p)
    BY <2>1 DEF IInv, TypeOK, LockInv, Loads, CallLoad, CallSave, LoadMisses
  <2>2. CASE Lock(p)
    BY <2>2 DEF IInv, TypeOK, LockInv, Loads, Lock
  <2> QED
    BY <2>1, <2>2
<1>3. CallInv'
  BY DEF IInv, TypeOK, CallInv, Loads, CallLoad, CallSave, LoadMisses, Lock
<1>4. TornInv' /\ FileInv' /\ CacheInv'
  BY DEF IInv, TypeOK, TornInv, FileInv, CacheInv, Cachable, Settled,
         CallLoad, CallSave, LoadMisses, Lock
<1>5. SaveRepairs'
  BY DEF IInv, TypeOK, SaveRepairs, Loads, CallLoad, CallSave, LoadMisses, Lock
<1> QED
  BY <1>1, <1>2, <1>3, <1>4, <1>5 DEF IInv

LEMMA LoadKeeps ==
  ASSUME IInv, NEW p \in Procs, LoadSteps(p)
  PROVE  IInv'
<1> USE ConfigAssumption
<1>1. CASE LoadCached(p)
  <2>1. Loads(p) /\ cache \in Configs
    BY <1>1 DEF LoadCached, Answer, Goto, IInv, CallInv, TypeOK
  <2> QED
    BY <1>1, <2>1, AnswerKeeps DEF LoadCached, IInv, TypeOK, CacheInv
<1>2. CASE LoadMisses(p)
  BY <1>2, MoveKeeps
<1>3. CASE LoadFilled(p)
  <2>1. Loads(p) /\ cache \in Configs
    BY <1>3 DEF LoadFilled, IInv, TypeOK
  <2> QED
    BY <1>3, <2>1, AnswerKeeps DEF LoadFilled, IInv, TypeOK, CacheInv
<1>4. CASE LoadFile(p)
  <2>1. OnDisk \in Configs /\ (Settled => Cachable(OnDisk))
    BY <1>4, OnDiskCurrent DEF LoadFile, Cachable
  <2> QED
    BY <1>4, <2>1, AnswerKeeps DEF LoadFile, IInv, TypeOK
<1>5. CASE LoadFails(p)
  <2>1. PICK e \in {"io", "parse"} : Answer(p, "locked", NoConfig, e)
    BY <1>5 DEF LoadFails
  <2> QED
    BY <1>5, <2>1, AnswerKeeps DEF LoadFails, IInv, TypeOK, CacheInv
<1> QED
  BY <1>1, <1>2, <1>3, <1>4, <1>5 DEF LoadSteps

LEMMA FailedSaveKeeps ==
  ASSUME IInv, NEW p \in Procs, OpenFails(p) \/ WriteFails(p)
  PROVE  IInv'
<1> USE ConfigAssumption
<1>1. CASE OpenFails(p)
  BY <1>1, AnswerKeeps DEF OpenFails, IInv, TypeOK, CacheInv
<1>2. CASE WriteFails(p)
  <2>1. ~Loads(p)
    BY <1>2 DEF WriteFails, Answer, Goto, IInv, CallInv
  <2> QED
    BY <1>2, <2>1, AnswerKeeps DEF WriteFails, IInv, TypeOK, CacheInv
<1> QED
  BY <1>1, <1>2

LEMMA TruncateKeeps ==
  ASSUME IInv, NEW p \in Procs, Truncate(p)
  PROVE  IInv'
<1> USE ConfigAssumption DEF Truncate, Goto
<1>1. TypeOK'
  BY DEF IInv, TypeOK
<1>2. LockInv' /\ CallInv'
  BY DEF IInv, TypeOK, LockInv, CallInv, Loads
<1>3. TornInv' /\ FileInv' /\ CacheInv'
  BY DEF IInv, TypeOK, TornInv, FileInv, CacheInv, Cachable, Settled
<1>4. SaveRepairs'
  BY DEF IInv, TypeOK, LockInv, SaveRepairs, Loads
<1> QED
  BY <1>1, <1>2, <1>3, <1>4 DEF IInv

LEMMA WriteDataKeeps ==
  ASSUME IInv, NEW p \in Procs, WriteData(p)
  PROVE  IInv'
<1> USE ConfigAssumption DEF WriteData, Goto
<1>1. arg[p] \in Configs
  BY DEF IInv, TypeOK, CallInv, Loads
<1>2. Cached(arg[p]) = Norm[arg[p]] \/ (CachesRaw /\ Cached(arg[p]) = arg[p])
  BY DEF Cached
<1>3. TypeOK'
  <2>1. content' \in {Norm[c] : c \in Configs} /\ cache' \in Configs
    BY <1>1, <1>2
  <2> QED
    BY <1>1, <2>1 DEF IInv, TypeOK
<1>4. LockInv' /\ CallInv'
  BY DEF IInv, TypeOK, LockInv, CallInv, Loads
<1>5. TornInv' /\ FileInv' /\ CacheInv'
  BY <1>1, <1>2 DEF TornInv, FileInv, CacheInv, Cachable, Settled
<1>6. SaveRepairs'
  BY DEF IInv, TypeOK, LockInv, SaveRepairs, Loads
<1> QED
  BY <1>3, <1>4, <1>5, <1>6 DEF IInv

LEMMA ReturnKeeps ==
  ASSUME IInv, NEW p \in Procs, Return(p)
  PROVE  IInv'
<1> USE ConfigAssumption DEF Return, Goto, file
<1>1. TypeOK'
  BY DEF IInv, TypeOK
<1>2. LockInv' /\ CallInv'
  BY DEF IInv, TypeOK, LockInv, CallInv, Loads
<1>3. TornInv' /\ FileInv' /\ CacheInv'
  BY DEF IInv, TypeOK, TornInv, FileInv, CacheInv, Cachable, Settled
<1>4. SaveRepairs'
  BY DEF IInv, TypeOK, SaveRepairs, Loads
<1> QED
  BY <1>1, <1>2, <1>3, <1>4 DEF IInv

LEMMA CrashKeeps ==
  ASSUME IInv, Crash
  PROVE  IInv'
<1> USE ConfigAssumption DEF Crash, file
<1>1. TypeOK'
  BY DEF IInv, TypeOK
<1>2. LockInv' /\ CallInv' /\ SaveRepairs'
  BY DEF LockInv, CallInv, Loads, SaveRepairs
<1>3. TornInv' /\ FileInv' /\ CacheInv'
  BY DEF IInv, TypeOK, TornInv, FileInv, CacheInv, Cachable, Settled
<1> QED
  BY <1>1, <1>2, <1>3 DEF IInv

LEMMA StepKeepsIInv == IInv /\ [Next]_vars => IInv'
<1> SUFFICES ASSUME IInv, [Next]_vars PROVE IInv'
  OBVIOUS
<1>1. ASSUME NEW p \in Procs,
             CallLoad(p) \/ (\E c \in Configs : CallSave(p, c)) \/ Lock(p)
      PROVE  IInv'
  BY <1>1, MoveKeeps
<1>2. ASSUME NEW p \in Procs, LoadSteps(p) PROVE IInv'
  BY <1>2, LoadKeeps
<1>3. ASSUME NEW p \in Procs, SaveSteps(p) PROVE IInv'
  BY <1>3, FailedSaveKeeps, TruncateKeeps, WriteDataKeeps DEF SaveSteps
<1>4. ASSUME NEW p \in Procs, Return(p) PROVE IInv'
  BY <1>4, ReturnKeeps
<1>5. CASE Crash
  BY <1>5, CrashKeeps
<1>6. CASE UNCHANGED vars
  BY <1>6 DEF vars, file, local, IInv, TypeOK, LockInv, CallInv, TornInv, FileInv,
              CacheInv, Cachable, Settled, SaveRepairs, Loads
<1> QED
  BY <1>1, <1>2, <1>3, <1>4, <1>5, <1>6 DEF Next

LEMMA SpecIInv == Spec => []IInv
BY InitIInv, StepKeepsIInv, PTL DEF Spec

-----------------------------------------------------------------------------

(* The type invariant of the store.                                        *)
THEOREM TypeCorrect == Spec => []TypeOK
<1>1. IInv => TypeOK
  BY DEF IInv
<1> QED
  BY <1>1, SpecIInv, PTL

(* A Save that succeeds leaves its document in the file until it returns.  *)
THEOREM SaveRepairsHolds == Spec => []SaveRepairs
<1>1. IInv => SaveRepairs
  BY DEF IInv
<1> QED
  BY <1>1, SpecIInv, PTL

(* A restart changes the meaning of no configuration, and how it reads     *)
(* only from the document of the last save to what that save wrote.        *)
THEOREM RestartKeepsMeaningHolds == Spec => []RestartKeepsMeaning
<1>1. IInv => RestartKeepsMeaning
  BY OnDiskCurrent DEF IInv, CacheInv, Cachable, Settled, RestartKeepsMeaning
<1> QED
  BY <1>1, SpecIInv, PTL

(* The answer of a Load is made in one of its five steps.                  *)
LEMMA AnswerOfLoad ==
  ASSUME IInv, [Next]_vars, NEW p \in Procs, Answers(p)
  PROVE  /\ current' = current
         /\ \/ (LoadCached(p) \/ LoadFilled(p)) /\ ans'[p] = cache /\ err'[p] = "none"
            \/ LoadFile(p) /\ ans'[p] = OnDisk /\ err'[p] = "none"
            \/ LoadFails(p) /\ err'[p] \in {"io", "parse"}
<1> USE DEF Answers, Goto, IInv, TypeOK
<1>1. PICK q \in Procs :
        \/ CallLoad(q) \/ (\E c \in Configs : CallSave(q, c))
        \/ Lock(q) \/ LoadSteps(q) \/ SaveSteps(q) \/ Return(q)
  BY DEF Next, Crash, vars, local
<1>2. q = p
  BY <1>1 DEF CallLoad, CallSave, Lock, LoadSteps, LoadCached, LoadMisses, LoadFilled,
              LoadFile, LoadFails, SaveSteps, OpenFails, Truncate, WriteData, WriteFails,
              Return, Answer
<1>3. LoadCached(p) \/ LoadFilled(p) \/ LoadFile(p) \/ LoadFails(p)
  BY <1>1, <1>2 DEF CallLoad, CallSave, Lock, LoadSteps, LoadMisses, SaveSteps, OpenFails,
                    Truncate, WriteData, WriteFails, Return, CallInv, Answer
<1> QED
  BY <1>3 DEF LoadCached, LoadFilled, LoadFile, LoadFails, Answer

(* A Load answers with the document of the last Save that succeeded.       *)
THEOREM LoadsCurrentHolds == Spec => LoadsCurrent
<1>1. ASSUME IInv, [Next]_vars, NEW p \in Procs,
             Settled, Answers(p), err'[p] = "none"
      PROVE  Norm[ans'[p]] = Norm[current]
  <2>1. CASE (LoadCached(p) \/ LoadFilled(p)) /\ ans'[p] = cache
    BY <1>1, <2>1 DEF LoadCached, LoadFilled, IInv, CacheInv, Cachable, Settled
  <2>2. CASE LoadFile(p) /\ ans'[p] = OnDisk
    BY <1>1, <2>2, OnDiskCurrent DEF LoadFile
  <2> QED
    BY <1>1, <2>1, <2>2, AnswerOfLoad
<1>2. IInv /\ [Next]_vars =>
        [\A p \in Procs :
           Settled /\ Answers(p) /\ err'[p] = "none" =>
             Norm[ans'[p]] = Norm[current]]_vars
  BY <1>1
<1> QED
  BY <1>2, SpecIInv, PTL DEF Spec, LoadsCurrent

(* A Load meets a torn file only after damage, never a Save at work.       *)
THEOREM NoTornLoadHolds == Spec => NoTornLoad
<1>1. ASSUME IInv, [Next]_vars, NEW p \in Procs, Answers(p), err'[p] = "parse"
      PROVE  damaged
  <2>1. LoadFails(p)
    BY <1>1, AnswerOfLoad
  <2>2. pc[p] = "locked" /\ disk = "torn"
    BY <1>1, <2>1 DEF LoadFails, Answer, Goto, IInv, TypeOK
  <2> QED
    BY <1>1, <2>2 DEF IInv, LockInv, TornInv
<1>2. IInv /\ [Next]_vars =>
        [\A p \in Procs : Answers(p) /\ err'[p] = "parse" => damaged]_vars
  BY <1>1
<1> QED
  BY <1>2, SpecIInv, PTL DEF Spec, NoTornLoad

=============================================================================
