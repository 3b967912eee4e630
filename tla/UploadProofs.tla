---------------------------- MODULE UploadProofs -----------------------------
(***************************************************************************)
(* Proofs about UploadService: the uploads take no step of the store that  *)
(* ConfigStore does not take, so that all that is proved of a ConfigStore  *)
(* holds of the one uploads run on; and what an upload adds to it.         *)
(***************************************************************************)
EXTENDS UploadService, ConfigProofs

LEMMA StoreStepsOfUploads == [ServiceNext]_upvars => [Next]_vars
<1> SUFFICES ASSUME [ServiceNext]_upvars PROVE [Next]_vars
  OBVIOUS
<1>1. ASSUME NEW p \in Procs, StartUpload(p) PROVE Next
  BY <1>1 DEF StartUpload, Next
<1>2. ASSUME NEW p \in Procs, UploadSteps(p) PROVE [Next]_vars
  BY <1>2 DEF UploadSteps, Checked, PutOk, PutFails, Resolve, SignFails, Respond, Next
<1>3. ASSUME NEW p \in Procs, StoreSteps(p) PROVE Next
  BY <1>3 DEF StoreSteps, UploadLoad, UploadRead, UploadSave, UploadWrite, Next,
              LoadSteps, SaveSteps
<1>4. CASE Crash
  BY <1>4 DEF Next
<1>5. CASE UNCHANGED upvars
  BY <1>5 DEF upvars
<1> QED
  BY <1>1, <1>2, <1>3, <1>4, <1>5 DEF ServiceNext

(* Every behaviour of the upload service is one of its configuration       *)
(* store.                                                                  *)
THEOREM UploadsImplementStore == ServiceSpec => Spec
<1>1. ServiceInit => Init
  BY DEF ServiceInit
<1> QED
  BY <1>1, StoreStepsOfUploads, PTL DEF ServiceSpec, Spec

-----------------------------------------------------------------------------
(* The upload store caches and returns only what the normaliser made.      *)

Normal == {UploadNorm[c] : c \in UploadConfigs}

NormalInv ==
  /\ cache # NoConfig => cache \in Normal
  /\ \A p \in Procs : ans[p] # NoConfig => ans[p] \in Normal

(* What SignedLasts says of the answer u. *)
Lasts(u) ==
  u.secs * Second < Half => u.expire = u.secs * Second /\ u.expire > 0

(* Each goroutine has an upload, with a configuration the store returned.  *)
UploadInv ==
  /\ up = [p \in Procs |-> up[p]]
  /\ \A p \in Procs :
       /\ up[p].at = "loading" => Loads(p)
       /\ up[p].at \in {"putting", "stored"} => up[p].cfg \in Normal
       /\ up[p].at = "done" /\ up[p].ok =>
            up[p].bucket = up[p].stored /\ Lasts(up[p])
       /\ up[p].at = "done" /\ ~up[p].ok /\ up[p].stored # "nowhere" /\ ~up[p].lost =>
            ~up[p].cfg.public /\ (up[p].forced \/ up[p].cfg.signed)

LEMMA NormalLasts ==
  ASSUME NEW c \in Normal
  PROVE  c.expire \in Nat \ {0}
<1>1. PICK d \in UploadConfigs : c = UploadNorm[d]
  BY DEF Normal
<1>2. d.expire \in Int /\ DOMAIN d = {"bucket", "text", "public", "signed", "expire"}
  BY UploadAssumption DEF UploadConfigs, UploadDefault, Document
<1>3. c.expire = IF d.expire <= 0 THEN 3600 ELSE d.expire
  BY <1>1, <1>2 DEF UploadNorm
<1> QED
  BY <1>2, <1>3

(* A product of two positive numbers below 2^63 is no other in an int64.   *)
LEMMA LifetimeFits ==
  ASSUME NEW c \in Normal, c.expire * Second < Half
  PROVE  Lifetime(c) = c.expire * Second /\ Lifetime(c) > 0
<1>1. c.expire \in Nat \ {0} /\ Second \in Nat \ {0} /\ Half \in Nat \ {0}
  BY NormalLasts, Int64Assumption
<1> DEFINE n == c.expire * Second
<1>2. n \in Nat \ {0}
  <2>1. PICK k \in Nat : c.expire = k + 1
    <3>1. c.expire - 1 \in Nat /\ c.expire = (c.expire - 1) + 1
      BY <1>1
    <3> QED
      BY <3>1
  <2>2. k * Second \in Nat
    BY <1>1
  <2>3. n = k * Second + Second
    BY <1>1, <2>1
  <2> QED
    BY <1>1, <2>2, <2>3
<1>3. n < Half
  OBVIOUS
<1> HIDE DEF n
<1>4. n % (2 * Half) = n
  <2>1. 2 * Half \in Nat /\ n < 2 * Half
    BY <1>1, <1>2, <1>3
  <2> QED
    BY <1>2, <2>1
<1>5. Wrapped(n) = n
  BY <1>3, <1>4 DEF Wrapped
<1> QED
  BY <1>2, <1>5 DEF n, Lifetime

LEMMA InitNormal == Init => NormalInv
BY UploadAssumption, ConfigAssumption DEF Init, NormalInv

LEMMA StepKeepsNormal == IInv /\ NormalInv /\ [Next]_vars => NormalInv'
<1> SUFFICES ASSUME IInv, NormalInv, [Next]_vars PROVE NormalInv'
  OBVIOUS
<1> USE UploadAssumption, ConfigAssumption DEF IInv, TypeOK, NormalInv, Goto, file
<1>1. OnDisk \in Normal
  BY DEF OnDisk, Normal
<1>2. ASSUME NEW p \in Procs,
             \/ CallLoad(p) \/ (\E c \in Configs : CallSave(p, c)) \/ Lock(p)
             \/ LoadMisses(p) \/ Truncate(p)
      PROVE  NormalInv'
  BY <1>2 DEF CallLoad, CallSave, Lock, LoadMisses, Truncate
<1>3. ASSUME NEW p \in Procs, LoadCached(p) \/ LoadFilled(p) PROVE NormalInv'
  BY <1>3 DEF LoadCached, LoadFilled, Answer
<1>4. ASSUME NEW p \in Procs, LoadFile(p) PROVE NormalInv'
  BY <1>1, <1>4 DEF LoadFile, Answer
<1>5. ASSUME NEW p \in Procs, LoadFails(p) \/ OpenFails(p) \/ WriteFails(p)
      PROVE  NormalInv'
  BY <1>5 DEF LoadFails, OpenFails, WriteFails, Answer
<1>6. ASSUME NEW p \in Procs, WriteData(p) PROVE NormalInv'
  <2>1. arg[p] \in Configs
    BY <1>6 DEF WriteData, CallInv, Loads
  <2>2. cache' = Norm[arg[p]] /\ ans' = ans
    BY <1>6 DEF WriteData, Cached
  <2>3. Norm[arg[p]] \in Normal
    BY <2>1 DEF Normal
  <2> QED
    BY <2>2, <2>3
<1>7. ASSUME NEW p \in Procs, Return(p) PROVE NormalInv'
  BY <1>7 DEF Return
<1>8. CASE Crash
  BY <1>8 DEF Crash
<1>9. CASE UNCHANGED vars
  BY <1>9 DEF vars, local
<1> QED
  BY <1>2, <1>3, <1>4, <1>5, <1>6, <1>7, <1>8, <1>9 DEF Next, LoadSteps, SaveSteps

(* What Load answers is exactly what it would answer after a restart.      *)
THEOREM CacheIsFileHolds == ServiceSpec => []CacheIsFile
<1>1. IInv => CacheIsFile
  BY OnDiskCurrent, UploadAssumption DEF IInv, CacheInv, Cachable, CacheIsFile
<1> QED
  BY <1>1, SpecIInv, UploadsImplementStore, PTL

-----------------------------------------------------------------------------

LEMMA InitUpload == ServiceInit => UploadInv
BY DEF ServiceInit, UploadInv, NoUpload

(* The steps of an upload past its load leave the store alone.             *)
LEMMA UploadStepKeeps ==
  ASSUME IInv, NormalInv, UploadInv, NEW p \in Procs, UploadSteps(p)
  PROVE  UploadInv'
<1>1. CASE Checked(p)
  <2> DEFINE u == [at |-> "putting", forced |-> up[p].forced, cfg |-> ans[p]]
  <2>1. Loads(p) /\ pc[p] = "returning"
    BY <1>1 DEF Checked, Return, Goto, UploadInv
  <2>2. err[p] = "none" => ans[p] \in Normal
    BY <2>1, ConfigAssumption DEF IInv, CallInv, NormalInv
  <2>3. \A q \in Procs : q # p => arg'[q] = arg[q]
    BY <1>1 DEF Checked, Return, IInv, TypeOK
  <2>4. \/ err[p] = "none" /\ SetUp(p, u)
        \/ SetUp(p, Failed(u, "nowhere", FALSE))
    BY <1>1 DEF Checked
  <2>5. CASE err[p] = "none" /\ SetUp(p, u)
    BY <2>2, <2>3, <2>5 DEF SetUp, UploadInv, Loads
  <2>6. CASE SetUp(p, Failed(u, "nowhere", FALSE))
    BY <2>3, <2>6 DEF SetUp, Failed, UploadInv, Loads
  <2> QED
    BY <2>4, <2>5, <2>6
<1>2. CASE PutOk(p)
  BY <1>2 DEF PutOk, SetUp, UploadInv, Loads, vars, local
<1>3. CASE PutFails(p)
  <2>1. PICK stored : SetUp(p, Failed(up[p], stored, TRUE)) /\ UNCHANGED arg
    BY <1>3 DEF PutFails, vars, local
  <2> QED
    BY <2>1 DEF SetUp, Failed, UploadInv, Loads
<1>4. CASE Resolve(p)
  <2> DEFINE u == Answered(p, Url(up[p].cfg, up[p].forced), up[p].cfg)
  <2>1. up[p].cfg \in Normal
    BY <1>4 DEF Resolve, UploadInv
  <2>2. u.expire = Lifetime(up[p].cfg) /\ u.secs = up[p].cfg.expire
    BY DEF Answered
  <2>3. Lasts(u)
    BY <2>1, <2>2, LifetimeFits DEF Lasts
  <2>4. u.at = "done" /\ u.ok /\ u.bucket = u.stored
    BY DEF Answered
  <2>5. up' = [up EXCEPT ![p] = u] /\ UNCHANGED vars
    BY <1>4 DEF Resolve, SetUp
  <2> HIDE DEF u
  <2> QED
    BY <2>3, <2>4, <2>5 DEF UploadInv, Loads, vars, local
<1>5. CASE SignFails(p)
  BY <1>5 DEF SignFails, SetUp, Failed, Url, UploadInv, Loads, vars, local
<1>6. CASE Respond(p)
  BY <1>6 DEF Respond, SetUp, NoUpload, UploadInv, Loads, vars, local
<1> QED
  BY <1>1, <1>2, <1>3, <1>4, <1>5, <1>6 DEF UploadSteps

LEMMA StepKeepsUpload ==
  IInv /\ NormalInv /\ UploadInv /\ [ServiceNext]_upvars => UploadInv'
<1> SUFFICES ASSUME IInv, NormalInv, UploadInv, [ServiceNext]_upvars
             PROVE  UploadInv'
  OBVIOUS
<1>1. ASSUME NEW p \in Procs, StartUpload(p) PROVE UploadInv'
  BY <1>1 DEF StartUpload, CallLoad, Goto, SetUp, UploadInv, IInv, CallInv, Loads
<1>2. ASSUME NEW p \in Procs, UploadSteps(p) PROVE UploadInv'
  BY <1>2, UploadStepKeeps
<1>3. ASSUME NEW p \in Procs, StoreSteps(p), UNCHANGED up PROVE UploadInv'
  <2>1. \A q \in Procs : Loads(q) /\ up[q] # NoUpload => arg'[q] = NoConfig
    BY <1>3 DEF StoreSteps, UploadLoad, UploadRead, UploadSave, UploadWrite, CallLoad,
                CallSave, Return, Lock, LoadCached, LoadMisses, LoadFilled, LoadFile,
                LoadFails, OpenFails, Truncate, WriteData, WriteFails, Answer, Loads,
                IInv, TypeOK
  <2> QED
    BY <1>3, <2>1 DEF UploadInv, NoUpload, Loads
<1>4. CASE Crash /\ up' = [p \in Procs |-> NoUpload]
  BY <1>4 DEF UploadInv, NoUpload
<1>5. CASE UNCHANGED upvars
  BY <1>5 DEF upvars, vars, local, UploadInv, Loads
<1> QED
  BY <1>1, <1>2, <1>3, <1>4, <1>5 DEF ServiceNext

LEMMA UploadsInv == ServiceSpec => [](IInv /\ NormalInv /\ UploadInv)
<1>1. ServiceSpec => [](IInv /\ NormalInv)
  BY SpecIInv, InitNormal, StepKeepsNormal, UploadsImplementStore, PTL DEF Spec
<1> QED
  BY <1>1, InitUpload, StepKeepsUpload, PTL DEF ServiceSpec

(* The url of an answer leads to the bucket the object was put into.       *)
THEOREM UrlOfItsBucketHolds == ServiceSpec => []UrlOfItsBucket
<1>1. UploadInv => UrlOfItsBucket
  BY DEF UploadInv, UrlOfItsBucket
<1> QED
  BY <1>1, UploadsInv, PTL

(* Only a signed url that was wanted leaves an orphan that is known.       *)
THEOREM NoNeedlessOrphanHolds == ServiceSpec => []NoNeedlessOrphan
<1>1. UploadInv => NoNeedlessOrphan
  BY DEF UploadInv, NoNeedlessOrphan
<1> QED
  BY <1>1, UploadsInv, PTL

(* A signed url is good for the configured seconds, if they fit.           *)
THEOREM SignedLastsHolds == ServiceSpec => []SignedLasts
<1>1. UploadInv => SignedLasts
  BY DEF UploadInv, Lasts, SignedLasts
<1> QED
  BY <1>1, UploadsInv, PTL

=============================================================================
