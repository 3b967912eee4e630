---------------------------- MODULE UploadService ----------------------------
(***************************************************************************)
(* Uploads to COS on the upload configuration store: a request loads the   *)
(* configuration, checks it and the file, puts the object under a fresh    *)
(* name and then makes its url.  The put has 5 minutes and ends earlier    *)
(* when the page gives up; an object may be stored though its answer is    *)
(* lost.                                                                   *)
(*                                                                         *)
(* The text of the object key and the content type are left out.           *)
(***************************************************************************)
EXTENDS UploadConfigStore, Int64

VARIABLE up  \* up[p]: the upload that goroutine p serves

upvars == <<vars, up>>

NoUpload == [at |-> "none"]

ServiceInit == Init /\ up = [p \in Procs |-> NoUpload]

SetUp(p, u) == up' = [up EXCEPT ![p] = u]

Failed(u, stored, lost) ==
  [at |-> "done", ok |-> FALSE, forced |-> u.forced, cfg |-> u.cfg, stored |-> stored,
   lost |-> lost]

(* The handler has the form and the file in memory. *)
StartUpload(p) ==
  /\ up[p] = NoUpload
  /\ CallLoad(p)
  /\ \E forced \in BOOLEAN : SetUp(p, [at |-> "loading", forced |-> forced])

(* validateUploadConfig wants a bucket with its credentials.  The file may *)
(* be empty or too large, or the domain no host name.                      *)
Checked(p) ==
  /\ up[p].at = "loading"
  /\ Return(p)
  /\ LET u == [at |-> "putting", forced |-> up[p].forced, cfg |-> ans[p]] IN
     \/ err[p] = "none" /\ ans[p].bucket # "none" /\ SetUp(p, u)
     \/ SetUp(p, Failed(u, "nowhere", FALSE))

PutOk(p) ==
  /\ up[p].at = "putting"
  /\ SetUp(p, [up[p] EXCEPT !.at = "stored"])
  /\ UNCHANGED vars

PutFails(p) ==
  /\ up[p].at = "putting"
  /\ \E stored \in {"nowhere", up[p].cfg.bucket} : SetUp(p, Failed(up[p], stored, TRUE))
  /\ UNCHANGED vars

(* Faulty variant: a signed url comes before the public one. *)
UrlSignedFirst(cfg, forced) ==
  IF forced \/ cfg.signed THEN "signed" ELSE IF cfg.public THEN "public" ELSE "plain"

(* resolveObjectURL *)
Url(cfg, forced) ==
  IF cfg.public THEN "public" ELSE IF forced \/ cfg.signed THEN "signed" ELSE "plain"

(* The seconds become nanoseconds in an int64. *)
Lifetime(cfg) == Wrapped(cfg.expire * Second)

(* The url a page gets, with the bucket and, when it is signed, the time   *)
(* it is good for.  secs is history: the seconds that were configured.     *)
Answered(p, url, cfg) ==
  [at |-> "done", ok |-> TRUE, stored |-> up[p].cfg.bucket, forced |-> up[p].forced,
   url |-> url, bucket |-> cfg.bucket, expire |-> Lifetime(cfg), secs |-> cfg.expire]

(* Faulty variant: the url is made with the configuration of the store,    *)
(* which may have been saved since.                                        *)
ResolveReloaded(p) ==
  LET cfg == IF cache = NoConfig THEN up[p].cfg ELSE cache IN
  /\ up[p].at = "stored"
  /\ SetUp(p, Answered(p, Url(cfg, up[p].forced), cfg))
  /\ UNCHANGED vars

Resolve(p) ==
  LET cfg == up[p].cfg IN
  /\ up[p].at = "stored"
  /\ SetUp(p, Answered(p, Url(cfg, up[p].forced), cfg))
  /\ UNCHANGED vars

(* Signing fails, and with it a request whose object is stored. *)
SignFails(p) ==
  /\ up[p].at = "stored"
  /\ Url(up[p].cfg, up[p].forced) = "signed"
  /\ SetUp(p, Failed(up[p], up[p].cfg.bucket, FALSE))
  /\ UNCHANGED vars

Respond(p) == up[p].at = "done" /\ SetUp(p, NoUpload) /\ UNCHANGED vars

UploadSteps(p) ==
  Checked(p) \/ PutOk(p) \/ PutFails(p) \/ Resolve(p) \/ SignFails(p) \/ Respond(p)

StoreSteps(p) ==
  \/ up[p] = NoUpload /\ (CallLoad(p) \/ (\E c \in Configs : CallSave(p, c)) \/ Return(p))
  \/ Lock(p) \/ UploadLoad(p) \/ UploadRead(p) \/ UploadSave(p) \/ UploadWrite(p)

ServiceNext ==
  \/ \E p \in Procs : StartUpload(p) \/ UploadSteps(p) \/ (StoreSteps(p) /\ UNCHANGED up)
  \/ Crash /\ up' = [p \in Procs |-> NoUpload]

ServiceSpec == ServiceInit /\ [][ServiceNext]_upvars

-----------------------------------------------------------------------------

(* The url of an answer leads to the bucket the object was put into,       *)
(* whatever is saved between the put and the url (cos.go:80 and 84).       *)
UrlOfItsBucket ==
  \A p \in Procs :
    up[p].at = "done" /\ up[p].ok => up[p].bucket = up[p].stored

(* A signed url is good for exactly the configured seconds, and for some   *)
(* time: the service relies on the store to have normalised what was saved *)
(* or read from the file (uploadconfig.go:108).  Not so for seconds whose  *)
(* product with time.Second overflows, over 9 223 372 036 of them, which   *)
(* nothing refuses (cos.go:148): the url then has expired already, or is   *)
(* good for some other time.                                               *)
SignedLasts ==
  \A p \in Procs :
    /\ up[p].at = "done" /\ up[p].ok /\ up[p].url = "signed"
    /\ up[p].secs * Second < Half
    => up[p].expire = up[p].secs * Second /\ up[p].expire > 0

(* A request fails although its object is stored and it heard of it only   *)
(* when a signed url was wanted and there is no public one (cos.go:84 to   *)
(* 87, 137 to 153): the object is an orphan that a retry stores again.     *)
NoNeedlessOrphan ==
  \A p \in Procs :
    up[p].at = "done" /\ ~up[p].ok /\ up[p].stored # "nowhere" /\ ~up[p].lost =>
      ~up[p].cfg.public /\ (up[p].forced \/ up[p].cfg.signed)

=============================================================================
