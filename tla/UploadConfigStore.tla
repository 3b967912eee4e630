-------------------------- MODULE UploadConfigStore --------------------------
(***************************************************************************)
(* The COS upload configuration as a ConfigStore: the bucket with the      *)
(* credentials, its text fields padded or not, whether there is a public   *)
(* base url, whether urls are signed, and for how many seconds.  Save      *)
(* normalises before it writes and caches.                                 *)
(***************************************************************************)
EXTENDS ConfigStore, Integers

CONSTANT Expiries   \* seconds that are asked for, or stand in the file

Document(bucket, text, public, signed, expire) ==
  [bucket |-> bucket, text |-> text, public |-> public, signed |-> signed,
   expire |-> expire]

UploadDefault == Document("none", "trimmed", FALSE, FALSE, 3600)

(* Nothing; a bucket with plain urls; another with signed ones; the first  *)
(* with a public base url, which signs only if there were none.            *)
UploadConfigs ==
  {UploadDefault, Document("a", "trimmed", TRUE, TRUE, 3600)} \cup
  {Document("a", t, FALSE, FALSE, 3600) : t \in {"nested", "padded", "trimmed"}} \cup
  {Document("b", "trimmed", FALSE, TRUE, e) : e \in Expiries \cup {3600}}

(* Blanks and slashes around the fields are cut off, once each: where a    *)
(* blank hides a slash, or the other way round, padding stays ("nested").  *)
(* An expiry that is not positive becomes an hour, and none is too long.   *)
UploadNorm ==
  [c \in UploadConfigs |->
     [c EXCEPT !.text = IF @ = "nested" THEN "padded" ELSE "trimmed",
               !.expire = IF @ <= 0 THEN 3600 ELSE @]]

(* ConfigStore's constants, as this store has them.                        *)
ASSUME UploadAssumption ==
  /\ Expiries \subseteq Int
  /\ Configs = UploadConfigs /\ Norm = UploadNorm /\ Default = UploadDefault /\ ~CachesRaw

UploadLoad(p) == LoadCached(p) \/ LoadMisses(p) \/ LoadFilled(p)
UploadRead(p) == LoadFile(p) \/ LoadFails(p)
UploadSave(p) == Truncate(p) \/ WriteData(p)
UploadWrite(p) == OpenFails(p) \/ WriteFails(p)

(* ConfigStore's steps, by the functions of uploadconfig.go they are in.   *)
UploadNext ==
  \/ \E p \in Procs :
       \/ CallLoad(p) \/ (\E c \in Configs : CallSave(p, c))
       \/ Lock(p) \/ UploadLoad(p) \/ UploadRead(p)
       \/ UploadSave(p) \/ UploadWrite(p) \/ Return(p)
  \/ Crash

UploadSpec == Init /\ [][UploadNext]_vars

-----------------------------------------------------------------------------

(* What Load answers is exactly what it would answer after a restart, with *)
(* no call to normalizeUploadConfig between: the handlers and the upload   *)
(* use the cached document as it is.                                       *)
CacheIsFile ==
  Settled /\ cache # NoConfig /\ disk # "torn" => cache = OnDisk

=============================================================================
