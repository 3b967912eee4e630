----------------------------- MODULE ConfigStore -----------------------------
(***************************************************************************)
(* A configuration store of the service layer: one JSON document in a file,*)
(* cached in memory after the first Load or Save, guarded by a             *)
(* sync.RWMutex.  ImageConfigStore and UploadConfigStore are its two       *)
(* instances.  They normalise a document when they write it and again when *)
(* they read it; the image store caches what it was given, the upload      *)
(* store what it wrote (CachesRaw tells them apart).                       *)
(*                                                                         *)
(* Unlike the list stores, Save does not load first: a save replaces a     *)
(* torn file.                                                              *)
(***************************************************************************)
EXTENDS Naturals

CONSTANTS
  Procs,      \* goroutines serving requests
  NoProc,     \* nobody
  Configs,    \* the documents
  NoConfig,   \* no document
  Default,    \* the document Load returns when there is no file
  Norm,       \* Norm[c]: c normalised
  CachesRaw   \* Save caches the document as given, not as written

(* The default is normal, and the values that stand for nobody and nothing *)
(* are not among the others.                                               *)
ASSUME ConfigAssumption ==
  /\ NoProc \notin Procs /\ NoConfig \notin Configs
  /\ CachesRaw \in BOOLEAN
  /\ Norm \in [Configs -> Configs]
  /\ Default \in Configs /\ Norm[Default] = Default

VARIABLES
  disk,     \* what the file system holds: no file, a whole document, or a torn one
  content,  \* the document in the file when it is whole
  cache,    \* s.cache, NoConfig while ~s.loaded
  writer,   \* holder of mu.Lock
  pc,       \* where each goroutine is
  arg,      \* the document a Save was given, NoConfig in a Load
  ans,      \* the document a Load returns
  err,      \* the error the method returns
  current,  \* history: the document of the last Save that succeeded
  damaged   \* history: a write was cut short and nothing was saved since

file == <<disk, content>>
local == <<pc, arg, ans, err>>
vars == <<file, cache, writer, local, current, damaged>>

Loads(p) == arg[p] = NoConfig

Init ==
  /\ disk = "absent" /\ content = Default
  /\ cache = NoConfig /\ writer = NoProc
  /\ pc = [p \in Procs |-> "idle"]
  /\ arg = [p \in Procs |-> NoConfig]
  /\ ans = [p \in Procs |-> NoConfig]
  /\ err = [p \in Procs |-> "none"]
  /\ current = Default /\ damaged = FALSE

Goto(p, from, to) == pc[p] = from /\ pc' = [pc EXCEPT ![p] = to]

CallLoad(p) ==
  /\ Goto(p, "idle", "looking")
  /\ UNCHANGED <<file, cache, writer, arg, ans, err, current, damaged>>

CallSave(p, c) ==
  /\ Goto(p, "idle", "waiting")
  /\ arg' = [arg EXCEPT ![p] = c]
  /\ UNCHANGED <<file, cache, writer, ans, err, current, damaged>>

Answer(p, from, c, e) ==
  /\ Goto(p, from, "returning")
  /\ ans' = [ans EXCEPT ![p] = c]
  /\ err' = [err EXCEPT ![p] = e]
  /\ UNCHANGED <<writer, arg, current>>

(* The section under RLock only tests loaded and copies the cache, so it   *)
(* is one step that a writer excludes.                                     *)
LoadCached(p) ==
  /\ writer = NoProc /\ cache # NoConfig
  /\ Answer(p, "looking", cache, "none")
  /\ UNCHANGED <<file, cache, damaged>>

(* Faulty variant: the file is read without mu.Lock. *)
LoadMissesUnlocked(p) ==
  /\ writer = NoProc /\ cache = NoConfig
  /\ Goto(p, "looking", "locked")
  /\ UNCHANGED <<file, cache, writer, arg, ans, err, current, damaged>>

LoadMisses(p) ==
  /\ writer = NoProc /\ cache = NoConfig
  /\ Goto(p, "looking", "waiting")
  /\ UNCHANGED <<file, cache, writer, arg, ans, err, current, damaged>>

(* mu.Lock, in Save and in the second half of Load. *)
Lock(p) ==
  /\ writer = NoProc
  /\ Goto(p, "waiting", "locked")
  /\ writer' = p
  /\ UNCHANGED <<file, cache, arg, ans, err, current, damaged>>

(* Another goroutine loaded or saved between the two locks. *)
LoadFilled(p) ==
  /\ Loads(p) /\ cache # NoConfig
  /\ Answer(p, "locked", cache, "none")
  /\ UNCHANGED <<file, cache, damaged>>

OnDisk == IF disk = "absent" THEN Default ELSE Norm[content]

LoadFile(p) ==
  /\ Loads(p) /\ cache = NoConfig /\ disk # "torn"
  /\ Answer(p, "locked", OnDisk, "none")
  /\ cache' = OnDisk
  /\ UNCHANGED <<file, damaged>>

(* A failed load leaves the cache empty: the next Load reads again. *)
LoadFails(p) ==
  /\ Loads(p) /\ cache = NoConfig
  /\ \/ disk # "absent" /\ Answer(p, "locked", NoConfig, "io")
     \/ disk = "torn" /\ Answer(p, "locked", NoConfig, "parse")
  /\ UNCHANGED <<file, cache, damaged>>

(* Faulty variant: the upload store caches what it was given. *)
CachedRaw(c) == c

Cached(c) == IF CachesRaw THEN c ELSE Norm[c]

(* Faulty variant: the cache is set before the file is written. *)
OpenFailsCached(p) ==
  /\ ~Loads(p)
  /\ Answer(p, "locked", NoConfig, "io")
  /\ cache' = Cached(arg[p])
  /\ UNCHANGED <<file, damaged>>

(* The directory cannot be made or the file not be opened. *)
OpenFails(p) ==
  /\ ~Loads(p)
  /\ Answer(p, "locked", NoConfig, "io")
  /\ UNCHANGED <<file, cache, damaged>>

Truncate(p) ==
  /\ ~Loads(p)
  /\ Goto(p, "locked", "truncated")
  /\ disk' = "torn"
  /\ UNCHANGED <<content, cache, writer, arg, ans, err, current, damaged>>

(* Faulty variant: the error of the write is dropped. *)
WriteFailsSilently(p) ==
  /\ Answer(p, "truncated", NoConfig, "none")
  /\ damaged' = TRUE
  /\ UNCHANGED <<file, cache>>

(* A full disk: a prefix of the document stays in the file, and the cache  *)
(* keeps the document of before.                                           *)
WriteFails(p) ==
  /\ Answer(p, "truncated", NoConfig, "io")
  /\ damaged' = TRUE
  /\ UNCHANGED <<file, cache>>

(* Faulty variant: Save leaves the cache as it was. *)
WriteDataUncached(p) ==
  /\ Goto(p, "truncated", "returning")
  /\ disk' = "whole" /\ content' = Norm[arg[p]]
  /\ current' = arg[p] /\ damaged' = FALSE
  /\ UNCHANGED <<cache, writer, arg, ans, err>>

WriteData(p) ==
  /\ Goto(p, "truncated", "returning")
  /\ disk' = "whole" /\ content' = Norm[arg[p]]
  /\ cache' = Cached(arg[p])
  /\ current' = arg[p] /\ damaged' = FALSE
  /\ UNCHANGED <<writer, arg, ans, err>>

Return(p) ==
  /\ Goto(p, "returning", "idle")
  /\ writer' = IF writer = p THEN NoProc ELSE writer
  /\ arg' = [arg EXCEPT ![p] = NoConfig]
  /\ ans' = [ans EXCEPT ![p] = NoConfig]
  /\ err' = [err EXCEPT ![p] = "none"]
  /\ UNCHANGED <<file, cache, current, damaged>>

(* The process is killed and started again: the file is all that survives. *)
Crash ==
  /\ cache' = NoConfig /\ writer' = NoProc
  /\ pc' = [p \in Procs |-> "idle"]
  /\ arg' = [p \in Procs |-> NoConfig]
  /\ ans' = [p \in Procs |-> NoConfig]
  /\ err' = [p \in Procs |-> "none"]
  /\ damaged' = (damaged \/ \E p \in Procs : pc[p] = "truncated")
  /\ UNCHANGED <<file, current>>

-----------------------------------------------------------------------------

LoadSteps(p) ==
  LoadCached(p) \/ LoadMisses(p) \/ LoadFilled(p) \/ LoadFile(p) \/ LoadFails(p)

SaveSteps(p) == OpenFails(p) \/ Truncate(p) \/ WriteData(p) \/ WriteFails(p)

Next ==
  \/ \E p \in Procs :
       \/ CallLoad(p) \/ (\E c \in Configs : CallSave(p, c))
       \/ Lock(p) \/ LoadSteps(p) \/ SaveSteps(p) \/ Return(p)
  \/ Crash

(* What a goroutine does once it holds mu.Lock, and its return. *)
Proceed(p) ==
  LoadFilled(p) \/ LoadFile(p) \/ LoadFails(p) \/ Truncate(p) \/ WriteData(p)
    \/ Return(p)

Spec == Init /\ [][Next]_vars

-----------------------------------------------------------------------------

TypeOK ==
  /\ disk \in {"absent", "whole", "torn"}
  /\ content \in {Norm[c] : c \in Configs}
  /\ cache \in Configs \cup {NoConfig}
  /\ writer \in Procs \cup {NoProc}
  /\ pc \in [Procs -> {"idle", "looking", "waiting", "locked", "truncated",
                       "returning"}]
  /\ arg \in [Procs -> Configs \cup {NoConfig}]
  /\ ans \in [Procs -> Configs \cup {NoConfig}]
  /\ err \in [Procs -> {"none", "io", "parse"}]
  /\ current \in Configs
  /\ damaged \in BOOLEAN

Answers(p) == pc[p] # "returning" /\ pc'[p] = "returning" /\ Loads(p)

(* One pass of the normaliser is enough for the document that was saved    *)
(* last.  It is not for every document: a file that needs a second pass    *)
(* changes its meaning when it is read back.                               *)
Settled == Norm[Norm[current]] = Norm[current]

(* At the instant a Load has its answer, the answer means the same as the  *)
(* document of the last Save that succeeded, from the cache, from the file *)
(* and across restarts: image.go normalises what it loads again.  How the  *)
(* answer reads is another matter, see RestartKeepsMeaning.                *)
LoadsCurrent ==
  [][\A p \in Procs :
       Settled /\ Answers(p) /\ err'[p] = "none" =>
         Norm[ans'[p]] = Norm[current]]_vars

(* A restart does not change what the configuration means to whoever       *)
(* normalises it again, as image.go does.  It may change how it reads: the *)
(* image store caches the document of a Save as it was given               *)
(* (imageconfig.go:69), and GET answers with the cache as it is            *)
(* (handler/imageconfig.go:27), so that a url saved with its endpoint is   *)
(* shown with it until the restart and without it afterwards.  That is the *)
(* only difference there is: cache and file are the same, or the cache is  *)
(* the last saved document of a store that caches raw.                     *)
RestartKeepsMeaning ==
  Settled /\ cache # NoConfig /\ disk # "torn" =>
    /\ Norm[cache] = OnDisk
    /\ cache # OnDisk => CachesRaw /\ cache = current

(* A Load fails to parse the file only after a write was cut short and    *)
(* nothing was saved since: never because a Save is at work.               *)
NoTornLoad ==
  [][\A p \in Procs : Answers(p) /\ err'[p] = "parse" => damaged]_vars

(* A Save that succeeds leaves a whole file with its document, even when   *)
(* it found the file torn.                                                 *)
SaveRepairs ==
  \A p \in Procs :
    pc[p] = "returning" /\ ~Loads(p) /\ err[p] = "none" =>
      disk = "whole" /\ content = Norm[arg[p]]

=============================================================================
