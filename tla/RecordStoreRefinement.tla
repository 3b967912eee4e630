------------------------ MODULE RecordStoreRefinement ------------------------
(***************************************************************************)
(* RecordStore implements Registry.  A write takes effect when it          *)
(* truncates the file: from then on the writer's slice is the list, until  *)
(* the file holds it.                                                      *)
(***************************************************************************)
EXTENDS RecordStore

Truncating == {p \in Procs : pc[p] = "truncated"}

ListOf == IF Truncating = {} THEN items
          ELSE buf[CHOOSE p \in Truncating : TRUE]

LostOf == disk = "torn" /\ Truncating = {}

ResultOf(p) ==
  IF pc[p] \in {"truncated", "returning"}
  THEN [err |-> err[p], rec |-> ret[p],
        list |-> IF req[p].op = "list" THEN buf[p] ELSE << >>]
  ELSE [err |-> "pending"]

R == INSTANCE Registry WITH
       list <- ListOf, lost <- LostOf, call <- req,
       result <- [p \in Procs |-> ResultOf(p)]

(* The store is an atomic list: every method takes effect at one instant,  *)
(* and its result is the one the atomic list gives.                        *)
IsRegistry == R!RegistrySpec

=============================================================================
