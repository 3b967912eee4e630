----------------------------- MODULE MCConnStore -----------------------------
(* ConnStore on small sets for TLC, with the atomic list it implements. *)
EXTENDS ConnStore, RecordStoreRefinement, TLC

MCSymmetry ==
  Permutations(Procs) \cup Permutations(IDs) \cup Permutations(Hidden)
    \cup Permutations(CustomNames)

=============================================================================
