-------------------------------- MODULE MCWeb --------------------------------
(* WebPage on small sets for TLC, with a name that strings.TrimSpace cuts: *)
(* typed it is "admin", configured it is a user nobody can log in as.      *)
EXTENDS WebPage, TLC

MCTrim == [n \in Names |-> IF n = "admin " THEN "admin" ELSE n]

MCSymmetry == Permutations(Tables) \cup Permutations(Secrets)

=============================================================================
