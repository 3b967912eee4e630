------------------------------- MODULE MCPools -------------------------------
(* DBService on small sets for TLC: two DSNs of one server that differ in  *)
(* the password, of which one is right, a DSN of another server, and one   *)
(* that does not parse.                                                    *)
EXTENDS DBService

MCSettings == {"right", "wrong", "other", "malformed"}

MCServer ==
  [c \in MCSettings |-> IF c = "other" THEN "B" ELSE "A"]

=============================================================================
