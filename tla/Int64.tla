-------------------------------- MODULE Int64 --------------------------------
(***************************************************************************)
(* Go's int64, on which the redis limits are multiplied (redis.go:141) and *)
(* seconds become a time.Duration (cos.go:148).  Neither is bounded above. *)
(***************************************************************************)
EXTENDS Integers

CONSTANTS
  Half,    \* an int64 is in -Half..(Half - 1)
  Second   \* nanoseconds of a second

ASSUME Int64Assumption == {Half, Second} \subseteq Nat \ {0}

(* What an int64 keeps of n. *)
Wrapped(n) ==
  LET m == n % (2 * Half) IN IF m < Half THEN m ELSE m - 2 * Half

=============================================================================
