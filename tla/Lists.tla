-------------------------------- MODULE Lists --------------------------------
(* Filtering a list, as the loops of the stores and Array.filter on the    *)
(* page do it.                                                             *)
EXTENDS Naturals, Sequences

(* The elements of s at the places in I, in their order: the loop of the   *)
(* filtered lists.  A recursive function, which proofs can unfold.         *)
Sift(s, I) ==
  LET upTo[n \in 0..Len(s)] ==
        IF n = 0 THEN << >>
        ELSE IF n \in I THEN Append(upTo[n - 1], s[n]) ELSE upTo[n - 1]
  IN  upTo[Len(s)]

=============================================================================
