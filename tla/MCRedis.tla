------------------------------- MODULE MCRedis -------------------------------
(* RedisCommands on small sets for TLC. *)
EXTENDS RedisCommands

(* The server of address A asks for a password, the one of B for none. *)
MCAccepted ==
  {c \in RedisSettings :
     c.password = IF c.addr = "A" THEN "right" ELSE "empty"}

(* Three cursors, of which the second has no key. *)
MCKeys == {"a", "b"}
MCBucket == [k \in MCKeys |-> IF k = "a" THEN 1 ELSE 3]

(* Up to two words: an empty one, a plain one and one with a blank. *)
MCWords == SeqOf({<<>>, <<"x">>, <<"blank", "x">>}, 2)

=============================================================================
