--------------------------- MODULE ResponseStream ---------------------------
(***************************************************************************)
(* What a proxied response promises to the client: the stream gets the     *)
(* units of the response, and its end when it has them all and not before. *)
(* Nothing is said of when: the origin or the client may stop at any unit. *)
(***************************************************************************)
EXTENDS Naturals

VARIABLES
  size,   \* units of the response
  given,  \* units the stream was given
  ended   \* the stream was given its end

Init == size \in Nat /\ given = 0 /\ ended = FALSE

\* A write of n units, the last one with the end or without.
Write(n, fin) ==
  /\ ~ended
  /\ given + n <= size
  /\ fin => given + n = size
  /\ given' = given + n
  /\ ended' = fin
  /\ UNCHANGED size

Next == \E n \in 0 .. size - given, fin \in BOOLEAN : Write(n, fin)

Spec == Init /\ [][Next]_<<size, given, ended>>
=============================================================================
