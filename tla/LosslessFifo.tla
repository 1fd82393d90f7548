---------------------------- MODULE LosslessFifo ----------------------------
(***************************************************************************)
(* What the packet writer's cache promises: a datagram it has taken leaves *)
(* once, in the order in which it came, with the bytes and the addresses   *)
(* it came with.                                                           *)
(***************************************************************************)
EXTENDS Naturals, Sequences

CONSTANT Datagrams

VARIABLES
  queue,  \* datagrams taken and not yet sent
  out     \* datagrams the last step put on the wire

fifoVars == <<queue, out>>

Init == queue = <<>> /\ out = <<>>

\* Some of what is queued, after taking what is in taken, goes out.
Move(taken) ==
  LET all == queue \o taken
  IN  \E n \in 0..Len(all) :
        /\ out' = SubSeq(all, 1, n)
        /\ queue' = SubSeq(all, n + 1, Len(all))

Next == Move(<<>>) \/ \E d \in Datagrams : Move(<<d>>)

Spec == Init /\ [][Next]_fifoVars
=============================================================================
