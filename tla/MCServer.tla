------------------------------ MODULE MCServer ------------------------------
(***************************************************************************)
(* Three batches of datagrams, client hellos for three events, the last of *)
(* them in a datagram that is too long, and a receive queue of three.      *)
(***************************************************************************)
EXTENDS Server

MCDatagrams == 1..6
MCChlos     == 1..4
MCOversized == {4}
MCEmpty     == {6}
=============================================================================
