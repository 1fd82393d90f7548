--------------------------- MODULE MCProxyBackend ---------------------------
(***************************************************************************)
(* Small instances of ProxyBackend for TLC.                                *)
(***************************************************************************)
EXTENDS ProxyBackend, TLC

MCWhats == {{"IN"}, {"OUT"}}

\* Disarm, now, and a timeout that ends on a whole second, where the two
\* fields of it_value differ most.
MCTimeouts == {-1, 0, 1000}

MCSymmetry == Permutations(Requests) \cup Permutations(Socks)
=============================================================================
