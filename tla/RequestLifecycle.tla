-------------------------- MODULE RequestLifecycle --------------------------
(***************************************************************************)
(* What QuicProxyBackend promises about one QuicProxyCurl object per       *)
(* request: it is usable until its transfer is over, it is unlinked from   *)
(* its stream when the transfer is retired, and its memory is given back   *)
(* only after that, in a step that retires nothing.                        *)
(***************************************************************************)
CONSTANT Requests

VARIABLES
  phase,    \* "new" | "active" | "retired" | "freed"
  attached  \* requests whose transfer still has a stream to write to

lifecycleVars == <<phase, attached>>

Init == phase = [r \in Requests |-> "new"] /\ attached = {}

InPhase(p) == {r \in Requests : phase[r] = p}

\* A stream hands its request to the backend.
Accept(r) ==
  /\ phase[r] = "new"
  /\ phase' = [phase EXCEPT ![r] = "active"]
  /\ attached' = attached \cup {r}

\* The stream of a transfer that still runs goes away.
Detach(r) ==
  /\ r \in attached
  /\ attached' = attached \ {r}
  /\ UNCHANGED phase

\* Transfers that are over are retired together and lose their streams.
Retire(S) ==
  /\ S # {} /\ S \subseteq InPhase("active")
  /\ phase' = [r \in Requests |-> IF r \in S THEN "retired" ELSE phase[r]]
  /\ attached' = attached \ S

\* Everything retired so far is freed.
Reclaim ==
  /\ InPhase("retired") # {}
  /\ phase' = [r \in Requests |->
                 IF phase[r] = "retired" THEN "freed" ELSE phase[r]]
  /\ UNCHANGED attached

Next ==
  \/ \E r \in Requests : Accept(r) \/ Detach(r)
  \/ \E S \in SUBSET Requests : Retire(S)
  \/ Reclaim

Spec == Init /\ [][Next]_lifecycleVars
=============================================================================
