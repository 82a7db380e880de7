----------------------------- MODULE PhaseChain -----------------------------
(***************************************************************************)
(* What the r4 publication protocol promises of a run: its phases, in the  *)
(* order of expected_namespace_before, are decided once each, as a success *)
(* or a handled failure, and none before every earlier phase succeeded.    *)
(***************************************************************************)
EXTENDS Naturals

CONSTANT NumPhases

VARIABLE outcome

Phases == 1..NumPhases

Undecided == "none"

Init == outcome = [p \in Phases |-> Undecided]

Decide(p, result) == /\ outcome[p] = Undecided
                     /\ \A q \in Phases : q < p => outcome[q] = "success"
                     /\ outcome' = [outcome EXCEPT ![p] = result]

Next == \E p \in Phases : Decide(p, "success") \/ Decide(p, "failure")

Spec == Init /\ [][Next]_outcome
=============================================================================
