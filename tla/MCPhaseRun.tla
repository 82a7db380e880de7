----------------------------- MODULE MCPhaseRun -----------------------------
(* PhaseRun with a preflight and its review, for TLC. *)
EXTENDS PhaseRun

MCContainers == [p \in Phases |-> IF p \in Reviews THEN 0 ELSE 2]
=============================================================================
