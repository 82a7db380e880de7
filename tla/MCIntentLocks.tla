--------------------------- MODULE MCIntentLocks ---------------------------
(* IntentLocks with two pairs and a row of each, for TLC. *)
EXTENDS IntentLocks, TLC

CONSTANTS p1, p2, i1, i2

MCPairOf == i1 :> p1 @@ i2 :> p2
=============================================================================
