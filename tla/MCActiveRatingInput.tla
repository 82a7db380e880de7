------------------------ MODULE MCActiveRatingInput -------------------------
(* ActiveRatingInput with a few changes and two workers, for TLC. *)
EXTENDS ActiveRatingInput
=============================================================================
