--------------------------- MODULE MCRatingLedger ---------------------------
(* RatingLedger with two catalogs, between which each movie changes a dimension
   and one of them changes its flavor; the second is short of a movie. *)
EXTENDS RatingLedger, TLC

CONSTANTS m1, m2, f1, f2, d1, d2

MCCatalogs ==
  { m1 :> [eligible |-> TRUE, flavor |-> f1, dimensions |-> {d1, d2}] @@
    m2 :> [eligible |-> TRUE, flavor |-> f2, dimensions |-> {d1, d2}],
    m1 :> [eligible |-> TRUE, flavor |-> f2, dimensions |-> {d1}] @@
    m2 :> [eligible |-> FALSE, flavor |-> f2, dimensions |-> {}] }

MCOneCatalog == {[m \in {m1, m2} |-> [eligible |-> TRUE, flavor |-> IF m = m1 THEN f1 ELSE f2,
                                       dimensions |-> {d1, d2}]]}

Symmetry == Permutations(Requests)
=============================================================================
