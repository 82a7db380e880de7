--------------------------- MODULE AtomicRatings ---------------------------
(***************************************************************************)
(* What C1 promises of the ratings of one user: a movie that was watched   *)
(* is rated, rated again or its rating deleted in one step, which leaves   *)
(* every aggregate at the total of the ratings posted to it.  No requests, *)
(* no locks, no imports, no differences: RatingLedger, which has all of    *)
(* them, is shown to implement this.                                       *)
(***************************************************************************)
EXTENDS Naturals, FiniteSets

CONSTANTS Movies, Aggregates, Values,
          Served,       \* the postings some catalog gives an eligible movie
          NoPosting     \* of a movie without an active rating

VARIABLES viewing, rating, posted, aggregate

vars == <<viewing, rating, posted, aggregate>>

(* The aggregate of key k: how many ratings are posted to it, and their sum. *)
Counted(k)  == {m \in Movies : k = posted[m].flavor \/ k \in posted[m].dimensions}
Stars(k, v) == v * Cardinality({m \in Counted(k) : rating[m].value = v})
Total(k)    == [count |-> Cardinality(Counted(k)),
                sum   |-> Stars(k, 1) + Stars(k, 2) + Stars(k, 3) + Stars(k, 4) + Stars(k, 5)]
Totalled    == aggregate = [k \in Aggregates |-> Total(k)]

Init == /\ viewing = [m \in Movies |-> "NONE"]
        /\ rating = [m \in Movies |-> [status |-> "NONE", revision |-> 0, value |-> 0]]
        /\ posted = [m \in Movies |-> NoPosting]
        /\ Totalled

Watch(m) == /\ viewing[m] = "NONE"
            /\ viewing' = [viewing EXCEPT ![m] = "WATCHED_CONFIRMED"]
            /\ UNCHANGED <<rating, posted, aggregate>>

Put(m, value, posting) ==
  /\ viewing[m] # "NONE"
  /\ viewing' = [viewing EXCEPT ![m] = "RATED_COMPLETED"]
  /\ rating' = [rating EXCEPT ![m] =
                  [status |-> "ACTIVE", revision |-> @.revision + 1, value |-> value]]
  /\ posted' = [posted EXCEPT ![m] = posting]
  /\ Totalled'

Delete(m) ==
  /\ rating[m].status = "ACTIVE"
  /\ viewing' = [viewing EXCEPT ![m] = "WATCHED_CONFIRMED"]
  /\ rating' = [rating EXCEPT ![m].status = "DELETED", ![m].revision = @ + 1]
  /\ posted' = [posted EXCEPT ![m] = NoPosting]
  /\ Totalled'

Next == \E m \in Movies :
          \/ Watch(m)
          \/ \E value \in Values, posting \in Served[m] : Put(m, value, posting)
          \/ Delete(m)

Spec == Init /\ [][Next]_vars
=============================================================================
