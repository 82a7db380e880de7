---------------------------- MODULE RatingLedger ----------------------------
(***************************************************************************)
(* C1 ratings of one user: PUT and DELETE transactions keep the rating of  *)
(* a movie, its frame and popcorn, and the user's flavor and taste         *)
(* aggregates together, while the catalog they are derived from is         *)
(* replaced.  Users share no row here, so one user is enough.              *)
(*                                                                         *)
(* A transaction is seen by others when it commits; until then it has only *)
(* locks.  The advisory lock of the domain, the viewing row and the rating *)
(* row of a movie are one lock here: the first is always taken first, so   *)
(* nobody ever waits for the others.  The rows of the aggregates are       *)
(* locked one by one as they are updated, in an order that depends on the  *)
(* movie, so transactions can wait for each other in a circle, which       *)
(* PostgreSQL ends by aborting one of them.                                *)
(*                                                                         *)
(* The rows of the aggregates are updated by differences (rating_count -   *)
(* 1): a transaction keeps the set of rows it has taken its old value from *)
(* and the set of those it has added its new value to.                     *)
(***************************************************************************)
EXTENDS Integers, FiniteSets

CONSTANTS Movies, Flavors, Dimensions,    \* Dimensions: genres, countries, directors
          Values,                         \* of a rating
          Catalogs,                       \* what an import may publish
          Requests,                       \* at the same time
          MaxRevision,                    \* bound on the revision of a rating
          None

Aggregates == Flavors \union Dimensions

(* c1_rating_eligible_movie with movie_flavor_assignment, and the dimensions
   of the movie in the active catalog version. *)
Entry   == [eligible : BOOLEAN, flavor : Flavors \union {None}, dimensions : SUBSET Dimensions]
Catalog == [Movies -> Entry]

ASSUME CatalogsAssumption ==
  Catalogs \subseteq {c \in Catalog : \A m \in Movies : c[m].eligible => c[m].flavor # None}
ASSUME ValuesAssumption == Values \subseteq 1..5
ASSUME SizesAssumption == IsFiniteSet(Movies) /\ MaxRevision \in Nat
ASSUME KeysAssumption == Flavors \intersect Dimensions = {} /\ None \notin Aggregates \union Requests

VARIABLES
  catalog,     \* ACTIVE catalog version and the flavor assignments
  viewing,     \* viewing_record.status of each movie
  rating,      \* rating
  posted,      \* popcorn.flavor_id and rating_taste_contribution of each movie
  aggregate,   \* flavor_aggregate and taste_aggregate
  locks,       \* who has the locks of a movie, the lock of an aggregate's row
  tx           \* the request a transaction is about, and how far it is

tables == <<viewing, rating, posted, aggregate>>
vars == <<catalog, tables, locks, tx>>

NoPosting == [flavor |-> None, dimensions |-> {}]
Request(pc, op, movie, value, expected) ==
  [pc |-> pc, op |-> op, movie |-> movie, value |-> value, expected |-> expected,
   derived |-> NoPosting, want |-> None, taken |-> {}, added |-> {}]
Idle == Request("idle", None, None, None, None)

Init ==
  /\ catalog \in Catalogs
  /\ viewing = [m \in Movies |-> "NONE"]
  /\ rating = [m \in Movies |-> [status |-> "NONE", revision |-> 0, value |-> 0]]
  /\ posted = [m \in Movies |-> NoPosting]
  /\ aggregate = [k \in Aggregates |-> [count |-> 0, sum |-> 0]]
  /\ locks = [x \in Movies \union Aggregates |-> None]
  /\ tx = [r \in Requests |-> Idle]

-----------------------------------------------------------------------------
(* The world around: a confirmation of WatchIntent, an import.  An import
   assigns flavors to the movies it finds eligible and leaves the assignments
   of the others. *)

ConfirmWatched(m) == /\ viewing[m] = "NONE"
                     /\ viewing' = [viewing EXCEPT ![m] = "WATCHED_CONFIRMED"]
                     /\ UNCHANGED <<catalog, rating, posted, aggregate, locks, tx>>

Publish(c) == /\ catalog' = [m \in Movies |-> IF c[m].eligible THEN c[m]
                                              ELSE [catalog[m] EXCEPT !.eligible = FALSE]]
              /\ UNCHANGED <<tables, locks, tx>>

-----------------------------------------------------------------------------
(* Requests. *)

Movie(r) == tx[r].movie
Goto(r, pc) == tx' = [tx EXCEPT ![r].pc = pc]

SendPut(r, m, value, expected) ==
  /\ tx[r] = Idle
  /\ tx' = [tx EXCEPT ![r] = Request("lock", "PUT", m, value, expected)]
  /\ UNCHANGED <<catalog, tables, locks>>

SendDelete(r, m, expected) ==
  /\ tx[r] = Idle
  /\ tx' = [tx EXCEPT ![r] = Request("lock", "DELETE", m, None, expected)]
  /\ UNCHANGED <<catalog, tables, locks>>

(* Fault: the advisory lock belongs to the session, not to the transaction. *)
ReleaseRows(r) == locks' = [x \in Movies \union Aggregates |->
                              IF x \in Aggregates /\ locks[x] = r THEN None ELSE locks[x]]

Release(r) == locks' = [x \in Movies \union Aggregates |->
                          IF locks[x] = r THEN None ELSE locks[x]]

Rollback(r) == /\ tx' = [tx EXCEPT ![r] = Idle]
               /\ Release(r)
               /\ UNCHANGED <<catalog, tables>>

Free(r, x) == locks[x] \in {None, r}
Lock(r, x) == Free(r, x) /\ locks' = [locks EXCEPT ![x] = r]

(* Fault: the transactions of a movie are not kept apart. *)
NoMovieLock(r) == /\ tx[r].pc = "lock"
                  /\ Goto(r, "read")
                  /\ UNCHANGED <<catalog, tables, locks>>

LockMovie(r) == /\ tx[r].pc = "lock"
                /\ Lock(r, Movie(r))
                /\ Goto(r, "read")
                /\ UNCHANGED <<catalog, tables>>

(* Fault: WATCH_CONFIRMATION_REQUIRED is not checked. *)
EligibleUnwatched(r) == tx[r].op = "PUT" => catalog[Movie(r)].eligible

(* WATCH_CONFIRMATION_REQUIRED and FLAVOR_ASSIGNMENT_REQUIRED. *)
Eligible(r) == tx[r].op = "PUT" => viewing[Movie(r)] # "NONE" /\ catalog[Movie(r)].eligible

(* RESOURCE_NOT_FOUND and REVISION_CONFLICT: a PUT that expects no revision
   creates a rating, or brings a deleted one back. *)
Expected(r) ==
  LET row == rating[Movie(r)] IN
  IF row.status = "ACTIVE" THEN tx[r].expected = row.revision
                           ELSE tx[r].op = "PUT" /\ tx[r].expected = None

(* Fault: what the rating contributed is looked up in the active catalog. *)
CurrentPosting(m) == [flavor |-> catalog[m].flavor, dimensions |-> catalog[m].dimensions]

(* projectionForUpdate, and the contributions of removeTasteContribution. *)
Posting(m) == posted[m]

(* The plain read of the eligibility, the locked read of the rating. *)
Read(r) ==
  LET m == Movie(r)
      update == rating[m].status = "ACTIVE"
  IN  /\ tx[r].pc = "read"
      /\ Eligible(r) /\ Expected(r)
      /\ tx' = [tx EXCEPT ![r].pc = IF update THEN "out" ELSE "write",
                          ![r].want = IF update THEN Posting(m).flavor ELSE None,
                          ![r].derived = IF tx[r].op = "DELETE" THEN NoPosting
                                         ELSE [flavor |-> catalog[m].flavor,
                                               dimensions |-> catalog[m].dimensions]]
      /\ UNCHANGED <<catalog, tables, locks>>

Refuse(r) == /\ tx[r].pc = "read"
             /\ ~(Eligible(r) /\ Expected(r))
             /\ Rollback(r)

(* What follows the update of a row: another of those left, in an order no
   ORDER BY says, or, when none is left, step pc. *)
Continue(here, left, pc) == IF left = {} THEN {[pc |-> pc, want |-> None]}
                                         ELSE {[pc |-> here, want |-> k] : k \in left}

(* applyFlavorDelta(-1) and removeTasteContribution. *)
TakeOut(r) ==
  LET taken == tx[r].taken \union {tx[r].want} IN
  /\ tx[r].pc = "out"
  /\ Lock(r, tx[r].want)
  /\ \E next \in Continue("out", Posting(Movie(r)).dimensions \ taken, "write") :
       tx' = [tx EXCEPT ![r].taken = taken, ![r].pc = next.pc, ![r].want = next.want]
  /\ UNCHANGED <<catalog, tables>>

(* enforce_popcorn_owner_invariant: the assignment may have changed since the
   eligibility was read. *)
PopcornAccepted(r) == tx[r].op = "PUT" => tx[r].derived.flavor = catalog[Movie(r)].flavor

(* The rows of rating, viewing_record, frame and popcorn. *)
WriteRows(r) == /\ tx[r].pc = "write" /\ PopcornAccepted(r)
                /\ tx' = [tx EXCEPT ![r].pc = IF tx[r].op = "PUT" THEN "in" ELSE "commit",
                                    ![r].want = tx[r].derived.flavor]
                /\ UNCHANGED <<catalog, tables, locks>>

PopcornRefused(r) == /\ tx[r].pc = "write" /\ ~PopcornAccepted(r)
                     /\ Rollback(r)

(* applyFlavorDelta(+1) and addTasteContribution. *)
AddIn(r) ==
  LET added == tx[r].added \union {tx[r].want} IN
  /\ tx[r].pc = "in"
  /\ Lock(r, tx[r].want)
  /\ \E next \in Continue("in", tx[r].derived.dimensions \ added, "commit") :
       tx' = [tx EXCEPT ![r].added = added, ![r].pc = next.pc, ![r].want = next.want]
  /\ UNCHANGED <<catalog, tables>>

(* Fault: the new value is taken from the aggregates, not the old one. *)
NewValue(r) == IF tx[r].op = "PUT" THEN tx[r].value ELSE rating[Movie(r)].value

OldValue(r) == rating[Movie(r)].value

(* An aggregate's row as the transaction sees it. *)
Tentative(r, k) ==
  LET taken == IF k \in tx[r].taken THEN 1 ELSE 0
      added == IF k \in tx[r].added THEN 1 ELSE 0
      value == IF tx[r].op = "PUT" THEN tx[r].value ELSE 0
  IN  [count |-> aggregate[k].count - taken + added,
       sum   |-> aggregate[k].sum - taken * OldValue(r) + added * value]

(* Fault: the viewing record stays RATED_COMPLETED. *)
StaysRated(op) == "RATED_COMPLETED"

ViewingAfter(op) == IF op = "PUT" THEN "RATED_COMPLETED" ELSE "WATCHED_CONFIRMED"

Commit(r) ==
  LET m == Movie(r) IN
  /\ tx[r].pc = "commit"
  /\ rating' = [rating EXCEPT ![m] =
                  [status |-> IF tx[r].op = "PUT" THEN "ACTIVE" ELSE "DELETED",
                   revision |-> @.revision + 1,
                   value |-> IF tx[r].op = "PUT" THEN tx[r].value ELSE @.value]]
  /\ viewing' = [viewing EXCEPT ![m] = ViewingAfter(tx[r].op)]
  /\ posted' = [posted EXCEPT ![m] = tx[r].derived]
  /\ aggregate' = [k \in Aggregates |-> Tentative(r, k)]
  /\ tx' = [tx EXCEPT ![r] = Idle]
  /\ Release(r)
  /\ UNCHANGED catalog

-----------------------------------------------------------------------------
(* Transactions that wait, and their end. *)

(* Who has the lock a transaction waits for. *)
Blocker(r) ==
  LET wanted == CASE tx[r].pc = "lock"          -> {Movie(r)}
                  [] tx[r].pc \in {"out", "in"} -> {tx[r].want}
                  [] OTHER                      -> {}
  IN  {locks[x] : x \in {y \in wanted : ~Free(r, y)}}

Deadlocked(S) == S # {} /\ S = UNION {Blocker(r) : r \in S}

(* PostgreSQL finds a circle of waiting transactions and aborts one of them. *)
DeadlockVictim(r) == /\ \E S \in SUBSET Requests : r \in S /\ Deadlocked(S)
                     /\ Rollback(r)

(* A statement fails or the connection is lost. *)
Abort(r) == tx[r] # Idle /\ Rollback(r)

Advance(r) == \/ LockMovie(r) \/ Read(r) \/ Refuse(r) \/ TakeOut(r) \/ WriteRows(r)
              \/ PopcornRefused(r) \/ AddIn(r) \/ Commit(r)

Send(r) == \E m \in Movies :
             /\ rating[m].revision < MaxRevision
             /\ \/ \E value \in Values, expected \in 1..MaxRevision \union {None} :
                     SendPut(r, m, value, expected)
                \/ \E expected \in 1..MaxRevision : SendDelete(r, m, expected)

Next == \/ \E m \in Movies : ConfirmWatched(m)
        \/ \E c \in Catalogs : Publish(c)
        \/ \E r \in Requests : Send(r) \/ Advance(r) \/ DeadlockVictim(r) \/ Abort(r)

Spec == Init /\ [][Next]_vars

(* Statements are executed, waiting transactions get their locks in turn, and
   circles are found. *)
Fairness == /\ \A r \in Requests : SF_vars(Advance(r))
            /\ WF_vars(\E r \in Requests : DeadlockVictim(r))

LiveSpec == Spec /\ Fairness

-----------------------------------------------------------------------------
(* Properties. *)

Contribution == [flavor : Flavors \union {None}, dimensions : SUBSET Dimensions]

Tx == [pc : {"idle", "lock", "read", "out", "write", "in", "commit"},
       op : {"PUT", "DELETE", None}, movie : Movies \union {None},
       expected : Nat \union {None}, value : Values \union {None}, derived : Contribution,
       want : Aggregates \union {None}, taken : SUBSET Aggregates, added : SUBSET Aggregates]

(* Every variable holds values of its type. *)
TypeOK ==
  /\ catalog \in Catalog
  /\ viewing \in [Movies -> {"NONE", "WATCHED_CONFIRMED", "RATED_COMPLETED"}]
  /\ rating \in [Movies -> [status : {"NONE", "ACTIVE", "DELETED"}, revision : Nat,
                            value : Values \union {0}]]
  /\ posted \in [Movies -> Contribution]
  /\ aggregate \in [Aggregates -> [count : Nat, sum : Nat]]
  /\ locks \in [Movies \union Aggregates -> Requests \union {None}]
  /\ tx \in [Requests -> Tx]

(* BR-C1-036, 037 and 043: an aggregate counts and sums exactly the active
   ratings that were posted to it, whatever catalogs they were derived from. *)
PostedTo(k) == {m \in Movies : k = posted[m].flavor \/ k \in posted[m].dimensions}
Rated(k, v) == {m \in PostedTo(k) : rating[m].value = v}
Stars(k)    == Cardinality(Rated(k, 1)) + 2 * Cardinality(Rated(k, 2))
                 + 3 * Cardinality(Rated(k, 3)) + 4 * Cardinality(Rated(k, 4))
                 + 5 * Cardinality(Rated(k, 5))

LedgerBalances ==
  \A k \in Aggregates :
    aggregate[k] = [count |-> Cardinality(PostedTo(k)), sum |-> Stars(k)]

(* BR-C1-035 and 038: active rating, frame with popcorn, and RATED_COMPLETED
   go together, and only what was watched is rated. *)
ActiveHasFrame ==
  \A m \in Movies :
    /\ rating[m].status = "ACTIVE" <=> posted[m].flavor # None
    /\ rating[m].status = "ACTIVE" <=> viewing[m] = "RATED_COMPLETED"

(* The CHECK constraints of the aggregates and the delta invariant of
   applyFlavorDelta never stop a transaction, at any of its statements. *)
ChecksNeverFire ==
  \A r \in Requests, k \in Aggregates :
    k \in tx[r].taken \union tx[r].added =>
      LET row == Tentative(r, k) IN
      /\ k \in tx[r].taken => aggregate[k].count > 0
      /\ row.count >= 0 /\ row.sum <= 5 * row.count
      /\ row.sum >= row.count /\ (row.count = 0 => row.sum = 0)

(* BR-C1-015: a change is made to the revision the caller has seen, even when
   two callers have seen the same one: no update is lost. *)
NoLostUpdate ==
  [][\A r \in Requests : Commit(r) =>
       LET row == rating[Movie(r)] IN
       tx[r].expected = IF row.status = "ACTIVE" THEN row.revision ELSE None]_vars

(* What catalogs give an eligible movie to be posted to. *)
Served == [m \in Movies |-> {[flavor |-> c[m].flavor, dimensions |-> c[m].dimensions] :
                                c \in {d \in Catalogs : d[m].eligible}}]

(* Whatever statements, locks, aborts and imports come in between, the tables
   change as if each rating were changed in one step, with every aggregate at
   the total of what is posted to it, and only a watched movie is rated. *)
Atomic == INSTANCE AtomicRatings
ImplementsAtomicRatings == Atomic!Spec

(* Every request ends, circles of waiting transactions included. *)
RequestsEnd == \A r \in Requests : tx[r] # Idle ~> tx[r] = Idle
=============================================================================
