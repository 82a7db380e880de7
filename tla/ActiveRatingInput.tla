------------------------- MODULE ActiveRatingInput --------------------------
(***************************************************************************)
(* The C2 projection of a user's active ratings: rating mutations commit   *)
(* together with an outbox event, workers claim the events and rebuild the *)
(* projection from the rating table, recommendations read the projection.  *)
(*                                                                         *)
(* A rating mutation is one atomic action here: it runs under the locks of *)
(* its movie and what matters to the projection is only when it commits.   *)
(* A rating is its revision (the value changes with it).  input_version, a *)
(* digest of the canonical list of ratings, stands for that set itself.    *)
(***************************************************************************)
EXTENDS Naturals, FiniteSets

CONSTANTS Events, Workers, MaxAttempts, None,     \* see OutboxDispatcher
          Users, Movies

VARIABLES
  outbox, claim,   \* see OutboxDispatcher
  rating,          \* the rating row of a user and a movie
  event,           \* user_behavior_event: what each event is about
  latest,          \* history: the event of each user that committed last
  projection,      \* c2_rating_input_snapshot and c2_rating_input_item
  applied,         \* c2_rating_input_event_application
  step, seen,      \* per worker: next statement of consume, ratings it has read
  reader           \* a transaction of findProjected

Dispatcher == INSTANCE OutboxDispatcher

consumer == <<step, seen>>
vars == <<outbox, claim, rating, event, latest, projection, applied, consumer, reader>>

ASSUME EventsAssumption == Events \subseteq Nat /\ None \notin Events
ASSUME MaxAttemptsAssumption == MaxAttempts \in Nat \ {0}
(* What the projection holds of one movie. *)
Input  == [movie : Movies, revision : Nat]
Event  == [user : Users, movie : Movies, revision : Nat, active : BOOLEAN]

ASSUME NoneAssumption == None \notin Users /\ None \notin Event

NoReader == [user |-> None, version |-> {}, snapshot |-> {}]

(* readActiveRatings: one SELECT, so one committed state of the table. *)
ActiveRatings(u) == {[movie |-> m, revision |-> rating[u][m].revision] :
                       m \in {n \in Movies : rating[u][n].active}}

Actor(w) == event[claim[w]].user           \* actorFor

Init ==
  /\ Dispatcher!Init
  /\ rating = [u \in Users |-> [m \in Movies |-> [revision |-> 0, active |-> FALSE]]]
  /\ event = [e \in Events |-> None]
  /\ latest = [u \in Users |-> None]
  /\ projection = [u \in Users |-> [version |-> {}, items |-> {}, revision |-> 0]]
  /\ applied = {}
  /\ step = [w \in Workers |-> "idle"]
  /\ seen = [w \in Workers |-> {}]
  /\ reader = NoReader

-----------------------------------------------------------------------------
(* C1Service.mutateRating and removeRating, with their journal entry. *)

Rate(u, m, e, active) ==
  LET revision == rating[u][m].revision + 1 IN
  /\ Dispatcher!Append(e)
  /\ rating' = [rating EXCEPT ![u][m] = [revision |-> revision, active |-> active]]
  /\ event' = [event EXCEPT ![e] = [user |-> u, movie |-> m, revision |-> revision,
                                     active |-> active]]
  /\ latest' = [latest EXCEPT ![u] = e]
  /\ UNCHANGED <<projection, applied, consumer, reader>>

MutateRating(u, m, e) == Rate(u, m, e, TRUE)
RemoveRating(u, m, e) == rating[u][m].active /\ Rate(u, m, e, FALSE)

-----------------------------------------------------------------------------
(* PostgresActiveRatingInputProjection.consume, within the dispatcher's
   transaction. *)

store == <<rating, event, latest, projection, applied, reader>>

Goto(w, s) == step' = [step EXCEPT ![w] = s]

(* The transaction ends: its locks are free, what it read is forgotten. *)
Leave(w) == Goto(w, "idle") /\ seen' = [seen EXCEPT ![w] = {}]

DispatchNext(w) == /\ Dispatcher!DispatchNext(w)
                   /\ Goto(w, "check")
                   /\ UNCHANGED <<store, seen>>

(* Fault: the row is marked PROCESSED before it is consumed. *)
AckFirst(w) ==
  /\ step[w] = "check"
  /\ outbox' = [outbox EXCEPT ![claim[w]].status = "PROCESSED", ![claim[w]].attempts = @ + 1]
  /\ Goto(w, "lock")
  /\ UNCHANGED <<claim, store, seen>>

(* alreadyApplied, then actorFor. *)
CheckApplied(w) == /\ step[w] = "check"
                   /\ Goto(w, IF claim[w] \in applied THEN "consumed" ELSE "lock")
                   /\ UNCHANGED <<outbox, claim, store, seen>>

ActorHolders(u) == {v \in Workers : step[v] \in {"read", "project"} /\ Actor(v) = u}

(* Fault: the advisory lock of the actor is not taken. *)
NoActorLock(w) == /\ step[w] = "lock"
                  /\ Goto(w, "read")
                  /\ UNCHANGED <<outbox, claim, store, seen>>

LockActor(w) == /\ step[w] = "lock"
                /\ ActorHolders(Actor(w)) = {}
                /\ Goto(w, "read")
                /\ UNCHANGED <<outbox, claim, store, seen>>

(* Fault: the projection is not rebuilt, the event is applied to it. *)
ReadEventOnly(w) ==
  LET now == event[claim[w]]
      others == {input \in projection[Actor(w)].items : input.movie # now.movie}
  IN  /\ step[w] = "read"
      /\ seen' = [seen EXCEPT ![w] = IF now.active
                    THEN others \union {[movie |-> now.movie, revision |-> now.revision]}
                    ELSE others]
      /\ Goto(w, "project")
      /\ UNCHANGED <<outbox, claim, store>>

(* alreadyApplied under the lock, then readActiveRatings. *)
ReadActiveRatings(w) ==
  /\ step[w] = "read"
  /\ IF claim[w] \in applied
     THEN Goto(w, "consumed") /\ UNCHANGED seen
     ELSE Goto(w, "project") /\ seen' = [seen EXCEPT ![w] = ActiveRatings(Actor(w))]
  /\ UNCHANGED <<outbox, claim, store>>

(* Snapshot, items and application row, as the transaction sees them. *)
Projected(w) == [version |-> seen[w], items |-> seen[w],
                 revision |-> projection[Actor(w)].revision + 1]

(* They are committed with the status PROCESSED. *)
Deliver(w) ==
  /\ step[w] \in {"project", "consumed"}
  /\ Dispatcher!Processed(w)
  /\ IF step[w] = "project"
     THEN /\ projection' = [projection EXCEPT ![Actor(w)] = Projected(w)]
          /\ applied' = applied \union {claim[w]}
     ELSE UNCHANGED <<projection, applied>>
  /\ Leave(w)
  /\ UNCHANGED <<rating, event, latest, reader>>

(* Fault: the failure is recorded without rolling back to the savepoint. *)
FailWithoutRollback(w) ==
  /\ step[w] # "idle"
  /\ Dispatcher!Failed(w)
  /\ IF step[w] = "project"
     THEN /\ projection' = [projection EXCEPT ![Actor(w)] = Projected(w)]
          /\ applied' = applied \union {claim[w]}
     ELSE UNCHANGED <<projection, applied>>
  /\ Leave(w)
  /\ UNCHANGED <<rating, event, latest, reader>>

(* The consumer throws at any of its statements: only the failure is kept. *)
ConsumerFails(w) == /\ step[w] # "idle"
                    /\ Dispatcher!Failed(w)
                    /\ Leave(w)
                    /\ UNCHANGED store

Crash(w) == /\ Dispatcher!Crash(w)
            /\ Leave(w)
            /\ UNCHANGED store

BackoffElapses(e) == Dispatcher!BackoffElapses(e) /\ UNCHANGED <<store, consumer>>

-----------------------------------------------------------------------------
(* findProjected: two SELECTs in a REPEATABLE READ transaction. *)

FindProjected(u) == /\ reader.user = None
                    /\ projection[u].revision > 0
                    /\ reader' = [user |-> u, version |-> projection[u].version,
                                  snapshot |-> projection[u].items]
                    /\ UNCHANGED <<outbox, claim, rating, event, latest, projection, applied, consumer>>

(* Fault: READ COMMITTED, so the second SELECT has a snapshot of its own. *)
ItemsNow == projection[reader.user].items

ItemsRead == reader.snapshot

(* The second SELECT; a digest that differs is C2_INPUT_PROJECTION_CORRUPT. *)
Corrupt == reader.user # None /\ ItemsRead # reader.version

ReaderDone == /\ reader.user # None
              /\ reader' = NoReader
              /\ UNCHANGED <<outbox, claim, rating, event, latest, projection, applied, consumer>>

-----------------------------------------------------------------------------
Consume(w) == \/ DispatchNext(w) \/ CheckApplied(w) \/ LockActor(w)
              \/ ReadActiveRatings(w) \/ Deliver(w) \/ ConsumerFails(w)

Next == \/ \E u \in Users, m \in Movies, e \in Events : MutateRating(u, m, e) \/ RemoveRating(u, m, e)
        \/ \E w \in Workers : Consume(w) \/ Crash(w)
        \/ \E e \in Events : BackoffElapses(e)
        \/ (\E u \in Users : FindProjected(u)) \/ ReaderDone

Spec == Init /\ [][Next]_vars

(* Workers poll again and again, a waiting worker gets the actor's lock in its
   turn, time passes, and not every delivery dies with its process. *)
Fairness == /\ \A w \in Workers : SF_vars(Consume(w)) /\ SF_vars(Deliver(w) \/ ConsumerFails(w))
            /\ \A e \in Events : WF_vars(BackoffElapses(e))

LiveSpec == Spec /\ Fairness

-----------------------------------------------------------------------------
(* Properties. *)

(* Every variable holds values of its type. *)
TypeOK ==
  /\ Dispatcher!TypeOK
  /\ rating \in [Users -> [Movies -> [revision : Nat, active : BOOLEAN]]]
  /\ event \in [Events -> Event \union {None}]
  /\ latest \in [Users -> Events \union {None}]
  /\ projection \in [Users -> [version : SUBSET Input, items : SUBSET Input, revision : Nat]]
  /\ applied \subseteq Events
  /\ step \in [Workers -> {"idle", "check", "lock", "read", "project", "consumed"}]
  /\ seen \in [Workers -> SUBSET Input]
  /\ reader \in [user : Users \union {None}, version : SUBSET Input, snapshot : SUBSET Input]

(* When the event of a user's last committed rating change is PROCESSED, the
   projection is the user's active ratings: whatever was consumed out of order,
   retried, given up or lost in a crash before. *)
LatestHeals ==
  \A u \in Users : latest[u] # None /\ outbox[latest[u]].status = "PROCESSED"
                    => projection[u].items = ActiveRatings(u)

(* No rating change whose event is PROCESSED is ever lost from the projection
   again: it shows that revision of the movie or a later one, and lacks the
   movie only after a deletion at least as late. *)
Reflects(items, e) ==
  LET now == event[e]
      deleted == \E d \in Events : /\ event[d] # None /\ ~event[d].active
                                   /\ event[d].user = now.user /\ event[d].movie = now.movie
                                   /\ event[d].revision >= now.revision
      shown == {input \in items : input.movie = now.movie}
  IN  /\ shown = {} => deleted
      /\ \A input \in shown : input.revision >= now.revision

ProcessedIsReflected ==
  \A e \in Events : outbox[e].status = "PROCESSED" => Reflects(projection[event[e].user].items, e)

(* A delivery and its effects are one: an event is in the application table
   exactly when it is PROCESSED, and it rebuilt the projection once. *)
AppliedOnce ==
  /\ applied = {e \in Events : outbox[e].status = "PROCESSED"}
  /\ \A u \in Users : projection[u].revision = Cardinality({e \in applied : event[e].user = u})

(* A reader never finds the items and the digest of different rebuilds. *)
NeverCorrupt == ~Corrupt

(* Consumer, locks and rebuilds leave the dispatcher the protocol it is. *)
ImplementsDispatcher == Dispatcher!Spec

(* The projection catches up with the last change of a user, unless another
   change follows or the event is given up. *)
CatchesUp ==
  \A u \in Users, e \in Events :
    latest[u] = e ~> \/ latest[u] # e
                     \/ outbox[e].status = "DEAD_LETTER"
                     \/ projection[u].items = ActiveRatings(u)

(* docs/c1-draft/02-business-rules.md:54 (BR-C1-038): a rating that is deleted
   is not part of the recommendation input.  NOT true of the code even when no
   delivery of the user's events is left to come: the event of the deletion may
   have ended as a dead letter. *)
DeletedLeavesInput ==
  \A u \in Users :
    (\A e \in Events : event[e] # None /\ event[e].user = u => outbox[e].status \in Dispatcher!Final)
      => \A input \in projection[u].items : rating[u][input.movie].active
=============================================================================
