---------------------- MODULE ActiveRatingInputProofs -----------------------
(***************************************************************************)
(* Proofs about ActiveRatingInput, for any number of users, movies,        *)
(* workers, events and attempts.  The step simulation of OutboxDispatcher  *)
(* comes first: what is proved of the dispatcher then holds here.  The     *)
(* invariant is built in layers on top of it:                              *)
(*   Claims      which step a worker with a claim is in, one rebuild per   *)
(*               actor, applied = processed (so the check of               *)
(*               alreadyApplied never finds an event applied);             *)
(*   History     the events carry the revisions of the rating table;       *)
(*   Fresh       what a worker has read under the lock of its actor is as  *)
(*               new as every event processed since: the heart of it;      *)
(*   Projection  LatestHeals and ProcessedIsReflected;                     *)
(*   Counted, Agrees   what AppliedOnce and NeverCorrupt need.             *)
(***************************************************************************)
EXTENDS ActiveRatingInput, FiniteSetTheorems, TLAPS

DispatcherProofs == INSTANCE OutboxDispatcherProofs

(* A step of this module is one of the dispatcher, or changes none of its
   variables. *)
LEMMA StepOfDispatcher == [Next]_vars => [Dispatcher!Next]_(Dispatcher!vars)
<1>1. CASE UNCHANGED vars
  BY <1>1 DEF vars, Dispatcher!vars
<1>2. ASSUME NEW u \in Users, NEW m \in Movies, NEW e \in Events,
             MutateRating(u, m, e) \/ RemoveRating(u, m, e)
      PROVE  Dispatcher!Next
  BY <1>2 DEF MutateRating, RemoveRating, Rate, Dispatcher!Next
<1>3. ASSUME NEW w \in Workers, DispatchNext(w) \/ Deliver(w) \/ ConsumerFails(w) \/ Crash(w)
      PROVE  Dispatcher!Next
  BY <1>3 DEF DispatchNext, Deliver, ConsumerFails, Crash, Dispatcher!Next, Dispatcher!Finish
<1>4. ASSUME NEW w \in Workers, CheckApplied(w) \/ LockActor(w) \/ ReadActiveRatings(w)
      PROVE  UNCHANGED Dispatcher!vars
  BY <1>4 DEF CheckApplied, LockActor, ReadActiveRatings, Dispatcher!vars
<1>5. ASSUME NEW e \in Events, BackoffElapses(e) PROVE Dispatcher!Next
  BY <1>5 DEF BackoffElapses, Dispatcher!Next
<1>6. ASSUME (\E u \in Users : FindProjected(u)) \/ ReaderDone PROVE UNCHANGED Dispatcher!vars
  BY <1>6 DEF FindProjected, ReaderDone, Dispatcher!vars
<1>7. QED
  BY <1>1, <1>2, <1>3, <1>4, <1>5, <1>6 DEF Next, Consume

(* ImplementsDispatcher: rebuilding the projection within the delivery leaves
   the outbox protocol what it is. *)
THEOREM ConsumerKeepsProtocol == Spec => ImplementsDispatcher
<1>1. Init => Dispatcher!Init
  BY DEF Init
<1>2. QED
  BY <1>1, StepOfDispatcher, PTL DEF Spec, ImplementsDispatcher, Dispatcher!Spec

(* The dispatcher this module composes is the one its own proofs are about. *)
LEMMA SameDispatcher ==
  /\ Dispatcher!Init => DispatcherProofs!Init
  /\ [Dispatcher!Next]_(Dispatcher!vars) => [DispatcherProofs!Next]_(DispatcherProofs!vars)
<1>1. Dispatcher!Init => DispatcherProofs!Init
  BY DEF Dispatcher!Init, DispatcherProofs!Init
<1>2. Dispatcher!Next => DispatcherProofs!Next
  BY DEF Dispatcher!Next, DispatcherProofs!Next, Dispatcher!Append, DispatcherProofs!Append,
         Dispatcher!BackoffElapses, DispatcherProofs!BackoffElapses,
         Dispatcher!DispatchNext, DispatcherProofs!DispatchNext,
         Dispatcher!Ready, DispatcherProofs!Ready, Dispatcher!Claimed, DispatcherProofs!Claimed,
         Dispatcher!Unfinished, DispatcherProofs!Unfinished,
         Dispatcher!Finish, DispatcherProofs!Finish,
         Dispatcher!Processed, DispatcherProofs!Processed,
         Dispatcher!Failed, DispatcherProofs!Failed,
         Dispatcher!Exhausted, DispatcherProofs!Exhausted,
         Dispatcher!Crash, DispatcherProofs!Crash
<1>3. QED
  BY <1>1, <1>2 DEF Dispatcher!vars, DispatcherProofs!vars

LEMMA DispatcherInv == Spec => []DispatcherProofs!IInv
<1>1. DispatcherProofs!Init => DispatcherProofs!IInv
  BY DispatcherProofs!InitInv, EventsAssumption, MaxAttemptsAssumption
<1>2. DispatcherProofs!IInv /\ [DispatcherProofs!Next]_(DispatcherProofs!vars) => DispatcherProofs!IInv'
  BY DispatcherProofs!NextInv, EventsAssumption, MaxAttemptsAssumption
<1>3. Init => DispatcherProofs!IInv
  BY <1>1, SameDispatcher DEF Init
<1>4. DispatcherProofs!IInv /\ [Next]_vars => DispatcherProofs!IInv'
  BY <1>2, SameDispatcher, StepOfDispatcher
<1>5. QED
  BY <1>3, <1>4, PTL DEF Spec

-----------------------------------------------------------------------------
(* What the dispatcher's invariant says here. *)

ClaimsHeld ==
  \A w \in Workers : claim[w] # None =>
    /\ claim[w] \in Events
    /\ outbox[claim[w]].status \in {"PENDING", "FAILED"}
    /\ \A v \in Workers : claim[v] = claim[w] => v = w

LEMMA FromDispatcher ==
  ASSUME DispatcherProofs!IInv PROVE Dispatcher!TypeOK /\ ClaimsHeld
<1>1. Dispatcher!TypeOK
  BY DEF DispatcherProofs!IInv, DispatcherProofs!TypeOK, Dispatcher!TypeOK,
         DispatcherProofs!Row, Dispatcher!Row, DispatcherProofs!Unfinished,
         Dispatcher!Unfinished, DispatcherProofs!Final, Dispatcher!Final
<1>2. ClaimsHeld
  BY DEF DispatcherProofs!IInv, DispatcherProofs!TypeOK, DispatcherProofs!ClaimsExclusive,
         DispatcherProofs!Unfinished, ClaimsHeld
<1>3. QED
  BY <1>1, <1>2

(* What the actions do to the rows, as far as this module's state goes. *)

StatusesKept == \A e \in Events : outbox'[e].status = outbox[e].status

Takes(w) == /\ claim[w] = None
            /\ \E e \in Events : /\ outbox[e].status \in {"PENDING", "FAILED"}
                                 /\ \A v \in Workers : claim[v] # e
                                 /\ claim' = [claim EXCEPT ![w] = e]

Releases(w, S) == /\ claim[w] \in Events
                  /\ claim' = [claim EXCEPT ![w] = None]
                  /\ outbox'[claim[w]].status \in S
                  /\ \A e \in Events : e # claim[w] => outbox'[e].status = outbox[e].status

Appends(e) == /\ outbox[e].status = "ABSENT"
              /\ outbox'[e].status = "PENDING"
              /\ \A f \in Events : f # e => outbox'[f].status = outbox[f].status
              /\ UNCHANGED claim

LEMMA AppendOfRow ==
  ASSUME Dispatcher!TypeOK, NEW e \in Events, Dispatcher!Append(e)
  PROVE  Appends(e)
BY DEF Dispatcher!TypeOK, Dispatcher!Append, Dispatcher!Row, Appends

LEMMA DispatchOfRow ==
  ASSUME Dispatcher!TypeOK, NEW w \in Workers, Dispatcher!DispatchNext(w)
  PROVE  Takes(w) /\ StatusesKept
BY DEF Dispatcher!DispatchNext, Dispatcher!Ready, Dispatcher!Claimed, Dispatcher!Unfinished,
       Takes, StatusesKept

LEMMA ProcessedOfRow ==
  ASSUME Dispatcher!TypeOK, ClaimsHeld, NEW w \in Workers, Dispatcher!Processed(w)
  PROVE  Releases(w, {"PROCESSED"})
BY DEF Dispatcher!TypeOK, ClaimsHeld, Dispatcher!Processed, Releases

LEMMA FailedOfRow ==
  ASSUME Dispatcher!TypeOK, ClaimsHeld, NEW w \in Workers, Dispatcher!Failed(w)
  PROVE  Releases(w, {"FAILED", "DEAD_LETTER"})
<1> DEFINE attempt == outbox[claim[w]].attempts + 1
           row == [status |-> IF Dispatcher!Exhausted(attempt) THEN "DEAD_LETTER" ELSE "FAILED",
                   attempts |-> attempt, backoff |-> ~Dispatcher!Exhausted(attempt)]
<1>1. row.status \in {"FAILED", "DEAD_LETTER"}
  OBVIOUS
<1>2. /\ claim[w] # None /\ claim' = [claim EXCEPT ![w] = None]
      /\ outbox' = [outbox EXCEPT ![claim[w]] = row]
  BY DEF Dispatcher!Failed
<1> HIDE DEF row
<1>3. QED
  BY <1>1, <1>2 DEF Dispatcher!TypeOK, ClaimsHeld, Releases

LEMMA CrashOfRow ==
  ASSUME Dispatcher!TypeOK, ClaimsHeld, NEW w \in Workers, Dispatcher!Crash(w)
  PROVE  Releases(w, {"PENDING", "FAILED"})
BY DEF Dispatcher!TypeOK, ClaimsHeld, Dispatcher!Crash, Releases

LEMMA BackoffOfRow ==
  ASSUME Dispatcher!TypeOK, NEW e \in Events, Dispatcher!BackoffElapses(e)
  PROVE  StatusesKept /\ UNCHANGED claim
BY DEF Dispatcher!TypeOK, Dispatcher!BackoffElapses, Dispatcher!Row, StatusesKept

-----------------------------------------------------------------------------
(* Bookkeeping: the variables of one layer agree with each other. *)

StepOfClaim == /\ \A w \in Workers : claim[w] # None <=> step[w] # "idle"
               /\ \A w \in Workers : step[w] # "consumed"

Holds(w) == step[w] \in {"read", "project"}

OneRebuildPerActor ==
  \A v, w \in Workers : Holds(v) /\ Holds(w) /\ Actor(v) = Actor(w) => v = w

EventOfRow == \A e \in Events : event[e] = None <=> outbox[e].status = "ABSENT"

AppliedIsProcessed == applied = {e \in Events : outbox[e].status = "PROCESSED"}

Claims == StepOfClaim /\ OneRebuildPerActor /\ EventOfRow /\ AppliedIsProcessed

LEMMA InitClaims == Init => Claims
BY DEF Init, Dispatcher!Init, Claims, StepOfClaim, OneRebuildPerActor, Holds, EventOfRow,
       AppliedIsProcessed

LEMMA RateClaims ==
  ASSUME TypeOK, ClaimsHeld, Claims, NEW u \in Users, NEW m \in Movies, NEW e \in Events,
         NEW active \in BOOLEAN, Rate(u, m, e, active)
  PROVE  Claims'
<1>1. Appends(e) /\ UNCHANGED <<step, applied>>
  BY AppendOfRow DEF Rate, TypeOK, consumer
<1>2. \A f \in Events : f # e => event'[f] = event[f]
  BY DEF Rate, TypeOK
<1>3. event'[e] # None
  <2>1. PICK revision \in Nat : revision = rating[u][m].revision + 1
    BY DEF TypeOK
  <2>2. PICK now \in Event : event' = [event EXCEPT ![e] = now]
    BY <2>1 DEF Rate, Event
  <2>3. QED
    BY <2>2, NoneAssumption DEF TypeOK
<1>4. \A w \in Workers : claim[w] # None => claim[w] # e
  BY <1>1 DEF Appends, ClaimsHeld
<1>5. StepOfClaim'
  BY <1>1 DEF Appends, Claims, StepOfClaim
<1>6. OneRebuildPerActor'
  BY <1>1, <1>2, <1>4 DEF Appends, Claims, StepOfClaim, OneRebuildPerActor, Holds, Actor, ClaimsHeld
<1>7. EventOfRow'
  BY <1>1, <1>2, <1>3 DEF Appends, Claims, EventOfRow
<1>8. AppliedIsProcessed'
  BY <1>1 DEF Appends, Claims, AppliedIsProcessed
<1>9. QED
  BY <1>5, <1>6, <1>7, <1>8 DEF Claims

LEMMA DispatchClaims ==
  ASSUME TypeOK, ClaimsHeld, Claims, NEW w \in Workers, DispatchNext(w)
  PROVE  Claims'
<1>1. /\ Takes(w) /\ StatusesKept
      /\ step' = [step EXCEPT ![w] = "check"] /\ UNCHANGED <<event, applied>>
  BY DispatchOfRow DEF DispatchNext, Goto, store, TypeOK
<1>2. PICK e \in Events : /\ outbox[e].status \in {"PENDING", "FAILED"}
                          /\ claim' = [claim EXCEPT ![w] = e]
  BY <1>1 DEF Takes
<1>3. StepOfClaim'
  BY <1>1, <1>2, EventsAssumption DEF Claims, StepOfClaim, TypeOK, Dispatcher!TypeOK
<1>4. OneRebuildPerActor'
  BY <1>1, <1>2 DEF Claims, OneRebuildPerActor, Holds, Actor, TypeOK, Dispatcher!TypeOK
<1>5. EventOfRow' /\ AppliedIsProcessed'
  BY <1>1 DEF Claims, EventOfRow, AppliedIsProcessed, StatusesKept
<1>6. QED
  BY <1>3, <1>4, <1>5 DEF Claims

(* The statements of consume: only the worker's own step changes. *)
LEMMA ConsumeClaims ==
  ASSUME TypeOK, ClaimsHeld, Claims, NEW w \in Workers,
         CheckApplied(w) \/ LockActor(w) \/ ReadActiveRatings(w)
  PROVE  Claims'
<1>1. UNCHANGED <<outbox, claim, event, applied>> /\ step[w] # "idle"
  BY DEF CheckApplied, LockActor, ReadActiveRatings, store
<1>2. claim[w] \notin applied
  BY <1>1 DEF Claims, StepOfClaim, AppliedIsProcessed, ClaimsHeld
<1>3. \/ step' = [step EXCEPT ![w] = "lock"]
      \/ /\ step' = [step EXCEPT ![w] = "read"]
         /\ \A v \in Workers : ~(Holds(v) /\ Actor(v) = Actor(w))
      \/ step' = [step EXCEPT ![w] = "project"] /\ Holds(w)
  BY <1>2 DEF CheckApplied, LockActor, ReadActiveRatings, Goto, ActorHolders, Holds
<1>4. StepOfClaim'
  BY <1>1, <1>3 DEF Claims, StepOfClaim, TypeOK
<1>5. OneRebuildPerActor'
  BY <1>1, <1>3 DEF Claims, OneRebuildPerActor, Holds, Actor, TypeOK
<1>6. EventOfRow' /\ AppliedIsProcessed'
  BY <1>1 DEF Claims, EventOfRow, AppliedIsProcessed
<1>7. QED
  BY <1>4, <1>5, <1>6 DEF Claims

(* A worker's transaction ends, with or without having applied its event. *)
LEMMA LeaveClaims ==
  ASSUME TypeOK, ClaimsHeld, Claims, NEW w \in Workers, NEW S,
         Releases(w, S), Leave(w), UNCHANGED event,
         \/ S = {"PROCESSED"} /\ applied' = applied \union {claim[w]}
         \/ S \subseteq {"PENDING", "FAILED", "DEAD_LETTER"} /\ UNCHANGED applied
  PROVE  Claims'
<1>1. claim' = [claim EXCEPT ![w] = None] /\ step' = [step EXCEPT ![w] = "idle"]
      /\ claim[w] \in Events
  BY DEF Releases, Leave, Goto
<1>2. outbox'[claim[w]].status # "ABSENT" /\ outbox[claim[w]].status \in {"PENDING", "FAILED"}
  BY <1>1, EventsAssumption DEF Releases, ClaimsHeld
<1>3. StepOfClaim'
  BY <1>1 DEF Claims, StepOfClaim, TypeOK, Dispatcher!TypeOK
<1>4. OneRebuildPerActor'
  BY <1>1 DEF Claims, OneRebuildPerActor, Holds, Actor, TypeOK, Dispatcher!TypeOK
<1>5. EventOfRow'
  BY <1>1, <1>2 DEF Claims, EventOfRow, Releases
<1>6. AppliedIsProcessed'
  BY <1>1, <1>2 DEF Claims, AppliedIsProcessed, Releases
<1>7. QED
  BY <1>3, <1>4, <1>5, <1>6 DEF Claims

(* What the three ways to leave do. *)
LEMMA DeliverLeaves ==
  ASSUME TypeOK, ClaimsHeld, Claims, NEW w \in Workers, Deliver(w)
  PROVE  /\ step[w] = "project"
         /\ Releases(w, {"PROCESSED"}) /\ Leave(w)
         /\ projection' = [projection EXCEPT ![Actor(w)] = Projected(w)]
         /\ applied' = applied \union {claim[w]}
         /\ UNCHANGED <<rating, event, latest, reader>>
BY ProcessedOfRow DEF Deliver, Claims, StepOfClaim, TypeOK

LEMMA FailureLeaves ==
  ASSUME TypeOK, ClaimsHeld, NEW w \in Workers, ConsumerFails(w)
  PROVE  Releases(w, {"FAILED", "DEAD_LETTER"}) /\ Leave(w) /\ UNCHANGED store
BY FailedOfRow DEF ConsumerFails, TypeOK

LEMMA CrashLeaves ==
  ASSUME TypeOK, ClaimsHeld, NEW w \in Workers, Crash(w)
  PROVE  Releases(w, {"PENDING", "FAILED"}) /\ Leave(w) /\ UNCHANGED store
BY CrashOfRow DEF Crash, TypeOK

LEMMA NextClaims ==
  ASSUME TypeOK, ClaimsHeld, Claims, [Next]_vars PROVE Claims'
<1>1. ASSUME NEW u \in Users, NEW m \in Movies, NEW e \in Events,
             MutateRating(u, m, e) \/ RemoveRating(u, m, e)
      PROVE  Claims'
  BY <1>1, RateClaims DEF MutateRating, RemoveRating
<1>2. ASSUME NEW w \in Workers, Consume(w) PROVE Claims'
  <2>1. CASE Deliver(w)
    BY <2>1, DeliverLeaves, LeaveClaims
  <2>2. CASE ConsumerFails(w)
    <3>1. Releases(w, {"FAILED", "DEAD_LETTER"}) /\ Leave(w) /\ UNCHANGED <<event, applied>>
      BY <2>2, FailureLeaves DEF store
    <3>2. QED
      BY <3>1, LeaveClaims
  <2>3. QED
    BY <1>2, <2>1, <2>2, DispatchClaims, ConsumeClaims DEF Consume
<1>3. ASSUME NEW w \in Workers, Crash(w) PROVE Claims'
  <2>1. Releases(w, {"PENDING", "FAILED"}) /\ Leave(w) /\ UNCHANGED <<event, applied>>
    BY <1>3, CrashLeaves DEF store
  <2>2. QED
    BY <2>1, LeaveClaims
<1>4. ASSUME UNCHANGED <<claim, step, event, applied>>, StatusesKept PROVE Claims'
  BY <1>4 DEF Claims, StepOfClaim, OneRebuildPerActor, Holds, Actor, EventOfRow,
              AppliedIsProcessed, StatusesKept
<1>5. ASSUME NEW e \in Events, BackoffElapses(e) PROVE Claims'
  BY <1>5, <1>4, BackoffOfRow DEF BackoffElapses, store, consumer, TypeOK
<1>6. ASSUME (\E u \in Users : FindProjected(u)) \/ ReaderDone PROVE Claims'
  BY <1>6, <1>4 DEF FindProjected, ReaderDone, consumer, StatusesKept
<1>7. CASE UNCHANGED vars
  BY <1>7, <1>4 DEF vars, consumer, StatusesKept
<1>8. QED
  BY <1>1, <1>2, <1>3, <1>5, <1>6, <1>7 DEF Next

-----------------------------------------------------------------------------
(* Types. *)

(* The event of a claimed row is there. *)
LEMMA ActorIsUser ==
  ASSUME TypeOK, ClaimsHeld, Claims, NEW w \in Workers, step[w] # "idle"
  PROVE  claim[w] \in Events /\ event[claim[w]] \in Event /\ Actor(w) \in Users
BY DEF TypeOK, ClaimsHeld, Claims, StepOfClaim, EventOfRow, Actor, Event

LEMMA ActiveRatingsType ==
  ASSUME TypeOK, NEW u \in Users PROVE ActiveRatings(u) \subseteq Input
BY DEF TypeOK, ActiveRatings, Input

LEMMA InitTypes == Init => TypeOK
<1>1. Dispatcher!Init => Dispatcher!TypeOK
  BY MaxAttemptsAssumption DEF Dispatcher!Init, Dispatcher!TypeOK, Dispatcher!Row
<1>2. QED
  BY <1>1, NoneAssumption DEF Init, TypeOK, NoReader

LEMMA RateTypes ==
  ASSUME TypeOK, Dispatcher!TypeOK', NEW u \in Users, NEW m \in Movies, NEW e \in Events,
         NEW active \in BOOLEAN, Rate(u, m, e, active)
  PROVE  TypeOK'
<1>1. PICK revision \in Nat : revision = rating[u][m].revision + 1
  BY DEF TypeOK
<1>2. /\ rating' = [rating EXCEPT ![u][m] = [revision |-> revision, active |-> active]]
      /\ event' = [event EXCEPT ![e] = [user |-> u, movie |-> m, revision |-> revision,
                                         active |-> active]]
      /\ latest' = [latest EXCEPT ![u] = e]
      /\ UNCHANGED <<projection, applied, step, seen, reader>>
  BY <1>1 DEF Rate, consumer
<1>3. rating' \in [Users -> [Movies -> [revision : Nat, active : BOOLEAN]]]
  BY <1>1, <1>2 DEF TypeOK
<1>4. event' \in [Events -> Event \union {None}]
  BY <1>1, <1>2 DEF TypeOK, Event
<1>5. QED
  BY <1>2, <1>3, <1>4 DEF TypeOK

LEMMA ConsumeTypes ==
  ASSUME TypeOK, ClaimsHeld, Claims, Dispatcher!TypeOK', NEW w \in Workers, Consume(w) \/ Crash(w)
  PROVE  TypeOK'
<1>1. CASE DispatchNext(w) \/ CheckApplied(w) \/ LockActor(w)
  BY <1>1 DEF DispatchNext, CheckApplied, LockActor, Goto, store, TypeOK
<1>2. CASE ReadActiveRatings(w)
  <2>1. ActiveRatings(Actor(w)) \subseteq Input
    BY <1>2, ActorIsUser, ActiveRatingsType DEF ReadActiveRatings
  <2>2. QED
    BY <1>2, <2>1 DEF ReadActiveRatings, Goto, store, TypeOK
<1>3. CASE Deliver(w)
  <2>1. claim[w] \in Events /\ Actor(w) \in Users
    BY <1>3, DeliverLeaves, ActorIsUser
  <2>2. Projected(w) \in [version : SUBSET Input, items : SUBSET Input, revision : Nat]
    <3>1. PICK revision \in Nat : revision = projection[Actor(w)].revision + 1
      BY <2>1 DEF TypeOK
    <3>2. QED
      BY <3>1 DEF Projected, TypeOK
  <2>3. projection' \in [Users -> [version : SUBSET Input, items : SUBSET Input, revision : Nat]]
    <3>1. PICK new \in [version : SUBSET Input, items : SUBSET Input, revision : Nat] :
            projection' = [projection EXCEPT ![Actor(w)] = new]
      BY <1>3, <2>2, DeliverLeaves
    <3>2. QED
      BY <3>1 DEF TypeOK
  <2>4. applied' \subseteq Events /\ UNCHANGED <<rating, event, latest, reader>>
    BY <1>3, <2>1, DeliverLeaves DEF TypeOK
  <2>5. /\ step' \in [Workers -> {"idle", "check", "lock", "read", "project", "consumed"}]
        /\ seen' \in [Workers -> SUBSET Input]
    BY <1>3, DeliverLeaves DEF Leave, Goto, TypeOK
  <2>6. QED
    BY <2>3, <2>4, <2>5 DEF TypeOK
<1>4. CASE ConsumerFails(w) \/ Crash(w)
  BY <1>4, FailureLeaves, CrashLeaves DEF Leave, Goto, store, TypeOK
<1>5. QED
  BY <1>1, <1>2, <1>3, <1>4 DEF Consume

LEMMA NextTypes ==
  ASSUME TypeOK, ClaimsHeld, Claims, Dispatcher!TypeOK', [Next]_vars PROVE TypeOK'
<1>1. ASSUME NEW u \in Users, NEW m \in Movies, NEW e \in Events,
             MutateRating(u, m, e) \/ RemoveRating(u, m, e)
      PROVE  TypeOK'
  BY <1>1, RateTypes DEF MutateRating, RemoveRating
<1>2. ASSUME NEW e \in Events, BackoffElapses(e) PROVE TypeOK'
  BY <1>2 DEF BackoffElapses, store, consumer, TypeOK
<1>3. ASSUME NEW u \in Users, FindProjected(u) PROVE TypeOK'
  BY <1>3 DEF FindProjected, consumer, TypeOK
<1>4. CASE ReaderDone
  BY <1>4 DEF ReaderDone, NoReader, consumer, TypeOK
<1>5. CASE UNCHANGED vars
  BY <1>5 DEF vars, consumer, TypeOK
<1>6. QED
  BY <1>1, <1>2, <1>3, <1>4, <1>5, ConsumeTypes DEF Next

-----------------------------------------------------------------------------
(* The first layer: types and claims. *)

Layer1 == DispatcherProofs!IInv /\ TypeOK /\ Claims

LEMMA Layer1Inv == Spec => []Layer1
<1>1. DispatcherProofs!IInv => Dispatcher!TypeOK /\ ClaimsHeld
  BY FromDispatcher
<1>2. Init => TypeOK /\ Claims
  BY InitTypes, InitClaims
<1>3. TypeOK /\ ClaimsHeld /\ Claims /\ Dispatcher!TypeOK' /\ [Next]_vars => TypeOK' /\ Claims'
  BY NextTypes, NextClaims
<1>4. QED
  BY <1>1, <1>2, <1>3, DispatcherInv, PTL DEF Spec, Layer1

-----------------------------------------------------------------------------
(* The history: events carry the revisions of the ratings they are about. *)

LatestOfUser ==
  \A u \in Users : latest[u] # None => event[latest[u]] # None /\ event[latest[u]].user = u

Revisions ==
  \A e \in Events : event[e] # None =>
    event[e].revision \in 1..rating[event[e].user][event[e].movie].revision

Recorded ==
  \A u \in Users, m \in Movies : rating[u][m].revision > 0 =>
    \E e \in Events : event[e] = [user |-> u, movie |-> m, revision |-> rating[u][m].revision,
                                  active |-> rating[u][m].active]

History == LatestOfUser /\ Revisions /\ Recorded

LEMMA InitHistory == Init => History
BY DEF Init, History, LatestOfUser, Revisions, Recorded

(* What a rating mutation does, with its numbers named. *)
LEMMA RateStep ==
  ASSUME TypeOK, Claims, NEW u \in Users, NEW m \in Movies, NEW e \in Events,
         NEW active \in BOOLEAN, Rate(u, m, e, active)
  PROVE  \E revision \in Nat \ {0}, now \in Event :
           /\ revision = rating[u][m].revision + 1
           /\ now = [user |-> u, movie |-> m, revision |-> revision, active |-> active]
           /\ rating' = [rating EXCEPT ![u][m] = [revision |-> revision, active |-> active]]
           /\ event' = [event EXCEPT ![e] = now]
           /\ latest' = [latest EXCEPT ![u] = e]
           /\ event[e] = None /\ now # None
<1>1. PICK revision \in Nat \ {0} : revision = rating[u][m].revision + 1
  BY DEF TypeOK
<1>2. PICK now \in Event :
        now = [user |-> u, movie |-> m, revision |-> revision, active |-> active]
  BY DEF Event
<1>3. event[e] = None
  BY AppendOfRow DEF Rate, TypeOK, Appends, Claims, EventOfRow
<1>4. /\ rating' = [rating EXCEPT ![u][m] = [revision |-> revision, active |-> active]]
      /\ event' = [event EXCEPT ![e] = now]
      /\ latest' = [latest EXCEPT ![u] = e]
  BY <1>1, <1>2 DEF Rate
<1>5. now # None
  BY NoneAssumption
<1>6. QED
  BY <1>1, <1>2, <1>3, <1>4, <1>5

LEMMA RateHistory ==
  ASSUME TypeOK, Claims, History, NEW u \in Users, NEW m \in Movies, NEW e \in Events,
         NEW active \in BOOLEAN, Rate(u, m, e, active)
  PROVE  History'
<1>1. PICK revision \in Nat \ {0}, now \in Event :
        /\ revision = rating[u][m].revision + 1
        /\ now = [user |-> u, movie |-> m, revision |-> revision, active |-> active]
        /\ rating' = [rating EXCEPT ![u][m] = [revision |-> revision, active |-> active]]
        /\ event' = [event EXCEPT ![e] = now]
        /\ latest' = [latest EXCEPT ![u] = e]
        /\ event[e] = None /\ now # None
  BY RateStep
<1>2. event'[e] = now /\ \A f \in Events : f # e => event'[f] = event[f]
  BY <1>1 DEF TypeOK
<1>3. /\ rating'[u][m] = [revision |-> revision, active |-> active]
      /\ \A v \in Users, n \in Movies : v # u \/ n # m => rating'[v][n] = rating[v][n]
  BY <1>1 DEF TypeOK
<1>4. /\ now.user = u /\ now.movie = m /\ now.revision = revision
      /\ \A f \in Events : event[f] # None => event[f] \in Event
  BY <1>1 DEF TypeOK
<1>5. \A v \in Users, n \in Movies : rating[v][n].revision \in Nat
  BY DEF TypeOK
<1>6. LatestOfUser'
  BY <1>1, <1>2, <1>4 DEF History, LatestOfUser, TypeOK
<1>7. Revisions'
  <2>1. ASSUME NEW f \in Events, event'[f] # None
        PROVE  event'[f].revision \in 1..rating'[event'[f].user][event'[f].movie].revision
    <3>1. CASE f = e
      <4>1. rating'[u][m].revision = revision
        BY <1>3
      <4>2. QED
        BY <1>2, <1>4, <3>1, <4>1
    <3>2. CASE f # e
      <4>1. /\ event'[f] = event[f] /\ event[f] \in Event
            /\ event[f].revision \in 1..rating[event[f].user][event[f].movie].revision
        BY <1>2, <1>4, <2>1, <3>2 DEF History, Revisions
      <4>2. CASE event[f].user = u /\ event[f].movie = m
        <5>1. rating'[u][m].revision = rating[u][m].revision + 1
          BY <1>1, <1>3
        <5>2. QED
          BY <1>5, <4>1, <4>2, <5>1
      <4>3. CASE ~(event[f].user = u /\ event[f].movie = m)
        BY <1>3, <4>1, <4>3 DEF Event
      <4>4. QED
        BY <4>2, <4>3
    <3>3. QED
      BY <3>1, <3>2
  <2>2. QED
    BY <2>1 DEF Revisions
<1>8. Recorded'
  <2>1. ASSUME NEW v \in Users, NEW n \in Movies, rating'[v][n].revision > 0
        PROVE  \E f \in Events : event'[f] = [user |-> v, movie |-> n,
                 revision |-> rating'[v][n].revision, active |-> rating'[v][n].active]
    <3>1. CASE v = u /\ n = m
      BY <1>1, <1>2, <1>3, <3>1
    <3>2. CASE ~(v = u /\ n = m)
      <4>1. rating'[v][n] = rating[v][n]
        BY <1>3, <3>2
      <4>2. PICK f \in Events : event[f] = [user |-> v, movie |-> n,
                revision |-> rating[v][n].revision, active |-> rating[v][n].active]
        BY <2>1, <4>1 DEF History, Recorded
      <4>3. event[f] \in Event
        BY <4>2, <1>5 DEF Event, TypeOK
      <4>4. f # e
        BY <1>1, <4>3, NoneAssumption
      <4>5. QED
        BY <1>2, <4>1, <4>2, <4>4
    <3>3. QED
      BY <3>1, <3>2
  <2>2. QED
    BY <2>1 DEF Recorded
<1>9. QED
  BY <1>6, <1>7, <1>8 DEF History

LEMMA OthersKeepHistory ==
  ASSUME History, UNCHANGED <<rating, event, latest>> PROVE History'
BY DEF History, LatestOfUser, Revisions, Recorded

-----------------------------------------------------------------------------
(* Freshness: what a worker in step project has read is not older than any    *)
(* event processed by now, nor than its own.                                  *)

(* Reflects, of any table of events. *)
ReflectsOf(items, e, events) ==
  LET now == events[e]
      deleted == \E d \in Events : /\ events[d] # None /\ ~events[d].active
                                   /\ events[d].user = now.user /\ events[d].movie = now.movie
                                   /\ events[d].revision >= now.revision
      shown == {input \in items : input.movie = now.movie}
  IN  /\ shown = {} => deleted
      /\ \A input \in shown : input.revision >= now.revision

(* New events take nothing back. *)
LEMMA ReflectsGrows ==
  ASSUME NEW items, NEW old, NEW new, NEW e \in Events, old[e] # None,
         \A f \in Events : old[f] # None => new[f] = old[f],
         ReflectsOf(items, e, old)
  PROVE  ReflectsOf(items, e, new)
BY DEF ReflectsOf

(* The rating table itself reflects every event. *)
LEMMA ActiveRatingsReflect ==
  ASSUME TypeOK, History, NEW e \in Events, event[e] # None
  PROVE  ReflectsOf(ActiveRatings(event[e].user), e, event)
<1> DEFINE u == event[e].user
           m == event[e].movie
           r == rating[u][m]
<1>1. /\ u \in Users /\ m \in Movies /\ event[e].revision \in 1..r.revision
      /\ r.revision \in Nat /\ r.active \in BOOLEAN
  BY DEF TypeOK, Event, History, Revisions
<1>2. \A input \in ActiveRatings(u) :
         /\ input.movie = m => input.revision = r.revision
         /\ input.movie \in Movies
  BY DEF ActiveRatings
<1>3. r.active => \E input \in ActiveRatings(u) : input.movie = m
  <2>1. r.active => [movie |-> m, revision |-> r.revision] \in ActiveRatings(u)
    BY <1>1 DEF ActiveRatings
  <2>2. QED
    BY <2>1
<1>4. ~r.active => \E d \in Events : /\ event[d] # None /\ ~event[d].active
                                     /\ event[d].user = u /\ event[d].movie = m
                                     /\ event[d].revision >= event[e].revision
  <2>1. PICK d \in Events : event[d] = [user |-> u, movie |-> m, revision |-> r.revision,
                                         active |-> r.active]
    BY <1>1 DEF History, Recorded
  <2>2. event[d] \in Event
    BY <1>1, <2>1 DEF Event
  <2>3. QED
    BY <1>1, <2>1, <2>2, NoneAssumption
<1>5. QED
  BY <1>1, <1>2, <1>3, <1>4 DEF ReflectsOf

Done(e, w) == outbox[e].status = "PROCESSED" \/ claim[w] = e

FreshAt(w) ==
  /\ \A e \in Events : event[e] # None /\ event[e].user = Actor(w) /\ Done(e, w)
                          => ReflectsOf(seen[w], e, event)
  /\ latest[Actor(w)] # None /\ Done(latest[Actor(w)], w) => seen[w] = ActiveRatings(Actor(w))

Fresh == \A w \in Workers : step[w] = "project" => FreshAt(w)

LEMMA InitFresh == Init => Fresh
BY DEF Init, Fresh

(* A statement of the worker itself. *)
LEMMA ReadIsFresh ==
  ASSUME TypeOK, ClaimsHeld, Claims, History, NEW w \in Workers, ReadActiveRatings(w),
         step'[w] = "project"
  PROVE  FreshAt(w)'
<1>1. /\ seen'[w] = ActiveRatings(Actor(w))
      /\ UNCHANGED <<outbox, claim, rating, event, latest>>
  BY DEF ReadActiveRatings, Goto, store, TypeOK
<1>2. Actor(w)' = Actor(w) /\ ActiveRatings(Actor(w))' = ActiveRatings(Actor(w))
  BY <1>1 DEF Actor, ActiveRatings
<1>3. \A e \in Events : event[e] # None /\ event[e].user = Actor(w)
                          => ReflectsOf(ActiveRatings(Actor(w)), e, event)
  BY ActiveRatingsReflect
<1>4. QED
  BY <1>1, <1>2, <1>3 DEF FreshAt

(* A step of others that processes no event of the worker's user. *)
LEMMA StaysFresh ==
  ASSUME NEW w \in Workers, FreshAt(w),
         claim'[w] = claim[w], seen'[w] = seen[w], UNCHANGED <<rating, event, latest>>,
         LatestOfUser, TypeOK, Actor(w) \in Users,
         \A e \in Events : event[e] # None /\ event[e].user = Actor(w)
                             /\ outbox'[e].status = "PROCESSED" => outbox[e].status = "PROCESSED"
  PROVE  FreshAt(w)'
<1>1. Actor(w)' = Actor(w) /\ ActiveRatings(Actor(w))' = ActiveRatings(Actor(w))
  BY DEF Actor, ActiveRatings
<1>2. \A e \in Events : event[e] # None /\ event[e].user = Actor(w) /\ Done(e, w)' => Done(e, w)
  BY DEF Done
<1>3. latest[Actor(w)] # None => /\ latest[Actor(w)] \in Events
                                 /\ event[latest[Actor(w)]] # None
                                 /\ event[latest[Actor(w)]].user = Actor(w)
  BY DEF LatestOfUser, TypeOK
<1>4. (latest[Actor(w)] # None /\ Done(latest[Actor(w)], w) => seen[w] = ActiveRatings(Actor(w)))'
  BY <1>1, <1>2, <1>3 DEF FreshAt, Done
<1>5. (\A e \in Events : event[e] # None /\ event[e].user = Actor(w) /\ Done(e, w)
                          => ReflectsOf(seen[w], e, event))'
  BY <1>1, <1>2 DEF FreshAt, Done
<1>6. QED
  BY <1>4, <1>5 DEF FreshAt

(* A rating mutation: its event is nobody's yet. *)
LEMMA RateStaysFresh ==
  ASSUME TypeOK, ClaimsHeld, Claims, History, NEW w \in Workers, step[w] = "project", FreshAt(w),
         NEW u \in Users, NEW m \in Movies, NEW e \in Events,
         NEW active \in BOOLEAN, Rate(u, m, e, active)
  PROVE  FreshAt(w)'
<1>1. /\ \A f \in Events : event[f] # None => event'[f] = event[f]
      /\ event[e] = None
      /\ latest' = [latest EXCEPT ![u] = e]
      /\ \A v \in Users : v # u => rating'[v] = rating[v]
  BY RateStep DEF TypeOK
<1>2. Appends(e) /\ UNCHANGED <<claim, seen>>
  BY AppendOfRow DEF Rate, TypeOK, consumer, Appends
<1>3. claim[w] \in Events /\ event[claim[w]] # None /\ Actor(w) \in Users
  BY ActorIsUser, NoneAssumption
<1>4. Actor(w)' = Actor(w)
  BY <1>1, <1>2, <1>3 DEF Actor
<1>5. ASSUME NEW f \in Events, Done(f, w)' PROVE f # e /\ event[f] # None /\ Done(f, w)
  BY <1>1, <1>2, <1>3, <1>5 DEF Done, Appends, Claims, EventOfRow
<1>6. (\A f \in Events : event[f] # None /\ event[f].user = Actor(w) /\ Done(f, w)
                          => ReflectsOf(seen[w], f, event))'
  <2>1. ASSUME NEW f \in Events, event'[f] # None, event'[f].user = Actor(w), Done(f, w)'
        PROVE  ReflectsOf(seen[w], f, event')
    BY <1>1, <1>5, <2>1, ReflectsGrows DEF FreshAt
  <2>2. QED
    BY <1>2, <1>4, <2>1
<1>7. (latest[Actor(w)] # None /\ Done(latest[Actor(w)], w) => seen[w] = ActiveRatings(Actor(w)))'
  <2>1. CASE Actor(w) = u
    <3>1. latest'[Actor(w)] = e
      BY <1>1, <2>1 DEF TypeOK
    <3>2. QED
      BY <1>4, <1>5, <3>1
  <2>2. CASE Actor(w) # u
    <3>1. latest'[Actor(w)] = latest[Actor(w)] /\ latest[Actor(w)] \in Events \union {None}
      BY <1>1, <1>3, <2>2 DEF TypeOK
    <3>2. ActiveRatings(Actor(w))' = ActiveRatings(Actor(w))
      BY <1>1, <1>3, <1>4, <2>2 DEF ActiveRatings
    <3>3. QED
      BY <1>2, <1>4, <1>5, <3>1, <3>2 DEF FreshAt
  <2>3. QED
    BY <2>1, <2>2
<1>8. QED
  BY <1>6, <1>7 DEF FreshAt

LEMMA ConsumeFresh ==
  ASSUME TypeOK, ClaimsHeld, Claims, History, Fresh,
         NEW v \in Workers, Consume(v) \/ Crash(v)
  PROVE  Fresh'
<1> SUFFICES ASSUME NEW w \in Workers, step'[w] = "project" PROVE FreshAt(w)'
  BY DEF Fresh
<1>1. CASE w = v
  <2>1. step'[v] # "project" \/ ReadActiveRatings(v)
    BY <1>1, DeliverLeaves, FailureLeaves, CrashLeaves
       DEF Consume, DispatchNext, CheckApplied, LockActor, Leave, Goto, TypeOK
  <2>2. QED
    BY <1>1, <2>1, ReadIsFresh
<1>2. CASE w # v
  <2>1. /\ step[w] = "project" /\ claim'[w] = claim[w] /\ seen'[w] = seen[w]
        /\ UNCHANGED <<rating, event, latest>>
    <3>1. CASE DispatchNext(v) \/ CheckApplied(v) \/ LockActor(v) \/ ReadActiveRatings(v)
      BY <1>2, <3>1 DEF DispatchNext, Dispatcher!DispatchNext, CheckApplied, LockActor,
                        ReadActiveRatings, Goto, store, TypeOK, Dispatcher!TypeOK
    <3>2. CASE Deliver(v) \/ ConsumerFails(v) \/ Crash(v)
      <4>1. /\ claim' = [claim EXCEPT ![v] = None] /\ Leave(v)
            /\ UNCHANGED <<rating, event, latest>>
        BY <3>2, DeliverLeaves, FailureLeaves, CrashLeaves DEF Releases, store
      <4>2. QED
        BY <1>2, <4>1 DEF Leave, Goto, TypeOK, Dispatcher!TypeOK
    <3>3. QED
      BY <3>1, <3>2 DEF Consume
  <2>2. Actor(w) \in Users /\ FreshAt(w) /\ LatestOfUser
    BY <2>1, ActorIsUser DEF Fresh, History
  <2>3. ASSUME NEW e \in Events, event[e] # None, event[e].user = Actor(w),
               outbox'[e].status = "PROCESSED"
        PROVE  outbox[e].status = "PROCESSED"
    <3>1. CASE DispatchNext(v) \/ CheckApplied(v) \/ LockActor(v) \/ ReadActiveRatings(v)
      BY <2>3, <3>1 DEF DispatchNext, Dispatcher!DispatchNext, CheckApplied, LockActor,
                        ReadActiveRatings
    <3>2. CASE Deliver(v)
      <4>1. step[v] = "project" /\ Releases(v, {"PROCESSED"})
        BY <3>2, DeliverLeaves
      <4>2. Actor(v) # Actor(w)
        BY <1>2, <2>1, <4>1 DEF Claims, OneRebuildPerActor, Holds
      <4>3. QED
        BY <2>3, <4>1, <4>2 DEF Releases, Actor
    <3>3. CASE ConsumerFails(v) \/ Crash(v)
      BY <2>3, <3>3, FailureLeaves, CrashLeaves DEF Releases
    <3>4. QED
      BY <3>1, <3>2, <3>3 DEF Consume
  <2>4. QED
    BY <2>1, <2>2, <2>3, StaysFresh
<1>3. QED
  BY <1>1, <1>2

LEMMA NextFresh ==
  ASSUME TypeOK, ClaimsHeld, Claims, History, Fresh, [Next]_vars PROVE Fresh'
<1>1. ASSUME NEW u \in Users, NEW m \in Movies, NEW e \in Events,
             MutateRating(u, m, e) \/ RemoveRating(u, m, e)
      PROVE  Fresh'
  <2>1. PICK active \in BOOLEAN : Rate(u, m, e, active)
    BY <1>1 DEF MutateRating, RemoveRating
  <2>2. UNCHANGED step
    BY <2>1 DEF Rate, consumer
  <2>3. QED
    BY <2>1, <2>2, RateStaysFresh DEF Fresh
<1>2. ASSUME UNCHANGED <<claim, step, seen, rating, event, latest>>, StatusesKept PROVE Fresh'
  BY <1>2, StaysFresh, ActorIsUser DEF Fresh, StatusesKept, History
<1>3. ASSUME NEW e \in Events, BackoffElapses(e) PROVE Fresh'
  BY <1>3, <1>2, BackoffOfRow DEF BackoffElapses, store, consumer, TypeOK
<1>4. CASE (\E u \in Users : FindProjected(u)) \/ ReaderDone \/ UNCHANGED vars
  BY <1>4, <1>2 DEF FindProjected, ReaderDone, vars, consumer, StatusesKept
<1>5. QED
  BY <1>1, <1>3, <1>4, ConsumeFresh DEF Next

-----------------------------------------------------------------------------
(* The projection: what the processed events made of it. *)

Projection == LatestHeals /\ ProcessedIsReflected

LEMMA InitProjection == Init => Projection
BY DEF Init, Dispatcher!Init, Projection, LatestHeals, ProcessedIsReflected

LEMMA RateProjection ==
  ASSUME TypeOK, ClaimsHeld, Claims, History, Projection,
         NEW u \in Users, NEW m \in Movies, NEW e \in Events,
         NEW active \in BOOLEAN, Rate(u, m, e, active)
  PROVE  Projection'
<1>1. /\ \A f \in Events : event[f] # None => event'[f] = event[f]
      /\ latest' = [latest EXCEPT ![u] = e]
      /\ \A v \in Users : v # u => rating'[v] = rating[v]
  BY RateStep DEF TypeOK
<1>2. Appends(e) /\ UNCHANGED projection
  BY AppendOfRow DEF Rate, TypeOK
<1>3. ASSUME NEW f \in Events, outbox'[f].status = "PROCESSED"
      PROVE  f # e /\ outbox[f].status = "PROCESSED" /\ event[f] # None /\ event[f] \in Event
  BY <1>2, <1>3 DEF Appends, Claims, EventOfRow, TypeOK
<1>4. LatestHeals'
  <2>1. ASSUME NEW v \in Users, latest'[v] # None, outbox'[latest'[v]].status = "PROCESSED"
        PROVE  projection'[v].items = ActiveRatings(v)'
    <3>1. latest'[v] \in Events
      BY <1>1, <2>1 DEF TypeOK
    <3>2. v # u
      BY <1>1, <1>3, <2>1, <3>1 DEF TypeOK
    <3>3. latest'[v] = latest[v] /\ ActiveRatings(v)' = ActiveRatings(v)
      BY <1>1, <3>2 DEF TypeOK, ActiveRatings
    <3>4. QED
      BY <1>2, <1>3, <2>1, <3>1, <3>3 DEF Projection, LatestHeals
  <2>2. QED
    BY <2>1 DEF LatestHeals
<1>5. ProcessedIsReflected'
  <2>1. ASSUME NEW f \in Events, outbox'[f].status = "PROCESSED"
        PROVE  ReflectsOf(projection'[event'[f].user].items, f, event')
    <3>1. ReflectsOf(projection[event[f].user].items, f, event)
      BY <1>3, <2>1 DEF Projection, ProcessedIsReflected, Reflects, ReflectsOf
    <3>2. ReflectsOf(projection[event[f].user].items, f, event')
      BY <1>1, <1>3, <2>1, <3>1, ReflectsGrows
    <3>3. QED
      BY <1>1, <1>2, <1>3, <2>1, <3>2
  <2>2. QED
    BY <2>1 DEF ProcessedIsReflected, Reflects, ReflectsOf
<1>6. QED
  BY <1>4, <1>5 DEF Projection

LEMMA DeliverProjection ==
  ASSUME TypeOK, ClaimsHeld, Claims, History, Fresh, Projection, NEW w \in Workers, Deliver(w)
  PROVE  Projection'
<1>1. /\ step[w] = "project" /\ Releases(w, {"PROCESSED"})
      /\ projection' = [projection EXCEPT ![Actor(w)] = Projected(w)]
      /\ UNCHANGED <<rating, event, latest>>
  BY DeliverLeaves
<1>2. claim[w] \in Events /\ event[claim[w]] # None /\ Actor(w) \in Users /\ FreshAt(w)
  BY <1>1, ActorIsUser, NoneAssumption DEF Fresh
<1>3. /\ projection'[Actor(w)].items = seen[w]
      /\ \A u \in Users : u # Actor(w) => projection'[u] = projection[u]
  BY <1>1, <1>2 DEF TypeOK, Projected
<1>4. \A e \in Events : outbox'[e].status = "PROCESSED" => Done(e, w)
  BY <1>1 DEF Releases, Done
<1>5. \A u \in Users : ActiveRatings(u)' = ActiveRatings(u)
  BY <1>1 DEF ActiveRatings
<1>6. LatestHeals'
  <2>1. ASSUME NEW u \in Users, latest[u] # None, outbox'[latest[u]].status = "PROCESSED"
        PROVE  projection'[u].items = ActiveRatings(u)
    <3>1. latest[u] \in Events /\ event[latest[u]].user = u
      BY <2>1 DEF TypeOK, History, LatestOfUser
    <3>2. CASE u = Actor(w)
      BY <1>2, <1>3, <1>4, <2>1, <3>1, <3>2 DEF FreshAt
    <3>3. CASE u # Actor(w)
      <4>1. latest[u] # claim[w]
        BY <3>1, <3>3 DEF Actor
      <4>2. QED
        BY <1>1, <1>3, <2>1, <3>1, <3>3, <4>1 DEF Releases, Projection, LatestHeals
    <3>4. QED
      BY <3>2, <3>3
  <2>2. QED
    BY <1>1, <1>5, <2>1 DEF LatestHeals
<1>7. ProcessedIsReflected'
  <2>1. ASSUME NEW e \in Events, outbox'[e].status = "PROCESSED"
        PROVE  ReflectsOf(projection'[event[e].user].items, e, event)
    <3>1. CASE e = claim[w]
      BY <1>2, <1>3, <3>1 DEF FreshAt, Done, Actor
    <3>2. CASE e # claim[w]
      <4>1. outbox[e].status = "PROCESSED" /\ event[e] # None /\ event[e].user \in Users
        BY <1>1, <2>1, <3>2 DEF Releases, Claims, EventOfRow, TypeOK, Event
      <4>2. CASE event[e].user = Actor(w)
        BY <1>2, <1>3, <4>1, <4>2 DEF FreshAt, Done
      <4>3. CASE event[e].user # Actor(w)
        BY <1>3, <4>1, <4>3 DEF Projection, ProcessedIsReflected, Reflects, ReflectsOf
      <4>4. QED
        BY <4>2, <4>3
    <3>3. QED
      BY <3>1, <3>2
  <2>2. QED
    BY <1>1, <2>1 DEF ProcessedIsReflected, Reflects, ReflectsOf
<1>8. QED
  BY <1>6, <1>7 DEF Projection

(* Nothing is processed, and projection and ratings stay. *)
LEMMA OthersKeepProjection ==
  ASSUME TypeOK, Projection, UNCHANGED <<rating, event, latest, projection>>,
         \A e \in Events : outbox'[e].status = "PROCESSED" => outbox[e].status = "PROCESSED"
  PROVE  Projection'
<1>1. \A u \in Users : ActiveRatings(u)' = ActiveRatings(u)
  BY DEF ActiveRatings
<1>2. LatestHeals'
  BY <1>1 DEF Projection, LatestHeals, TypeOK
<1>3. ProcessedIsReflected'
  BY DEF Projection, ProcessedIsReflected, Reflects
<1>4. QED
  BY <1>2, <1>3 DEF Projection

(* A step is a rating mutation, a delivery, or leaves ratings, projection and
   the set of processed events as they are. *)
LEMMA StepCases ==
  ASSUME TypeOK, ClaimsHeld, Claims, [Next]_vars
  PROVE  \/ \E u \in Users, m \in Movies, e \in Events, active \in BOOLEAN : Rate(u, m, e, active)
         \/ \E w \in Workers : Deliver(w)
         \/ /\ UNCHANGED <<rating, event, latest, projection, applied>>
            /\ \A e \in Events : outbox'[e].status = "PROCESSED" => outbox[e].status = "PROCESSED"
<1>1. ASSUME NEW u \in Users, NEW m \in Movies, NEW e \in Events,
             MutateRating(u, m, e) \/ RemoveRating(u, m, e)
      PROVE  \E active \in BOOLEAN : Rate(u, m, e, active)
  BY <1>1 DEF MutateRating, RemoveRating
<1> DEFINE Kept == /\ UNCHANGED <<rating, event, latest, projection, applied>>
                   /\ \A e \in Events : outbox'[e].status = "PROCESSED"
                                          => outbox[e].status = "PROCESSED"
<1>2. ASSUME NEW w \in Workers,
             DispatchNext(w) \/ CheckApplied(w) \/ LockActor(w) \/ ReadActiveRatings(w)
      PROVE  Kept
  BY <1>2 DEF DispatchNext, Dispatcher!DispatchNext, CheckApplied, LockActor, ReadActiveRatings,
              store
<1>3. ASSUME NEW w \in Workers, ConsumerFails(w) \/ Crash(w) PROVE Kept
  BY <1>3, FailureLeaves, CrashLeaves DEF Releases, store
<1>4. ASSUME NEW e \in Events, BackoffElapses(e) PROVE Kept
  BY <1>4, BackoffOfRow DEF BackoffElapses, StatusesKept, store, TypeOK
<1>5. CASE (\E u \in Users : FindProjected(u)) \/ ReaderDone \/ UNCHANGED vars
  BY <1>5 DEF FindProjected, ReaderDone, vars
<1>6. QED
  BY <1>1, <1>2, <1>3, <1>4, <1>5 DEF Next, Consume

LEMMA NextProjection ==
  ASSUME TypeOK, ClaimsHeld, Claims, History, Fresh, Projection, [Next]_vars
  PROVE  Projection' /\ History'
<1>1. ASSUME NEW u \in Users, NEW m \in Movies, NEW e \in Events, NEW active \in BOOLEAN,
             Rate(u, m, e, active)
      PROVE  Projection' /\ History'
  BY <1>1, RateProjection, RateHistory
<1>2. ASSUME NEW w \in Workers, Deliver(w) PROVE Projection' /\ History'
  BY <1>2, DeliverProjection, DeliverLeaves, OthersKeepHistory
<1>3. QED
  BY <1>1, <1>2, StepCases, OthersKeepProjection, OthersKeepHistory

-----------------------------------------------------------------------------
(* Each event rebuilds the projection once. *)

AppliedOf(u) == {e \in applied : event[e].user = u}

Counted == IsFiniteSet(applied) /\ \A u \in Users : projection[u].revision = Cardinality(AppliedOf(u))

LEMMA InitCounted == Init => Counted
<1>1. ASSUME Init, NEW u \in Users PROVE AppliedOf(u) = {}
  BY <1>1 DEF Init, AppliedOf
<1>2. ASSUME Init PROVE applied = {} /\ \A u \in Users : projection[u].revision = 0
  BY <1>2 DEF Init
<1>3. QED
  BY <1>1, <1>2, FS_EmptySet DEF Counted

LEMMA DeliverCounted ==
  ASSUME TypeOK, ClaimsHeld, Claims, Counted, NEW w \in Workers, Deliver(w) PROVE Counted'
<1>1. /\ step[w] = "project" /\ Releases(w, {"PROCESSED"})
      /\ projection' = [projection EXCEPT ![Actor(w)] = Projected(w)]
      /\ applied' = applied \union {claim[w]} /\ UNCHANGED event
  BY DeliverLeaves
<1>2. claim[w] \in Events /\ claim[w] \notin applied /\ Actor(w) \in Users
  BY <1>1, ActorIsUser DEF Claims, AppliedIsProcessed, ClaimsHeld, StepOfClaim
<1>3. IsFiniteSet(applied')
  BY <1>1, FS_AddElement DEF Counted
<1>4. PICK v \in Users : v = Actor(w)
  BY <1>2
<1>5. /\ AppliedOf(v)' = AppliedOf(v) \union {claim[w]}
      /\ claim[w] \notin AppliedOf(v)
  BY <1>1, <1>2, <1>4 DEF AppliedOf, Actor
<1>6. \A u \in Users : u # v => AppliedOf(u)' = AppliedOf(u)
  BY <1>1, <1>2, <1>4 DEF AppliedOf, Actor
<1>7. IsFiniteSet(AppliedOf(v))
  BY FS_Subset DEF Counted, AppliedOf
<1>8. Cardinality(AppliedOf(v) \union {claim[w]}) = Cardinality(AppliedOf(v)) + 1
  BY <1>5, <1>7, FS_AddElement
<1>9. /\ projection'[v].revision = projection[v].revision + 1
      /\ \A u \in Users : u # v => projection'[u] = projection[u]
  BY <1>1, <1>4 DEF TypeOK, Projected
<1>10. ASSUME NEW u \in Users PROVE projection'[u].revision = Cardinality(AppliedOf(u)')
  <2>1. CASE u = v
    BY <1>5, <1>8, <1>9, <2>1 DEF Counted
  <2>2. CASE u # v
    BY <1>6, <1>9, <2>2 DEF Counted
  <2>3. QED
    BY <2>1, <2>2
<1>11. QED
  BY <1>3, <1>10 DEF Counted

LEMMA NextCounted ==
  ASSUME TypeOK, ClaimsHeld, Claims, Counted, [Next]_vars PROVE Counted'
<1>1. ASSUME UNCHANGED <<applied, projection>>,
             \A e \in applied : event'[e] = event[e]
      PROVE  Counted'
  <2>1. \A u \in Users : AppliedOf(u)' = AppliedOf(u)
    BY <1>1 DEF AppliedOf
  <2>2. QED
    BY <1>1, <2>1 DEF Counted
<1>2. ASSUME NEW u \in Users, NEW m \in Movies, NEW e \in Events, NEW active \in BOOLEAN,
             Rate(u, m, e, active)
      PROVE  Counted'
  <2>1. UNCHANGED <<applied, projection>> /\ event' = [event EXCEPT ![e] = event'[e]]
    BY <1>2 DEF Rate, TypeOK
  <2>2. e \notin applied
    BY <1>2, AppendOfRow DEF Rate, TypeOK, Appends, Claims, AppliedIsProcessed
  <2>3. QED
    BY <1>1, <2>1, <2>2 DEF TypeOK
<1>3. QED
  BY <1>1, <1>2, StepCases, DeliverCounted

-----------------------------------------------------------------------------
(* Readers. *)

Agrees == /\ reader.version = reader.snapshot
          /\ \A u \in Users : projection[u].version = projection[u].items

LEMMA InitAgrees == Init => Agrees
<1>1. ASSUME Init PROVE reader.version = reader.snapshot
  BY <1>1 DEF Init, NoReader
<1>2. ASSUME Init, NEW u \in Users PROVE projection[u].version = projection[u].items
  <2>1. projection[u] = [version |-> {}, items |-> {}, revision |-> 0]
    BY <1>2 DEF Init
  <2>2. QED
    BY <2>1
<1>3. QED
  BY <1>1, <1>2 DEF Agrees

LEMMA NextAgrees ==
  ASSUME TypeOK, ClaimsHeld, Claims, Agrees, [Next]_vars PROVE Agrees'
<1>1. ASSUME NEW u \in Users, FindProjected(u) PROVE Agrees'
  BY <1>1 DEF FindProjected, Agrees
<1>2. CASE ReaderDone
  BY <1>2 DEF ReaderDone, NoReader, Agrees
<1>3. ASSUME NEW w \in Workers, Deliver(w) PROVE Agrees'
  <2>1. projection' = [projection EXCEPT ![Actor(w)] = Projected(w)] /\ UNCHANGED reader
    BY <1>3, DeliverLeaves
  <2>2. Projected(w).version = Projected(w).items
    BY DEF Projected
  <2>3. QED
    BY <2>1, <2>2 DEF Agrees, TypeOK
<1>4. ASSUME UNCHANGED <<projection, reader>> PROVE Agrees'
  BY <1>4 DEF Agrees
<1>5. ASSUME NEW w \in Workers, Consume(w) \/ Crash(w)
      PROVE  Deliver(w) \/ UNCHANGED <<projection, reader>>
  BY <1>5 DEF Consume, DispatchNext, CheckApplied, LockActor, ReadActiveRatings, ConsumerFails,
              Crash, store
<1>6. QED
  BY <1>1, <1>2, <1>3, <1>4, <1>5 DEF Next, MutateRating, RemoveRating, Rate, BackoffElapses, vars,
     store

-----------------------------------------------------------------------------
(* The invariant and what follows from it. *)

IInv == Layer1 /\ History /\ Fresh /\ Projection /\ Counted /\ Agrees

(* The inductive invariant holds in every behaviour. *)
THEOREM Inductive == Spec => []IInv
<1>1. Init => History /\ Fresh /\ Projection /\ Counted /\ Agrees
  BY InitHistory, InitFresh, InitProjection, InitCounted, InitAgrees
<1>2. Layer1 => TypeOK /\ ClaimsHeld /\ Claims
  BY FromDispatcher DEF Layer1
<1>3. /\ TypeOK /\ ClaimsHeld /\ Claims /\ History /\ Fresh /\ Projection /\ Counted /\ Agrees
      /\ [Next]_vars
      => (History /\ Fresh /\ Projection /\ Counted /\ Agrees)'
  BY NextProjection, NextFresh, NextCounted, NextAgrees
<1>4. QED
  BY <1>1, <1>2, <1>3, Layer1Inv, PTL DEF Spec, IInv

(* TypeOK: every variable keeps its type, for any number of users, movies,
   workers and events. *)
THEOREM TypeCorrect == Spec => []TypeOK
<1>1. IInv => TypeOK
  BY DEF IInv, Layer1
<1>2. QED
  BY <1>1, Inductive, PTL

(* LatestHeals: once a user's last change is processed the projection is the
   user's active ratings, however the deliveries before it went. *)
THEOREM LatestChangeHeals == Spec => []LatestHeals
<1>1. IInv => LatestHeals
  BY DEF IInv, Projection
<1>2. QED
  BY <1>1, Inductive, PTL

(* ProcessedIsReflected: a processed change is never lost from the projection,
   in whatever order the events are delivered. *)
THEOREM ProcessedChangesStay == Spec => []ProcessedIsReflected
<1>1. IInv => ProcessedIsReflected
  BY DEF IInv, Projection
<1>2. QED
  BY <1>1, Inductive, PTL

(* AppliedOnce: with retries and crashes, an event takes effect exactly once. *)
THEOREM EffectivelyOnce == Spec => []AppliedOnce
<1>1. IInv => AppliedOnce
  BY DEF IInv, Layer1, Claims, AppliedIsProcessed, Counted, AppliedOf, AppliedOnce
<1>2. QED
  BY <1>1, Inductive, PTL

(* NeverCorrupt: the digest a reader checks is that of the items it reads. *)
THEOREM ReadersAgree == Spec => []NeverCorrupt
<1>1. IInv => NeverCorrupt
  BY DEF IInv, Agrees, NeverCorrupt, Corrupt, ItemsRead
<1>2. QED
  BY <1>1, Inductive, PTL
-----------------------------------------------------------------------------
(* The rules of the dispatcher, under the consumer: no event is delivered by
   two workers at a time, attempts are counted up to max-attempts, and what is
   PROCESSED or a DEAD_LETTER stays so, whatever the consumer's statements do. *)
THEOREM DispatcherRulesKept ==
  Spec => /\ []Dispatcher!ClaimsExclusive
          /\ []Dispatcher!AttemptsCounted
          /\ Dispatcher!FinalIsFinal
<1>1. DispatcherProofs!IInv => Dispatcher!ClaimsExclusive /\ Dispatcher!AttemptsCounted
  BY DEF DispatcherProofs!IInv, DispatcherProofs!ClaimsExclusive, Dispatcher!ClaimsExclusive,
         DispatcherProofs!AttemptsCounted, Dispatcher!AttemptsCounted,
         DispatcherProofs!Unfinished, Dispatcher!Unfinished
<1>2. DispatcherProofs!IInv /\ [Next]_vars
        => [\A e \in Events : outbox[e].status \in Dispatcher!Final
                                => outbox'[e] = outbox[e]]_(Dispatcher!vars)
  <2> SUFFICES ASSUME DispatcherProofs!IInv, [Next]_vars,
                      NEW e \in Events, outbox[e].status \in Dispatcher!Final
               PROVE  outbox'[e] = outbox[e]
    OBVIOUS
  <2>1. [DispatcherProofs!Next]_(DispatcherProofs!vars)
    BY StepOfDispatcher, SameDispatcher
  <2>2. outbox[e].status \in DispatcherProofs!Final
    BY DEF Dispatcher!Final, DispatcherProofs!Final
  <2> QED
    BY <2>1, <2>2, DispatcherProofs!FinalKept, EventsAssumption, MaxAttemptsAssumption
<1> QED
  BY <1>1, <1>2, DispatcherInv, PTL DEF Spec, Dispatcher!FinalIsFinal

-----------------------------------------------------------------------------
(* How a projection can be stale, and what it can never hold. *)

(* A user without a change has no rating and nothing projected. *)
Untouched ==
  /\ \A e \in Events : event[e] # None => latest[event[e].user] # None
  /\ \A u \in Users : latest[u] = None =>
       projection[u].items = {} /\ \A m \in Movies : ~rating[u][m].active

(* The last event of a user is about that user's table: what is done to the
   projection by others is done with an event of theirs. *)
LEMMA NextUntouched ==
  ASSUME TypeOK, ClaimsHeld, Claims, Untouched, [Next]_vars PROVE Untouched'
<1>1. ASSUME NEW u \in Users, NEW m \in Movies, NEW e \in Events, NEW active \in BOOLEAN,
             Rate(u, m, e, active)
      PROVE  Untouched'
  <2>1. PICK revision \in Nat \ {0}, now \in Event :
           /\ now = [user |-> u, movie |-> m, revision |-> revision, active |-> active]
           /\ rating' = [rating EXCEPT ![u][m] = [revision |-> revision, active |-> active]]
           /\ event' = [event EXCEPT ![e] = now]
           /\ latest' = [latest EXCEPT ![u] = e]
    BY <1>1, RateStep
  <2>2. e # None /\ now.user = u /\ UNCHANGED projection
    BY <1>1, <2>1, EventsAssumption DEF Rate
  <2>3. latest'[u] # None /\ \A v \in Users : v # u => latest'[v] = latest[v] /\ rating'[v] = rating[v]
    BY <2>1, <2>2 DEF TypeOK
  <2>4. ASSUME NEW f \in Events, event'[f] # None PROVE latest'[event'[f].user] # None
    <3>1. CASE f = e
      BY <2>1, <2>2, <2>3, <3>1 DEF TypeOK
    <3>2. CASE f # e
      <4>1. event'[f] = event[f] /\ event[f].user \in Users
        BY <2>1, <2>4, <3>2 DEF TypeOK, Event
      <4> QED
        BY <2>3, <2>4, <4>1 DEF Untouched
    <3> QED
      BY <3>1, <3>2
  <2> QED
    BY <2>2, <2>3, <2>4 DEF Untouched
<1>2. ASSUME NEW w \in Workers, Deliver(w) PROVE Untouched'
  <2>1. /\ projection' = [projection EXCEPT ![Actor(w)] = Projected(w)]
        /\ step[w] = "project" /\ UNCHANGED <<rating, event, latest>>
    BY <1>2, DeliverLeaves
  <2>2. Actor(w) \in Users /\ event[claim[w]] # None /\ claim[w] \in Events
    BY <2>1, ActorIsUser DEF Claims, StepOfClaim, ClaimsHeld, EventOfRow
  <2>3. latest[Actor(w)] # None
    BY <2>2 DEF Untouched, Actor
  <2> QED
    BY <2>1, <2>2, <2>3 DEF Untouched, TypeOK
<1>3. ASSUME UNCHANGED <<rating, event, latest, projection>> PROVE Untouched'
  BY <1>3 DEF Untouched
<1> QED
  BY <1>1, <1>2, <1>3, StepCases

(* Once no delivery of a user's events is left, the projection is the user's
   active ratings, unless the event of the last change itself was given up
   after max-attempts failures: nothing else, neither the order of deliveries
   nor the other dead letters, leaves it stale. *)
THEOREM StaleOnlyByDeadLetter ==
  Spec => [](\A u \in Users :
    (\A e \in Events : event[e] # None /\ event[e].user = u => outbox[e].status \in Dispatcher!Final)
      => \/ projection[u].items = ActiveRatings(u)
         \/ /\ latest[u] # None
            /\ outbox[latest[u]].status = "DEAD_LETTER"
            /\ outbox[latest[u]].attempts = MaxAttempts)
<1> DEFINE OnlyDeadLetters == \A u \in Users :
    (\A e \in Events : event[e] # None /\ event[e].user = u => outbox[e].status \in Dispatcher!Final)
      => \/ projection[u].items = ActiveRatings(u)
         \/ /\ latest[u] # None
            /\ outbox[latest[u]].status = "DEAD_LETTER"
            /\ outbox[latest[u]].attempts = MaxAttempts
<1>1. Init => Untouched
  <2> SUFFICES ASSUME Init PROVE Untouched
    OBVIOUS
  <2>1. \A u \in Users : projection[u].items = {} /\ \A m \in Movies : ~rating[u][m].active
    <3> SUFFICES ASSUME NEW u \in Users
                 PROVE  projection[u].items = {} /\ \A m \in Movies : ~rating[u][m].active
      OBVIOUS
    <3>1. projection[u] = [version |-> {}, items |-> {}, revision |-> 0]
      BY DEF Init
    <3> QED
      BY <3>1 DEF Init
  <2> QED
    BY <2>1 DEF Init, Untouched
<1>2. IInv /\ Untouched /\ [Next]_vars => Untouched'
  BY NextUntouched, FromDispatcher DEF IInv, Layer1
<1>3. IInv /\ Untouched /\ Dispatcher!AttemptsCounted => OnlyDeadLetters
  <2> SUFFICES ASSUME IInv, Untouched, Dispatcher!AttemptsCounted, NEW u \in Users,
                      \A e \in Events : event[e] # None /\ event[e].user = u
                                          => outbox[e].status \in Dispatcher!Final
               PROVE  \/ projection[u].items = ActiveRatings(u)
                      \/ /\ latest[u] # None
                         /\ outbox[latest[u]].status = "DEAD_LETTER"
                         /\ outbox[latest[u]].attempts = MaxAttempts
    OBVIOUS
  <2>1. CASE latest[u] = None
    BY <2>1 DEF Untouched, ActiveRatings
  <2>2. CASE latest[u] # None
    <3>1. latest[u] \in Events /\ outbox[latest[u]].status \in Dispatcher!Final
      BY <2>2 DEF IInv, Layer1, TypeOK, History, LatestOfUser
    <3>2. CASE outbox[latest[u]].status = "PROCESSED"
      BY <2>2, <3>2 DEF IInv, Projection, LatestHeals
    <3>3. CASE outbox[latest[u]].status = "DEAD_LETTER"
      BY <2>2, <3>1, <3>3 DEF Dispatcher!AttemptsCounted
    <3> QED
      BY <3>1, <3>2, <3>3 DEF Dispatcher!Final
  <2> QED
    BY <2>1, <2>2
<1> HIDE DEF OnlyDeadLetters
<1>4. Spec => []OnlyDeadLetters
  BY <1>1, <1>2, <1>3, Inductive, DispatcherRulesKept, PTL DEF Spec
<1> QED
  BY <1>4, PTL DEF OnlyDeadLetters
-----------------------------------------------------------------------------
(* Nothing is invented. *)

(* What is listed was rated so, by that user. *)
Given(u, input, e) == /\ event[e] # None /\ event[e].active
                      /\ event[e].user = u /\ event[e].movie = input.movie
                      /\ event[e].revision = input.revision

Rated(u, items) == \A input \in items : \E e \in Events : Given(u, input, e)

Genuine ==
  /\ \A u \in Users, m \in Movies : rating[u][m].active => rating[u][m].revision > 0
  /\ \A u \in Users : Rated(u, projection[u].items)
  /\ \A w \in Workers : step[w] = "project" => Rated(Actor(w), seen[w])

(* The table itself lists what was rated. *)
LEMMA TableIsRated ==
  ASSUME TypeOK, History, Genuine, NEW u \in Users
  PROVE  Rated(u, ActiveRatings(u))
<1> SUFFICES ASSUME NEW input \in ActiveRatings(u) PROVE \E e \in Events : Given(u, input, e)
  BY DEF Rated
<1>1. PICK m \in Movies : rating[u][m].active
                          /\ input = [movie |-> m, revision |-> rating[u][m].revision]
  BY DEF ActiveRatings
<1>2. PICK e \in Events : event[e] = [user |-> u, movie |-> m, revision |-> rating[u][m].revision,
                                      active |-> rating[u][m].active]
  BY <1>1 DEF Genuine, History, Recorded
<1>3. event[e] \in Event
  BY <1>1, <1>2 DEF TypeOK, Event
<1> QED
  BY <1>1, <1>2, <1>3, NoneAssumption DEF Given

(* Events are never rewritten, so what was rated stays rated. *)
LEMMA RatedGrows ==
  ASSUME \A e \in Events : event[e] # None => event'[e] = event[e],
         NEW u, NEW items, Rated(u, items)
  PROVE  \A input \in items : \E e \in Events : Given(u, input, e)'
BY DEF Rated, Given

(* Every step keeps the projection and what workers have read genuine. *)
LEMMA NextGenuine ==
  ASSUME TypeOK, ClaimsHeld, Claims, History, Genuine, [Next]_vars PROVE Genuine'
<1>1. ASSUME NEW u \in Users, NEW m \in Movies, NEW e \in Events, NEW active \in BOOLEAN,
             Rate(u, m, e, active)
      PROVE  Genuine'
  <2>1. PICK revision \in Nat \ {0}, now \in Event :
           /\ rating' = [rating EXCEPT ![u][m] = [revision |-> revision, active |-> active]]
           /\ event' = [event EXCEPT ![e] = now]
           /\ event[e] = None
    BY <1>1, RateStep
  <2>2. /\ UNCHANGED <<projection, step, seen, claim>>
        /\ \A f \in Events : event[f] # None => event'[f] = event[f]
    BY <1>1, <2>1 DEF Rate, consumer, Dispatcher!Append, TypeOK
  <2>3. \A v \in Users, n \in Movies : rating'[v][n].active => rating'[v][n].revision > 0
    BY <2>1 DEF TypeOK, Genuine
  <2>4. \A v \in Users : Rated(v, projection[v].items)'
    BY <2>2, RatedGrows DEF Genuine, Rated
  <2>5. ASSUME NEW w \in Workers, step'[w] = "project" PROVE Rated(Actor(w), seen[w])'
    <3>1. step[w] = "project" /\ event[claim[w]] # None /\ claim[w] \in Events
      BY <2>2, <2>5, ActorIsUser, NoneAssumption
    <3>2. Actor(w)' = Actor(w) /\ Rated(Actor(w), seen[w])
      BY <2>2, <3>1 DEF Actor, Genuine
    <3>3. \A input \in seen[w] : \E f \in Events : Given(Actor(w), input, f)'
      BY <2>2, <3>2, RatedGrows DEF Given, Rated
    <3> QED
      BY <2>2, <3>2, <3>3 DEF Rated, Given
  <2> QED
    BY <2>3, <2>4, <2>5 DEF Genuine
<1>2. ASSUME NEW v \in Workers, Consume(v) \/ Crash(v) PROVE Genuine'
  <2>1. UNCHANGED <<rating, event>>
    BY <1>2, DeliverLeaves, FailureLeaves, CrashLeaves
       DEF Consume, DispatchNext, CheckApplied, LockActor, ReadActiveRatings, store
  <2>2. \A u \in Users : Rated(u, projection'[u].items)
    <3>1. CASE Deliver(v)
      <4>1. projection' = [projection EXCEPT ![Actor(v)] = Projected(v)] /\ step[v] = "project"
        BY <3>1, DeliverLeaves
      <4>2. Rated(Actor(v), Projected(v).items)
        BY <4>1 DEF Genuine, Projected
      <4> QED
        BY <4>1, <4>2 DEF Genuine, TypeOK
    <3>2. CASE ~Deliver(v)
      BY <1>2, <3>2, FailureLeaves, CrashLeaves
         DEF Genuine, Consume, DispatchNext, CheckApplied, LockActor, ReadActiveRatings, store
    <3> QED
      BY <3>1, <3>2
  <2>3. ASSUME NEW w \in Workers, step'[w] = "project"
        PROVE  event[claim'[w]].user \in Users /\ Rated(event[claim'[w]].user, seen'[w])
    <3>1. CASE w = v
      <4>1. ReadActiveRatings(v)
        BY <1>2, <2>3, <3>1, DeliverLeaves, FailureLeaves, CrashLeaves
           DEF Consume, DispatchNext, CheckApplied, LockActor, Leave, Goto, TypeOK
      <4>2. step[v] = "read" /\ seen'[v] = ActiveRatings(Actor(v)) /\ claim'[v] = claim[v]
        BY <2>3, <3>1, <4>1 DEF ReadActiveRatings, Goto, TypeOK
      <4> QED
        BY <3>1, <4>2, ActorIsUser, TableIsRated DEF Actor
    <3>2. CASE w # v
      <4>1. step[w] = "project" /\ claim'[w] = claim[w] /\ seen'[w] = seen[w]
        <5>1. CASE DispatchNext(v) \/ CheckApplied(v) \/ LockActor(v) \/ ReadActiveRatings(v)
          BY <2>3, <3>2, <5>1 DEF DispatchNext, Dispatcher!DispatchNext, CheckApplied, LockActor,
                                  ReadActiveRatings, Goto, store, TypeOK, Dispatcher!TypeOK
        <5>2. CASE Deliver(v) \/ ConsumerFails(v) \/ Crash(v)
          <6>1. claim' = [claim EXCEPT ![v] = None] /\ Leave(v)
            BY <5>2, DeliverLeaves, FailureLeaves, CrashLeaves DEF Releases
          <6> QED
            BY <2>3, <3>2, <6>1 DEF Leave, Goto, TypeOK, Dispatcher!TypeOK
        <5> QED
          BY <1>2, <5>1, <5>2 DEF Consume
      <4> QED
        BY <4>1, ActorIsUser DEF Genuine, Actor
    <3> QED
      BY <3>1, <3>2
  <2> QED
    BY <2>1, <2>2, <2>3 DEF Genuine, Rated, Given, Actor
<1>3. ASSUME UNCHANGED <<rating, event, projection, step, seen, claim>> PROVE Genuine'
  BY <1>3 DEF Genuine, Rated, Given, Actor
<1>4. ASSUME NEW e \in Events, BackoffElapses(e)
      PROVE  UNCHANGED <<rating, event, projection, step, seen, claim>>
  BY <1>4 DEF BackoffElapses, Dispatcher!BackoffElapses, store, consumer
<1>5. ASSUME (\E u \in Users : FindProjected(u)) \/ ReaderDone \/ UNCHANGED vars
      PROVE  UNCHANGED <<rating, event, projection, step, seen, claim>>
  BY <1>5 DEF FindProjected, ReaderDone, vars, consumer
<1> QED
  BY <1>1, <1>2, <1>3, <1>4, <1>5 DEF Next, MutateRating, RemoveRating

(* The recommendation input of a user holds only what that user once rated, at
   a revision the rating really had: no rebuild mixes users, movies or
   revisions, and nothing is projected that no committed change asked for. *)
THEOREM InputIsGenuine ==
  Spec => [](\A u \in Users : \A input \in projection[u].items : \E e \in Events :
               /\ event[e] # None /\ event[e].active
               /\ event[e].user = u /\ event[e].movie = input.movie
               /\ event[e].revision = input.revision
               /\ input.revision <= rating[u][input.movie].revision)
<1> DEFINE Real == \A u \in Users : \A input \in projection[u].items : \E e \in Events :
               /\ event[e] # None /\ event[e].active
               /\ event[e].user = u /\ event[e].movie = input.movie
               /\ event[e].revision = input.revision
               /\ input.revision <= rating[u][input.movie].revision
<1>1. Init => Genuine
  <2> SUFFICES ASSUME Init PROVE Genuine
    OBVIOUS
  <2>1. \A u \in Users : projection[u].items = {}
    <3> SUFFICES ASSUME NEW u \in Users PROVE projection[u].items = {}
      OBVIOUS
    <3>1. projection[u] = [version |-> {}, items |-> {}, revision |-> 0]
      BY DEF Init
    <3> QED
      BY <3>1
  <2> QED
    BY <2>1 DEF Init, Genuine, Rated
<1>2. IInv /\ Genuine /\ [Next]_vars => Genuine'
  BY NextGenuine, FromDispatcher DEF IInv, Layer1
<1>3. IInv /\ Genuine => Real
  <2> SUFFICES ASSUME IInv, Genuine, NEW u \in Users, NEW input \in projection[u].items
               PROVE  \E e \in Events :
                        /\ event[e] # None /\ event[e].active
                        /\ event[e].user = u /\ event[e].movie = input.movie
                        /\ event[e].revision = input.revision
                        /\ input.revision <= rating[u][input.movie].revision
    OBVIOUS
  <2>1. PICK e \in Events : Given(u, input, e)
    BY DEF Genuine, Rated
  <2>2. event[e].revision \in 1..rating[u][input.movie].revision
    BY <2>1 DEF Given, IInv, History, Revisions
  <2> QED
    BY <2>1, <2>2 DEF Given
<1> HIDE DEF Real
<1>4. Spec => []Real
  BY <1>1, <1>2, <1>3, Inductive, PTL DEF Spec
<1> QED
  BY <1>4, PTL DEF Real
=============================================================================
