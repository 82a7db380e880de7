-------------------------- MODULE OutboxDispatcher --------------------------
(***************************************************************************)
(* C1OutboxDispatcher: workers (one per JVM) deliver the committed rows of *)
(* domain_outbox to a consumer, each row in a transaction of its own.  The *)
(* claim of a row is its row lock, so it ends with the transaction;        *)
(* the status PROCESSING and the attempt count are private to it until it  *)
(* commits.  What the consumer does is not said here: ActiveRatingInput is *)
(* the consumer of the RATING_ events, and implements this module.         *)
(*                                                                         *)
(* next_attempt_at is abstracted to whether it lies in the future: how     *)
(* long a backoff lasts decides nothing but which row is ready when.       *)
(***************************************************************************)
EXTENDS Naturals

CONSTANTS Events,        \* event_id, numbered in the order (occurred_at, event_id)
          Workers,       \* JVMs that poll
          MaxAttempts,   \* catalog.c1.outbox-worker.max-attempts
          None           \* no row claimed

ASSUME EventsAssumption == Events \subseteq Nat /\ None \notin Events
ASSUME MaxAttemptsAssumption == MaxAttempts \in Nat \ {0}

VARIABLES outbox,        \* domain_outbox, committed
          claim          \* per worker, the row its transaction has locked

vars == <<outbox, claim>>

Unfinished == {"PENDING", "FAILED"}
Final      == {"PROCESSED", "DEAD_LETTER"}

Row == [status : {"ABSENT"} \union Unfinished \union Final,
        attempts : 0..MaxAttempts, backoff : BOOLEAN]

Init == /\ outbox = [e \in Events |-> [status |-> "ABSENT", attempts |-> 0, backoff |-> FALSE]]
        /\ claim = [w \in Workers |-> None]

(* C1MutationJournal.append, seen when the mutation it belongs to commits.
   Clocks of different JVMs and long transactions let rows become visible in
   another order than that of occurred_at. *)
Append(e) == /\ outbox[e].status = "ABSENT"
             /\ outbox' = [outbox EXCEPT ![e].status = "PENDING"]
             /\ UNCHANGED claim

(* Fault: rows that failed once are not looked at again. *)
PendingOnly(e) == outbox[e].status = "PENDING" /\ ~outbox[e].backoff

Ready(e) == outbox[e].status \in Unfinished /\ ~outbox[e].backoff

Claimed(e) == \E w \in Workers : claim[w] = e

(* Fault: the candidate is read without FOR UPDATE. *)
DispatchUnlocked(w) == /\ claim[w] = None
                       /\ \E e \in Events : Ready(e) /\ claim' = [claim EXCEPT ![w] = e]
                       /\ UNCHANGED outbox

(* SELECT ... ORDER BY occurred_at, event_id FOR UPDATE SKIP LOCKED LIMIT 1,
   and the UPDATE to PROCESSING. *)
DispatchNext(w) ==
  LET candidates == {e \in Events : Ready(e) /\ ~Claimed(e)} IN
  /\ claim[w] = None
  /\ \E e \in candidates : /\ \A f \in candidates : e <= f
                           /\ claim' = [claim EXCEPT ![w] = e]
  /\ UNCHANGED outbox

(* The consumer returns: PROCESSED, and the commit. *)
Processed(w) ==
  /\ claim[w] # None
  /\ outbox' = [outbox EXCEPT ![claim[w]] =
                  [status |-> "PROCESSED", attempts |-> @.attempts + 1, backoff |-> FALSE]]
  /\ claim' = [claim EXCEPT ![w] = None]

(* Fault: a row is given up one attempt too late. *)
GiveUpLate(attempt) == attempt > MaxAttempts

Exhausted(attempt) == attempt >= MaxAttempts

(* The consumer throws: what it wrote is rolled back to the savepoint, the
   attempt is counted, and the commit. *)
Failed(w) ==
  LET attempt == outbox[claim[w]].attempts + 1 IN
  /\ claim[w] # None
  /\ outbox' = [outbox EXCEPT ![claim[w]] =
                  [status |-> IF Exhausted(attempt) THEN "DEAD_LETTER" ELSE "FAILED",
                   attempts |-> attempt, backoff |-> ~Exhausted(attempt)]]
  /\ claim' = [claim EXCEPT ![w] = None]

BackoffElapses(e) == /\ outbox[e].backoff
                     /\ outbox' = [outbox EXCEPT ![e].backoff = FALSE]
                     /\ UNCHANGED claim

(* Fault: the attempt is counted when the process dies, in a second commit. *)
CrashCounts(w) ==
  /\ claim[w] # None
  /\ outbox' = [outbox EXCEPT ![claim[w]].attempts = IF @ < MaxAttempts THEN @ + 1 ELSE @]
  /\ claim' = [claim EXCEPT ![w] = None]

(* The process dies or loses its connection: the claim is released and the
   attempt is not counted. *)
Crash(w) == /\ claim[w] # None
            /\ claim' = [claim EXCEPT ![w] = None]
            /\ UNCHANGED outbox

Finish(w) == Processed(w) \/ Failed(w)

Next == \/ \E e \in Events : Append(e) \/ BackoffElapses(e)
        \/ \E w \in Workers : DispatchNext(w) \/ Finish(w) \/ Crash(w)

Spec == Init /\ [][Next]_vars

(* Polls come again and again (fixedDelay 1 s) and time passes.  A consumer
   returns or throws unless its process dies first, which it does not do in
   every delivery from some point on. *)
Fairness == /\ \A w \in Workers : WF_vars(DispatchNext(w)) /\ SF_vars(Finish(w))
            /\ \A e \in Events : WF_vars(BackoffElapses(e))

LiveSpec == Spec /\ Fairness

-----------------------------------------------------------------------------
(* Every variable holds values of its type; no attempt beyond the bound. *)
TypeOK == /\ outbox \in [Events -> Row]
          /\ claim \in [Workers -> Events \union {None}]

(* No row is delivered by two workers at a time, nor once it is finished. *)
ClaimsExclusive ==
  \A w \in Workers : claim[w] # None =>
    /\ outbox[claim[w]].status \in Unfinished
    /\ \A v \in Workers : claim[v] = claim[w] => v = w

(* The bounded retry of C1OutboxDispatcher: the status says what the attempts
   came to, and only a row whose attempts are used up is a dead letter. *)
AttemptsCounted ==
  \A e \in Events :
    LET row == outbox[e] IN
    /\ row.status \in {"ABSENT", "PENDING"} => row.attempts = 0
    /\ row.status = "FAILED"      => row.attempts \in 1..(MaxAttempts - 1)
    /\ row.status = "PROCESSED"   => row.attempts \in 1..MaxAttempts
    /\ row.status = "DEAD_LETTER" => row.attempts = MaxAttempts

(* A row that is processed or given up is never delivered or changed again. *)
FinalIsFinal ==
  [][\A e \in Events : outbox[e].status \in Final => outbox'[e] = outbox[e]]_vars

(* Every committed event is processed or given up in the end. *)
EventsSettle ==
  \A e \in Events : outbox[e].status = "PENDING" ~> outbox[e].status \in Final
=============================================================================
