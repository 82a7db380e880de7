----------------------- MODULE OutboxDispatcherProofs -----------------------
(***************************************************************************)
(* Proofs about OutboxDispatcher, for any number of events, workers and    *)
(* attempts.  ClaimsExclusive and AttemptsCounted need each other (only a  *)
(* claimed row is finished, and it has attempts left), and FinalIsFinal    *)
(* needs that only failed rows wait for a backoff.                         *)
(***************************************************************************)
EXTENDS OutboxDispatcher, TLAPS

(* Only a failed row waits. *)
BackoffOfFailed == \A e \in Events : outbox[e].backoff => outbox[e].status = "FAILED"

IInv == TypeOK /\ ClaimsExclusive /\ AttemptsCounted /\ BackoffOfFailed

(* What the invariant says of one row; each action changes one row at most. *)
Sound(row) ==
  /\ row \in Row
  /\ row.status \in {"ABSENT", "PENDING"} => row.attempts = 0
  /\ row.status = "FAILED"      => row.attempts \in 1..(MaxAttempts - 1)
  /\ row.status = "PROCESSED"   => row.attempts \in 1..MaxAttempts
  /\ row.status = "DEAD_LETTER" => row.attempts = MaxAttempts
  /\ row.backoff => row.status = "FAILED"

RowsSound == outbox \in [Events -> Row] /\ \A e \in Events : Sound(outbox[e])

LEMMA InvByRow ==
  IInv <=> /\ RowsSound
           /\ claim \in [Workers -> Events \union {None}]
           /\ ClaimsExclusive
BY DEF IInv, TypeOK, AttemptsCounted, BackoffOfFailed, RowsSound, Sound

(* A row replaced by a sound one leaves the table sound. *)
LEMMA RowReplaced ==
  ASSUME RowsSound, NEW e \in Events, NEW row, Sound(row),
         outbox' = [outbox EXCEPT ![e] = row]
  PROVE  RowsSound'
BY DEF RowsSound, Sound

(* The rows the actions write. *)
LEMMA AppendedRow ==
  ASSUME NEW row \in Row, Sound(row), row.status = "ABSENT"
  PROVE  Sound([row EXCEPT !.status = "PENDING"])
BY DEF Row, Sound, Unfinished, Final

LEMMA ReadyAgainRow ==
  ASSUME NEW row \in Row, Sound(row)
  PROVE  Sound([row EXCEPT !.backoff = FALSE])
BY DEF Row, Sound, Unfinished, Final

LEMMA ProcessedRow ==
  ASSUME NEW row \in Row, Sound(row), row.status \in Unfinished
  PROVE  Sound([status |-> "PROCESSED", attempts |-> row.attempts + 1, backoff |-> FALSE])
<1>1. PICK attempts \in 1..MaxAttempts : attempts = row.attempts + 1
  BY MaxAttemptsAssumption DEF Row, Sound, Unfinished
<1>2. Sound([status |-> "PROCESSED", attempts |-> attempts, backoff |-> FALSE])
  BY MaxAttemptsAssumption DEF Row, Sound, Unfinished, Final
<1>3. QED
  BY <1>1, <1>2

LEMMA FailedRow ==
  ASSUME NEW row \in Row, Sound(row), row.status \in Unfinished,
         NEW attempt, attempt = row.attempts + 1
  PROVE  Sound([status |-> IF Exhausted(attempt) THEN "DEAD_LETTER" ELSE "FAILED",
                attempts |-> attempt, backoff |-> ~Exhausted(attempt)])
<1>1. attempt \in 1..MaxAttempts /\ (~Exhausted(attempt) => attempt \in 1..(MaxAttempts - 1))
      /\ (Exhausted(attempt) => attempt = MaxAttempts)
  BY MaxAttemptsAssumption DEF Row, Sound, Unfinished, Exhausted
<1>3. CASE Exhausted(attempt)
  <2>1. Sound([status |-> "DEAD_LETTER", attempts |-> MaxAttempts, backoff |-> FALSE])
    BY MaxAttemptsAssumption DEF Row, Sound, Unfinished, Final
  <2>2. QED
    BY <1>1, <1>3, <2>1
<1>4. CASE ~Exhausted(attempt)
  <2>1. \A n \in 1..(MaxAttempts - 1) :
          Sound([status |-> "FAILED", attempts |-> n, backoff |-> TRUE])
    BY MaxAttemptsAssumption DEF Row, Sound, Unfinished, Final
  <2>2. QED
    BY <1>1, <1>4, <2>1
<1>5. QED
  BY <1>3, <1>4

-----------------------------------------------------------------------------
LEMMA InitInv == Init => IInv
BY EventsAssumption, MaxAttemptsAssumption
   DEF Init, IInv, TypeOK, ClaimsExclusive, AttemptsCounted, BackoffOfFailed,
       Row, Unfinished, Final

(* A claim is given up: the others stay exclusive. *)
LEMMA ClaimReleased ==
  ASSUME IInv, NEW w \in Workers, claim' = [claim EXCEPT ![w] = None],
         \A e \in Events : e # claim[w] => outbox'[e] = outbox[e]
  PROVE  ClaimsExclusive'
BY DEF IInv, TypeOK, ClaimsExclusive

LEMMA AppendInv == ASSUME IInv, NEW e \in Events, Append(e) PROVE IInv'
<1>1. RowsSound'
  BY InvByRow, RowReplaced, AppendedRow DEF Append, RowsSound
<1>2. (claim \in [Workers -> Events \union {None}])'
  BY DEF IInv, TypeOK, Append
<1>3. ClaimsExclusive'
  BY DEF IInv, TypeOK, ClaimsExclusive, Append, Unfinished, Row
<1>4. QED
  BY <1>1, <1>2, <1>3, InvByRow, PTL

LEMMA BackoffElapsesInv == ASSUME IInv, NEW e \in Events, BackoffElapses(e) PROVE IInv'
<1>1. RowsSound'
  BY InvByRow, RowReplaced, ReadyAgainRow DEF BackoffElapses, RowsSound
<1>2. (claim \in [Workers -> Events \union {None}])'
  BY DEF IInv, TypeOK, BackoffElapses
<1>3. ClaimsExclusive'
  BY DEF IInv, TypeOK, ClaimsExclusive, BackoffElapses, Row
<1>4. QED
  BY <1>1, <1>2, <1>3, InvByRow, PTL

LEMMA DispatchNextInv == ASSUME IInv, NEW w \in Workers, DispatchNext(w) PROVE IInv'
<1>1. PICK e \in Events : Ready(e) /\ ~Claimed(e) /\ claim' = [claim EXCEPT ![w] = e]
  BY DEF DispatchNext
<1>2. UNCHANGED outbox
  BY DEF DispatchNext
<1>3. (claim \in [Workers -> Events \union {None}])'
  BY <1>1 DEF IInv, TypeOK
<1>4. ClaimsExclusive'
  BY <1>1, <1>2, EventsAssumption
     DEF IInv, TypeOK, ClaimsExclusive, Claimed, Ready
<1>5. QED
  BY <1>2, <1>3, <1>4 DEF IInv, TypeOK, AttemptsCounted, BackoffOfFailed

(* What a worker that has a row knows of it. *)
LEMMA ClaimedRow ==
  ASSUME IInv, NEW w \in Workers, claim[w] # None
  PROVE  /\ claim[w] \in Events
         /\ outbox[claim[w]] \in Row
         /\ Sound(outbox[claim[w]])
         /\ outbox[claim[w]].status \in Unfinished
BY InvByRow DEF RowsSound, ClaimsExclusive

LEMMA FinishInv == ASSUME IInv, NEW w \in Workers, Finish(w) PROVE IInv'
<1>0. claim[w] # None /\ claim' = [claim EXCEPT ![w] = None]
  BY DEF Finish, Processed, Failed
<1>1. PICK row : Sound(row) /\ outbox' = [outbox EXCEPT ![claim[w]] = row]
  <2>1. CASE Processed(w)
    BY <1>0, <2>1, ClaimedRow, ProcessedRow DEF Processed, RowsSound, IInv, TypeOK
  <2>2. CASE Failed(w)
    BY <1>0, <2>2, ClaimedRow, FailedRow DEF Failed
  <2>3. QED
    BY <2>1, <2>2 DEF Finish
<1>2. RowsSound'
  BY <1>0, <1>1, ClaimedRow, InvByRow, RowReplaced
<1>3. (claim \in [Workers -> Events \union {None}])'
  BY <1>0 DEF IInv, TypeOK
<1>4. ClaimsExclusive'
  BY <1>0, <1>1, ClaimReleased DEF IInv, TypeOK
<1>5. QED
  BY <1>2, <1>3, <1>4, InvByRow, PTL

LEMMA CrashInv == ASSUME IInv, NEW w \in Workers, Crash(w) PROVE IInv'
BY ClaimReleased DEF Crash, IInv, TypeOK, AttemptsCounted, BackoffOfFailed

LEMMA NextInv == IInv /\ [Next]_vars => IInv'
<1>1. CASE UNCHANGED vars
  BY <1>1 DEF vars, IInv, TypeOK, ClaimsExclusive, AttemptsCounted, BackoffOfFailed
<1>2. CASE Next
  BY <1>2, AppendInv, BackoffElapsesInv, DispatchNextInv, FinishInv, CrashInv DEF Next
<1>3. QED
  BY <1>1, <1>2

(* The strengthened invariant: types, exclusive claims, counted attempts. *)
THEOREM Inductive == Spec => []IInv
<1>1. QED
  BY InitInv, NextInv, PTL DEF Spec

(* TypeOK: no attempt is counted beyond max-attempts. *)
THEOREM TypeCorrect == Spec => []TypeOK
<1>1. IInv => TypeOK
  BY DEF IInv
<1>2. QED
  BY <1>1, Inductive, PTL

(* FOR UPDATE SKIP LOCKED: no two workers deliver a row, or a finished row. *)
THEOREM DeliveredByOne == Spec => []ClaimsExclusive
<1>1. IInv => ClaimsExclusive
  BY DEF IInv
<1>2. QED
  BY <1>1, Inductive, PTL

(* The bounded retry: a dead letter has used all its attempts up. *)
THEOREM RetryIsBounded == Spec => []AttemptsCounted
<1>1. IInv => AttemptsCounted
  BY DEF IInv
<1>2. QED
  BY <1>1, Inductive, PTL

(* A step changes no row that is processed or given up. *)
LEMMA FinalKept ==
  ASSUME IInv, [Next]_vars, NEW e \in Events, outbox[e].status \in Final
  PROVE  outbox'[e] = outbox[e]
<1>1. CASE UNCHANGED vars
  BY <1>1 DEF vars
<1>2. ASSUME NEW f \in Events, Append(f) PROVE outbox'[e] = outbox[e]
  BY <1>2 DEF Append, Final, IInv, TypeOK, Row
<1>3. ASSUME NEW f \in Events, BackoffElapses(f) PROVE outbox'[e] = outbox[e]
  BY <1>3 DEF BackoffElapses, Final, IInv, TypeOK, Row, BackoffOfFailed
<1>4. ASSUME NEW w \in Workers, DispatchNext(w) \/ Crash(w) PROVE outbox'[e] = outbox[e]
  BY <1>4 DEF DispatchNext, Crash
<1>5. ASSUME NEW w \in Workers, Finish(w) PROVE outbox'[e] = outbox[e]
  <2>1. claim[w] # None
    BY <1>5 DEF Finish, Processed, Failed
  <2>2. claim[w] # e
    BY <2>1, ClaimedRow DEF Unfinished, Final
  <2>3. QED
    BY <1>5, <2>2 DEF Finish, Processed, Failed, IInv, TypeOK
<1>6. QED
  BY <1>1, <1>2, <1>3, <1>4, <1>5 DEF Next

(* FinalIsFinal: PROCESSED and DEAD_LETTER are final, under any interleaving. *)
THEOREM FinalStays == Spec => FinalIsFinal
<1>1. IInv /\ [Next]_vars => [\A e \in Events : outbox[e].status \in Final => outbox'[e] = outbox[e]]_vars
  BY FinalKept
<1>2. QED
  BY <1>1, Inductive, PTL DEF Spec, FinalIsFinal

-----------------------------------------------------------------------------
(* What an unfinished row has yet to go through: two changes for each attempt
   that is left, the delivery and the end of its backoff. *)
Rest(row) == IF row.status \in Unfinished
               THEN 2 * (MaxAttempts - row.attempts) + (IF row.backoff THEN 1 ELSE 0)
               ELSE 0

(* The rest of an unfinished row is never used up before it ends, ... *)
LEMMA RestLeft ==
  ASSUME NEW row, Sound(row), row.status \in Unfinished
  PROVE  Rest(row) \in Nat /\ Rest(row) >= 2 /\ row.attempts \in Nat
BY MaxAttemptsAssumption DEF Rest, Sound, Row, Unfinished

(* ... and each delivery and each end of a backoff takes from it. *)
LEMMA RestSpent ==
  ASSUME IInv, [Next]_vars, NEW e \in Events, outbox[e].status \in Unfinished,
         outbox'[e] # outbox[e]
  PROVE  Rest(outbox'[e]) < Rest(outbox[e])
<1> DEFINE row == outbox[e]
<1>1. Sound(row) /\ outbox \in [Events -> Row]
  BY DEF IInv, TypeOK, AttemptsCounted, BackoffOfFailed, Sound
<1>2. Rest(row) \in Nat /\ Rest(row) >= 2 /\ row.attempts \in Nat /\ MaxAttempts \in Nat
  BY <1>1, RestLeft, MaxAttemptsAssumption
<1>3. ASSUME NEW f \in Events, BackoffElapses(f) PROVE Rest(outbox'[e]) < Rest(row)
  <2>1. f = e /\ row.backoff /\ outbox'[e] = [row EXCEPT !.backoff = FALSE]
    BY <1>1, <1>3 DEF BackoffElapses
  <2>2. /\ outbox'[e].status = row.status /\ outbox'[e].attempts = row.attempts
        /\ outbox'[e].backoff = FALSE
    BY <1>1, <2>1 DEF Sound, Row
  <2> QED
    BY <1>2, <2>1, <2>2 DEF Rest
<1>4. ASSUME NEW w \in Workers, Finish(w) PROVE Rest(outbox'[e]) < Rest(row)
  <2>1. claim[w] = e
    BY <1>1, <1>4 DEF Finish, Processed, Failed
  <2>2. CASE Processed(w)
    BY <1>1, <1>2, <2>1, <2>2 DEF Processed, Rest, Unfinished
  <2>3. CASE Failed(w) /\ Exhausted(row.attempts + 1)
    BY <1>1, <1>2, <2>1, <2>3 DEF Failed, Rest, Unfinished
  <2>4. CASE Failed(w) /\ ~Exhausted(row.attempts + 1)
    <3>1. outbox'[e] = [status |-> "FAILED", attempts |-> row.attempts + 1, backoff |-> TRUE]
      BY <1>1, <2>1, <2>4 DEF Failed
    <3>2. Rest(outbox'[e]) = 2 * (MaxAttempts - (row.attempts + 1)) + 1
      BY <3>1 DEF Rest, Unfinished
    <3>3. Rest(row) >= 2 * (MaxAttempts - row.attempts)
      BY <1>2 DEF Rest
    <3> QED
      BY <1>2, <3>2, <3>3
  <2> QED
    BY <1>4, <2>2, <2>3, <2>4 DEF Finish
<1>5. ASSUME NEW f \in Events, Append(f) PROVE FALSE
  <2>1. f = e
    BY <1>1, <1>5 DEF Append
  <2> QED
    BY <1>5, <2>1 DEF Append, Unfinished
<1>6. ~\E w \in Workers : DispatchNext(w) \/ Crash(w)
  BY DEF DispatchNext, Crash
<1> QED
  BY <1>3, <1>4, <1>5, <1>6 DEF Next, vars

(* A committed row changes 2 * max-attempts times at most, whatever workers,
   crashes and failures do: each change takes from what an unfinished row has
   left.  Of EventsSettle only that a change does come depends on fairness. *)
EveryChangeSpends ==
  [][\A e \in Events : outbox[e].status \in Unfinished /\ outbox'[e] # outbox[e]
       => Rest(outbox'[e]) < Rest(outbox[e])]_vars

(* EveryChangeSpends: the retries of C1OutboxDispatcher run out. *)
THEOREM RetryRunsOut == Spec => EveryChangeSpends
<1>1. IInv /\ [Next]_vars
        => [\A e \in Events : outbox[e].status \in Unfinished /\ outbox'[e] # outbox[e]
              => Rest(outbox'[e]) < Rest(outbox[e])]_vars
  BY RestSpent
<1> QED
  BY <1>1, Inductive, PTL DEF Spec, EveryChangeSpends
=============================================================================
