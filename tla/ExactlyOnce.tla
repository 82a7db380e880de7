---------------------------- MODULE ExactlyOnce ----------------------------
(***************************************************************************)
(* What C1IdempotencyService.execute promises to the callers of a C1       *)
(* mutation, whatever the mutation is: the effects of a key (its rows in   *)
(* user_behavior_event and domain_outbox) and the stored answer appear     *)
(* together, at most once, and every caller that is answered for the key   *)
(* is given that stored answer.  No locks, no transactions, no crashes:    *)
(* WatchIntent, which has all of them, is shown to implement this.         *)
(***************************************************************************)
EXTENDS Naturals

CONSTANTS Keys,        \* (operation, Idempotency-Key) pairs of one actor
          Responses,   \* what a mutation can answer
          NoRecord     \* "there is no row in idempotency_record"

VARIABLES records,     \* idempotency_record: the stored answer of each key
          journal,     \* number of journal entries each key has produced
          answers      \* the answers callers have been given for each key

vars == <<records, journal, answers>>

Init == /\ records = [k \in Keys |-> NoRecord]
        /\ journal = [k \in Keys |-> 0]
        /\ answers = [k \in Keys |-> {}]

(* The mutation runs: its journal entry and its answer appear in one step. *)
Execute(k, r) == /\ records[k] = NoRecord
                 /\ records' = [records EXCEPT ![k] = r]
                 /\ journal' = [journal EXCEPT ![k] = @ + 1]
                 /\ UNCHANGED answers

(* A caller is given the stored answer: the first time, or as a replay. *)
Answer(k) == /\ records[k] # NoRecord
             /\ answers' = [answers EXCEPT ![k] = @ \union {records[k]}]
             /\ UNCHANGED <<records, journal>>

Next == \E k \in Keys : Answer(k) \/ \E r \in Responses : Execute(k, r)

Spec == Init /\ [][Next]_vars
=============================================================================
