------------------------- MODULE WatchIntentProofs -------------------------
(***************************************************************************)
(* Proofs about WatchIntent, for every value of its constants.  The        *)
(* invariant says what each lock protects: requests of one key, requests   *)
(* of the pair, rows.  A row that is locked stays active, so what a        *)
(* transaction has read and still relies on is still so when it writes.    *)
(* One thing is not protected: what a click has read of viewing_record is  *)
(* not part of the invariant, because nothing keeps it true.               *)
(***************************************************************************)
EXTENDS WatchIntent, FiniteSetTheorems, TLAPS

(* Requests carry a body of their operation. *)
RequestInv == \A c \in Clients :
  /\ pc[c] # "idle" => tx[c].key \in Keys
  /\ pc[c] \in {"key", "find"} /\ tx[c].key \in CreateKeys => tx[c].body \in CreateBody
  /\ pc[c] \in {"key", "find"} /\ tx[c].key \in ConfirmKeys => tx[c].body \in ConfirmBody
  /\ pc[c] \in CreateStep => tx[c].body \in CreateBody
  /\ pc[c] \in ConfirmStep => tx[c].body \in ConfirmBody

(* The revision of a row counts the arrows it has taken. *)
RevisionInv == \A i \in Intents :
  /\ intent[i].status = Absent => intent[i].revision = 0
  /\ intent[i].status = "LINK_CLICKED" => intent[i].revision = 1
  /\ intent[i].status = "CONFIRMATION_PENDING" => intent[i].revision = 2
  /\ intent[i].status \in TerminalStatus => intent[i].revision \in {2, 3}

(* Each lock has one holder, and each transaction holds the row locks that the
   statements it has run have taken. *)
LockInv ==
  /\ \A c, d \in Clients :
       pc[c] \in KeyHeld /\ pc[d] \in KeyHeld /\ tx[c].key = tx[d].key => c = d
  /\ \A c, d \in Clients : pc[c] \in DomainHeld /\ pc[d] \in DomainHeld => c = d
  /\ \A c, d \in Clients : \A i \in Intents : i \in tx[c].rows /\ i \in tx[d].rows => c = d
  /\ \A c \in Clients : \A i \in Intents : ~(i \in tx[c].rows /\ i \in sched.expired)

StepInv ==
  /\ \A c \in Clients :
       /\ tx[c].expired \subseteq tx[c].rows
       /\ pc[c] \in {"idle", "key", "find", "domain", "expire", "intent", "reply"}
            => tx[c].rows = {}
       /\ pc[c] \in {"existing", "confirm"}
            => tx[c].rows = {tx[c].body.intent} /\ tx[c].expired = {}
  /\ sched.pc # "due" => sched.expired = {}

(* A locked row is active: nobody else can have ended it. *)
RowsInv == /\ \A c \in Clients : \A i \in tx[c].rows : Active(i)
           /\ \A i \in sched.expired : Active(i)

(* What a transaction has read and still relies on is still so. *)
RecordInv == \A c \in Clients :
  /\ pc[c] \in KeyHeld \ {"find"} => records[tx[c].key] = None
  /\ pc[c] = "reply" => records[tx[c].key] # None

ReadInv == \A c \in Clients :
  /\ pc[c] = "insert" => \A i \in Intents : Active(i) => i \in tx[c].rows
  /\ pc[c] = "confirm" /\ tx[c].body.watched => tx[c].viewed = viewing

(* One active intent of the user and the movie (BR-C1-023): RowsInv and the
   locks are about at most one row. *)
OneActiveIntent == \A i, j \in Intents : Active(i) /\ Active(j) => i = j

IInv == /\ TypeOK /\ RequestInv /\ RevisionInv /\ LockInv /\ StepInv
        /\ RowsInv /\ RecordInv /\ ReadInv /\ OneActiveIntent /\ ViewingBacked

-----------------------------------------------------------------------------
(* The empty store satisfies the inductive invariant. *)
LEMMA InitIInv == Init => IInv
  <1> SUFFICES ASSUME Init PROVE IInv
    OBVIOUS
  <1> USE DEF Init
  <1>1. TypeOK
    BY TimeAssumption DEF TypeOK, Row, Tx, NoTx, Absent
  <1>2. RequestInv /\ LockInv /\ StepInv /\ RecordInv /\ ReadInv
    BY DEF RequestInv, LockInv, StepInv, RecordInv, ReadInv, NoTx, KeyHeld, CreateStep, ConfirmStep, DomainHeld
  <1>3. RevisionInv /\ RowsInv /\ OneActiveIntent /\ ViewingBacked
    BY DEF RevisionInv, RowsInv, OneActiveIntent, ViewingBacked, Active, ActiveStatus,
           TerminalStatus, Absent, NoTx
  <1> QED
    BY <1>1, <1>2, <1>3 DEF IInv

(* A step that leaves watch_intent and viewing_record alone. *)
LEMMA UntouchedRows ==
  ASSUME IInv, UNCHANGED <<intent, viewing>>
  PROVE  RevisionInv' /\ OneActiveIntent' /\ ViewingBacked'
  BY DEF IInv, RevisionInv, OneActiveIntent, ViewingBacked, Active

(* A row that no one else has locked is in nobody else's set of locked rows. *)
LEMMA LockedRows ==
  ASSUME IInv, NEW c \in Clients, NEW i \in Intents, i \notin LockedByOther(c)
  PROVE  (\A d \in Clients \ {c} : i \notin tx[d].rows) /\ i \notin sched.expired
  BY DEF LockedByOther

(* Updates of a transaction's locals keep their type. *)
LEMMA TxExpired ==
  ASSUME NEW t \in Tx, NEW due \in SUBSET Intents
  PROVE  [t EXCEPT !.expired = due, !.rows = due] \in Tx
  BY DEF Tx

(* The same, for what was read of viewing_record. *)
LEMMA TxViewed ==
  ASSUME NEW t \in Tx, NEW v \in Intents \union {None}
  PROVE  [t EXCEPT !.viewed = v] \in Tx
  BY DEF Tx

(* The same, for the rows locked. *)
LEMMA TxRows ==
  ASSUME NEW t \in Tx, NEW rows \in SUBSET Intents
  PROVE  [t EXCEPT !.rows = rows] \in Tx
  BY DEF Tx

(* A client without a transaction. *)
LEMMA NoTxType == NoTx \in Tx
  BY DEF NoTx, Tx

-----------------------------------------------------------------------------
(* The statements that write nothing others can see. *)

(* An aborted transaction leaves a state its locks and reads allow. *)
LEMMA RollbackIInv == ASSUME IInv, NEW c \in Clients, Rollback(c) PROVE IInv'
  <1> USE DEF IInv, Rollback, Goto, database, NoTx
  <1>1. TypeOK'
    BY NoTxType DEF TypeOK, KeyHeld, CreateStep, ConfirmStep, DomainHeld
  <1>2. RequestInv'
    BY DEF TypeOK, RequestInv, KeyHeld, CreateStep, ConfirmStep, DomainHeld
  <1>3. LockInv'
    BY DEF TypeOK, Tx, LockInv, KeyHeld, CreateStep, ConfirmStep, DomainHeld
  <1>4. StepInv'
    BY DEF TypeOK, Tx, StepInv, KeyHeld, CreateStep, ConfirmStep, DomainHeld
  <1>5. RowsInv'
    BY DEF TypeOK, Tx, RowsInv, Active
  <1>6. RecordInv' /\ ReadInv'
    BY DEF TypeOK, Tx, RecordInv, ReadInv, Active, KeyHeld, CreateStep, ConfirmStep, DomainHeld
  <1> QED
    BY <1>1, <1>2, <1>3, <1>4, <1>5, <1>6, UntouchedRows

(* A request that has only been received holds no lock. *)
LEMMA SendIInv ==
  ASSUME IInv, NEW c \in Clients, NEW k \in Keys, NEW body \in Body, Send(c, k, body),
         k \in CreateKeys => body \in CreateBody,
         k \in ConfirmKeys => body \in ConfirmBody
  PROVE  IInv'
  <1> USE DEF IInv, Send, Goto, database
  <1> DEFINE t == [NoTx EXCEPT !.key = k, !.body = body]
  <1>0. /\ t.key = k /\ t.body = body /\ t.rows = {} /\ t.expired = {} /\ t \in Tx
        /\ tx' = [tx EXCEPT ![c] = t]
    BY DEF NoTx, Tx
  <1> HIDE DEF t
  <1>1. TypeOK'
    BY <1>0 DEF TypeOK, KeyHeld, CreateStep, ConfirmStep, DomainHeld
  <1>2. RequestInv'
    BY <1>0 DEF TypeOK, RequestInv, KeyHeld, CreateStep, ConfirmStep, DomainHeld
  <1>3. LockInv'
    <2>1. pc'[c] \notin KeyHeld \union DomainHeld /\ tx'[c].rows = {}
      BY <1>0 DEF TypeOK, KeyHeld, DomainHeld, CreateStep, ConfirmStep
    <2>2. \A d \in Clients \ {c} : pc'[d] = pc[d] /\ tx'[d] = tx[d]
      BY <1>0 DEF TypeOK
    <2> QED
      BY <2>1, <2>2 DEF LockInv
  <1>4. StepInv'
    BY <1>0 DEF TypeOK, StepInv, KeyHeld, CreateStep, ConfirmStep, DomainHeld
  <1>5. RowsInv'
    BY <1>0 DEF TypeOK, RowsInv, Active
  <1>6. RecordInv' /\ ReadInv'
    BY <1>0 DEF TypeOK, RecordInv, ReadInv, Active, KeyHeld, CreateStep, ConfirmStep, DomainHeld
  <1> QED
    BY <1>1, <1>2, <1>3, <1>4, <1>5, <1>6, UntouchedRows

(* The advisory lock of the key has one holder. *)
LEMMA LockKeyIInv == ASSUME IInv, NEW c \in Clients, LockKey(c) PROVE IInv'
  <1> USE DEF IInv, LockKey, Statement, Goto, database
  <1>1. TypeOK'
    BY DEF TypeOK, Tx, KeyHeld, CreateStep, ConfirmStep, DomainHeld
  <1>2. RequestInv'
    BY DEF TypeOK, RequestInv, KeyHeld, CreateStep, ConfirmStep, DomainHeld
  <1>3. LockInv'
    BY DEF TypeOK, Tx, LockInv, StepInv, KeyHeld, CreateStep, ConfirmStep, DomainHeld, KeyHolders
  <1>4. StepInv'
    BY DEF TypeOK, Tx, StepInv, KeyHeld, CreateStep, ConfirmStep, DomainHeld
  <1>5. RowsInv'
    BY DEF TypeOK, Tx, RowsInv, Active
  <1>6. RecordInv' /\ ReadInv'
    BY DEF TypeOK, Tx, RecordInv, ReadInv, LockInv, Active, KeyHeld, CreateStep, ConfirmStep, DomainHeld
  <1> QED
    BY <1>1, <1>2, <1>3, <1>4, <1>5, <1>6, UntouchedRows

(* A mutation starts only while its key has no record; the key lock keeps it so. *)
LEMMA FindNothingIInv == ASSUME IInv, NEW c \in Clients, FindNothing(c) PROVE IInv'
  <1> USE DEF IInv, FindNothing, Statement, Goto, database
  <1>1. TypeOK'
    BY DEF TypeOK, Tx, KeyHeld, CreateStep, ConfirmStep, DomainHeld, FirstStep
  <1>2. RequestInv'
    BY KeysAssumption DEF TypeOK, RequestInv, KeyHeld, CreateStep, ConfirmStep, DomainHeld, FirstStep, Keys
  <1>3. LockInv'
    BY DEF TypeOK, Tx, LockInv, StepInv, KeyHeld, CreateStep, ConfirmStep, DomainHeld, FirstStep
  <1>4. StepInv'
    BY DEF TypeOK, Tx, StepInv, KeyHeld, CreateStep, ConfirmStep, DomainHeld, FirstStep
  <1>5. RowsInv'
    BY DEF TypeOK, Tx, RowsInv, Active
  <1>6. RecordInv' /\ ReadInv'
    BY DEF TypeOK, Tx, RecordInv, ReadInv, LockInv, Active, KeyHeld, CreateStep, ConfirmStep, DomainHeld, FirstStep
  <1> QED
    BY <1>1, <1>2, <1>3, <1>4, <1>5, <1>6, UntouchedRows

(* A replay answers from a record that exists. *)
LEMMA FindReplayIInv == ASSUME IInv, NEW c \in Clients, FindReplay(c) PROVE IInv'
  <1> USE DEF IInv, FindReplay, Statement, Goto, database
  <1>1. TypeOK'
    BY DEF TypeOK, Tx, KeyHeld, CreateStep, ConfirmStep, DomainHeld
  <1>2. RequestInv'
    BY DEF TypeOK, RequestInv, KeyHeld, CreateStep, ConfirmStep, DomainHeld
  <1>3. LockInv'
    BY DEF TypeOK, Tx, LockInv, StepInv, KeyHeld, CreateStep, ConfirmStep, DomainHeld
  <1>4. StepInv'
    BY DEF TypeOK, Tx, StepInv, KeyHeld, CreateStep, ConfirmStep, DomainHeld
  <1>5. RowsInv'
    BY DEF TypeOK, Tx, RowsInv, Active
  <1>6. RecordInv' /\ ReadInv'
    BY DEF TypeOK, Tx, RecordInv, ReadInv, LockInv, Active, KeyHeld, CreateStep, ConfirmStep, DomainHeld
  <1> QED
    BY <1>1, <1>2, <1>3, <1>4, <1>5, <1>6, UntouchedRows

(* The advisory lock of the pair has one holder. *)
LEMMA LockDomainIInv == ASSUME IInv, NEW c \in Clients, LockDomain(c) PROVE IInv'
  <1> USE DEF IInv, LockDomain, Statement, Goto, database
  <1>1. TypeOK'
    BY DEF TypeOK, Tx, KeyHeld, CreateStep, ConfirmStep, DomainHeld
  <1>2. RequestInv'
    BY DEF TypeOK, RequestInv, KeyHeld, CreateStep, ConfirmStep, DomainHeld
  <1>3. LockInv'
    BY DEF TypeOK, Tx, LockInv, StepInv, KeyHeld, CreateStep, ConfirmStep, DomainHeld, DomainHolders
  <1>4. StepInv'
    BY DEF TypeOK, Tx, StepInv, KeyHeld, CreateStep, ConfirmStep, DomainHeld
  <1>5. RowsInv'
    BY DEF TypeOK, Tx, RowsInv, Active
  <1>6. RecordInv' /\ ReadInv'
    BY DEF TypeOK, Tx, RecordInv, ReadInv, LockInv, Active, KeyHeld, CreateStep, ConfirmStep, DomainHeld
  <1> QED
    BY <1>1, <1>2, <1>3, <1>4, <1>5, <1>6, UntouchedRows

(* The rows a click expires become locked, and were locked by nobody else. *)
LEMMA ExpireActiveIntentIInv == ASSUME IInv, NEW c \in Clients, ExpireActiveIntent(c) PROVE IInv'
  <1> USE DEF IInv, Statement, Goto, database
  <1> DEFINE due == {i \in Intents : Active(i) /\ ExpiredAt(i, clock)}
  <1>0. /\ tx' = [tx EXCEPT ![c].expired = due, ![c].rows = due]
        /\ due \in SUBSET Intents
        /\ pc[c] = "expire" /\ Statement(c, "offer")
        /\ due \intersect LockedByOther(c) = {}
        /\ \A i \in due : Active(i)
    BY DEF ExpireActiveIntent, StepInv, TypeOK, Tx, KeyHeld, CreateStep
  <1> HIDE DEF due
  <1>1. TypeOK'
    BY <1>0, TxExpired DEF TypeOK, KeyHeld, CreateStep, ConfirmStep, DomainHeld
  <1>2. RequestInv'
    BY <1>0 DEF TypeOK, RequestInv, KeyHeld, CreateStep, ConfirmStep, DomainHeld
  <1>3. LockInv'
    BY <1>0 DEF TypeOK, Tx, LockInv, StepInv, KeyHeld, CreateStep, ConfirmStep, DomainHeld, LockedByOther
  <1>4. StepInv'
    BY <1>0 DEF TypeOK, Tx, StepInv, KeyHeld, CreateStep, ConfirmStep, DomainHeld
  <1>5. RowsInv'
    BY <1>0 DEF TypeOK, Tx, RowsInv, Active, RowsInv
  <1>6. RecordInv' /\ ReadInv'
    BY <1>0 DEF TypeOK, Tx, RecordInv, ReadInv, LockInv, Active, KeyHeld, CreateStep, ConfirmStep, DomainHeld
  <1> QED
    BY <1>0, <1>1, <1>2, <1>3, <1>4, <1>5, <1>6, UntouchedRows

(* Reading viewing_record takes no lock and disturbs nothing. *)
LEMMA FindViewingIInv == ASSUME IInv, NEW c \in Clients, FindViewing(c) PROVE IInv'
  <1> USE DEF IInv, FindViewing, Statement, Goto, database
  <1>0. [tx[c] EXCEPT !.viewed = viewing] \in Tx
    BY TxViewed DEF TypeOK
  <1>1. TypeOK'
    BY <1>0 DEF TypeOK, KeyHeld, CreateStep, ConfirmStep, DomainHeld
  <1>2. RequestInv'
    BY DEF TypeOK, RequestInv, KeyHeld, CreateStep, ConfirmStep, DomainHeld
  <1>3. LockInv'
    BY DEF TypeOK, Tx, LockInv, StepInv, KeyHeld, CreateStep, ConfirmStep, DomainHeld, LockedByOther
  <1>4. StepInv'
    BY DEF TypeOK, Tx, StepInv, KeyHeld, CreateStep, ConfirmStep, DomainHeld
  <1>5. RowsInv'
    BY DEF TypeOK, Tx, RowsInv, Active, RowsInv
  <1>6. RecordInv' /\ ReadInv'
    BY DEF TypeOK, Tx, RecordInv, ReadInv, LockInv, Active, KeyHeld, CreateStep, ConfirmStep, DomainHeld
  <1> QED
    BY <1>1, <1>2, <1>3, <1>4, <1>5, <1>6, UntouchedRows

(* After SELECT ... FOR UPDATE every active row is locked by the click. *)
LEMMA FindActiveIntentIInv == ASSUME IInv, NEW c \in Clients, FindActiveIntent(c) PROVE IInv'
  <1> USE DEF IInv, FindActiveIntent, Statement, Goto, database
  <1>1. TypeOK'
    BY DEF TypeOK, Tx, KeyHeld, CreateStep, ConfirmStep, DomainHeld
  <1>2. RequestInv'
    BY DEF TypeOK, RequestInv, KeyHeld, CreateStep, ConfirmStep, DomainHeld
  <1>0. \A i \in Intents : i \in tx'[c].rows =>
          \/ i \in tx[c].rows
          \/ Active(i) /\ i \notin LockedByOther(c)
    BY DEF TypeOK, Tx
  <1>3. LockInv'
    BY <1>0 DEF TypeOK, Tx, LockInv, StepInv, KeyHeld, CreateStep, ConfirmStep, DomainHeld, LockedByOther
  <1>4. StepInv'
    BY DEF TypeOK, Tx, StepInv, KeyHeld, CreateStep, ConfirmStep, DomainHeld
  <1>5. RowsInv'
    BY DEF TypeOK, Tx, RowsInv, Active, RowsInv
  <1>6. RecordInv' /\ ReadInv'
    BY DEF TypeOK, Tx, RecordInv, ReadInv, StepInv, Active, KeyHeld, CreateStep, ConfirmStep, DomainHeld
  <1> QED
    BY <1>1, <1>2, <1>3, <1>4, <1>5, <1>6, UntouchedRows

(* What a confirmation reads of viewing_record cannot change: it holds the only active row. *)
LEMMA FindExistingIInv == ASSUME IInv, NEW c \in Clients, FindExisting(c) PROVE IInv'
  <1> USE DEF IInv, FindExisting, Statement, Goto, database
  <1>0. [tx[c] EXCEPT !.viewed = (IF tx[c].body.watched THEN viewing ELSE None)] \in Tx
    BY TxViewed DEF TypeOK
  <1>1. TypeOK'
    BY <1>0 DEF TypeOK, KeyHeld, CreateStep, ConfirmStep, DomainHeld
  <1>2. RequestInv'
    BY DEF TypeOK, RequestInv, KeyHeld, CreateStep, ConfirmStep, DomainHeld
  <1>3. LockInv'
    BY DEF TypeOK, Tx, LockInv, StepInv, KeyHeld, CreateStep, ConfirmStep, DomainHeld, LockedByOther
  <1>4. StepInv'
    BY DEF TypeOK, Tx, StepInv, KeyHeld, CreateStep, ConfirmStep, DomainHeld
  <1>5. RowsInv'
    BY DEF TypeOK, Tx, RowsInv, Active, RowsInv
  <1>6. RecordInv' /\ ReadInv'
    BY DEF TypeOK, Tx, RecordInv, ReadInv, LockInv, Active, KeyHeld, CreateStep, ConfirmStep, DomainHeld
  <1> QED
    BY <1>1, <1>2, <1>3, <1>4, <1>5, <1>6, UntouchedRows

-----------------------------------------------------------------------------
(* The statements that commit. *)

(* What every commit does, whatever it writes to watch_intent: one record, one journal
   entry, all locks released. *)
LEMMA CommitRecord ==
  ASSUME IInv, NEW c \in Clients, NEW i \in Intents, NEW outcome \in Outcome,
         tx[c].body \in Body, pc[c] \in {"insert", "confirm"}, Commit(c, outcome, i)
  PROVE  /\ clock' \in Nat /\ records' \in [Keys -> Response \union {None}]
         /\ journal' \in [Keys -> Nat] /\ answers' \in [Keys -> SUBSET Response]
         /\ pc' \in [Clients -> {"idle", "key", "reply"} \union KeyHeld]
         /\ tx' \in [Clients -> Tx]
         /\ sched' = sched /\ sched' \in [pc : {"idle", "expire", "due"}, now : Nat, expired : SUBSET Intents]
         /\ pc'[c] = "reply" /\ tx'[c].rows = {}
         /\ \A d \in Clients \ {c} : pc'[d] = pc[d] /\ tx'[d] = tx[d]
         /\ RequestInv' /\ LockInv' /\ StepInv' /\ RecordInv'
  <1> USE DEF IInv, Commit, Goto
  <1> DEFINE t == [NoTx EXCEPT !.key = tx[c].key]
             r == [body |-> tx[c].body, outcome |-> outcome, intent |-> i]
  <1>1. tx[c].key \in Keys /\ tx[c] \in Tx
    BY DEF RequestInv, TypeOK
  <1>2. t \in Tx /\ t.rows = {} /\ t.expired = {} /\ t.key = tx[c].key
    BY <1>1 DEF NoTx, Tx
  <1>3. r \in Response
    BY DEF Response
  <1>4. /\ tx' = [tx EXCEPT ![c] = t] /\ pc' = [pc EXCEPT ![c] = "reply"]
        /\ records' = [records EXCEPT ![tx[c].key] = r]
    OBVIOUS
  <1> HIDE DEF t, r
  <1>5. /\ pc'[c] = "reply" /\ tx'[c] = t
        /\ \A d \in Clients \ {c} : pc'[d] = pc[d] /\ tx'[d] = tx[d]
    BY <1>4 DEF TypeOK
  <1>6. RequestInv'
    BY <1>1, <1>2, <1>5 DEF RequestInv, CreateStep, ConfirmStep
  <1>7. LockInv'
    <2>1. pc'[c] \notin KeyHeld \union DomainHeld /\ tx'[c].rows = {}
      BY <1>2, <1>5 DEF KeyHeld, DomainHeld, CreateStep, ConfirmStep
    <2> QED
      BY <2>1, <1>5 DEF LockInv
  <1>8. StepInv'
    BY <1>2, <1>5 DEF StepInv
  <1>9. RecordInv'
    <2>1. records'[tx[c].key] # None
      BY <1>1, <1>4, NoneAssumption, <1>3 DEF TypeOK
    <2>2. \A d \in Clients \ {c} : pc[d] \in KeyHeld => tx[d].key # tx[c].key
      BY DEF LockInv, KeyHeld, CreateStep, ConfirmStep
    <2>3. \A d \in Clients \ {c} : records[tx[d].key] # None => records'[tx[d].key] # None
      BY <2>1, <1>4 DEF TypeOK
    <2> QED
      BY <1>2, <1>4, <1>5, <2>1, <2>2, <2>3 DEF RecordInv, KeyHeld, CreateStep, ConfirmStep
  <1>10. /\ records' \in [Keys -> Response \union {None}]
         /\ journal' \in [Keys -> Nat]
         /\ pc' \in [Clients -> {"idle", "key", "reply"} \union KeyHeld]
         /\ tx' \in [Clients -> Tx]
    BY <1>1, <1>2, <1>3, <1>4 DEF TypeOK
  <1> QED
    BY <1>10, <1>1, <1>2, <1>3, <1>4, <1>5, <1>6, <1>7, <1>8, <1>9 DEF TypeOK

(* A row that ends counts one more revision. *)
LEMMA EndedRow ==
  ASSUME NEW r \in Row, r.revision \in {1, 2}, NEW status \in TerminalStatus
  PROVE  /\ Ended(r, status) \in Row /\ Ended(r, status).status = status
         /\ Ended(r, status).revision = r.revision + 1
         /\ Ended(r, status).clickedAt = r.clickedAt
  <1> DEFINE n == r.revision + 1
  <1>1. n \in 0..3
    BY DEF Row
  <1>2. Ended(r, status) = [r EXCEPT !.status = status, !.revision = n]
    BY DEF Ended
  <1> HIDE DEF n
  <1>3. Ended(r, status) \in Row
    BY <1>1, <1>2 DEF Row
  <1>4. /\ Ended(r, status).status = status /\ Ended(r, status).revision = n
        /\ Ended(r, status).clickedAt = r.clickedAt
    BY <1>2 DEF Row
  <1> QED
    BY <1>3, <1>4 DEF n

(* A row whose confirmation is due counts one more revision. *)
LEMMA AskedRow ==
  ASSUME NEW r \in Row, r.revision = 1
  PROVE  LET asked == [r EXCEPT !.status = "CONFIRMATION_PENDING", !.revision = @ + 1]
         IN  /\ asked \in Row /\ asked.status = "CONFIRMATION_PENDING"
             /\ asked.revision = 2 /\ asked.clickedAt = r.clickedAt
  <1> DEFINE n == r.revision + 1
             asked == [r EXCEPT !.status = "CONFIRMATION_PENDING", !.revision = n]
  <1>1. n = 2 /\ n \in 0..3
    OBVIOUS
  <1> HIDE DEF n
  <1>2. /\ asked \in Row /\ asked.status = "CONFIRMATION_PENDING"
        /\ asked.revision = n /\ asked.clickedAt = r.clickedAt
    BY <1>1 DEF Row, ActiveStatus
  <1> QED
    BY <1>1, <1>2 DEF n

(* An active row has taken one or two arrows. *)
LEMMA ActiveRevision ==
  ASSUME IInv, NEW i \in Intents, Active(i)
  PROVE  intent[i].revision \in {1, 2} /\ intent[i] \in Row
  BY DEF IInv, TypeOK, RevisionInv, Active, ActiveStatus

(* The table Ending(rows, status), row by row, when the rows are active. *)
LEMMA EndingRows ==
  ASSUME IInv, NEW rows \in SUBSET Intents, NEW status \in TerminalStatus,
         \A i \in rows : Active(i), NEW i \in Intents
  PROVE  LET e == Ending(rows, status)[i] IN
         /\ e \in Row
         /\ i \in rows => /\ e.status = status /\ e.revision = intent[i].revision + 1
                          /\ e.clickedAt = intent[i].clickedAt
         /\ i \notin rows => e = intent[i]
  <1>1. CASE i \in rows
    <2>1. Ending(rows, status)[i] = Ended(intent[i], status)
      BY <1>1 DEF Ending
    <2>2. intent[i].revision \in {1, 2} /\ intent[i] \in Row
      BY <1>1, ActiveRevision
    <2> QED
      BY <1>1, <2>1, <2>2, EndedRow
  <1>2. CASE i \notin rows
    BY <1>2 DEF Ending, IInv, TypeOK
  <1> QED
    BY <1>1, <1>2

(* The step ends the given rows and touches no other. *)
EndsOnly(rows, status) == \A i \in Intents : IF i \in rows THEN intent'[i].status = status
                                              ELSE intent'[i] = intent[i]

(* A commit that ends some of the rows its transaction has locked. *)
LEMMA EndRows ==
  ASSUME IInv, NEW c \in Clients, NEW outcome \in Outcome, NEW o \in Intents,
         tx[c].body \in Body, pc[c] \in {"insert", "confirm"}, Commit(c, outcome, o),
         NEW rows \in SUBSET tx[c].rows, NEW status \in TerminalStatus,
         intent' = Ending(rows, status)
  PROVE  /\ intent' \in [Intents -> Row] /\ RevisionInv' /\ RowsInv' /\ OneActiveIntent'
         /\ \A i \in Intents : Active(i)' => Active(i)
         /\ EndsOnly(rows, status)
         /\ \A i \in Intents : intent[i].status \in TerminalStatus => intent'[i] = intent[i]
         /\ \A d \in Clients \ {c} :
              pc[d] = "insert" => \A i \in Intents : Active(i)' => i \in tx[d].rows
  <1> USE DEF IInv
  <1>1. /\ pc'[c] = "reply" /\ tx'[c].rows = {} /\ sched' = sched
        /\ \A d \in Clients \ {c} : pc'[d] = pc[d] /\ tx'[d] = tx[d]
    BY CommitRecord
  <1>2. \A i \in rows : i \in Intents /\ Active(i)
    BY DEF RowsInv, TypeOK, Tx
  <1>3. \A i \in Intents :
          /\ i \in rows => /\ intent'[i].status = status
                           /\ intent'[i].revision = intent[i].revision + 1
                           /\ intent'[i].clickedAt = intent[i].clickedAt
          /\ i \notin rows => intent'[i] = intent[i]
    BY <1>2, EndingRows DEF TypeOK
  <1>4. \A i \in Intents : intent'[i] \in Row
    BY <1>2, EndingRows DEF TypeOK
  <1>5. \A i \in Intents : Active(i)' => Active(i) /\ i \notin rows
    BY <1>3 DEF Active, ActiveStatus, TerminalStatus
  <1>6. RevisionInv'
    <2>1. ASSUME NEW i \in rows
          PROVE  intent'[i].status \in TerminalStatus /\ intent'[i].revision \in {2, 3}
      <3>1. i \in Intents /\ intent[i].revision \in {1, 2}
        BY <1>2, ActiveRevision
      <3>2. intent'[i].revision = intent[i].revision + 1 /\ intent'[i].status = status
        BY <1>3, <3>1
      <3>3. intent[i].revision + 1 \in {2, 3}
        BY <3>1
      <3> QED
        BY <3>2, <3>3
    <2> QED
      BY <2>1, <1>3 DEF RevisionInv, TerminalStatus, Absent
  <1>7. RowsInv'
    <2>1. ASSUME NEW d \in Clients, NEW i \in tx'[d].rows PROVE Active(i)'
      <3>1. d # c /\ tx'[d] = tx[d]
        BY <1>1
      <3>2. i \notin rows /\ Active(i) /\ i \in Intents
        BY <3>1 DEF LockInv, RowsInv, TypeOK, Tx
      <3> QED
        BY <3>2, <1>3 DEF Active
    <2>2. ASSUME NEW i \in sched'.expired PROVE Active(i)'
      <3>1. i \notin rows /\ Active(i) /\ i \in Intents
        BY <1>1 DEF LockInv, RowsInv, TypeOK, Tx
      <3> QED
        BY <3>1, <1>3 DEF Active
    <2> QED
      BY <2>1, <2>2 DEF RowsInv
  <1>8. OneActiveIntent'
    BY <1>5 DEF OneActiveIntent
  <1>9. \A i \in Intents : intent[i].status \in TerminalStatus => intent'[i] = intent[i]
    BY <1>2, <1>3 DEF Active, ActiveStatus, TerminalStatus
  <1>10. \A d \in Clients \ {c} :
           pc[d] = "insert" => \A i \in Intents : Active(i)' => i \in tx[d].rows
    BY <1>5 DEF ReadInv
  <1>11. intent' \in [Intents -> Row]
    BY <1>4 DEF Ending
  <1>12. EndsOnly(rows, status)
    BY <1>3 DEF EndsOnly
  <1>13. \A i \in Intents : Active(i)' => Active(i)
    BY <1>5
  <1> QED
    BY <1>12, <1>13, <1>6, <1>7, <1>8, <1>9, <1>10, <1>11

(* A click expires only rows it has locked. *)
LEMMA ExpiredRows ==
  ASSUME IInv, NEW c \in Clients
  PROVE  tx[c].expired \subseteq tx[c].rows /\ "EXPIRED" \in TerminalStatus
  BY DEF IInv, StepInv, TerminalStatus

(* A click that opens no intent: it commits its expiries and its answer. *)
LEMMA CommitExpires ==
  ASSUME IInv, NEW c \in Clients, NEW outcome \in Outcome, NEW o \in Intents,
         tx[c].body \in Body, pc[c] = "insert", Commit(c, outcome, o),
         intent' = Ending(tx[c].expired, "EXPIRED"), viewing' = viewing
  PROVE  IInv'
  <1> USE DEF IInv
  <1>1. /\ intent' \in [Intents -> Row] /\ RevisionInv' /\ RowsInv' /\ OneActiveIntent'
        /\ \A i \in Intents : Active(i)' => Active(i)
        /\ \A i \in Intents : intent[i].status \in TerminalStatus => intent'[i] = intent[i]
        /\ EndsOnly(tx[c].expired, "EXPIRED")
        /\ \A d \in Clients \ {c} :
             pc[d] = "insert" => \A i \in Intents : Active(i)' => i \in tx[d].rows
    <2>1. tx[c].expired \in SUBSET tx[c].rows /\ "EXPIRED" \in TerminalStatus
      BY ExpiredRows
    <2>2. pc[c] \in {"insert", "confirm"}
      OBVIOUS
    <2> QED
      BY <2>1, <2>2, EndRows
  <1>2. TypeOK' /\ RequestInv' /\ LockInv' /\ StepInv' /\ RecordInv'
    BY <1>1, CommitRecord DEF TypeOK
  <1>3. ReadInv'
    BY <1>1, CommitRecord DEF ReadInv
  <1>4. ViewingBacked'
    BY <1>1 DEF ViewingBacked, TerminalStatus, TypeOK, EndsOnly
  <1> QED
    BY <1>1, <1>2, <1>3, <1>4

(* The two answers that open no intent. *)
LEMMA AlreadyWatchedIInv == ASSUME IInv, NEW c \in Clients, AlreadyWatched(c) PROVE IInv'
  <1> USE DEF IInv
  <1>1. /\ tx[c].body \in Body /\ pc[c] = "insert" /\ tx[c].viewed \in Intents
        /\ "ALREADY_WATCHED" \in Outcome /\ viewing' = viewing
        /\ Commit(c, "ALREADY_WATCHED", tx[c].viewed)
    BY DEF AlreadyWatched, RequestInv, CreateStep, Body, TypeOK, Tx, Outcome
  <1>2. intent' = Ending(tx[c].expired, "EXPIRED")
    BY DEF AlreadyWatched
  <1> QED
    BY <1>1, <1>2, CommitExpires

(* The same, for an active intent that is reused. *)
LEMMA ActiveReusedIInv == ASSUME IInv, NEW c \in Clients, ActiveReused(c) PROVE IInv'
  <1> USE DEF IInv
  <1>1. PICK i \in Reused(c) : Commit(c, "ACTIVE_REUSED", i)
    BY DEF ActiveReused
  <1>2. /\ tx[c].body \in Body /\ pc[c] = "insert" /\ i \in Intents
        /\ "ACTIVE_REUSED" \in Outcome /\ viewing' = viewing
    BY DEF ActiveReused, Reused, RequestInv, CreateStep, Body, TypeOK, Tx, Outcome
  <1>3. intent' = Ending(tx[c].expired, "EXPIRED")
    BY DEF ActiveReused
  <1> QED
    BY <1>1, <1>2, <1>3, CommitExpires

(* A new row beside the rows that the click has expired: no row stays active. *)
LEMMA InsertIntentIInv == ASSUME IInv, NEW c \in Clients, InsertIntent(c) PROVE IInv'
  <1> USE DEF IInv
  <1> DEFINE new == [status |-> "LINK_CLICKED", clickedAt |-> clock, revision |-> 1]
             ended == Ending(tx[c].expired, "EXPIRED")
  <1>1. PICK n \in Intents : /\ intent[n].status = Absent
                             /\ intent' = [ended EXCEPT ![n] = new]
                             /\ Commit(c, "CREATED", n)
    BY DEF InsertIntent
  <1>2. /\ tx[c].body \in Body /\ pc[c] = "insert" /\ "CREATED" \in Outcome
        /\ viewing' = viewing /\ tx[c].viewed = None /\ Reused(c) = {}
    BY DEF InsertIntent, RequestInv, CreateStep, Body, TypeOK, Tx, Outcome
  <1>3. /\ pc'[c] = "reply" /\ tx'[c].rows = {} /\ sched' = sched
        /\ \A d \in Clients \ {c} : pc'[d] = pc[d] /\ tx'[d] = tx[d]
    BY <1>1, <1>2, CommitRecord
  <1>4. /\ tx[c].expired \in SUBSET Intents /\ \A i \in tx[c].expired : Active(i)
        /\ tx[c].expired = tx[c].rows
    BY <1>2 DEF StepInv, RowsInv, TypeOK, Tx, Reused
  <1>5. new \in Row /\ new.status = "LINK_CLICKED" /\ new.revision = 1
    BY DEF Row, TypeOK, ActiveStatus
  <1>6. \A i \in Intents :
          /\ ended[i] \in Row
          /\ i \in tx[c].expired => /\ ended[i].status = "EXPIRED"
                                    /\ ended[i].revision = intent[i].revision + 1
          /\ i \notin tx[c].expired => ended[i] = intent[i]
    BY <1>4, ExpiredRows, EndingRows
  <1>7. ended \in [Intents -> Row]
    BY <1>6 DEF Ending
  <1>8. /\ intent' \in [Intents -> Row] /\ intent'[n] = new
        /\ \A i \in Intents \ {n} : intent'[i] = ended[i]
    BY <1>1, <1>5, <1>7
  <1> HIDE DEF new, ended
  <1>9. \A i \in Intents : Active(i)' <=> i = n
    <2>1. \A i \in Intents : Active(i) => i \in tx[c].expired
      BY <1>2, <1>4 DEF ReadInv
    <2> QED
      BY <2>1, <1>5, <1>6, <1>8 DEF Active, ActiveStatus
  <1>10. \A i \in Intents \ {n} : intent'[i] = intent[i] \/ i \in tx[c].expired
    BY <1>6, <1>8
  <1>11. RevisionInv'
    <2>1. ASSUME NEW i \in tx[c].expired, i # n
          PROVE  intent'[i].status = "EXPIRED" /\ intent'[i].revision \in {2, 3}
      <3>1. intent[i].revision \in {1, 2} /\ i \in Intents
        BY <1>4, ActiveRevision
      <3>2. intent[i].revision + 1 \in {2, 3}
        BY <3>1
      <3> QED
        BY <2>1, <3>1, <3>2, <1>6, <1>8
    <2> QED
      BY <2>1, <1>5, <1>8, <1>10 DEF RevisionInv, TerminalStatus, Absent
  <1>12. RowsInv'
    <2>1. ASSUME NEW d \in Clients, NEW i \in tx'[d].rows PROVE Active(i)'
      <3>1. d # c /\ i \in tx[d].rows /\ i \in Intents
        BY <1>3 DEF TypeOK, Tx
      <3>2. Active(i) /\ i \notin tx[c].expired
        BY <3>1, <1>4 DEF RowsInv, LockInv
      <3> QED
        BY <3>1, <3>2, <1>2, <1>4 DEF ReadInv
    <2>2. ASSUME NEW i \in sched'.expired PROVE Active(i)'
      <3>1. i \in sched.expired /\ i \in Intents
        BY <1>3 DEF TypeOK
      <3>2. Active(i) /\ i \notin tx[c].expired
        BY <3>1, <1>4 DEF RowsInv, LockInv
      <3> QED
        BY <3>1, <3>2, <1>2, <1>4 DEF ReadInv
    <2> QED
      BY <2>1, <2>2 DEF RowsInv
  <1>13. ReadInv'
    <2>1. \A d \in Clients : pc'[d] # "insert"
      BY <1>2, <1>3 DEF LockInv, DomainHeld, CreateStep
    <2> QED
      BY <2>1, <1>2, <1>3 DEF ReadInv
  <1>14. OneActiveIntent'
    BY <1>9 DEF OneActiveIntent
  <1>15. ViewingBacked'
    <2>1. \A i \in Intents : intent'[i].status = "CONFIRMED_WATCHED"
                               <=> intent[i].status = "CONFIRMED_WATCHED"
      BY <1>1, <1>4, <1>5, <1>6, <1>8 DEF Active, ActiveStatus, Absent
    <2> QED
      BY <2>1, <1>2 DEF ViewingBacked, TypeOK
  <1>16. TypeOK' /\ RequestInv' /\ LockInv' /\ StepInv' /\ RecordInv'
    BY <1>1, <1>2, <1>8, CommitRecord DEF TypeOK
  <1> QED
    BY <1>11, <1>12, <1>13, <1>14, <1>15, <1>16

(* A confirmation that is about to write holds the only active row. *)
LEMMA ConfirmRows ==
  ASSUME IInv, NEW c \in Clients, pc[c] = "confirm"
  PROVE  LET i == tx[c].body.intent IN
         /\ i \in Intents /\ {i} \in SUBSET tx[c].rows /\ tx[c].body \in Body
         /\ Active(i)
         /\ \A d \in Clients : pc[d] = "confirm" => d = c
  <1> USE DEF IInv
  <1>1. /\ tx[c].body \in ConfirmBody /\ tx[c].rows = {tx[c].body.intent}
    BY DEF RequestInv, StepInv, ConfirmStep
  <1>2. tx[c].body.intent \in Intents /\ Active(tx[c].body.intent)
    BY <1>1 DEF RowsInv, TypeOK, Tx
  <1>3. ASSUME NEW d \in Clients, pc[d] = "confirm" PROVE d = c
    <2>1. /\ tx[d].rows = {tx[d].body.intent} /\ tx[d].body.intent \in Intents
          /\ Active(tx[d].body.intent)
      BY <1>3 DEF StepInv, RowsInv, TypeOK, Tx
    <2>2. tx[d].body.intent = tx[c].body.intent
      BY <1>2, <2>1 DEF OneActiveIntent
    <2> QED
      BY <1>1, <1>2, <2>1, <2>2 DEF LockInv
  <1> QED
    BY <1>1, <1>2, <1>3 DEF Body

(* The part the two confirmations share. *)
LEMMA ConfirmCommits ==
  ASSUME IInv, NEW c \in Clients, pc[c] = "confirm",
         NEW n \in Intents, n = tx[c].body.intent,
         NEW status \in TerminalStatus, intent' = Ending({n}, status),
         NEW outcome \in Outcome, Commit(c, outcome, n),
         viewing' \in Intents \union {None}
  PROVE  /\ TypeOK' /\ RequestInv' /\ RevisionInv' /\ LockInv' /\ StepInv'
         /\ RowsInv' /\ RecordInv' /\ ReadInv' /\ OneActiveIntent'
         /\ Active(n)
         /\ \A i \in Intents : IF i = n THEN intent'[i].status = status
                               ELSE intent'[i] = intent[i]
  <1> USE DEF IInv
  <1>1. /\ {n} \in SUBSET tx[c].rows /\ tx[c].body \in Body /\ Active(n)
        /\ \A d \in Clients : pc[d] = "confirm" => d = c
    BY ConfirmRows
  <1>2. pc[c] \in {"insert", "confirm"}
    OBVIOUS
  <1>3. /\ intent' \in [Intents -> Row] /\ RevisionInv' /\ RowsInv' /\ OneActiveIntent'
        /\ \A d \in Clients \ {c} :
             pc[d] = "insert" => \A i \in Intents : Active(i)' => i \in tx[d].rows
    <2> DEFINE one == {n}
    <2>1. one \in SUBSET tx[c].rows /\ intent' = Ending(one, status)
      BY <1>1
    <2> HIDE DEF one
    <2> QED
      BY <1>1, <1>2, <2>1, EndRows
  <1>4. \A i \in Intents : IF i = n THEN intent'[i].status = status ELSE intent'[i] = intent[i]
    <2>1. {n} \in SUBSET Intents /\ \A i \in {n} : Active(i)
      BY <1>1
    <2> QED
      BY <2>1, EndingRows
  <1>5. TypeOK' /\ RequestInv' /\ LockInv' /\ StepInv' /\ RecordInv'
    BY <1>1, <1>2, <1>3, CommitRecord DEF TypeOK
  <1>6. ReadInv'
    BY <1>1, <1>2, <1>3, CommitRecord DEF ReadInv
  <1> QED
    BY <1>1, <1>3, <1>4, <1>5, <1>6

(* A confirmation that the movie was watched backs the viewing record it leaves. *)
LEMMA ConfirmWatchedIInv == ASSUME IInv, NEW c \in Clients, ConfirmWatched(c) PROVE IInv'
  <1> USE DEF IInv
  <1> DEFINE i == tx[c].body.intent
  <1>1. /\ pc[c] = "confirm" /\ tx[c].body.watched
        /\ intent' = Ending({i}, "CONFIRMED_WATCHED")
        /\ viewing' = IF tx[c].viewed = None THEN i ELSE viewing
        /\ Commit(c, "CONFIRMED_WATCHED", i)
        /\ "CONFIRMED_WATCHED" \in TerminalStatus /\ "CONFIRMED_WATCHED" \in Outcome
    BY DEF ConfirmWatched, TerminalStatus, Outcome
  <1>2. i \in Intents /\ tx[c].viewed = viewing /\ viewing' \in Intents \union {None}
    BY <1>1, ConfirmRows DEF ReadInv, TypeOK
  <1>3. /\ TypeOK' /\ RequestInv' /\ RevisionInv' /\ LockInv' /\ StepInv'
        /\ RowsInv' /\ RecordInv' /\ ReadInv' /\ OneActiveIntent'
        /\ \A j \in Intents : IF j = i THEN intent'[j].status = "CONFIRMED_WATCHED"
                              ELSE intent'[j] = intent[j]
    BY <1>1, <1>2, ConfirmCommits
  <1>4. viewing' # None /\ intent'[viewing'].status = "CONFIRMED_WATCHED"
    BY <1>1, <1>2, <1>3, NoneAssumption DEF ViewingBacked, TypeOK
  <1> QED
    BY <1>3, <1>4 DEF ViewingBacked

(* A confirmation that it was not watched leaves viewing_record alone. *)
LEMMA ConfirmNotWatchedIInv ==
  ASSUME IInv, NEW c \in Clients, ConfirmNotWatched(c) PROVE IInv'
  <1> USE DEF IInv
  <1> DEFINE i == tx[c].body.intent
  <1>1. /\ pc[c] = "confirm" /\ viewing' = viewing
        /\ intent' = Ending({i}, "CONFIRMED_NOT_WATCHED")
        /\ Commit(c, "CONFIRMED_NOT_WATCHED", i)
        /\ "CONFIRMED_NOT_WATCHED" \in TerminalStatus /\ "CONFIRMED_NOT_WATCHED" \in Outcome
    BY DEF ConfirmNotWatched, TerminalStatus, Outcome
  <1>2. i \in Intents /\ viewing' \in Intents \union {None}
    BY <1>1, ConfirmRows DEF TypeOK
  <1>3. /\ TypeOK' /\ RequestInv' /\ RevisionInv' /\ LockInv' /\ StepInv'
        /\ RowsInv' /\ RecordInv' /\ ReadInv' /\ OneActiveIntent'
        /\ Active(i)
        /\ \A j \in Intents : IF j = i THEN intent'[j].status = "CONFIRMED_NOT_WATCHED"
                              ELSE intent'[j] = intent[j]
    BY <1>1, <1>2, ConfirmCommits
  <1>4. ViewingBacked'
    BY <1>1, <1>3 DEF ViewingBacked, TypeOK, Active, ActiveStatus
  <1> QED
    BY <1>3, <1>4

-----------------------------------------------------------------------------
(* The remaining steps. *)

(* Giving a caller its answer frees the client. *)
LEMMA ReplyIInv == ASSUME IInv, NEW c \in Clients, Reply(c) PROVE IInv'
  <1> USE DEF IInv, Reply, Goto, database, NoTx
  <1>1. TypeOK'
    <2>1. tx[c].key \in Keys /\ records[tx[c].key] \in Response
      BY DEF RequestInv, RecordInv, TypeOK
    <2> QED
      BY <2>1, NoTxType DEF TypeOK
  <1>2. RequestInv'
    BY DEF TypeOK, RequestInv, CreateStep, ConfirmStep
  <1>3. LockInv'
    BY DEF TypeOK, Tx, LockInv, KeyHeld, DomainHeld, CreateStep, ConfirmStep
  <1>4. StepInv'
    BY DEF TypeOK, Tx, StepInv
  <1>5. RowsInv'
    BY DEF TypeOK, Tx, RowsInv, Active
  <1>6. RecordInv' /\ ReadInv'
    BY DEF TypeOK, Tx, RecordInv, ReadInv, Active, KeyHeld, CreateStep, ConfirmStep
  <1> QED
    BY <1>1, <1>2, <1>3, <1>4, <1>5, <1>6, UntouchedRows

(* A confirmation locks an active row or is refused. *)
LEMMA LockIntentIInv == ASSUME IInv, NEW c \in Clients, LockIntent(c) PROVE IInv'
  <1> USE DEF IInv
  <1> DEFINE i == tx[c].body.intent
  <1>1. CASE Rollback(c)
    BY <1>1, RollbackIInv
  <1>2. CASE ~Rollback(c)
    <2> USE DEF Goto, database
    <2> DEFINE t == [tx[c] EXCEPT !.rows = {i}]
    <2>1. /\ pc[c] = "intent" /\ tx[c].body \in ConfirmBody /\ i \in Intents
          /\ Active(i) /\ i \notin LockedByOther(c)
          /\ tx[c].rows = {} /\ tx[c].expired = {}
          /\ Statement(c, "existing")
      BY <1>2 DEF LockIntent, Confirmable, RequestInv, StepInv, ConfirmStep, ConfirmBody
    <2>2. tx' = [tx EXCEPT ![c] = t] /\ t \in Tx
      BY <1>2, <2>1, TxRows DEF LockIntent, TypeOK
    <2>3. /\ t.rows = {i} /\ t.key = tx[c].key /\ t.body = tx[c].body /\ t.expired = {}
      BY <2>1 DEF TypeOK, Tx
    <2> HIDE DEF t
    <2>4. TypeOK'
      BY <2>1, <2>2 DEF TypeOK, Statement, KeyHeld, ConfirmStep
    <2>5. RequestInv'
      BY <2>1, <2>2, <2>3 DEF RequestInv, TypeOK, Statement, CreateStep, ConfirmStep
    <2>6. LockInv'
      BY <2>1, <2>2, <2>3, LockedRows
         DEF LockInv, TypeOK, Statement, KeyHeld, DomainHeld, CreateStep, ConfirmStep
    <2>7. StepInv'
      BY <2>1, <2>2, <2>3 DEF StepInv, TypeOK, Statement
    <2>8. RowsInv'
      BY <2>1, <2>2, <2>3 DEF RowsInv, TypeOK, Statement, Active
    <2>9. RecordInv' /\ ReadInv'
      BY <2>1, <2>2, <2>3
         DEF RecordInv, ReadInv, TypeOK, Statement, Active, KeyHeld, CreateStep, ConfirmStep
    <2> QED
      BY <2>1, <2>4, <2>5, <2>6, <2>7, <2>8, <2>9, UntouchedRows DEF Statement
  <1> QED
    BY <1>1, <1>2

(* The offer is found, or the click is rolled back. *)
LEMMA FindCurrentOfferIInv ==
  ASSUME IInv, NEW c \in Clients, FindCurrentOffer(c) PROVE IInv'
  <1> USE DEF IInv
  <1>1. CASE Rollback(c)
    BY <1>1, RollbackIInv
  <1>2. CASE ~Rollback(c)
    <2> USE DEF Goto, database, Statement
    <2>1. pc[c] = "offer" /\ Statement(c, "viewing") /\ tx' = tx
      BY <1>2 DEF FindCurrentOffer
    <2>2. TypeOK' /\ RequestInv'
      BY <2>1 DEF TypeOK, RequestInv, KeyHeld, CreateStep, ConfirmStep
    <2>3. LockInv' /\ StepInv'
      BY <2>1 DEF TypeOK, LockInv, StepInv, KeyHeld, DomainHeld, CreateStep, ConfirmStep
    <2>4. RowsInv' /\ RecordInv' /\ ReadInv'
      BY <2>1 DEF TypeOK, RowsInv, RecordInv, ReadInv, Active, KeyHeld, CreateStep, ConfirmStep
    <2> QED
      BY <2>1, <2>2, <2>3, <2>4, UntouchedRows
  <1> QED
    BY <1>1, <1>2

(* A click carries the body of a click. *)
LEMMA SendCreateIInv == ASSUME IInv, NEW c \in Clients, SendCreate(c) PROVE IInv'
  <1>1. PICK k \in CreateKeys, body \in CreateBody : Send(c, k, body)
    BY DEF SendCreate
  <1>2. k \in Keys /\ body \in Body /\ k \notin ConfirmKeys
    BY KeysAssumption DEF Keys, Body
  <1> QED
    BY <1>1, <1>2, SendIInv

(* A confirmation carries the body of a confirmation. *)
LEMMA SendConfirmIInv == ASSUME IInv, NEW c \in Clients, SendConfirm(c) PROVE IInv'
  <1>1. PICK k \in ConfirmKeys, body \in ConfirmBody : Send(c, k, body)
    BY DEF SendConfirm
  <1>2. k \in Keys /\ body \in Body /\ k \notin CreateKeys
    BY KeysAssumption DEF Keys, Body
  <1> QED
    BY <1>1, <1>2, SendIInv

(* No part of the invariant depends on the clock. *)
LEMMA TickIInv == ASSUME IInv, Tick PROVE IInv'
  <1> USE DEF IInv, database
  <1>0. /\ clock' = clock + 1
        /\ UNCHANGED <<intent, viewing, records, journal, answers, pc, tx, sched>>
    BY DEF Tick
  <1>1. TypeOK' /\ RequestInv'
    BY <1>0 DEF TypeOK, RequestInv
  <1>2. LockInv' /\ StepInv'
    BY <1>0 DEF LockInv, StepInv
  <1>3. RowsInv' /\ RecordInv' /\ ReadInv'
    BY <1>0 DEF RowsInv, RecordInv, ReadInv, Active
  <1> QED
    BY <1>0, <1>1, <1>2, <1>3, UntouchedRows

(* The scheduler's transaction begins, or ends without a trace. *)
LEMMA AdvanceStartIInv == ASSUME IInv, AdvanceStart \/ AdvanceAbort PROVE IInv'
  <1> USE DEF IInv, database
  <1>0. /\ sched' \in [pc : {"idle", "expire", "due"}, now : Nat, expired : SUBSET Intents]
        /\ sched'.expired = {}
        /\ UNCHANGED <<clock, intent, viewing, records, journal, answers, pc, tx>>
    <2>1. CASE AdvanceStart
      BY <2>1 DEF AdvanceStart, TypeOK, StepInv
    <2>2. CASE AdvanceAbort
      BY <2>2 DEF AdvanceAbort
    <2> QED
      BY <2>1, <2>2
  <1>1. TypeOK' /\ RequestInv'
    BY <1>0 DEF TypeOK, RequestInv
  <1>2. LockInv' /\ StepInv'
    BY <1>0 DEF LockInv, StepInv
  <1>3. RowsInv' /\ RecordInv' /\ ReadInv'
    BY <1>0 DEF RowsInv, RecordInv, ReadInv, Active
  <1> QED
    BY <1>0, <1>1, <1>2, <1>3, UntouchedRows

(* The rows the scheduler expires become locked, and were locked by no client. *)
LEMMA AdvanceExpireIInv == ASSUME IInv, AdvanceExpire PROVE IInv'
  <1> USE DEF IInv
  <1> DEFINE due == {i \in Intents : Active(i) /\ ExpiredAt(i, sched.now)}
  <1>1. /\ sched' = [sched EXCEPT !.pc = "due", !.expired = due]
        /\ UNCHANGED <<clock, intent, viewing, records, journal, answers, pc, tx>>
        /\ due \in SUBSET Intents /\ \A i \in due : Active(i)
        /\ \A i \in due : \A c \in Clients : i \notin tx[c].rows
    BY DEF AdvanceExpire, database, LockedByClients
  <1> HIDE DEF due
  <1>2. TypeOK' /\ RequestInv'
    BY <1>1 DEF TypeOK, RequestInv
  <1>3. LockInv' /\ StepInv'
    BY <1>1 DEF LockInv, StepInv, TypeOK
  <1>4. RowsInv' /\ RecordInv' /\ ReadInv'
    BY <1>1 DEF RowsInv, RecordInv, ReadInv, Active, TypeOK
  <1> QED
    BY <1>1, <1>2, <1>3, <1>4, UntouchedRows

(* The rows of the scheduler's second UPDATE. *)
DueRows == {i \in Intents : intent[i].status = "LINK_CLICKED" /\ DueAt(i, sched.now)}

(* Both UPDATEs take effect: the overdue rows end, the due ones are pending. *)
LEMMA AdvanceDueRows ==
  ASSUME IInv, AdvanceDue
  PROVE  /\ sched' = [pc |-> "idle", now |-> 0, expired |-> {}]
         /\ UNCHANGED <<clock, viewing, records, journal, answers, pc, tx>>
         /\ intent' \in [Intents -> Row]
         /\ \A i \in DueRows : /\ i \in Intents /\ intent[i].status = "LINK_CLICKED"
                               /\ \A c \in Clients : i \notin tx[c].rows
         /\ \A i \in Intents :
              /\ i \in DueRows => /\ intent'[i].status = "CONFIRMATION_PENDING"
                                  /\ intent'[i].revision = 2
              /\ i \notin DueRows /\ i \in sched.expired =>
                   intent'[i].status = "EXPIRED" /\ intent'[i].revision = intent[i].revision + 1
              /\ i \notin DueRows /\ i \notin sched.expired => intent'[i] = intent[i]
              /\ intent'[i].clickedAt = intent[i].clickedAt
  <1> USE DEF IInv
  <1> DEFINE ended == Ending(sched.expired, "EXPIRED")
             asked(i) == [intent[i] EXCEPT !.status = "CONFIRMATION_PENDING", !.revision = @ + 1]
  <1>1. /\ intent' = [i \in Intents |-> IF i \in DueRows THEN asked(i) ELSE ended[i]]
        /\ sched' = [pc |-> "idle", now |-> 0, expired |-> {}]
        /\ UNCHANGED <<clock, viewing, records, journal, answers, pc, tx>>
        /\ \A i \in DueRows : /\ i \in Intents /\ intent[i].status = "LINK_CLICKED"
                              /\ \A c \in Clients : i \notin tx[c].rows
    BY DEF AdvanceDue, LockedByClients, DueRows
  <1>2. ASSUME NEW i \in DueRows
        PROVE  /\ asked(i) \in Row /\ asked(i).status = "CONFIRMATION_PENDING"
               /\ asked(i).revision = 2 /\ asked(i).clickedAt = intent[i].clickedAt
    <2>1. intent[i] \in Row /\ intent[i].revision = 1
      BY <1>1 DEF TypeOK, RevisionInv
    <2> QED
      BY <2>1, AskedRow
  <1>3. \A i \in Intents :
          /\ ended[i] \in Row
          /\ i \in sched.expired => /\ ended[i].status = "EXPIRED"
                                    /\ ended[i].revision = intent[i].revision + 1
                                    /\ ended[i].clickedAt = intent[i].clickedAt
          /\ i \notin sched.expired => ended[i] = intent[i]
    <2>1. /\ sched.expired \in SUBSET Intents /\ "EXPIRED" \in TerminalStatus
          /\ \A i \in sched.expired : Active(i)
      BY DEF TypeOK, RowsInv, TerminalStatus
    <2> QED
      BY <2>1, EndingRows
  <1> HIDE DEF ended, asked
  <1> QED
    BY <1>1, <1>2, <1>3

(* The scheduler's commit preserves the invariant. *)
LEMMA AdvanceDueIInv == ASSUME IInv, AdvanceDue PROVE IInv'
  <1> USE DEF IInv
  <1>1. /\ sched' = [pc |-> "idle", now |-> 0, expired |-> {}]
        /\ UNCHANGED <<clock, viewing, records, journal, answers, pc, tx>>
        /\ \A i \in DueRows : /\ i \in Intents /\ intent[i].status = "LINK_CLICKED"
                              /\ \A c \in Clients : i \notin tx[c].rows
        /\ intent' \in [Intents -> Row]
    BY AdvanceDueRows
  <1>2. \A i \in Intents :
          /\ i \in DueRows => intent'[i].status = "CONFIRMATION_PENDING" /\ intent'[i].revision = 2
          /\ i \notin DueRows /\ i \in sched.expired =>
               intent'[i].status = "EXPIRED" /\ intent'[i].revision = intent[i].revision + 1
          /\ i \notin DueRows /\ i \notin sched.expired => intent'[i] = intent[i]
    BY AdvanceDueRows
  <1>3. \A i \in Intents : Active(i)' => Active(i)
    BY <1>1, <1>2 DEF Active, ActiveStatus
  <1>4. \A i \in Intents : (\E c \in Clients : i \in tx[c].rows) => intent'[i] = intent[i]
    BY <1>1, <1>2 DEF LockInv
  <1>5. TypeOK'
    BY <1>1 DEF TypeOK
  <1>6. RevisionInv'
    <2>1. ASSUME NEW i \in Intents, i \notin DueRows, i \in sched.expired
          PROVE  intent'[i].status = "EXPIRED" /\ intent'[i].revision \in {2, 3}
      <3>1. intent[i].revision \in {1, 2}
        BY <2>1, ActiveRevision DEF RowsInv
      <3>2. intent[i].revision + 1 \in {2, 3}
        BY <3>1
      <3> QED
        BY <2>1, <3>2, <1>2
    <2> QED
      BY <2>1, <1>2 DEF RevisionInv, TerminalStatus, Absent
  <1>7. RequestInv' /\ LockInv' /\ StepInv' /\ RecordInv'
    BY <1>1 DEF RequestInv, LockInv, StepInv, RecordInv
  <1>8. RowsInv'
    BY <1>1, <1>4 DEF RowsInv, Active, TypeOK, Tx
  <1>9. ReadInv'
    BY <1>1, <1>3 DEF ReadInv
  <1>10. OneActiveIntent'
    BY <1>3 DEF OneActiveIntent
  <1>11. ViewingBacked'
    <2>1. \A i \in Intents : intent'[i].status = "CONFIRMED_WATCHED"
                               <=> intent[i].status = "CONFIRMED_WATCHED"
      BY <1>1, <1>2 DEF RowsInv, Active, ActiveStatus
    <2> QED
      BY <2>1, <1>1 DEF ViewingBacked, TypeOK
  <1> QED
    BY <1>5, <1>6, <1>7, <1>8, <1>9, <1>10, <1>11

(* Every step of a request preserves the invariant. *)
LEMMA ProgressIInv == ASSUME IInv, NEW c \in Clients, Progress(c) PROVE IInv'
  <1>1. CASE Execute(c)
    BY <1>1, LockKeyIInv, FindNothingIInv, FindReplayIInv, RollbackIInv, ReplyIInv
       DEF Execute, FindReused
  <1>2. CASE CreateWatchIntent(c)
    BY <1>2, LockDomainIInv, ExpireActiveIntentIInv, FindCurrentOfferIInv, FindViewingIInv,
       FindActiveIntentIInv, AlreadyWatchedIInv, ActiveReusedIInv, InsertIntentIInv, RollbackIInv
       DEF CreateWatchIntent
  <1>3. CASE Confirm(c)
    BY <1>3, LockIntentIInv, FindExistingIInv, ConfirmWatchedIInv, ConfirmNotWatchedIInv
       DEF Confirm
  <1> QED
    BY <1>1, <1>2, <1>3 DEF Progress

(* Every step preserves the invariant. *)
LEMMA NextIInv == ASSUME IInv, [Next]_vars PROVE IInv'
  <1>1. CASE Tick
    BY <1>1, TickIInv
  <1>2. CASE AdvanceWatchIntents
    BY <1>2, AdvanceStartIInv, AdvanceExpireIInv, AdvanceDueIInv DEF AdvanceWatchIntents
  <1>3. CASE AdvanceAbort
    BY <1>3, AdvanceStartIInv
  <1>4. ASSUME NEW c \in Clients, SendCreate(c) \/ SendConfirm(c) \/ Progress(c) \/ Abort(c)
        PROVE  IInv'
    BY <1>4, SendCreateIInv, SendConfirmIInv, ProgressIInv, RollbackIInv DEF Abort
  <1>5. CASE UNCHANGED vars
    <2> USE DEF vars, IInv
    <2>1. TypeOK' /\ RequestInv'
      BY <1>5 DEF TypeOK, RequestInv
    <2>2. LockInv' /\ StepInv'
      BY <1>5 DEF LockInv, StepInv
    <2>3. RowsInv' /\ RecordInv' /\ ReadInv'
      BY <1>5 DEF RowsInv, RecordInv, ReadInv, Active
    <2> QED
      BY <1>5, <2>1, <2>2, <2>3, UntouchedRows
  <1> QED
    BY <1>1, <1>2, <1>3, <1>4, <1>5 DEF Next

(* IInv holds in every reachable state. *)
THEOREM Inductive == Spec => []IInv
  BY InitIInv, NextIInv, PTL DEF Spec

-----------------------------------------------------------------------------
(* Every variable keeps its type, however the transactions interleave. *)
THEOREM TypeCorrect == Spec => []TypeOK
  <1>1. IInv => TypeOK
    BY DEF IInv
  <1> QED
    BY <1>1, Inductive, PTL

(* No INSERT of a click or of a confirmation ever meets a unique constraint. *)
THEOREM NoConstraintFires == Spec => []ConstraintsNeverFire
  <1>1. ASSUME IInv, NEW c \in Clients PROVE ~InsertRefused(c)
    BY <1>1 DEF IInv, InsertRefused, RecordInv, ReadInv, KeyHeld, CreateStep, Reused,
                ActiveElsewhere
  <1>2. ASSUME IInv, NEW c \in Clients PROVE ~ConfirmRefused(c)
    BY <1>2 DEF IInv, ConfirmRefused, RecordInv, ReadInv, KeyHeld, ConfirmStep
  <1>3. IInv => ConstraintsNeverFire
    BY <1>1, <1>2 DEF ConstraintsNeverFire
  <1> QED
    BY <1>3, Inductive, PTL

(* A viewing record and a confirmed intent come together or not at all. *)
THEOREM ViewingIsBacked == Spec => []ViewingBacked
  <1>1. IInv => ViewingBacked
    BY DEF IInv
  <1> QED
    BY <1>1, Inductive, PTL

-----------------------------------------------------------------------------
(* What callers were told. *)

(* The keys under which outcome was answered about intent i. *)
Told(outcome, i) ==
  {k \in Keys : records[k] # None /\ records[k].outcome = outcome /\ records[k].intent = i}

(* The outcomes that stay true of an intent, and the statuses that say them. *)
Lasting == {"CREATED", "CONFIRMED_WATCHED", "CONFIRMED_NOT_WATCHED"}

Says(status, outcome) == \/ outcome = "CREATED" /\ status # Absent
                         \/ outcome # "CREATED" /\ status = outcome

ToldAsSaid(outcome, i) ==
  /\ Says(intent[i].status, outcome) => \E k \in Keys : Told(outcome, i) = {k}
  /\ ~Says(intent[i].status, outcome) => Told(outcome, i) = {}

AnswersInv == \A i \in Intents : \A outcome \in Lasting : ToldAsSaid(outcome, i)

(* Keys counted one by one. *)
LEMMA AnswersCounted == AnswersInv => AnswersMatchRows
  <1> SUFFICES ASSUME AnswersInv, NEW i \in Intents
               PROVE  /\ Cardinality(Told("CREATED", i)) = IF intent[i].status = Absent THEN 0 ELSE 1
                      /\ Cardinality(Told("CONFIRMED_WATCHED", i)) =
                           IF intent[i].status = "CONFIRMED_WATCHED" THEN 1 ELSE 0
                      /\ Cardinality(Told("CONFIRMED_NOT_WATCHED", i)) =
                           IF intent[i].status = "CONFIRMED_NOT_WATCHED" THEN 1 ELSE 0
    BY DEF AnswersMatchRows, Told
  <1>1. Cardinality({}) = 0 /\ \A k \in Keys : Cardinality({k}) = 1
    BY FS_EmptySet, FS_Singleton
  <1>2. ASSUME NEW outcome \in Lasting
        PROVE  Cardinality(Told(outcome, i)) = IF Says(intent[i].status, outcome) THEN 1 ELSE 0
    BY <1>1 DEF AnswersInv, ToldAsSaid
  <1> QED
    BY <1>2 DEF Lasting, Says

(* A step that stores no answer and ends no intent but as EXPIRED. *)
LEMMA NothingTold ==
  ASSUME AnswersInv, UNCHANGED records,
         \A i \in Intents : \A o \in Lasting :
           Says(intent'[i].status, o) <=> Says(intent[i].status, o)
  PROVE  AnswersInv'
  <1>1. \A i \in Intents : \A o \in Lasting : Told(o, i)' = Told(o, i)
    BY DEF Told
  <1> QED
    BY <1>1 DEF AnswersInv, ToldAsSaid

(* A commit tells of its intent what its row says from now on, and not before. *)
LEMMA CommitTells ==
  ASSUME IInv, AnswersInv, NEW c \in Clients, NEW outcome \in Outcome, NEW n \in Intents,
         tx[c].body \in Body, tx[c].key \in Keys, Commit(c, outcome, n),
         outcome \in Lasting => ~Says(intent[n].status, outcome),
         \A i \in Intents : \A o \in Lasting :
           Says(intent'[i].status, o) <=> Says(intent[i].status, o) \/ (o = outcome /\ i = n)
  PROVE  AnswersInv'
  <1> DEFINE k == tx[c].key
             r == [body |-> tx[c].body, outcome |-> outcome, intent |-> n]
  <1>1. r # None /\ r.outcome = outcome /\ r.intent = n
    BY NoneAssumption DEF Response
  <1>2. /\ records[k] = None /\ k \in Keys
        /\ records' = [records EXCEPT ![k] = r] /\ DOMAIN records = Keys
    BY DEF Commit, IInv, TypeOK
  <1> HIDE DEF k, r
  <1>3. records'[k] = r /\ \A j \in Keys \ {k} : records'[j] = records[j]
    BY <1>2
  <1>4. ASSUME NEW i \in Intents, NEW o \in Lasting, o # outcome \/ i # n
        PROVE  Told(o, i)' = Told(o, i)
    BY <1>1, <1>2, <1>3, <1>4 DEF Told
  <1>5. Told(outcome, n)' = Told(outcome, n) \union {k}
    BY <1>1, <1>2, <1>3 DEF Told, k
  <1>6. ASSUME NEW i \in Intents, NEW o \in Lasting PROVE ToldAsSaid(o, i)'
    <2>1. CASE o = outcome /\ i = n
      <3>1. Told(outcome, n) = {}
        BY <2>1 DEF AnswersInv, ToldAsSaid
      <3>2. Told(o, i)' = {k} /\ k \in Keys
        BY <2>1, <3>1, <1>5 DEF k
      <3> QED
        BY <2>1, <3>2 DEF ToldAsSaid
    <2>2. CASE o # outcome \/ i # n
      BY <2>2, <1>4 DEF AnswersInv, ToldAsSaid
    <2> QED
      BY <2>1, <2>2
  <1> QED
    BY <1>6 DEF AnswersInv

(* Rows that expire are told nothing new, and keep what was told. *)
LEMMA ExpiredSays ==
  ASSUME IInv, NEW rows \in SUBSET Intents, \A i \in rows : Active(i), NEW i \in Intents,
         NEW o \in Lasting
  PROVE  Says(Ending(rows, "EXPIRED")[i].status, o) <=> Says(intent[i].status, o)
  <1>1. /\ "EXPIRED" \in TerminalStatus
        /\ i \in rows => intent[i].status \in ActiveStatus
    BY DEF TerminalStatus, Active
  <1>2. /\ i \in rows => Ending(rows, "EXPIRED")[i].status = "EXPIRED"
        /\ i \notin rows => Ending(rows, "EXPIRED")[i] = intent[i]
    BY <1>1, EndingRows
  <1> QED
    BY <1>1, <1>2 DEF Says, Lasting, ActiveStatus, Absent

(* A click that opens no intent. *)
LEMMA ClickAnswers ==
  ASSUME IInv, AnswersInv, NEW c \in Clients, AlreadyWatched(c) \/ ActiveReused(c)
  PROVE  AnswersInv'
  <1>1. /\ pc[c] = "insert" /\ intent' = Ending(tx[c].expired, "EXPIRED")
        /\ tx[c].viewed \in Intents \union {None} /\ Reused(c) \subseteq Intents
        /\ tx[c].expired \in SUBSET Intents /\ \A i \in tx[c].expired : Active(i)
    BY DEF AlreadyWatched, ActiveReused, IInv, TypeOK, Tx, Reused, StepInv, RowsInv
  <1>2. tx[c].body \in Body /\ tx[c].key \in Keys
    BY <1>1 DEF IInv, RequestInv, CreateStep, Body
  <1>3. \A i \in Intents : \A o \in Lasting :
          Says(intent'[i].status, o) <=> Says(intent[i].status, o)
    BY <1>1, ExpiredSays
  <1>4. PICK outcome \in {"ALREADY_WATCHED", "ACTIVE_REUSED"}, n \in Intents : Commit(c, outcome, n)
    BY <1>1 DEF AlreadyWatched, ActiveReused
  <1>5. outcome \in Outcome /\ outcome \notin Lasting
    BY DEF Outcome, Lasting
  <1> QED
    BY <1>2, <1>3, <1>4, <1>5, CommitTells

(* A click that opens one. *)
LEMMA InsertAnswers ==
  ASSUME IInv, AnswersInv, NEW c \in Clients, InsertIntent(c)
  PROVE  AnswersInv'
  <1> DEFINE new == [status |-> "LINK_CLICKED", clickedAt |-> clock, revision |-> 1]
             ended == Ending(tx[c].expired, "EXPIRED")
  <1>1. /\ pc[c] = "insert"
        /\ tx[c].expired \in SUBSET Intents /\ \A i \in tx[c].expired : Active(i)
    BY DEF InsertIntent, IInv, TypeOK, Tx, StepInv, RowsInv
  <1>2. tx[c].body \in Body /\ tx[c].key \in Keys
    BY <1>1 DEF IInv, RequestInv, CreateStep, Body
  <1>3. PICK n \in Intents : /\ intent[n].status = Absent
                             /\ intent' = [ended EXCEPT ![n] = new]
                             /\ Commit(c, "CREATED", n)
    BY DEF InsertIntent
  <1>4. DOMAIN ended = Intents /\ new.status = "LINK_CLICKED"
    BY DEF Ending
  <1>5. ASSUME NEW i \in Intents, NEW o \in Lasting
        PROVE  Says(ended[i].status, o) <=> Says(intent[i].status, o)
    BY <1>1, ExpiredSays
  <1> HIDE DEF new, ended
  <1>6. ASSUME NEW i \in Intents, NEW o \in Lasting
        PROVE  Says(intent'[i].status, o)
                 <=> Says(intent[i].status, o) \/ (o = "CREATED" /\ i = n)
    <2>1. CASE i = n
      BY <2>1, <1>3, <1>4 DEF Says, Lasting, Absent
    <2>2. CASE i # n
      BY <2>2, <1>3, <1>4, <1>5
    <2> QED
      BY <2>1, <2>2
  <1>7. "CREATED" \in Outcome /\ ~Says(intent[n].status, "CREATED")
    BY <1>3 DEF Outcome, Says
  <1> QED
    BY <1>2, <1>3, <1>6, <1>7, CommitTells

(* A confirmation. *)
LEMMA ConfirmAnswers ==
  ASSUME IInv, AnswersInv, NEW c \in Clients, ConfirmWatched(c) \/ ConfirmNotWatched(c)
  PROVE  AnswersInv'
  <1> DEFINE n == tx[c].body.intent
  <1>1. pc[c] = "confirm"
    BY DEF ConfirmWatched, ConfirmNotWatched
  <1>2. n \in Intents /\ tx[c].body \in Body /\ tx[c].key \in Keys /\ Active(n)
    BY <1>1, ConfirmRows DEF IInv, RequestInv
  <1>3. PICK outcome \in {"CONFIRMED_WATCHED", "CONFIRMED_NOT_WATCHED"} :
          intent' = Ending({n}, outcome) /\ Commit(c, outcome, n)
    BY DEF ConfirmWatched, ConfirmNotWatched
  <1>4. outcome \in TerminalStatus /\ outcome \in Outcome /\ {n} \in SUBSET Intents
    BY <1>2 DEF TerminalStatus, Outcome
  <1> HIDE DEF n
  <1>5. \A i \in Intents : /\ i = n => intent'[i].status = outcome
                           /\ i # n => intent'[i] = intent[i]
    BY <1>2, <1>3, <1>4, EndingRows
  <1>6. intent[n].status \in ActiveStatus
    BY <1>2 DEF Active
  <1>7. ASSUME NEW i \in Intents, NEW o \in Lasting
        PROVE  Says(intent'[i].status, o)
                 <=> Says(intent[i].status, o) \/ (o = outcome /\ i = n)
    BY <1>3, <1>5, <1>6 DEF Says, Lasting, ActiveStatus, Absent
  <1>8. ~Says(intent[n].status, outcome)
    BY <1>3, <1>6 DEF Says, ActiveStatus
  <1> QED
    BY <1>2, <1>3, <1>4, <1>7, <1>8, CommitTells DEF n

(* The scheduler moves intents to statuses nobody is told. *)
LEMMA AdvanceAnswers == ASSUME IInv, AnswersInv, AdvanceDue PROVE AnswersInv'
  <1>1. UNCHANGED records
    BY AdvanceDueRows
  <1>2. ASSUME NEW i \in Intents, NEW o \in Lasting
        PROVE  Says(intent'[i].status, o) <=> Says(intent[i].status, o)
    <2>1. CASE i \in DueRows
      BY <2>1, AdvanceDueRows DEF Says, Lasting, Absent
    <2>2. CASE i \notin DueRows /\ i \in sched.expired
      <3>1. intent[i].status \in ActiveStatus
        BY <2>2 DEF IInv, RowsInv, Active
      <3> QED
        BY <2>2, <3>1, AdvanceDueRows DEF Says, Lasting, ActiveStatus, Absent
    <2>3. CASE i \notin DueRows /\ i \notin sched.expired
      BY <2>3, AdvanceDueRows
    <2> QED
      BY <2>1, <2>2, <2>3
  <1> QED
    BY <1>1, <1>2, NothingTold

(* Every step keeps the answers true. *)
LEMMA NextAnswers == ASSUME IInv, AnswersInv, [Next]_vars PROVE AnswersInv'
  <1>1. CASE UNCHANGED <<records, intent>>
    BY <1>1, NothingTold
  <1>2. ASSUME NEW c \in Clients, Progress(c) PROVE AnswersInv'
    <2>1. CASE Execute(c)
      BY <2>1, <1>1 DEF Execute, LockKey, FindNothing, FindReplay, FindReused, Reply,
                        Statement, Rollback, database
    <2>2. CASE CreateWatchIntent(c)
      BY <2>2, <1>1, ClickAnswers, InsertAnswers
         DEF CreateWatchIntent, LockDomain, ExpireActiveIntent, FindCurrentOffer,
             FindViewing, FindActiveIntent, Statement, Rollback, database
    <2>3. CASE Confirm(c)
      BY <2>3, <1>1, ConfirmAnswers
         DEF Confirm, LockIntent, FindExisting, Statement, Rollback, database
    <2> QED
      BY <1>2, <2>1, <2>2, <2>3 DEF Progress
  <1>3. CASE AdvanceDue
    BY <1>3, AdvanceAnswers
  <1>4. UNCHANGED <<records, intent>> \/ AdvanceDue \/ \E c \in Clients : Progress(c)
    BY DEF Next, Tick, AdvanceWatchIntents, AdvanceStart, AdvanceExpire,
           AdvanceAbort, SendCreate, SendConfirm, Send, Abort, Rollback, database, vars
  <1> QED
    BY <1>1, <1>2, <1>3, <1>4

(* What callers were told stays true of the tables, for every number of
   requests, keys and intents. *)
THEOREM AnswersStayTrue == Spec => []AnswersMatchRows
  <1>1. Init => AnswersInv
    BY DEF Init, AnswersInv, ToldAsSaid, Told, Says, Lasting, Absent
  <1>2. IInv /\ AnswersInv /\ [Next]_vars => AnswersInv'
    BY NextAnswers
  <1> QED
    BY <1>1, <1>2, AnswersCounted, Inductive, PTL DEF Spec

-----------------------------------------------------------------------------
(* The arrows of an intent, and their times. *)

(* A step of a request is the only one that changes its own transaction. *)
LEMMA OwnTransaction ==
  ASSUME IInv, [Next]_vars, NEW d \in Clients, pc'[d] # pc[d] \/ tx'[d] # tx[d]
  PROVE  SendCreate(d) \/ SendConfirm(d) \/ Progress(d) \/ Abort(d)
  <1> USE DEF IInv, TypeOK
  <1>1. ASSUME NEW c \in Clients \ {d}, SendCreate(c) \/ SendConfirm(c) \/ Abort(c)
        PROVE  pc'[d] = pc[d] /\ tx'[d] = tx[d]
    BY <1>1 DEF SendCreate, SendConfirm, Send, Abort, Rollback, Goto
  <1>2. ASSUME NEW c \in Clients \ {d}, Progress(c)
        PROVE  pc'[d] = pc[d] /\ tx'[d] = tx[d]
    BY <1>2 DEF Progress, Execute, LockKey, FindNothing, FindReplay, FindReused, Reply,
             CreateWatchIntent, LockDomain, ExpireActiveIntent, FindCurrentOffer, FindViewing,
             FindActiveIntent, AlreadyWatched, ActiveReused, InsertIntent, Confirm,
             LockIntent, FindExisting, ConfirmWatched, ConfirmNotWatched, Commit, Statement,
             Rollback, Goto
  <1>3. \/ UNCHANGED <<pc, tx>>
        \/ \E c \in Clients : SendCreate(c) \/ SendConfirm(c) \/ Progress(c) \/ Abort(c)
    BY DEF Next, Tick, AdvanceWatchIntents, AdvanceStart, AdvanceExpire, AdvanceDue,
           AdvanceAbort, vars
  <1> QED
    BY <1>1, <1>2, <1>3

(* What a transaction has found out about time stays true until it commits: the
   rows it expires are overdue, and the one it confirms is due. *)
TimeInv == /\ \A c \in Clients :
                /\ \A i \in tx[c].expired : ExpiredAt(i, clock)
                /\ pc[c] \in {"existing", "confirm"} =>
                     intent[tx[c].body.intent].clickedAt + Due <= clock
           /\ sched.now <= clock
           /\ \A i \in sched.expired : ExpiredAt(i, sched.now)

(* The clock does not go back. *)
LEMMA ClockMoves ==
  ASSUME IInv, [Next]_vars
  PROVE  clock \in Nat /\ clock' \in Nat /\ clock <= clock'
  <1>1. clock \in Nat
    BY DEF IInv, TypeOK
  <1>2. ASSUME NEW c \in Clients, Progress(c) PROVE clock' = clock
    BY <1>2 DEF Progress, Execute, LockKey, FindNothing, FindReplay, FindReused, Reply,
             CreateWatchIntent, LockDomain, ExpireActiveIntent, FindCurrentOffer, FindViewing,
             FindActiveIntent, AlreadyWatched, ActiveReused, InsertIntent, Confirm,
             LockIntent, FindExisting, ConfirmWatched, ConfirmNotWatched, Commit, Statement,
             Rollback
  <1>3. clock' = clock \/ clock' = clock + 1
    BY <1>2 DEF Next, Tick, AdvanceWatchIntents, AdvanceStart, AdvanceExpire, AdvanceDue,
                AdvanceAbort, SendCreate, SendConfirm, Send, Abort, Rollback, vars
  <1> QED
    BY <1>1, <1>3

(* The row that a confirmation has locked. *)
LEMMA ConfirmedRow ==
  ASSUME IInv, NEW c \in Clients, pc[c] \in {"existing", "confirm"}
  PROVE  tx[c].body.intent \in Intents /\ Active(tx[c].body.intent)
  <1>1. tx[c].rows = {tx[c].body.intent} /\ tx[c].rows \subseteq Intents
    BY DEF IInv, StepInv, TypeOK, Tx
  <1> QED
    BY <1>1 DEF IInv, RowsInv

(* Ending active rows follows the arrows, if it is done in time. *)
LEMMA EndedLifecycle ==
  ASSUME IInv, NEW rows \in SUBSET Intents, NEW status \in TerminalStatus,
         \A i \in rows : Active(i) /\ InTime(i, status), intent' = Ending(rows, status),
         status # "EXPIRED" => status \in {"CONFIRMED_WATCHED", "CONFIRMED_NOT_WATCHED"},
         NEW i \in Intents
  PROVE  LifecycleStep(i)
  <1>1. CASE i \in rows
    <2>1. /\ intent'[i].status = status /\ intent'[i].revision = intent[i].revision + 1
          /\ intent'[i].clickedAt = intent[i].clickedAt
      BY <1>1, EndingRows
    <2>2. <<intent[i].status, status>> \in Arrows
      BY <1>1 DEF Active, ActiveStatus, Arrows, DocumentedArrows
    <2>3. InTime(i, intent'[i].status)
      BY <1>1, <2>1
    <2> QED
      BY <2>1, <2>2, <2>3 DEF LifecycleStep
  <1>2. CASE i \notin rows
    BY <1>2, EndingRows DEF LifecycleStep
  <1> QED
    BY <1>1, <1>2

(* Every step of a request follows the arrows. *)
LEMMA ClientLifecycle ==
  ASSUME IInv, TimeInv, NEW c \in Clients, Progress(c), NEW i \in Intents
  PROVE  LifecycleStep(i)
  <1> USE DEF IInv
  <1>1. /\ tx[c].expired \in SUBSET Intents /\ "EXPIRED" \in TerminalStatus
        /\ \A j \in tx[c].expired : Active(j) /\ InTime(j, "EXPIRED")
    BY DEF TypeOK, Tx, StepInv, RowsInv, TerminalStatus, TimeInv, InTime
  <1>2. CASE intent' = Ending(tx[c].expired, "EXPIRED")
    BY <1>1, <1>2, EndedLifecycle
  <1>3. CASE ConfirmWatched(c)
    <2> DEFINE n == tx[c].body.intent
    <2>1. /\ {n} \in SUBSET Intents
          /\ \A j \in {n} : Active(j) /\ InTime(j, "CONFIRMED_WATCHED")
      BY <1>3, ConfirmRows DEF ConfirmWatched, TimeInv, InTime
    <2>2. intent' = Ending({n}, "CONFIRMED_WATCHED") /\ "CONFIRMED_WATCHED" \in TerminalStatus
      BY <1>3 DEF ConfirmWatched, TerminalStatus
    <2> QED
      BY <2>1, <2>2, EndedLifecycle
  <1>4. CASE ConfirmNotWatched(c)
    <2> DEFINE n == tx[c].body.intent
    <2>1. /\ {n} \in SUBSET Intents
          /\ \A j \in {n} : Active(j) /\ InTime(j, "CONFIRMED_NOT_WATCHED")
      BY <1>4, ConfirmRows DEF ConfirmNotWatched, TimeInv, InTime
    <2>2. /\ intent' = Ending({n}, "CONFIRMED_NOT_WATCHED")
          /\ "CONFIRMED_NOT_WATCHED" \in TerminalStatus
      BY <1>4 DEF ConfirmNotWatched, TerminalStatus
    <2> QED
      BY <2>1, <2>2, EndedLifecycle
  <1>5. CASE InsertIntent(c)
    <2> DEFINE new == [status |-> "LINK_CLICKED", clickedAt |-> clock, revision |-> 1]
               ended == Ending(tx[c].expired, "EXPIRED")
    <2>1. PICK n \in Intents : intent[n].status = Absent /\ intent' = [ended EXCEPT ![n] = new]
      BY <1>5 DEF InsertIntent
    <2>2. /\ i \in tx[c].expired => /\ ended[i].status = "EXPIRED"
                                    /\ ended[i].revision = intent[i].revision + 1
                                    /\ ended[i].clickedAt = intent[i].clickedAt
          /\ i \notin tx[c].expired => ended[i] = intent[i]
      BY <1>1, EndingRows
    <2>3. DOMAIN ended = Intents
      BY DEF Ending
    <2>4. new.status = "LINK_CLICKED" /\ new.revision = 1
      OBVIOUS
    <2> HIDE DEF new, ended
    <2>5. intent'[n] = new /\ (i # n => intent'[i] = ended[i])
      BY <2>1, <2>3
    <2>6. CASE i = n
      <3>1. intent[i].status = Absent /\ intent[i].revision = 0
        BY <2>1, <2>6 DEF RevisionInv
      <3>2. <<Absent, "LINK_CLICKED">> \in Arrows /\ InTime(i, "LINK_CLICKED")
        BY DEF Arrows, DocumentedArrows, InTime
      <3> QED
        BY <3>1, <3>2, <2>4, <2>5, <2>6 DEF LifecycleStep
    <2>7. CASE i # n /\ i \notin tx[c].expired
      BY <2>2, <2>5, <2>7 DEF LifecycleStep
    <2>8. CASE i # n /\ i \in tx[c].expired
      <3>1. <<intent[i].status, "EXPIRED">> \in Arrows /\ InTime(i, "EXPIRED")
        BY <1>1, <2>8 DEF Active, ActiveStatus, Arrows, DocumentedArrows, TerminalStatus
      <3> QED
        BY <3>1, <2>2, <2>5, <2>8 DEF LifecycleStep
    <2> QED
      BY <2>6, <2>7, <2>8
  <1>6. CASE intent' = intent
    BY <1>6 DEF LifecycleStep
  <1>7. \/ intent' = Ending(tx[c].expired, "EXPIRED") \/ intent' = intent
        \/ ConfirmWatched(c) \/ ConfirmNotWatched(c) \/ InsertIntent(c)
    <2>1. CASE Execute(c)
      BY <2>1 DEF Execute, LockKey, FindNothing, FindReplay, FindReused, Reply, Statement,
                  Rollback, database
    <2>2. CASE CreateWatchIntent(c)
      BY <2>2 DEF CreateWatchIntent, LockDomain, ExpireActiveIntent, FindCurrentOffer,
                  FindViewing, FindActiveIntent, AlreadyWatched, ActiveReused,
                  Statement, Rollback, database
    <2>3. CASE Confirm(c)
      BY <2>3 DEF Confirm, LockIntent, FindExisting, Statement, Rollback, database
    <2> QED
      BY <2>1, <2>2, <2>3 DEF Progress
  <1> QED
    BY <1>2, <1>3, <1>4, <1>5, <1>6, <1>7

(* The scheduler's commit follows the arrows: it asks, and lets expire, by a clock
   that has only gone on since. *)
LEMMA AdvanceLifecycle ==
  ASSUME IInv, TimeInv, AdvanceDue, NEW i \in Intents
  PROVE  LifecycleStep(i)
  <1> USE DEF IInv
  <1>0. /\ clock \in Nat /\ sched.now \in Nat /\ sched.now <= clock
        /\ intent[i].clickedAt \in Nat /\ Due \in Nat /\ Expiry \in Nat
    BY TimeAssumption DEF TypeOK, Row, TimeInv
  <1>1. CASE i \in DueRows
    <2>1. <<intent[i].status, "CONFIRMATION_PENDING">> \in Arrows /\ intent[i].revision = 1
      BY <1>1 DEF DueRows, Arrows, DocumentedArrows, RevisionInv
    <2>2. intent[i].clickedAt + Due <= sched.now
      BY <1>1 DEF DueRows, DueAt
    <2>3. InTime(i, "CONFIRMATION_PENDING")
      BY <1>0, <2>2 DEF InTime
    <2> QED
      BY <1>1, <2>1, <2>3, AdvanceDueRows DEF LifecycleStep
  <1>2. CASE i \notin DueRows /\ i \in sched.expired
    <2>1. <<intent[i].status, "EXPIRED">> \in Arrows
      BY <1>2 DEF RowsInv, Active, ActiveStatus, Arrows, DocumentedArrows, TerminalStatus
    <2>2. intent[i].clickedAt + Expiry <= sched.now
      BY <1>2 DEF TimeInv, ExpiredAt
    <2>3. InTime(i, "EXPIRED")
      BY <1>0, <2>2 DEF InTime, ExpiredAt
    <2> QED
      BY <1>2, <2>1, <2>3, AdvanceDueRows DEF LifecycleStep
  <1>3. CASE i \notin DueRows /\ i \notin sched.expired
    BY <1>3, AdvanceDueRows DEF LifecycleStep
  <1> QED
    BY <1>1, <1>2, <1>3

(* Every step follows the arrows. *)
LEMMA NextLifecycle ==
  ASSUME IInv, TimeInv, [Next]_vars, NEW i \in Intents
  PROVE  LifecycleStep(i)
  <1>1. CASE intent' = intent
    BY <1>1 DEF LifecycleStep
  <1>2. CASE \E c \in Clients : Progress(c)
    BY <1>2, ClientLifecycle
  <1>3. CASE AdvanceDue
    BY <1>3, AdvanceLifecycle
  <1> QED
    BY <1>1, <1>2, <1>3
       DEF Next, Tick, AdvanceWatchIntents, AdvanceStart, AdvanceExpire, AdvanceAbort,
           SendCreate, SendConfirm, Send, Abort, Rollback, database, vars

(* The window of a row in use stays, so what has become of time stays too. *)
LEMMA WindowStays ==
  ASSUME IInv, TimeInv, [Next]_vars, NEW i \in Intents, Active(i)
  PROVE  /\ intent'[i].clickedAt = intent[i].clickedAt
         /\ ExpiredAt(i, clock) => ExpiredAt(i, clock)'
         /\ intent[i].clickedAt + Due <= clock => intent'[i].clickedAt + Due <= clock'
         /\ \A now \in Nat : ExpiredAt(i, now) => intent'[i].clickedAt + Expiry <= now
  <1>1. intent'[i].clickedAt = intent[i].clickedAt
    BY NextLifecycle DEF LifecycleStep, Active, ActiveStatus, Absent
  <1>2. intent[i].clickedAt \in Nat /\ Due \in Nat /\ Expiry \in Nat
    BY TimeAssumption DEF IInv, TypeOK, Row
  <1> QED
    BY <1>1, <1>2, ClockMoves DEF ExpiredAt

(* The rows that a step adds to what a transaction will expire are overdue. *)
LEMMA NewlyExpired ==
  ASSUME IInv, [Next]_vars, NEW c \in Clients, NEW i \in tx'[c].expired
  PROVE  i \in tx[c].expired \/ (i \in Intents /\ Active(i) /\ ExpiredAt(i, clock))
  <1> USE DEF IInv, TypeOK
  <1>1. CASE tx'[c] = tx[c]
    BY <1>1
  <1>2. CASE SendCreate(c) \/ SendConfirm(c)
    <2>1. tx'[c].expired = {}
      BY <1>2 DEF SendCreate, SendConfirm, Send, NoTx
    <2> QED
      BY <2>1
  <1>3. CASE Abort(c)
    BY <1>3 DEF Abort, Rollback, NoTx
  <1>4. CASE ExpireActiveIntent(c)
    BY <1>4 DEF ExpireActiveIntent
  <1>5. CASE Progress(c) /\ ~ExpireActiveIntent(c)
    <2>1. tx'[c].expired = tx[c].expired \/ tx'[c].expired = {}
      <3>1. CASE Execute(c)
        BY <3>1 DEF Execute, LockKey, FindNothing, FindReplay, FindReused, Reply, Statement,
                    Rollback, NoTx
      <3>2. CASE LockDomain(c) \/ FindCurrentOffer(c)
        BY <3>2 DEF LockDomain, FindCurrentOffer, Statement, Rollback, NoTx
      <3>3. CASE FindViewing(c) \/ FindActiveIntent(c)
        BY <3>3 DEF FindViewing, FindActiveIntent, Tx
      <3>4. ASSUME NEW outcome, NEW n, Commit(c, outcome, n) PROVE tx'[c].expired = {}
        BY <3>4 DEF Commit, NoTx
      <3>5. CASE AlreadyWatched(c) \/ ActiveReused(c) \/ InsertIntent(c)
                 \/ ConfirmWatched(c) \/ ConfirmNotWatched(c)
        BY <3>4, <3>5 DEF AlreadyWatched, ActiveReused, InsertIntent, ConfirmWatched,
                          ConfirmNotWatched
      <3>6. CASE LockIntent(c) \/ FindExisting(c)
        BY <3>6 DEF LockIntent, FindExisting, Rollback, NoTx, Tx
      <3> QED
        BY <1>5, <3>1, <3>2, <3>3, <3>5, <3>6 DEF Progress, CreateWatchIntent, Confirm
    <2> QED
      BY <2>1
  <1> QED
    BY <1>1, <1>2, <1>3, <1>4, <1>5, OwnTransaction

(* A confirmation goes on with the row it has locked, which it found due. *)
LEMMA NewlyConfirmed ==
  ASSUME IInv, [Next]_vars, NEW c \in Clients, pc'[c] \in {"existing", "confirm"}
  PROVE  /\ tx'[c].body = tx[c].body
         /\ \/ pc[c] \in {"existing", "confirm"}
            \/ /\ tx[c].body.intent \in Intents /\ Active(tx[c].body.intent)
               /\ intent[tx[c].body.intent].clickedAt + Due <= clock
  <1> USE DEF IInv, TypeOK
  <1>1. CASE pc'[c] = pc[c] /\ tx'[c] = tx[c]
    BY <1>1
  <1>2. CASE SendCreate(c) \/ SendConfirm(c) \/ Abort(c)
    BY <1>2 DEF SendCreate, SendConfirm, Send, Abort, Rollback, Goto
  <1>3. CASE LockIntent(c)
    <2>1. tx[c].body \in ConfirmBody /\ pc[c] = "intent"
      BY <1>3 DEF LockIntent, RequestInv, ConfirmStep
    <2>2. pc'[c] = "existing"
      BY <1>3 DEF LockIntent, Statement, Rollback, Goto
    <2>3. Confirmable(tx[c].body.intent, tx[c].body) /\ tx'[c].body = tx[c].body
      BY <1>3, <2>2 DEF LockIntent, Rollback, Goto, Tx
    <2> QED
      BY <2>1, <2>3 DEF ConfirmBody, Confirmable, DueAt
  <1>4. CASE FindExisting(c)
    BY <1>4 DEF FindExisting, Tx
  <1>5. CASE Progress(c) /\ ~LockIntent(c) /\ ~FindExisting(c)
    BY <1>5 DEF Progress, Execute, LockKey, FindNothing, FindReplay, FindReused, Reply,
             CreateWatchIntent, LockDomain, ExpireActiveIntent, FindCurrentOffer, FindViewing,
             FindActiveIntent, AlreadyWatched, ActiveReused, InsertIntent, Confirm,
             ConfirmWatched, ConfirmNotWatched, Commit, Statement, Rollback, Goto, FirstStep
  <1> QED
    BY <1>1, <1>2, <1>3, <1>4, <1>5, OwnTransaction

(* Every step preserves what transactions know of time. *)
LEMMA NextTime == ASSUME IInv, TimeInv, [Next]_vars PROVE TimeInv'
  <1>1. ASSUME NEW c \in Clients, NEW i \in tx'[c].expired PROVE ExpiredAt(i, clock)'
    <2>1. i \in Intents /\ Active(i) /\ ExpiredAt(i, clock)
      BY <1>1, NewlyExpired DEF TimeInv, IInv, TypeOK, Tx, StepInv, RowsInv
    <2> QED
      BY <2>1, WindowStays
  <1>2. ASSUME NEW c \in Clients, pc'[c] \in {"existing", "confirm"}
        PROVE  (intent[tx[c].body.intent].clickedAt + Due <= clock)'
    <2> DEFINE n == tx[c].body.intent
    <2>1. tx'[c].body = tx[c].body /\ n \in Intents /\ Active(n)
          /\ intent[n].clickedAt + Due <= clock
      BY <1>2, NewlyConfirmed, ConfirmedRow DEF TimeInv
    <2> QED
      BY <2>1, WindowStays
  <1>3. sched.now \in Nat /\ sched.now <= clock /\ \A i \in sched.expired :
          i \in Intents /\ Active(i) /\ ExpiredAt(i, sched.now)
    BY DEF TimeInv, IInv, TypeOK, RowsInv
  <1>4. \/ UNCHANGED sched
        \/ sched'.now = clock /\ sched'.expired = {}
        \/ sched'.now = 0 /\ sched'.expired = {}
        \/ /\ sched'.now = sched.now
           /\ sched'.expired = {i \in Intents : Active(i) /\ ExpiredAt(i, sched.now)}
    <2>1. ASSUME NEW c \in Clients, Progress(c) PROVE UNCHANGED sched
      BY <2>1 DEF Progress, Execute, LockKey, FindNothing, FindReplay, FindReused, Reply,
             CreateWatchIntent, LockDomain, ExpireActiveIntent, FindCurrentOffer, FindViewing,
             FindActiveIntent, AlreadyWatched, ActiveReused, InsertIntent, Confirm,
             LockIntent, FindExisting, ConfirmWatched, ConfirmNotWatched, Commit, Statement,
             Rollback
    <2>2. CASE AdvanceStart
      BY <2>2 DEF AdvanceStart, IInv, TypeOK, StepInv
    <2>3. CASE AdvanceExpire
      BY <2>3 DEF AdvanceExpire, IInv, TypeOK
    <2>4. CASE AdvanceDue \/ AdvanceAbort
      <3>1. sched' = [pc |-> "idle", now |-> 0, expired |-> {}]
        BY <2>4, AdvanceDueRows DEF AdvanceAbort
      <3> QED
        BY <3>1
    <2>5. CASE UNCHANGED sched
      BY <2>5
    <2> QED
      BY <2>1, <2>2, <2>3, <2>4, <2>5
         DEF Next, Tick, AdvanceWatchIntents, SendCreate, SendConfirm, Send, Abort, Rollback, vars
  <1>5. sched'.now \in Nat /\ sched'.now <= clock'
    BY <1>3, <1>4, ClockMoves
  <1>6. ASSUME NEW i \in sched'.expired PROVE ExpiredAt(i, sched.now)'
    <2>1. /\ sched'.now = sched.now /\ i \in Intents /\ Active(i)
          /\ ExpiredAt(i, sched.now)
      BY <1>3, <1>4, <1>6
    <2> QED
      BY <1>3, <2>1, WindowStays DEF ExpiredAt
  <1> QED
    BY <1>1, <1>2, <1>5, <1>6 DEF TimeInv

(* Whatever clients, scheduler and crashes do, an intent follows the arrows of
   the code, in time. *)
THEOREM IntentsFollowArrows == Spec => IntentLifecycle
  <1>1. Init => TimeInv
    BY DEF Init, TimeInv, NoTx
  <1>2. IInv /\ TimeInv /\ [Next]_vars => TimeInv'
    BY NextTime
  <1>3. IInv /\ TimeInv /\ [Next]_vars => [\A i \in Intents : LifecycleStep(i)]_vars
    BY NextLifecycle
  <1> QED
    BY <1>1, <1>2, <1>3, Inductive, PTL DEF Spec, IntentLifecycle

-----------------------------------------------------------------------------
(* The refinement of ExactlyOnce. *)

(* A commit is the abstract Execute of its key. *)
LEMMA CommitExecutes ==
  ASSUME IInv, NEW c \in Clients, NEW outcome \in Outcome, NEW i \in Intents,
         tx[c].body \in Body, pc[c] \in {"insert", "confirm"}, Commit(c, outcome, i)
  PROVE  Once!Next
  <1> DEFINE k == tx[c].key
             r == [body |-> tx[c].body, outcome |-> outcome, intent |-> i]
  <1>1. k \in Keys /\ r \in Response
    BY DEF IInv, RequestInv, Response
  <1>2. Once!Execute(k, r)
    BY DEF Commit, Once!Execute
  <1> QED
    BY <1>1, <1>2 DEF Once!Next

(* Every step of a request is a step of ExactlyOnce or changes none of its variables. *)
LEMMA ProgressOnce ==
  ASSUME IInv, NEW c \in Clients, Progress(c)
  PROVE  Once!Next \/ UNCHANGED Once!vars
  <1> USE DEF IInv
  <1>1. CASE Reply(c)
    <2>1. tx[c].key \in Keys /\ records[tx[c].key] # None
      BY <1>1 DEF Reply, RequestInv, RecordInv
    <2>2. Once!Answer(tx[c].key)
      BY <1>1, <2>1 DEF Reply, Once!Answer, database
    <2> QED
      BY <2>1, <2>2 DEF Once!Next
  <1>2. CASE AlreadyWatched(c) \/ ActiveReused(c) \/ InsertIntent(c)
    <2>1. /\ pc[c] = "insert" /\ tx[c].body \in Body
          /\ {"ALREADY_WATCHED", "ACTIVE_REUSED", "CREATED"} \subseteq Outcome
      BY <1>2 DEF AlreadyWatched, ActiveReused, InsertIntent, RequestInv, CreateStep, Body, Outcome
    <2>2. tx[c].viewed \in Intents \union {None} /\ Reused(c) \subseteq Intents
      BY DEF TypeOK, Tx, Reused
    <2>3. \E outcome \in Outcome, i \in Intents : Commit(c, outcome, i)
      BY <1>2, <2>1, <2>2 DEF AlreadyWatched, ActiveReused, InsertIntent
    <2> QED
      BY <2>1, <2>3, CommitExecutes
  <1>3. CASE ConfirmWatched(c) \/ ConfirmNotWatched(c)
    <2>1. pc[c] = "confirm"
      BY <1>3 DEF ConfirmWatched, ConfirmNotWatched
    <2>2. /\ tx[c].body \in Body /\ tx[c].body.intent \in Intents
          /\ {"CONFIRMED_WATCHED", "CONFIRMED_NOT_WATCHED"} \subseteq Outcome
      BY <2>1, ConfirmRows DEF Outcome
    <2>3. \E outcome \in Outcome, i \in Intents : Commit(c, outcome, i)
      BY <1>3, <2>2 DEF ConfirmWatched, ConfirmNotWatched
    <2> QED
      BY <2>1, <2>2, <2>3, CommitExecutes
  <1>4. \/ UNCHANGED <<records, journal, answers>> \/ Reply(c)
        \/ AlreadyWatched(c) \/ ActiveReused(c) \/ InsertIntent(c)
        \/ ConfirmWatched(c) \/ ConfirmNotWatched(c)
    <2>1. CASE Execute(c)
      BY <2>1 DEF Execute, LockKey, FindNothing, FindReplay, FindReused, Statement,
                  Rollback, database
    <2>2. CASE CreateWatchIntent(c)
      BY <2>2 DEF CreateWatchIntent, LockDomain, ExpireActiveIntent, FindCurrentOffer,
                  FindViewing, FindActiveIntent, Statement, Rollback, database
    <2>3. CASE Confirm(c)
      BY <2>3 DEF Confirm, LockIntent, FindExisting, Statement, Rollback, database
    <2> QED
      BY <2>1, <2>2, <2>3 DEF Progress
  <1> QED
    BY <1>1, <1>2, <1>3, <1>4 DEF Once!vars

(* The transactions of WatchIntent, with their locks, retries and crashes,
   implement ExactlyOnce. *)
THEOREM ImplementsExactlyOnce == Spec => ExactlyOncePerKey
  <1>1. Init => Once!Init
    BY DEF Init, Once!Init
  <1>2. ASSUME IInv, [Next]_vars PROVE Once!Next \/ UNCHANGED Once!vars
    <2>1. CASE UNCHANGED <<records, journal, answers>>
      BY <2>1 DEF Once!vars
    <2>2. CASE \E c \in Clients : Progress(c)
      BY <1>2, <2>2, ProgressOnce
    <2> QED
      BY <1>2, <2>1, <2>2
         DEF Next, Tick, AdvanceWatchIntents, AdvanceStart, AdvanceExpire, AdvanceDue,
             AdvanceAbort, SendCreate, SendConfirm, Send, Abort, Rollback, database, vars
  <1>3. IInv /\ [Next]_vars => [Once!Next]_(Once!vars)
    BY <1>2
  <1> QED
    BY <1>1, <1>3, Inductive, PTL DEF Spec, ExactlyOncePerKey, Once!Spec

-----------------------------------------------------------------------------
(* What ExactlyOnce promises, and what a caller gets of it. *)

(* The answers a caller has been given for a key are all the same, are the
   stored one, and the mutation behind them has left one journal entry. *)
AnsweredOnce(k) == /\ answers[k] \subseteq {records[k]} \ {None}
                   /\ journal[k] = IF records[k] = None THEN 0 ELSE 1

(* The types of ExactlyOnce. *)
OnceTypes == /\ records \in [Keys -> Response \union {None}]
             /\ journal \in [Keys -> Nat]
             /\ answers \in [Keys -> SUBSET Response]

OnceInv == OnceTypes /\ \A k \in Keys : AnsweredOnce(k)

(* Each step of ExactlyOnce keeps the promise. *)
LEMMA OnceStep == ASSUME OnceInv, Once!Next PROVE OnceInv'
  <1> USE DEF OnceInv, OnceTypes, AnsweredOnce
  <1>1. PICK k \in Keys : Once!Answer(k) \/ \E r \in Response : Once!Execute(k, r)
    BY DEF Once!Next
  <1>2. CASE Once!Answer(k)
    BY <1>2 DEF Once!Answer
  <1>3. ASSUME NEW r \in Response, Once!Execute(k, r) PROVE OnceInv'
    <2>1. r # None /\ records[k] = None /\ answers[k] = {}
      BY <1>3, NoneAssumption DEF Once!Execute
    <2>2. OnceTypes'
      BY <1>3 DEF Once!Execute
    <2>3. ASSUME NEW j \in Keys PROVE AnsweredOnce(j)'
      BY <1>3, <2>1 DEF Once!Execute
    <2> QED
      BY <2>2, <2>3
  <1> QED
    BY <1>1, <1>2, <1>3

(* However often a request is retried, with the same key and concurrently, its
   callers are given one answer and the journal holds one entry: a consequence
   of the abstract specification alone. *)
THEOREM OneAnswerPerKey == Spec => [](\A k \in Keys : AnsweredOnce(k))
  <1>1. Once!Init => OnceInv
    BY NoneAssumption DEF Once!Init, OnceInv, OnceTypes, AnsweredOnce
  <1>2. OnceInv /\ [Once!Next]_(Once!vars) => OnceInv'
    <2>1. CASE UNCHANGED Once!vars
      BY <2>1 DEF Once!vars, OnceInv, OnceTypes, AnsweredOnce
    <2> QED
      BY <2>1, OnceStep
  <1>3. OnceInv => \A k \in Keys : AnsweredOnce(k)
    BY DEF OnceInv
  <1> QED
    BY <1>1, <1>2, <1>3, ImplementsExactlyOnce, PTL DEF ExactlyOncePerKey, Once!Spec

-----------------------------------------------------------------------------
(* What is left of BR-C1-028, "once there is a viewing record, a click opens *)
(* no new intent", which a run refutes: at most one click breaks it.         *)

(* A click that has read viewing_record too early. *)
Stray(c) == pc[c] \in {"active", "insert"} /\ tx[c].viewed = None /\ viewing # None

(* A viewing record stays: there is no second one, and none is withdrawn. *)
LEMMA ViewingStays ==
  ASSUME IInv, viewing # None, [Next]_vars
  PROVE  viewing' # None
  <1>1. ASSUME NEW c \in Clients, Progress(c) PROVE viewing' = viewing
    <2>1. CASE ConfirmWatched(c)
      BY <2>1 DEF ConfirmWatched, IInv, ReadInv
    <2>2. CASE UNCHANGED viewing
      BY <2>2
    <2> QED
      BY <1>1, <2>1, <2>2
         DEF Progress, Execute, LockKey, FindNothing, FindReplay, FindReused, Reply,
             CreateWatchIntent, LockDomain, ExpireActiveIntent, FindCurrentOffer, FindViewing,
             FindActiveIntent, AlreadyWatched, ActiveReused, InsertIntent, Confirm,
             LockIntent, FindExisting, ConfirmNotWatched, Statement, Rollback, database
  <1>2. UNCHANGED viewing \/ \E c \in Clients : Progress(c)
    BY DEF Next, Tick, AdvanceWatchIntents, AdvanceStart, AdvanceExpire, AdvanceDue,
           AdvanceAbort, SendCreate, SendConfirm, Send, Abort, Rollback, database, vars
  <1> QED
    BY <1>1, <1>2

(* No click goes astray once there is a viewing record to read. *)
LEMMA NoNewStray ==
  ASSUME IInv, viewing # None, [Next]_vars, NEW d \in Clients, Stray(d)'
  PROVE  Stray(d)
  <1> USE DEF IInv, TypeOK
  <1>1. CASE pc'[d] = pc[d] /\ tx'[d] = tx[d]
    BY <1>1 DEF Stray
  <1>2. pc'[d] \in {"active", "insert"} /\ tx'[d].viewed = None
    BY DEF Stray
  <1>3. CASE FindActiveIntent(d)
    BY <1>2, <1>3 DEF FindActiveIntent, Statement, Goto, Stray
  <1>4. CASE FindViewing(d)
    <2>1. tx'[d].viewed = viewing
      BY <1>4 DEF FindViewing, Tx
    <2> QED
      BY <1>2, <2>1
  <1>5. CASE SendCreate(d) \/ SendConfirm(d) \/ Abort(d) \/ Execute(d)
    <2>1. pc'[d] \in {"idle", "key", "find", "domain", "intent", "reply"}
      BY <1>5 DEF SendCreate, SendConfirm, Send, Abort, Rollback, Execute, LockKey, FindNothing,
                  FirstStep, FindReplay, FindReused, Reply, Statement, Goto
    <2> QED
      BY <1>2, <2>1
  <1>6. CASE Confirm(d)
    <2>1. pc'[d] \in {"idle", "existing", "confirm", "reply"}
      BY <1>6 DEF Confirm, LockIntent, FindExisting, ConfirmWatched, ConfirmNotWatched, Commit,
                  Rollback, Statement, Goto
    <2> QED
      BY <1>2, <2>1
  <1>7. CASE CreateWatchIntent(d) /\ ~FindActiveIntent(d) /\ ~FindViewing(d)
    <2>1. pc'[d] \in {"idle", "expire", "offer", "viewing", "reply"}
      BY <1>7 DEF CreateWatchIntent, LockDomain, ExpireActiveIntent, FindCurrentOffer,
                  AlreadyWatched, ActiveReused, InsertIntent, Commit, Rollback,
                  Statement, Goto
    <2> QED
      BY <1>2, <2>1
  <1> QED
    BY <1>1, <1>3, <1>4, <1>5, <1>6, <1>7, OwnTransaction DEF Progress

(* Only a click opens an intent, one intent, and its request is then over. *)
LEMMA OnlyClicksOpen ==
  ASSUME IInv, [Next]_vars, NEW i \in Intents, intent[i].status = Absent,
         intent'[i].status # Absent
  PROVE  \E c \in Clients : /\ pc[c] = "insert" /\ tx[c].viewed = None /\ pc'[c] = "reply"
                            /\ \A j \in Intents \ {i} : intent[j].status = Absent
                                                        => intent'[j].status = Absent
  <1> USE DEF IInv
  <1>1. ~Active(i)
    BY DEF Active, ActiveStatus, Absent
  <1>2. \A c \in Clients : tx[c].expired \in SUBSET Intents /\ i \notin tx[c].expired
    BY <1>1 DEF TypeOK, Tx, StepInv, RowsInv
  <1>3. ASSUME NEW c \in Clients, intent' = Ending(tx[c].expired, "EXPIRED") PROVE FALSE
    BY <1>2, <1>3 DEF Ending
  <1>4. ASSUME NEW c \in Clients, ConfirmWatched(c) \/ ConfirmNotWatched(c) PROVE FALSE
    BY <1>1, <1>4, ConfirmRows DEF ConfirmWatched, ConfirmNotWatched, Ending
  <1>5. ASSUME AdvanceDue PROVE FALSE
    <2>1. i \notin DueRows /\ i \notin sched.expired
      BY <1>1 DEF DueRows, RowsInv, Absent
    <2> QED
      BY <1>5, <2>1, AdvanceDueRows
  <1>6. PICK c \in Clients : Progress(c) /\ intent' # intent
    BY <1>5 DEF Next, Tick, AdvanceWatchIntents, AdvanceStart, AdvanceExpire,
                AdvanceAbort, SendCreate, SendConfirm, Send, Abort, Rollback, database, vars
  <1>7. InsertIntent(c)
    BY <1>3, <1>4, <1>6
       DEF Progress, Execute, LockKey, FindNothing, FindReplay, FindReused, Reply,
           CreateWatchIntent, LockDomain, ExpireActiveIntent, FindCurrentOffer, FindViewing,
           FindActiveIntent, AlreadyWatched, ActiveReused, Confirm,
           LockIntent, FindExisting, Statement, Rollback, database
  <1>8. pc[c] = "insert" /\ tx[c].viewed = None /\ pc'[c] = "reply"
    BY <1>7 DEF InsertIntent, Commit, Goto, TypeOK
  <1>9. ASSUME NEW j \in Intents \ {i}, intent[j].status = Absent PROVE intent'[j].status = Absent
    <2> DEFINE new == [status |-> "LINK_CLICKED", clickedAt |-> clock, revision |-> 1]
               ended == Ending(tx[c].expired, "EXPIRED")
    <2>1. PICK n \in Intents : intent' = [ended EXCEPT ![n] = new]
      BY <1>7 DEF InsertIntent
    <2>2. j \notin tx[c].expired
      BY <1>9 DEF TypeOK, Tx, StepInv, RowsInv, Active, ActiveStatus, Absent
    <2>3. DOMAIN ended = Intents /\ ended[i] = intent[i] /\ ended[j] = intent[j]
      BY <1>2, <2>2 DEF Ending
    <2> HIDE DEF ended, new
    <2>4. n = i
      BY <2>1, <2>3
    <2> QED
      BY <1>9, <2>1, <2>3, <2>4
  <1> QED
    BY <1>8, <1>9

(* When there is a viewing record, of any two intents not yet opened at least
   one is never opened: the click that read viewing_record before it was there
   held the lock of the pair, and every later click reads what is there. *)
THEOREM OneStrayIntent ==
  ASSUME NEW i \in Intents, NEW j \in Intents, i # j
  PROVE  Spec => [](viewing # None /\ intent[i].status = Absent /\ intent[j].status = Absent
                      => [](intent[i].status = Absent \/ intent[j].status = Absent))
  <1> DEFINE P == viewing # None /\ intent[i].status = Absent /\ intent[j].status = Absent
             Q == intent[i].status = Absent \/ intent[j].status = Absent
             J == viewing # None /\ Q /\ (P \/ \A c \in Clients : ~Stray(c))
  <1>1. (P => J) /\ (J => Q)
    OBVIOUS
  <1>2. ASSUME IInv, J, [Next]_vars PROVE J'
    <2>1. viewing' # None
      BY <1>2, ViewingStays
    <2>2. CASE \A c \in Clients : ~Stray(c)
      <3>1. \A c \in Clients : ~Stray(c)'
        BY <1>2, <2>2, NoNewStray
      <3>2. ASSUME NEW n \in {i, j}, intent[n].status = Absent PROVE intent'[n].status = Absent
        <4> SUFFICES ASSUME intent'[n].status # Absent PROVE FALSE
          OBVIOUS
        <4>1. PICK c \in Clients : pc[c] = "insert" /\ tx[c].viewed = None
          BY <1>2, <3>2, OnlyClicksOpen
        <4> QED
          BY <1>2, <2>2, <4>1 DEF Stray
      <3> QED
        BY <1>2, <2>1, <3>1, <3>2
    <2>3. CASE P /\ intent'[i].status = Absent /\ intent'[j].status = Absent
      BY <2>1, <2>3
    <2>4. ASSUME P, NEW n \in {i, j}, NEW m \in {i, j}, n # m, intent'[n].status # Absent
          PROVE  J'
      <3>1. PICK c \in Clients : /\ pc[c] = "insert" /\ tx[c].viewed = None /\ pc'[c] = "reply"
                                 /\ intent[m].status = Absent => intent'[m].status = Absent
        BY <1>2, <2>4, OnlyClicksOpen
      <3>2. intent'[m].status = Absent
        BY <2>4, <3>1
      <3>3. ASSUME NEW d \in Clients, Stray(d)' PROVE FALSE
        <4>1. Stray(d)
          BY <1>2, <3>3, NoNewStray
        <4>2. d = c
          BY <1>2, <3>1, <4>1 DEF Stray, IInv, LockInv, DomainHeld, CreateStep
        <4> QED
          BY <3>1, <3>3, <4>2 DEF Stray
      <3> QED
        BY <2>1, <2>4, <3>2, <3>3
    <2> QED
      BY <1>2, <2>2, <2>3, <2>4
  <1> HIDE DEF P, Q, J
  <1>3. IInv /\ J /\ [Next]_vars => J'
    BY <1>2
  <1>4. Spec => [](P => []Q)
    BY <1>1, <1>3, Inductive, PTL DEF Spec
  <1> QED
    BY <1>4 DEF P, Q
=============================================================================
