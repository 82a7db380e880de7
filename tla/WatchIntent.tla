---------------------------- MODULE WatchIntent ----------------------------
(***************************************************************************)
(* The C1 watch intents of ONE user and ONE movie (every table, unique     *)
(* index and lock of this component is keyed by the pair): a click on an   *)
(* OTT link opens an intent, the user later confirms or denies having      *)
(* watched, a scheduler moves intents along, and everything runs under the *)
(* idempotent transaction of C1IdempotencyService.                         *)
(*                                                                         *)
(* The store is PostgreSQL in READ COMMITTED.  A transaction is a sequence *)
(* of statements, one action each.  A statement reads what is committed    *)
(* and the transaction's own writes; a write stays private to its          *)
(* transaction until the action that commits; an advisory lock and a row   *)
(* lock, once taken, are held until the transaction ends.  A statement     *)
(* that must wait for a lock is an action that is not enabled.             *)
(***************************************************************************)
EXTENDS Naturals, FiniteSets

CONSTANTS Clients,       \* HTTP requests that can be in progress at a time
          CreateKeys,    \* Idempotency-Keys used with CREATE_WATCH_INTENT
          ConfirmKeys,   \* Idempotency-Keys used with CONFIRM_WATCH_INTENT
          Offers,        \* OTT offers of the movie a click can name
          Intents,       \* watch_intent ids (bound: clicks that insert a row)
          Due,           \* confirmation_due_at - clicked_at (48 hours)
          Expiry,        \* expires_at - clicked_at (7 days)
          MaxClock,      \* bound on the clock
          None           \* SQL NULL, no row, no intent

Keys == CreateKeys \union ConfirmKeys

ASSUME KeysAssumption == CreateKeys \intersect ConfirmKeys = {}
ASSUME TimeAssumption == /\ Due \in Nat \ {0} /\ Expiry \in Nat /\ Due < Expiry
                         /\ MaxClock \in Nat

VARIABLES
  clock,       \* the injected Clock
  intent,      \* watch_intent, committed
  viewing,     \* viewing_record of the pair: its source_watch_intent_id, or None
  records,     \* idempotency_record, committed
  journal,     \* per key, committed rows of user_behavior_event/domain_outbox
  answers,     \* per key, the successful answers its callers were given
  pc,          \* per client, the statement its transaction runs next
  tx,          \* per client, the locals and private writes of its transaction
  sched        \* WatchIntentScheduler's transaction

vars == <<clock, intent, viewing, records, journal, answers, pc, tx, sched>>

-----------------------------------------------------------------------------
(* Rows, requests and answers. *)

ActiveStatus   == {"LINK_CLICKED", "CONFIRMATION_PENDING"}
TerminalStatus == {"CONFIRMED_WATCHED", "CONFIRMED_NOT_WATCHED", "EXPIRED"}
Absent         == "ABSENT"                 \* the id has not been used

Row == [status : ActiveStatus \union TerminalStatus \union {Absent},
        clickedAt : Nat, revision : 0..3]

CreateBody  == [offer : Offers]
ConfirmBody == [intent : Intents, watched : BOOLEAN, expected : 1..2]
Body        == CreateBody \union ConfirmBody

Outcome  == {"CREATED", "ACTIVE_REUSED", "ALREADY_WATCHED",
             "CONFIRMED_WATCHED", "CONFIRMED_NOT_WATCHED"}
Response == [body : Body, outcome : Outcome, intent : Intents]

ASSUME NoneAssumption == None \notin Intents /\ None \notin Response

(* Where a transaction stands, in statement order. *)
CreateStep  == {"domain", "expire", "offer", "viewing", "active", "insert"}
ConfirmStep == {"intent", "existing", "confirm"}
KeyHeld     == {"find"} \union CreateStep \union ConfirmStep
DomainHeld  == CreateStep \ {"domain"}

Tx == [key : Keys \union {None}, body : Body \union {None},
       expired : SUBSET Intents,       \* rows this transaction set to EXPIRED
       viewed : Intents \union {None}, \* what it read from viewing_record
       rows : SUBSET Intents]          \* rows it has locked

NoTx == [key |-> None, body |-> None, expired |-> {}, viewed |-> None, rows |-> {}]

Active(i)    == intent[i].status \in ActiveStatus
ExpiredAt(i, now) == intent[i].clickedAt + Expiry <= now
DueAt(i, now)     == /\ intent[i].clickedAt + Due <= now
                     /\ ~ExpiredAt(i, now)

(* A row in a terminal status, and the table with some rows ended like that. *)
Ended(row, status) == [row EXCEPT !.status = status, !.revision = @ + 1]
Ending(rows, status) ==
  [i \in Intents |-> IF i \in rows THEN Ended(intent[i], status) ELSE intent[i]]

(* Rows locked by another client or by the scheduler. *)
LockedByOther(c) == {i \in Intents : \/ \E d \in Clients \ {c} : i \in tx[d].rows
                                     \/ i \in sched.expired}

-----------------------------------------------------------------------------
Init == /\ clock = 0
        /\ intent = [i \in Intents |-> [status |-> Absent, clickedAt |-> 0, revision |-> 0]]
        /\ viewing = None
        /\ records = [k \in Keys |-> None]
        /\ journal = [k \in Keys |-> 0]
        /\ answers = [k \in Keys |-> {}]
        /\ pc = [c \in Clients |-> "idle"]
        /\ tx = [c \in Clients |-> NoTx]
        /\ sched = [pc |-> "idle", now |-> 0, expired |-> {}]

database == <<intent, viewing, records, journal>>

(* Time passes, up to the bound. *)
Tick == /\ clock < MaxClock
        /\ clock' = clock + 1
        /\ UNCHANGED <<database, answers, pc, tx, sched>>

Goto(c, step) == pc' = [pc EXCEPT ![c] = step]

(* The transaction ends without a trace: an exception, a lost connection or a
   crash of the process.  Its writes are private and vanish, its locks free. *)
Rollback(c) == /\ Goto(c, "idle")
               /\ tx' = [tx EXCEPT ![c] = NoTx]
               /\ UNCHANGED <<clock, database, answers, sched>>

(* The same statements after "find" write nothing that others can see. *)
Statement(c, step) == /\ Goto(c, step)
                      /\ UNCHANGED <<clock, database, answers, sched>>

-----------------------------------------------------------------------------
(* C1IdempotencyService.execute. *)

(* A caller sends a request: a new one, a retry of one whose answer was lost,
   or a key it has already used with another body. *)
Send(c, k, body) == /\ pc[c] = "idle"
                    /\ Goto(c, "key")
                    /\ tx' = [tx EXCEPT ![c] = [NoTx EXCEPT !.key = k, !.body = body]]
                    /\ UNCHANGED <<clock, database, answers, sched>>

SendCreate(c) == \E k \in CreateKeys, body \in CreateBody : Send(c, k, body)

SendConfirm(c) == \E k \in ConfirmKeys, body \in ConfirmBody :
                    /\ intent[body.intent].status # Absent
                    /\ Send(c, k, body)

KeyHolders(k) == {d \in Clients : pc[d] \in KeyHeld /\ tx[d].key = k}

LockKey(c) == /\ pc[c] = "key"
              /\ KeyHolders(tx[c].key) = {}
              /\ Statement(c, "find")
              /\ UNCHANGED tx

FirstStep(k) == IF k \in CreateKeys THEN "domain" ELSE "intent"

(* find: run the mutation, replay the stored answer, or refuse the key. *)
FindNothing(c) == /\ pc[c] = "find"
                  /\ records[tx[c].key] = None
                  /\ Statement(c, FirstStep(tx[c].key))
                  /\ UNCHANGED tx

FindReplay(c) == /\ pc[c] = "find"
                 /\ records[tx[c].key] # None
                 /\ records[tx[c].key].body = tx[c].body
                 /\ Statement(c, "reply")
                 /\ UNCHANGED tx

FindReused(c) == /\ pc[c] = "find"
                 /\ records[tx[c].key] # None
                 /\ records[tx[c].key].body # tx[c].body
                 /\ Rollback(c)

(* The end of a mutation: journal.append, the INSERT into idempotency_record,
   whose primary key refuses a second row for the key, and the commit. *)
Commit(c, outcome, i) ==
  /\ records[tx[c].key] = None
  /\ records' = [records EXCEPT ![tx[c].key] =
                   [body |-> tx[c].body, outcome |-> outcome, intent |-> i]]
  /\ journal' = [journal EXCEPT ![tx[c].key] = @ + 1]
  /\ tx' = [tx EXCEPT ![c] = [NoTx EXCEPT !.key = tx[c].key]]
  /\ Goto(c, "reply")
  /\ UNCHANGED <<clock, answers, sched>>

(* The answer reaches the caller; until then a crash can still lose it. *)
Reply(c) == /\ pc[c] = "reply"
            /\ answers' = [answers EXCEPT ![tx[c].key] = @ \union {records[tx[c].key]}]
            /\ Goto(c, "idle")
            /\ tx' = [tx EXCEPT ![c] = NoTx]
            /\ UNCHANGED <<clock, database, sched>>

(* Fault: the journal entry is appended in a transaction of its own. *)
JournalSurvivesAbort(c) ==
  /\ pc[c] # "idle"
  /\ Goto(c, "idle")
  /\ tx' = [tx EXCEPT ![c] = NoTx]
  /\ journal' = IF pc[c] \in {"insert", "confirm"}
                THEN [journal EXCEPT ![tx[c].key] = @ + 1] ELSE journal
  /\ UNCHANGED <<clock, intent, viewing, records, answers, sched>>

Abort(c) == pc[c] # "idle" /\ Rollback(c)

-----------------------------------------------------------------------------
(* C1Service.createWatchIntent. *)

DomainHolders == {d \in Clients : pc[d] \in DomainHeld}

(* Fault: the advisory lock of the pair is not taken. *)
NoDomainLock(c) == pc[c] = "domain" /\ Statement(c, "expire") /\ UNCHANGED tx

LockDomain(c) == /\ pc[c] = "domain"
                 /\ DomainHolders = {}
                 /\ Statement(c, "expire")
                 /\ UNCHANGED tx

(* Fault: the overdue rows are read without locking them and written later. *)
ExpireFromSnapshot(c) ==
  /\ pc[c] = "expire"
  /\ tx' = [tx EXCEPT ![c].expired = {i \in Intents : Active(i) /\ ExpiredAt(i, clock)}]
  /\ Statement(c, "offer")

(* UPDATE ... SET status = 'EXPIRED': waits for a matching row that is locked. *)
ExpireActiveIntent(c) ==
  LET due == {i \in Intents : Active(i) /\ ExpiredAt(i, clock)} IN
  /\ pc[c] = "expire"
  /\ due \intersect LockedByOther(c) = {}
  /\ tx' = [tx EXCEPT ![c].expired = due, ![c].rows = @ \union due]
  /\ Statement(c, "offer")

(* The catalog is not modelled: the offer is served or it is not.  A 404 rolls
   back, the expiry included. *)
FindCurrentOffer(c) == /\ pc[c] = "offer"
                       /\ \/ Statement(c, "viewing") /\ UNCHANGED tx
                          \/ Rollback(c)

FindViewing(c) == /\ pc[c] = "viewing"
                  /\ tx' = [tx EXCEPT ![c].viewed = viewing]
                  /\ Statement(c, "active")

(* SELECT ... FOR UPDATE of the active intent: it waits for the row's lock and
   then looks at the row again. *)
FindActiveIntent(c) ==
  LET found == {i \in Intents : Active(i)} \ tx[c].expired IN
  /\ pc[c] = "active"
  /\ found \intersect LockedByOther(c) = {}
  /\ tx' = [tx EXCEPT ![c].rows = @ \union found]
  /\ Statement(c, "insert")

Reused(c) == tx[c].rows \ tx[c].expired

AlreadyWatched(c) == /\ pc[c] = "insert"
                     /\ tx[c].viewed # None
                     /\ intent' = Ending(tx[c].expired, "EXPIRED")
                     /\ Commit(c, "ALREADY_WATCHED", tx[c].viewed)
                     /\ UNCHANGED viewing

ActiveReused(c) == /\ pc[c] = "insert"
                   /\ tx[c].viewed = None
                   /\ intent' = Ending(tx[c].expired, "EXPIRED")
                   /\ \E i \in Reused(c) : Commit(c, "ACTIVE_REUSED", i)
                   /\ UNCHANGED viewing

(* ux_watch_intent_active_user_movie: the other active rows of the pair. *)
ActiveElsewhere(c) == {i \in Intents : Active(i)} \ tx[c].expired

InsertIntent(c) ==
  /\ pc[c] = "insert"
  /\ tx[c].viewed = None /\ Reused(c) = {}
  /\ ActiveElsewhere(c) = {}
  /\ \E i \in Intents :
       /\ intent[i].status = Absent
       /\ intent' = [Ending(tx[c].expired, "EXPIRED") EXCEPT ![i] =
                       [status |-> "LINK_CLICKED", clickedAt |-> clock, revision |-> 1]]
       /\ Commit(c, "CREATED", i)
  /\ UNCHANGED viewing

(* An INSERT that a unique constraint refuses: all this transaction can still
   do is abort, with an error 500 for its caller. *)
InsertRefused(c) == /\ pc[c] = "insert"
                    /\ \/ records[tx[c].key] # None
                       \/ /\ tx[c].viewed = None /\ Reused(c) = {}
                          /\ ActiveElsewhere(c) # {}

-----------------------------------------------------------------------------
(* C1Service.confirm. *)

Confirmable(i, body) == /\ Active(i) /\ DueAt(i, clock)
                        /\ intent[i].revision = body.expected

(* Fault: a plain SELECT, without FOR UPDATE. *)
ReadIntent(c) == /\ pc[c] = "intent"
                 /\ Confirmable(tx[c].body.intent, tx[c].body)
                 /\ UNCHANGED tx
                 /\ Statement(c, "existing")

(* SELECT ... FOR UPDATE of the intent, then the checks on what it returned. *)
LockIntent(c) == LET i == tx[c].body.intent IN
  /\ pc[c] = "intent"
  /\ i \notin LockedByOther(c)
  /\ \/ /\ Confirmable(i, tx[c].body)
        /\ tx' = [tx EXCEPT ![c].rows = @ \union {i}]
        /\ Statement(c, "existing")
     \/ /\ ~Confirmable(i, tx[c].body)
        /\ Rollback(c)

(* findViewing, for an answer that says the movie was watched. *)
FindExisting(c) == /\ pc[c] = "existing"
                   /\ tx' = [tx EXCEPT ![c].viewed = IF tx[c].body.watched
                                                     THEN viewing ELSE None]
                   /\ Statement(c, "confirm")

ConfirmWatched(c) == LET i == tx[c].body.intent IN
  /\ pc[c] = "confirm" /\ tx[c].body.watched
  /\ tx[c].viewed = None => viewing = None     \* UNIQUE (user_id, movie_id)
  /\ intent' = Ending({i}, "CONFIRMED_WATCHED")
  /\ viewing' = IF tx[c].viewed = None THEN i ELSE viewing
  /\ Commit(c, "CONFIRMED_WATCHED", i)

ConfirmNotWatched(c) == LET i == tx[c].body.intent IN
  /\ pc[c] = "confirm" /\ ~tx[c].body.watched
  /\ intent' = Ending({i}, "CONFIRMED_NOT_WATCHED")
  /\ Commit(c, "CONFIRMED_NOT_WATCHED", i)
  /\ UNCHANGED viewing

ConfirmRefused(c) == /\ pc[c] = "confirm"
                     /\ \/ records[tx[c].key] # None
                        \/ tx[c].body.watched /\ tx[c].viewed = None /\ viewing # None

-----------------------------------------------------------------------------
(* WatchIntentScheduler: C1Service.advanceWatchIntents, one transaction. *)

LockedByClients == {i \in Intents : \E c \in Clients : i \in tx[c].rows}

AdvanceStart == /\ sched.pc = "idle"
                /\ sched' = [sched EXCEPT !.pc = "expire", !.now = clock]
                /\ UNCHANGED <<clock, database, answers, pc, tx>>

(* Fault: the overdue rows are read without locking them and written later. *)
AdvanceExpireFromSnapshot ==
  /\ sched.pc = "expire"
  /\ sched' = [sched EXCEPT !.pc = "due",
                 !.expired = {i \in Intents : Active(i) /\ ExpiredAt(i, sched.now)}]
  /\ UNCHANGED <<clock, database, answers, pc, tx>>

AdvanceExpire == LET due == {i \in Intents : Active(i) /\ ExpiredAt(i, sched.now)} IN
  /\ sched.pc = "expire"
  /\ due \intersect LockedByClients = {}
  /\ sched' = [sched EXCEPT !.pc = "due", !.expired = due]
  /\ UNCHANGED <<clock, database, answers, pc, tx>>

(* Fault: the second UPDATE also matches the rows that are already pending. *)
AdvanceDueAgain == LET due == {i \in Intents : Active(i) /\ DueAt(i, sched.now)} IN
  /\ sched.pc = "due"
  /\ due \intersect LockedByClients = {}
  /\ intent' = [i \in Intents |->
                  IF i \in due
                  THEN [intent[i] EXCEPT !.status = "CONFIRMATION_PENDING", !.revision = @ + 1]
                  ELSE Ending(sched.expired, "EXPIRED")[i]]
  /\ sched' = [pc |-> "idle", now |-> 0, expired |-> {}]
  /\ UNCHANGED <<clock, viewing, records, journal, answers, pc, tx>>

(* The second UPDATE and the commit of both. *)
AdvanceDue == LET due == {i \in Intents : /\ intent[i].status = "LINK_CLICKED"
                                          /\ DueAt(i, sched.now)} IN
  /\ sched.pc = "due"
  /\ due \intersect LockedByClients = {}
  /\ intent' = [i \in Intents |->
                  IF i \in due
                  THEN [intent[i] EXCEPT !.status = "CONFIRMATION_PENDING", !.revision = @ + 1]
                  ELSE Ending(sched.expired, "EXPIRED")[i]]
  /\ sched' = [pc |-> "idle", now |-> 0, expired |-> {}]
  /\ UNCHANGED <<clock, viewing, records, journal, answers, pc, tx>>

AdvanceAbort == /\ sched.pc # "idle"
                /\ sched' = [pc |-> "idle", now |-> 0, expired |-> {}]
                /\ UNCHANGED <<clock, database, answers, pc, tx>>

-----------------------------------------------------------------------------
Execute(c) == LockKey(c) \/ FindNothing(c) \/ FindReplay(c) \/ FindReused(c) \/ Reply(c)

CreateWatchIntent(c) ==
  \/ LockDomain(c) \/ ExpireActiveIntent(c) \/ FindCurrentOffer(c) \/ FindViewing(c)
  \/ FindActiveIntent(c)
  \/ AlreadyWatched(c) \/ ActiveReused(c) \/ InsertIntent(c)

Confirm(c) == \/ LockIntent(c) \/ FindExisting(c)
              \/ ConfirmWatched(c) \/ ConfirmNotWatched(c)

AdvanceWatchIntents == AdvanceStart \/ AdvanceExpire \/ AdvanceDue

Progress(c) == Execute(c) \/ CreateWatchIntent(c) \/ Confirm(c)

Next == \/ Tick
        \/ AdvanceWatchIntents \/ AdvanceAbort
        \/ \E c \in Clients : SendCreate(c) \/ SendConfirm(c) \/ Progress(c) \/ Abort(c)

Spec == Init /\ [][Next]_vars

-----------------------------------------------------------------------------
(* Properties. *)

(* Every variable holds values of its type. *)
TypeOK == /\ clock \in Nat
          /\ intent \in [Intents -> Row]
          /\ viewing \in Intents \union {None}
          /\ records \in [Keys -> Response \union {None}]
          /\ journal \in [Keys -> Nat]
          /\ answers \in [Keys -> SUBSET Response]
          /\ pc \in [Clients -> {"idle", "key", "reply"} \union KeyHeld]
          /\ tx \in [Clients -> Tx]
          /\ sched \in [pc : {"idle", "expire", "due"}, now : Nat, expired : SUBSET Intents]

(* The unique constraints are a second line of defence that is never reached:
   whatever runs concurrently, no INSERT of this component meets one and no
   caller gets the error 500 that it would be. *)
ConstraintsNeverFire == \A c \in Clients : ~InsertRefused(c) /\ ~ConfirmRefused(c)

(* A viewing record exists exactly when some intent was confirmed as watched,
   and its source is such an intent (BR-C1-021, BR-C1-024). *)
ViewingBacked ==
  /\ viewing # None => intent[viewing].status = "CONFIRMED_WATCHED"
  /\ (\E i \in Intents : intent[i].status = "CONFIRMED_WATCHED") => viewing # None

(* What callers were told stays true of the tables: every intent row was
   announced as CREATED under exactly one key, an intent is confirmed exactly
   when one confirmation was answered so, with the same meaning, and nothing
   that expired was ever answered as confirmed. *)
AnswersMatchRows ==
  \A i \in Intents :
    LET told(outcome) == {k \in Keys : /\ records[k] # None
                                       /\ records[k].outcome = outcome
                                       /\ records[k].intent = i}
        count(outcome, status) ==
          Cardinality(told(outcome)) = IF intent[i].status = status THEN 1 ELSE 0
    IN /\ Cardinality(told("CREATED")) = IF intent[i].status = Absent THEN 0 ELSE 1
       /\ count("CONFIRMED_WATCHED", "CONFIRMED_WATCHED")
       /\ count("CONFIRMED_NOT_WATCHED", "CONFIRMED_NOT_WATCHED")

(* The arrows the code lets an intent take.  Those of docs/c1-draft/
   03-state-machines.md, section 1, lines 11-16, and two that are not in the
   diagram: confirm looks at the times of an intent and never at which of the
   active statuses it has, so a due intent that the scheduler has not reached
   yet is confirmed from LINK_CLICKED (see DocumentedLifecycle). *)
DocumentedArrows == ({Absent} \X {"LINK_CLICKED"})
                      \union ({"LINK_CLICKED"} \X {"CONFIRMATION_PENDING", "EXPIRED"})
                      \union ({"CONFIRMATION_PENDING"} \X TerminalStatus)
Arrows == DocumentedArrows
            \union ({"LINK_CLICKED"} \X {"CONFIRMED_WATCHED", "CONFIRMED_NOT_WATCHED"})

(* Only a window that has closed expires, and nobody is asked, or answers,
   before the intent is due. *)
InTime(i, status) ==
  /\ status = "EXPIRED" => ExpiredAt(i, clock)
  /\ status \in {"CONFIRMATION_PENDING", "CONFIRMED_WATCHED", "CONFIRMED_NOT_WATCHED"}
       => intent[i].clickedAt + Due <= clock

LifecycleStep(i) ==
  \/ intent'[i] = intent[i]
  \/ /\ <<intent[i].status, intent'[i].status>> \in Arrows
     /\ InTime(i, intent'[i].status)
     /\ intent'[i].revision = intent[i].revision + 1
     /\ intent[i].status # Absent => intent'[i].clickedAt = intent[i].clickedAt

(* An intent changes only along the arrows of the code, in its time and one
   revision at a time.  No step reactivates a terminal intent, skips a revision,
   restarts a window or ends one early (BR-C1-023, BR-C1-026, BR-C1-027),
   although rows are found, waited for and written in steps that others come
   between. *)
IntentLifecycle == [][\A i \in Intents : LifecycleStep(i)]_vars

(* The component keeps the promise of C1IdempotencyService: each key takes
   effect at most once, with its journal entry, and all its callers are given
   the one stored answer (BR-C1-029). *)
Once == INSTANCE ExactlyOnce WITH Responses <- Response, NoRecord <- None
ExactlyOncePerKey == Once!Spec

(* docs/c1-draft/03-state-machines.md, section 1: an intent takes the arrows of
   the diagram, so nobody confirms one in LINK_CLICKED (line 24: forbidden).
   NOT true of the code, which confirms it once it is due. *)
DocumentedLifecycle ==
  [][\A i \in Intents : intent'[i].status # intent[i].status =>
        <<intent[i].status, intent'[i].status>> \in DocumentedArrows]_vars

(* docs/c1-draft/02-business-rules.md:39 (BR-C1-028): once there is a viewing
   record, a click opens no new intent.  NOT true of the code: the click reads
   viewing_record before it waits for the row of the active intent, so a
   confirmation that commits during that wait is missed. *)
NoIntentOnceWatched ==
  [][viewing # None =>
       \A i \in Intents : intent[i].status = Absent => intent'[i].status = Absent]_vars
=============================================================================
