---------------------------- MODULE IntentLocks ----------------------------
(***************************************************************************)
(* Who waits for whom in watch_intent.  WatchIntent is about one user and  *)
(* one movie and one scheduler; here are many pairs, and a scheduler in    *)
(* each process of the service, whose two UPDATEs lock one row after       *)
(* another in an order that no ORDER BY says.                              *)
(*                                                                         *)
(* Only what locks and waits is left of a request: its idempotency key,    *)
(* its pair and its row.  A statement that finds a row locked waits for    *)
(* that row, and then holds its lock even if the row no longer matches     *)
(* (READ COMMITTED looks at the new version under the lock).               *)
(***************************************************************************)
EXTENDS Naturals, FiniteSets

CONSTANTS Requests,      \* HTTP requests in progress at a time
          Schedulers,    \* instances of WatchIntentScheduler, one for a process
          Keys,          \* idempotency keys
          Pairs,         \* a user and a movie
          Intents,       \* watch_intent ids (bound: clicks that insert a row)
          PairOf,        \* the pair of an id
          None           \* no transaction, nothing wanted

Transactions == Requests \union Schedulers
Lockable     == Keys \union Pairs \union Intents

ASSUME TransactionsAssumption == Requests \intersect Schedulers = {} /\ None \notin Transactions
ASSUME LockableAssumption ==
  /\ Keys \intersect Pairs = {} /\ Keys \intersect Intents = {} /\ Pairs \intersect Intents = {}
  /\ None \notin Lockable
ASSUME PairOfAssumption == PairOf \in [Intents -> Pairs]

VARIABLES
  status,   \* watch_intent.status, committed; the three terminal ones are one
  age,      \* what the clock has passed of a row: confirmation_due_at, expires_at
  locks,    \* advisory locks of keys and pairs, row locks of intents
  req,      \* the transaction of each request
  sched     \* the transaction of each scheduler

vars == <<status, age, locks, req, sched>>

Active(i)  == status[i] \in {"LINK_CLICKED", "CONFIRMATION_PENDING"}
Overdue(i) == Active(i) /\ age[i] = "overdue"

(* target: the pair of a click, the intent of a confirmation.  want: what its
   statement locks next.  ends: the row that it ends.  found: the active row
   that a click has locked and reuses. *)
Req == [pc : {"idle", "key", "pair", "expire", "active", "intent", "commit"},
        target : Pairs \union Intents \union {None}, want : Lockable \union {None},
        ends : SUBSET Intents, found : SUBSET Intents]
NoReq == [pc |-> "idle", target |-> None, want |-> None, ends |-> {}, found |-> {}]

(* ripe: the rows that were due, and not yet overdue, at its now.  todo: rows of
   its statement that it has yet to reach after want. *)
Sched == [pc : {"idle", "expire", "due"}, ripe : SUBSET Intents,
          want : Intents \union {None}, todo : SUBSET Intents,
          ends : SUBSET Intents, asks : SUBSET Intents]
NoSched == [pc |-> "idle", ripe |-> {}, want |-> None, todo |-> {}, ends |-> {}, asks |-> {}]

Init == /\ status = [i \in Intents |-> "ABSENT"]
        /\ age = [i \in Intents |-> "fresh"]
        /\ locks = [x \in Lockable |-> None]
        /\ req = [r \in Requests |-> NoReq]
        /\ sched = [s \in Schedulers |-> NoSched]

-----------------------------------------------------------------------------
(* The clock passes confirmation_due_at and then expires_at of an active row. *)
Age(i) == /\ Active(i) /\ age[i] # "overdue"
          /\ age' = [age EXCEPT ![i] = IF @ = "fresh" THEN "due" ELSE "overdue"]
          /\ UNCHANGED <<status, locks, req, sched>>

Free(t, x) == locks[x] \in {None, t}
Lock(t, x) == Free(t, x) /\ locks' = [locks EXCEPT ![x] = t]

(* Fault: a scheduler's transaction stays open after its UPDATEs. *)
ReleasedByRequests(t) == [x \in Lockable |-> IF locks[x] = t /\ t \in Requests THEN None
                                                                            ELSE locks[x]]

(* The locks when transaction t has ended. *)
Released(t) == [x \in Lockable |-> IF locks[x] = t THEN None ELSE locks[x]]

(* A commit that ends some rows and leaves others with a status of their own.
   The age of a row that has ended is of no more interest. *)
Write(t, ends, new) ==
  /\ status' = [i \in Intents |-> IF i \in ends THEN "ENDED" ELSE new[i]]
  /\ age' = [i \in Intents |-> IF i \in ends THEN "fresh" ELSE age[i]]
  /\ locks' = Released(t)

-----------------------------------------------------------------------------
(* Requests. *)

(* A request ends without a change: replayed, refused, failed, crashed. *)
Rollback(r) == /\ req' = [req EXCEPT ![r] = NoReq]
               /\ locks' = Released(r)
               /\ UNCHANGED <<status, age, sched>>

Goto(r, pc, want) == req' = [req EXCEPT ![r].pc = pc, ![r].want = want]

Send(r, k, target) ==
  /\ req[r] = NoReq
  /\ req' = [req EXCEPT ![r] = [NoReq EXCEPT !.pc = "key", !.target = target, !.want = k]]
  /\ UNCHANGED <<status, age, locks, sched>>

SendCreate(r)  == \E k \in Keys, p \in Pairs : Send(r, k, p)
SendConfirm(r) == \E k \in Keys, i \in Intents : status[i] # "ABSENT" /\ Send(r, k, i)

(* C1IdempotencyService.execute: the lock of the key.  If there is a record of
   it, nothing is left to do. *)
LockKey(r) == LET target == req[r].target IN
  /\ req[r].pc = "key"
  /\ \/ /\ Lock(r, req[r].want)
        /\ Goto(r, IF target \in Pairs THEN "pair" ELSE "intent", target)
        /\ UNCHANGED <<status, age, sched>>
     \/ Free(r, req[r].want) /\ Rollback(r)

OfPair(r) == {i \in Intents : PairOf[i] = req[r].target}

(* Fault: a click expires rows of all pairs. *)
AllOverdue(r) == {i \in Intents : Overdue(i)}

(* The rows that expireActiveIntent matches. *)
OverdueOfPair(r) == {i \in OfPair(r) : Overdue(i)}

(* Where findActiveIntentForUpdate goes: to an active row of the pair, other than
   the one that expires, if there is one. *)
ActiveRow(r, ends) ==
  LET active == {i \in OfPair(r) : Active(i)} \ ends IN
  IF active = {} THEN {[pc |-> "commit", want |-> None]}
                 ELSE {[pc |-> "active", want |-> i] : i \in active}

(* createWatchIntent: the lock of the pair, and then expireActiveIntent goes to
   an overdue row or the click looks for an active one at once. *)
LockPair(r) == LET overdue == OverdueOfPair(r) IN
  /\ req[r].pc = "pair"
  /\ Lock(r, req[r].want)
  /\ \/ \E i \in overdue : Goto(r, "expire", i)
     \/ overdue = {} /\ \E at \in ActiveRow(r, {}) : Goto(r, at.pc, at.want)
  /\ UNCHANGED <<status, age, sched>>

(* The row of expireActiveIntent, which may have ended meanwhile. *)
LockExpired(r) ==
  LET i == req[r].want
      ends == IF Overdue(i) THEN {i} ELSE {} IN
  /\ req[r].pc = "expire"
  /\ Lock(r, i)
  /\ \E at \in ActiveRow(r, ends) :
       req' = [req EXCEPT ![r].pc = at.pc, ![r].want = at.want, ![r].ends = ends]
  /\ UNCHANGED <<status, age, sched>>

(* The row of findActiveIntentForUpdate, which may have ended meanwhile. *)
LockActive(r) == LET i == req[r].want IN
  /\ req[r].pc = "active"
  /\ Lock(r, i)
  /\ req' = [req EXCEPT ![r].pc = "commit", ![r].want = None,
                        ![r].found = IF Active(i) THEN {i} ELSE {}]
  /\ UNCHANGED <<status, age, sched>>

(* A new row, unless the click reuses one or the movie has been watched.  That no
   unique index refuses it is shown of WatchIntent. *)
CommitCreate(r) ==
  /\ req[r].pc = "commit" /\ req[r].target \in Pairs
  /\ \/ Write(r, req[r].ends, status)
     \/ \E i \in OfPair(r) : /\ req[r].found = {} /\ status[i] = "ABSENT"
                             /\ Write(r, req[r].ends, [status EXCEPT ![i] = "LINK_CLICKED"])
  /\ req' = [req EXCEPT ![r] = NoReq]
  /\ UNCHANGED sched

(* confirm: SELECT ... FOR UPDATE by id, then the checks. *)
LockIntent(r) == LET i == req[r].want IN
  /\ req[r].pc = "intent"
  /\ \/ /\ Active(i) /\ age[i] = "due"
        /\ Lock(r, i)
        /\ req' = [req EXCEPT ![r].pc = "commit", ![r].want = None, ![r].ends = {i}]
        /\ UNCHANGED <<status, age, sched>>
     \/ Free(r, i) /\ Rollback(r)

CommitConfirm(r) == /\ req[r].pc = "commit" /\ req[r].target \in Intents
                    /\ Write(r, req[r].ends, status)
                    /\ req' = [req EXCEPT ![r] = NoReq]
                    /\ UNCHANGED sched

Advance(r) == \/ LockKey(r) \/ LockPair(r) \/ LockExpired(r) \/ LockActive(r)
              \/ CommitCreate(r) \/ LockIntent(r) \/ CommitConfirm(r)

Abort(r) == req[r].pc # "idle" /\ Rollback(r)

-----------------------------------------------------------------------------
(* C1Service.advanceWatchIntents, of each scheduler. *)

(* A statement goes to one of its rows, in any order. *)
Reach(pc, ripe, rows) ==
  IF rows = {} THEN {[pc |-> pc, ripe |-> ripe, want |-> None, todo |-> {}]}
  ELSE {[pc |-> pc, ripe |-> ripe, want |-> i, todo |-> rows \ {i}] : i \in rows}

(* After the last row of the first UPDATE the second goes to the rows that match
   it.  (A commit between the two could only take rows out of those, and each is
   looked at again under its lock.) *)
GoOn(pc, ripe, rows) ==
  IF pc = "expire" /\ rows = {}
  THEN Reach("due", {}, {i \in ripe : status[i] = "LINK_CLICKED"})
  ELSE Reach(pc, ripe, rows)

(* now(), and the rows that the first UPDATE matches. *)
AdvanceStart(s) ==
  /\ sched[s].pc = "idle"
  /\ \E at \in GoOn("expire", {i \in Intents : status[i] = "LINK_CLICKED" /\ age[i] = "due"},
                   {i \in Intents : Overdue(i)}) :
       sched' = [sched EXCEPT ![s] = [pc |-> at.pc, ripe |-> at.ripe, want |-> at.want,
                                      todo |-> at.todo, ends |-> {}, asks |-> {}]]
  /\ UNCHANGED <<status, age, locks, req>>

(* Fault: only intents nobody was asked about expire. *)
ExpiresUnasked(s, i) == sched[s].pc = "expire" /\ status[i] = "LINK_CLICKED"

(* Fault: a row that the second UPDATE has found is not looked at again. *)
AsksAnyway(s, i) == sched[s].pc = "due"

(* The conditions of the two UPDATEs, looked at again under the lock of the row
   (what the clock had passed at now stays passed). *)
Expires(s, i) == sched[s].pc = "expire" /\ Active(i)
Asks(s, i)    == sched[s].pc = "due" /\ status[i] = "LINK_CLICKED"

(* Either UPDATE gets the lock of a row, and goes to another. *)
TakeRow(s, i) ==
  /\ sched[s].want = i
  /\ Lock(s, i)
  /\ \E at \in GoOn(sched[s].pc, sched[s].ripe, sched[s].todo) :
       sched' = [sched EXCEPT ![s] =
                   [pc |-> at.pc, ripe |-> at.ripe, want |-> at.want, todo |-> at.todo,
                    ends |-> IF Expires(s, i) THEN @.ends \union {i} ELSE @.ends,
                    asks |-> IF Asks(s, i) THEN @.asks \union {i} ELSE @.asks]]
  /\ UNCHANGED <<status, age, req>>

AdvanceCommit(s) ==
  /\ sched[s].pc = "due" /\ sched[s].want = None
  /\ Write(s, sched[s].ends,
           [i \in Intents |-> IF i \in sched[s].asks THEN "CONFIRMATION_PENDING" ELSE status[i]])
  /\ sched' = [sched EXCEPT ![s] = NoSched]
  /\ UNCHANGED req

AdvanceRollback(s) == /\ sched' = [sched EXCEPT ![s] = NoSched]
                      /\ locks' = Released(s)
                      /\ UNCHANGED <<status, age, req>>

AdvanceAbort(s) == sched[s].pc # "idle" /\ AdvanceRollback(s)

AdvanceWatchIntents(s) == \/ AdvanceStart(s) \/ (\E i \in Intents : TakeRow(s, i))
                          \/ AdvanceCommit(s)

-----------------------------------------------------------------------------
(* Transactions that wait. *)

Want(t) == IF t \in Requests THEN req[t].want ELSE sched[t].want

(* The transaction whose lock t waits for. *)
WaitsFor(t, u) == Want(t) # None /\ locks[Want(t)] = u /\ u # t

(* Everyone in S waits for one of S, and is waited for by one of S. *)
Circle(S) == /\ S # {}
             /\ \A t \in S : \E u \in S : WaitsFor(t, u)
             /\ \A u \in S : \E t \in S : WaitsFor(t, u)

(* PostgreSQL finds a circle and aborts one of it; a scheduler that is aborted
   starts anew after its delay. *)
DeadlockVictim(t) == /\ \E S \in SUBSET Transactions : t \in S /\ Circle(S)
                     /\ IF t \in Requests THEN Rollback(t) ELSE AdvanceRollback(t)

Steps == \/ \E i \in Intents : Age(i)
         \/ \E r \in Requests : SendCreate(r) \/ SendConfirm(r) \/ Advance(r) \/ Abort(r)
         \/ \E s \in Schedulers : AdvanceWatchIntents(s)
         \/ \E t \in Transactions : DeadlockVictim(t)

Next == Steps \/ \E s \in Schedulers : AdvanceAbort(s)

Spec == Init /\ [][Next]_vars

(* Statements are executed, schedulers run again and again (fixedDelay), and
   circles are found.  Who waits for a lock gets it in the order of PostgreSQL's
   queue: transactions that come later do not overtake it for ever (strong
   fairness, of each row).  A scheduler that failed for ever would promise
   nothing, so liveness is claimed from the last failure on that is not a
   deadlock. *)
Fairness == /\ \A r \in Requests : SF_vars(Advance(r))
            /\ \A s \in Schedulers : /\ WF_vars(AdvanceWatchIntents(s))
                                     /\ \A i \in Intents : SF_vars(TakeRow(s, i))
            /\ WF_vars(\E t \in Transactions : DeadlockVictim(t))
            /\ <>[][Steps]_vars

LiveSpec == Spec /\ Fairness

-----------------------------------------------------------------------------
(* Properties. *)

(* Every variable holds values of its type. *)
TypeOK == /\ status \in [Intents -> {"ABSENT", "LINK_CLICKED", "CONFIRMATION_PENDING", "ENDED"}]
          /\ age \in [Intents -> {"fresh", "due", "overdue"}]
          /\ locks \in [Lockable -> Transactions \union {None}]
          /\ req \in [Requests -> Req]
          /\ sched \in [Schedulers -> Sched]

(* Requests never make a deadlock, however many pairs, rows and schedulers there
   are: a circle of waiting transactions has schedulers in it and nothing else,
   at least two of them.  So with one process running there is none. *)
CirclesAreOfSchedulers ==
  \A S \in SUBSET Transactions :
    Circle(S) => S \subseteq Schedulers /\ \E s, t \in S : s # t

(* One active intent of a pair: the pair lock keeps the clicks apart, whichever
   rows the schedulers are writing. *)
OneActiveIntent == \A i, j \in Intents : Active(i) /\ Active(j) /\ PairOf[i] = PairOf[j] => i = j

(* An intent that has ended stays so, although several schedulers and requests
   write rows that they found active before they had to wait for them. *)
EndedStays == [][\A i \in Intents : status[i] = "ENDED" => status'[i] = "ENDED"]_vars

(* An intent whose window has closed does not stay active: some scheduler gets to
   it, in spite of the requests in its way and of the other schedulers that it
   makes circles with. *)
OverdueIntentEnds == \A i \in Intents : Overdue(i) ~> ~Active(i)

(* A request does not wait for ever, whatever the schedulers lock, in whatever
   order, and however often they make a circle. *)
RequestsEnd == \A r \in Requests : req[r].pc # "idle" ~> req[r].pc = "idle"
=============================================================================
