------------------------- MODULE IntentLocksProofs -------------------------
(***************************************************************************)
(* Requests make no deadlock: for any number of requests, schedulers,      *)
(* keys, pairs and rows, whoever waits in a circle is a scheduler.  And    *)
(* rows that have ended stay so.                                           *)
(*                                                                         *)
(* A request takes its locks in the order key, pair, row, and the pair has *)
(* one active row at most, so a request that holds a row waits for nobody. *)
(***************************************************************************)
EXTENDS IntentLocks, TLAPS

-----------------------------------------------------------------------------
(* The inductive invariant. *)

(* Who may hold the lock of x. *)
Fits(x, t) ==
  \/ t \in Requests /\ x \in Keys /\ req[t].pc \notin {"idle", "key"}
  \/ /\ t \in Requests /\ x \in Pairs /\ x = req[t].target
     /\ req[t].pc \in {"expire", "active", "commit"}
  \/ t \in Requests /\ x \in Intents /\ req[t].pc = "commit"
  \/ t \in Schedulers /\ x \in Intents /\ sched[t].pc # "idle"

LocksFit == \A x \in Lockable : locks[x] # None => Fits(x, locks[x])

(* The rows of a set are locked by t, and active. *)
Keeps(t, rows) == \A i \in rows : locks[i] = t /\ Active(i)

(* Under the lock of its pair a request knows the active rows of it. *)
Knows(r, rows) == /\ req[r].target \in Pairs /\ locks[req[r].target] = r
                  /\ \A i \in OfPair(r) : Active(i) => i \in rows

(* A request before its first row, at the lock of one, and before its commit. *)
Before(r) ==
  /\ req[r].pc # "commit" => req[r].ends = {} /\ req[r].found = {}
  /\ req[r].pc = "idle" => req[r] = NoReq
  /\ req[r].pc = "key" => req[r].want \in Keys /\ req[r].target # None
  /\ req[r].pc = "pair" => req[r].target \in Pairs /\ req[r].want = req[r].target
  /\ req[r].pc = "intent" => req[r].target \in Intents /\ req[r].want = req[r].target

AtRow(r) ==
  /\ req[r].pc \in {"expire", "active"} =>
       req[r].want \in OfPair(r) /\ Knows(r, {req[r].want})
  /\ req[r].pc = "expire" => (Active(req[r].want) => Overdue(req[r].want))

AtCommit(r) ==
  req[r].pc = "commit" =>
    /\ req[r].want = None
    /\ Keeps(r, req[r].ends \union req[r].found)
    /\ req[r].target \in Intents \/ Knows(r, req[r].ends \union req[r].found)

RequestSound(r) == Before(r) /\ AtRow(r) /\ AtCommit(r)

SchedulerSound(s) == /\ Keeps(s, sched[s].ends \union sched[s].asks)
                     /\ sched[s].pc = "idle" => sched[s] = NoSched

IInv == /\ TypeOK /\ LocksFit /\ OneActiveIntent
        /\ \A r \in Requests : RequestSound(r)
        /\ \A s \in Schedulers : SchedulerSound(s)

(* Before the first click nobody holds anything. *)
LEMMA InitInv == Init => IInv
<1> SUFFICES ASSUME Init PROVE IInv
  OBVIOUS
<1> USE DEF Init, NoReq, NoSched
<1>1. TypeOK
  BY DEF TypeOK, Req, Sched
<1>2. LocksFit /\ OneActiveIntent
  BY DEF LocksFit, OneActiveIntent, Active
<1>3. ASSUME NEW r \in Requests PROVE RequestSound(r)
  BY DEF RequestSound, Before, AtRow, AtCommit
<1>4. ASSUME NEW s \in Schedulers PROVE SchedulerSound(s)
  BY DEF SchedulerSound, Keeps
<1> QED
  BY <1>1, <1>2, <1>3, <1>4 DEF IInv

-----------------------------------------------------------------------------
(* What a step leaves to the transactions that do not take it. *)

(* u keeps its locks, its locked rows stay active, no row of its pair becomes
   active, and what is overdue stays so. *)
Undisturbed(u) ==
  /\ \A x \in Lockable : locks[x] = u => locks'[x] = u
  /\ \A i \in Intents : locks[i] = u /\ Active(i) => Active(i)'
  /\ \A i \in Intents : Active(i)' => Active(i) \/ locks[PairOf[i]] # u
  /\ \A i \in Intents : Overdue(i) /\ Active(i)' => Overdue(i)'

(* A request that is left alone stays sound. *)
LEMMA RequestAlone ==
  ASSUME TypeOK, NEW r \in Requests, RequestSound(r), Undisturbed(r), req'[r] = req[r]
  PROVE  RequestSound(r)'
<1> USE DEF RequestSound, Undisturbed
<1>1. Before(r)'
  BY DEF Before
<1>2. ASSUME NEW rows \in SUBSET Intents, Knows(r, rows) PROVE Knows(r, rows)'
  BY <1>2 DEF Knows, OfPair, Lockable
<1>3. ASSUME NEW rows \in SUBSET Intents, Keeps(r, rows) PROVE Keeps(r, rows)'
  BY <1>3 DEF Keeps, Lockable
<1>4. AtRow(r)'
  <2>1. req[r].pc \in {"expire", "active"} => {req[r].want} \in SUBSET Intents
    BY DEF AtRow, OfPair
  <2>2. req[r].pc \in {"expire", "active"} => Knows(r, {req[r].want})'
    BY <2>1, <1>2 DEF AtRow
  <2>3. req[r].pc = "expire" => (Active(req[r].want)' => Overdue(req[r].want)')
    <3> SUFFICES ASSUME req[r].pc = "expire", Active(req[r].want)'
                 PROVE  Overdue(req[r].want)'
      OBVIOUS
    <3>1. req[r].want \in Intents /\ locks[PairOf[req[r].want]] = r
      BY DEF AtRow, Knows, OfPair
    <3>2. Active(req[r].want)
      BY <3>1
    <3> QED
      BY <3>1, <3>2 DEF AtRow
  <2> QED
    BY <2>2, <2>3 DEF AtRow, OfPair
<1>5. AtCommit(r)'
  <2>1. req[r].ends \union req[r].found \in SUBSET Intents
    BY DEF TypeOK, Req
  <2> QED
    BY <2>1, <1>2, <1>3 DEF AtCommit
<1> QED
  BY <1>1, <1>4, <1>5

(* So does a scheduler. *)
LEMMA SchedulerAlone ==
  ASSUME TypeOK, NEW s \in Schedulers, SchedulerSound(s), Undisturbed(s), sched'[s] = sched[s]
  PROVE  SchedulerSound(s)'
<1>1. sched[s].ends \union sched[s].asks \in SUBSET Intents
  BY DEF TypeOK, Sched
<1> QED
  BY <1>1 DEF SchedulerSound, Keeps, Undisturbed, Lockable

-----------------------------------------------------------------------------
(* What is to be shown of a step: that the others are left alone, and that the
   transaction which takes it is sound afterwards. *)
LEMMA StepSound ==
  ASSUME IInv, TypeOK', OneActiveIntent', NEW t \in Transactions,
         \A u \in Transactions \ {t} : Undisturbed(u),
         \A q \in Requests \ {t} : req'[q] = req[q],
         \A s \in Schedulers \ {t} : sched'[s] = sched[s],
         \A x \in Lockable : locks'[x] \in {locks[x], t, None},
         t \in Requests => RequestSound(t)',
         t \in Schedulers => SchedulerSound(t)',
         \A x \in Lockable : locks'[x] = t => Fits(x, t)'
  PROVE  IInv'
<1>1. ASSUME NEW r \in Requests PROVE RequestSound(r)'
  <2>1. CASE r # t
    BY <2>1, RequestAlone DEF IInv, Transactions
  <2> QED
    BY <2>1
<1>2. ASSUME NEW s \in Schedulers PROVE SchedulerSound(s)'
  <2>1. CASE s # t
    BY <2>1, SchedulerAlone DEF IInv, Transactions
  <2> QED
    BY <2>1
<1>3. LocksFit'
  <2>1. ASSUME NEW x \in Lockable, NEW u, locks'[x] = u, u # None PROVE Fits(x, u)'
    <3>1. CASE u = t
      BY <2>1, <3>1
    <3>2. CASE u # t
      <4>1. locks[x] = u /\ Fits(x, u)
        BY <2>1, <3>2 DEF IInv, LocksFit
      <4>2. u \in Requests => req'[u] = req[u]
        BY <3>2
      <4>3. u \in Schedulers => sched'[u] = sched[u]
        BY <3>2
      <4> QED
        BY <4>1, <4>2, <4>3 DEF Fits
    <3> QED
      BY <3>1, <3>2
  <2> QED
    BY <2>1 DEF LocksFit, Fits
<1> QED
  BY <1>1, <1>2, <1>3 DEF IInv

(* A lock is taken. *)
LEMMA Locking ==
  ASSUME IInv, NEW t \in Transactions, NEW x \in Lockable, Lock(t, x), UNCHANGED <<status, age>>
  PROVE  /\ locks' \in [Lockable -> Transactions \union {None}]
         /\ locks'[x] = t
         /\ \A y \in Lockable : locks'[y] = locks[y] \/ (y = x /\ locks'[y] = t)
         /\ \A y \in Lockable : locks[y] = t => locks'[y] = t
         /\ \A u \in Transactions \ {t} : Undisturbed(u)
         /\ OneActiveIntent'
<1> USE TransactionsAssumption
<1>1. locks \in [Lockable -> Transactions \union {None}]
  BY DEF IInv, TypeOK
<1>2. locks' = [locks EXCEPT ![x] = t] /\ locks[x] \in {None, t}
  BY DEF Lock, Free
<1>3. \A y \in Lockable : locks'[y] = IF y = x THEN t ELSE locks[y]
  BY <1>1, <1>2
<1>4. ASSUME NEW u \in Transactions \ {t} PROVE Undisturbed(u)
  BY <1>2, <1>3, <1>4 DEF Undisturbed, Active, Overdue, Lockable, Transactions
<1>5. OneActiveIntent'
  BY DEF IInv, OneActiveIntent, Active
<1> QED
  BY <1>1, <1>2, <1>3, <1>4, <1>5

(* A transaction ends, having written nothing of another's. *)
LEMMA Ending ==
  ASSUME IInv, NEW t \in Transactions, locks' = Released(t),
         \A i \in Intents : \/ status'[i] = status[i] /\ age'[i] = age[i]
                            \/ locks[i] = t /\ (Active(i)' => age'[i] = age[i] /\ Active(i))
                            \/ locks[PairOf[i]] = t /\ ~Active(i)
  PROVE  /\ locks' \in [Lockable -> Transactions \union {None}]
         /\ \A y \in Lockable : locks'[y] # t /\ locks'[y] \in {locks[y], None}
         /\ \A u \in Transactions \ {t} : Undisturbed(u)
<1> USE TransactionsAssumption
<1>1. locks \in [Lockable -> Transactions \union {None}]
  BY DEF IInv, TypeOK
<1>2. locks' \in [Lockable -> Transactions \union {None}]
  BY <1>1 DEF Released
<1>3. \A y \in Lockable : locks'[y] = IF locks[y] = t THEN None ELSE locks[y]
  BY DEF Released
<1>4. ASSUME NEW u \in Transactions \ {t} PROVE Undisturbed(u)
  <2>1. \A x \in Lockable : locks[x] = u => locks'[x] = u
    BY <1>3
  <2>2. \A i \in Intents : locks[i] = u /\ Active(i) => Active(i)'
    BY DEF Active, Transactions
  <2>3. \A i \in Intents : Active(i)' => Active(i) \/ locks[PairOf[i]] # u
    BY DEF Active
  <2>4. \A i \in Intents : Overdue(i) /\ Active(i)' => Overdue(i)'
    BY DEF Overdue
  <2> QED
    BY <2>1, <2>2, <2>3, <2>4 DEF Undisturbed
<1> QED
  BY <1>2, <1>3, <1>4, <1>1

-----------------------------------------------------------------------------
(* Requests. *)

(* A request takes a lock and goes on. *)
LEMMA RequestTakes ==
  ASSUME IInv, NEW r \in Requests, NEW x \in Lockable, Lock(r, x),
         UNCHANGED <<status, age, sched>>,
         req' \in [Requests -> Req], \A q \in Requests \ {r} : req'[q] = req[q],
         RequestSound(r)', Fits(x, r)',
         \A y \in Lockable : locks[y] = r => Fits(y, r)'
  PROVE  IInv'
<1> USE TransactionsAssumption
<1>1. r \in Transactions /\ r \notin Schedulers
  BY DEF Transactions
<1>2. TypeOK' /\ OneActiveIntent'
  BY <1>1, Locking DEF IInv, TypeOK
<1>3. \A u \in Transactions \ {r} : Undisturbed(u)
  BY <1>1, Locking
<1>4. \A y \in Lockable : /\ locks'[y] \in {locks[y], r, None}
                          /\ locks'[y] = r => Fits(y, r)'
  BY <1>1, Locking
<1>5. \A s \in Schedulers \ {r} : sched'[s] = sched[s]
  OBVIOUS
<1> QED
  BY <1>1, <1>2, <1>3, <1>4, <1>5, StepSound

(* A request that goes to another statement. *)
LEMMA Going ==
  ASSUME TypeOK, NEW r \in Requests,
         NEW pc \in {"pair", "expire", "active", "intent", "commit"},
         NEW want \in Lockable \union {None}, Goto(r, pc, want)
  PROVE  /\ req' \in [Requests -> Req]
         /\ \A q \in Requests \ {r} : req'[q] = req[q]
         /\ req'[r].pc = pc /\ req'[r].want = want /\ req'[r].target = req[r].target
         /\ req'[r].ends = req[r].ends /\ req'[r].found = req[r].found
BY DEF TypeOK, Req, Goto

(* What a request holds before its key, before its pair and before its row. *)
LEMMA HeldBefore ==
  ASSUME IInv, NEW r \in Requests, NEW y \in Lockable, locks[y] = r
  PROVE  /\ req[r].pc \notin {"idle", "key"}
         /\ req[r].pc \in {"pair", "intent"} => y \in Keys
         /\ req[r].pc \in {"expire", "active"} => y \in Keys \/ (y \in Pairs /\ y = req[r].target)
<1>1. Fits(y, r) /\ r \notin Schedulers
  BY TransactionsAssumption DEF IInv, LocksFit, Transactions
<1> QED
  BY <1>1, LockableAssumption DEF Fits

(* The key of a request. *)
LEMMA LockKeyKeeps == ASSUME IInv, NEW r \in Requests, LockKey(r), ~Rollback(r) PROVE IInv'
<1> USE LockableAssumption
<1> DEFINE target == req[r].target
           pc == IF target \in Pairs THEN "pair" ELSE "intent"
<1>1. /\ req[r].pc = "key" /\ Lock(r, req[r].want) /\ Goto(r, pc, target)
      /\ UNCHANGED <<status, age, sched>>
  BY DEF LockKey
<1>2. /\ TypeOK /\ Before(r)
      /\ req[r].want \in Keys /\ target \in Pairs \union Intents
  BY <1>1 DEF IInv, RequestSound, Before, TypeOK, Req
<1> HIDE DEF target, pc
<1>3. pc \in {"pair", "intent"} /\ target \in Lockable /\ req[r].want \in Lockable
  BY <1>2 DEF Lockable, pc
<1>4. /\ req' \in [Requests -> Req]
      /\ \A q \in Requests \ {r} : req'[q] = req[q]
      /\ req'[r].pc = pc /\ req'[r].want = target /\ req'[r].target = req[r].target
      /\ req'[r].ends = req[r].ends /\ req'[r].found = req[r].found
  BY <1>1, <1>2, <1>3, Going
<1>5. RequestSound(r)'
  BY <1>1, <1>2, <1>3, <1>4 DEF RequestSound, Before, AtRow, AtCommit, pc, target
<1>6. PICK x \in Lockable : x = req[r].want
  BY <1>3
<1>7. Fits(x, r)'
  BY <1>2, <1>3, <1>4, <1>6 DEF Fits
<1>8. \A y \in Lockable : locks[y] = r => Fits(y, r)'
  BY <1>1, HeldBefore
<1>9. Lock(r, x) /\ UNCHANGED <<status, age, sched>>
  BY <1>1, <1>6
<1> QED
  BY <1>4, <1>5, <1>7, <1>8, <1>9, RequestTakes

(* Under the lock of a pair a request looks for an active row: there is one at
   most, and it finds that. *)
LEMMA Looking ==
  ASSUME IInv, NEW r \in Requests, req[r].target \in Pairs, NEW at \in ActiveRow(r, {})
  PROVE  \/ /\ at.pc = "commit" /\ at.want = None
            /\ \A i \in OfPair(r) : ~Active(i)
         \/ /\ at.pc = "active" /\ at.want \in OfPair(r) /\ Active(at.want)
            /\ \A i \in OfPair(r) : Active(i) => i = at.want
<1>1. \A i, j \in OfPair(r) : Active(i) /\ Active(j) => i = j
  BY DEF IInv, OneActiveIntent, OfPair
<1> QED
  BY <1>1 DEF ActiveRow

(* The pair of a click. *)
LEMMA LockPairKeeps == ASSUME IInv, NEW r \in Requests, LockPair(r) PROVE IInv'
<1> USE LockableAssumption
<1>1. PICK p \in Pairs : req[r].target = p /\ req[r].want = p
  BY DEF LockPair, IInv, RequestSound, Before
<1>2. /\ req[r].pc = "pair" /\ p \in Lockable /\ Lock(r, p)
      /\ UNCHANGED <<status, age, sched>>
  BY <1>1 DEF LockPair, Lockable
<1>3. /\ TypeOK /\ req[r].ends = {} /\ req[r].found = {}
  BY <1>2 DEF IInv, RequestSound, Before
<1>4. PICK pc \in {"expire", "active", "commit"}, want \in Intents \union {None} :
        /\ Goto(r, pc, want)
        /\ pc = "commit" => want = None /\ \A i \in OfPair(r) : ~Active(i)
        /\ pc # "commit" => /\ want \in OfPair(r) /\ Active(want)
                            /\ \A i \in OfPair(r) : Active(i) => i = want
        /\ pc = "expire" => Overdue(want)
  <2>1. CASE \E i \in OfPair(r) : Overdue(i) /\ Goto(r, "expire", i)
    <3>1. PICK i \in OfPair(r) : Overdue(i) /\ Goto(r, "expire", i)
      BY <2>1
    <3>2. Active(i) /\ \A j \in OfPair(r) : Active(j) => j = i
      BY <3>1 DEF Overdue, IInv, OneActiveIntent, OfPair
    <3>3. i \in Intents
      BY DEF OfPair
    <3> QED
      BY <3>1, <3>2, <3>3
  <2>2. CASE \E at \in ActiveRow(r, {}) : Goto(r, at.pc, at.want)
    <3>1. PICK at \in ActiveRow(r, {}) : Goto(r, at.pc, at.want)
      BY <2>2
    <3> QED
      BY <1>1, <3>1, Looking DEF OfPair
  <2> QED
    BY <2>1, <2>2 DEF LockPair, OverdueOfPair
<1>5. /\ req' \in [Requests -> Req]
      /\ \A q \in Requests \ {r} : req'[q] = req[q]
      /\ req'[r].pc = pc /\ req'[r].want = want /\ req'[r].target = p
      /\ req'[r].ends = {} /\ req'[r].found = {}
  <2>1. want \in Lockable \union {None}
    BY DEF Lockable
  <2> QED
    BY <1>1, <1>3, <1>4, <2>1, Going
<1>6. locks'[p] = r
  BY <1>2, Locking DEF Transactions
<1>7. OfPair(r)' = OfPair(r)
  BY <1>1, <1>5 DEF OfPair
<1>8. RequestSound(r)'
  <2>1. Before(r)'
    BY <1>4, <1>5 DEF Before
  <2>2. AtRow(r)'
    BY <1>2, <1>4, <1>5, <1>6, <1>7 DEF AtRow, Knows, Active, Overdue
  <2>3. AtCommit(r)'
    BY <1>2, <1>4, <1>5, <1>6, <1>7 DEF AtCommit, Knows, Keeps, Active
  <2> QED
    BY <2>1, <2>2, <2>3 DEF RequestSound
<1>9. Fits(p, r)'
  BY <1>4, <1>5 DEF Fits
<1>10. \A y \in Lockable : locks[y] = r => Fits(y, r)'
  BY <1>2, <1>4, <1>5, HeldBefore DEF Fits
<1> QED
  BY <1>2, <1>5, <1>8, <1>9, <1>10, RequestTakes

(* A request that takes its row goes to its commit, with the rows it has found
   active. *)
LEMMA TakesRow ==
  ASSUME IInv, NEW r \in Requests, NEW i \in Intents, Lock(r, i),
         UNCHANGED <<status, age, sched>>,
         req' \in [Requests -> Req], \A q \in Requests \ {r} : req'[q] = req[q],
         req'[r].pc = "commit", req'[r].want = None, req'[r].target = req[r].target,
         req'[r].ends \union req'[r].found \subseteq {i},
         i \in req'[r].ends \union req'[r].found => Active(i),
         \/ req[r].pc = "intent"
         \/ /\ req[r].pc \in {"expire", "active"} /\ i = req[r].want
            /\ Active(i) => i \in req'[r].ends \union req'[r].found
  PROVE  IInv'
<1> USE LockableAssumption
<1>1. i \in Lockable /\ r \in Transactions
  BY DEF Lockable, Transactions
<1>2. locks'[i] = r /\ \A y \in Lockable : locks[y] = r => locks'[y] = r
  BY <1>1, Locking
<1>3. Before(r) /\ AtRow(r)
  BY DEF IInv, RequestSound
<1>4. RequestSound(r)'
  <2>1. Before(r)' /\ AtRow(r)'
    BY DEF Before, AtRow
  <2>2. Keeps(r, req[r].ends \union req[r].found)'
    BY <1>2 DEF Keeps, Active
  <2>3. CASE req[r].pc = "intent"
    BY <1>3, <2>1, <2>2, <2>3 DEF RequestSound, AtCommit, Before
  <2>4. CASE req[r].pc \in {"expire", "active"}
    <3>1. Knows(r, {i}) /\ i = req[r].want
      BY <1>3, <2>4 DEF AtRow
    <3>2. Knows(r, req[r].ends \union req[r].found)'
      <4>1. req'[r].target \in Pairs /\ locks'[req'[r].target] = r
        BY <3>1, <1>2 DEF Knows, Lockable
      <4>2. OfPair(r)' = OfPair(r)
        BY DEF OfPair
      <4>3. \A j \in OfPair(r) : Active(j)' => j = i
        BY <3>1 DEF Knows, Active
      <4>4. Active(i)' => i \in req'[r].ends \union req'[r].found
        BY <2>4 DEF Active
      <4> QED
        BY <4>1, <4>2, <4>3, <4>4 DEF Knows
    <3> QED
      BY <2>1, <2>2, <3>2 DEF RequestSound, AtCommit
  <2> QED
    BY <2>3, <2>4
<1>5. Fits(i, r)'
  BY DEF Fits
<1>6. \A y \in Lockable : locks[y] = r => Fits(y, r)'
  BY HeldBefore DEF Fits
<1> QED
  BY <1>1, <1>4, <1>5, <1>6, RequestTakes

(* The row that expires in a click: either it ends with the click, or it has
   ended, and the pair has no other. *)
LEMMA LockExpiredKeeps == ASSUME IInv, NEW r \in Requests, LockExpired(r) PROVE IInv'
<1>1. PICK i \in OfPair(r) : i = req[r].want
  BY DEF LockExpired, IInv, RequestSound, AtRow
<1> DEFINE ends == IF Overdue(i) THEN {i} ELSE {}
<1>2. /\ req[r].pc = "expire" /\ Lock(r, i)
      /\ UNCHANGED <<status, age, sched>>
      /\ TypeOK /\ i \in Intents
  BY <1>1 DEF LockExpired, IInv, OfPair
<1>3. /\ \A j \in OfPair(r) : Active(j) => j = i
      /\ Active(i) <=> Overdue(i)
      /\ req[r].ends = {} /\ req[r].found = {}
  BY <1>1, <1>2 DEF IInv, RequestSound, AtRow, Before, Knows, Overdue
<1>4. {j \in OfPair(r) : Active(j)} \ ends = {}
  BY <1>3
<1>5. req' = [req EXCEPT ![r].pc = "commit", ![r].want = None, ![r].ends = ends]
  <2>1. ActiveRow(r, ends) = {[pc |-> "commit", want |-> None]}
    BY <1>4 DEF ActiveRow
  <2>2. PICK at \in ActiveRow(r, ends) :
          req' = [req EXCEPT ![r].pc = at.pc, ![r].want = at.want, ![r].ends = ends]
    BY <1>1 DEF LockExpired
  <2>3. at.pc = "commit" /\ at.want = None
    BY <2>1
  <2> QED
    BY <2>2, <2>3, Zenon
<1>6. ends \in SUBSET Intents
  BY <1>2
<1>7. /\ req' \in [Requests -> Req] /\ \A q \in Requests \ {r} : req'[q] = req[q]
      /\ req'[r].pc = "commit" /\ req'[r].want = None /\ req'[r].target = req[r].target
      /\ req'[r].ends = ends /\ req'[r].found = {}
  BY <1>2, <1>3, <1>5, <1>6 DEF TypeOK, Req
<1> QED
  BY <1>1, <1>2, <1>3, <1>7, TakesRow

(* The active row that a click finds, or that has ended meanwhile. *)
LEMMA LockActiveKeeps == ASSUME IInv, NEW r \in Requests, LockActive(r) PROVE IInv'
<1>1. PICK i \in Intents : i = req[r].want
  BY DEF LockActive, IInv, RequestSound, AtRow, OfPair
<1> DEFINE found == IF Active(i) THEN {i} ELSE {}
<1>2. /\ req[r].pc = "active" /\ Lock(r, i) /\ TypeOK
      /\ req' = [req EXCEPT ![r].pc = "commit", ![r].want = None, ![r].found = found]
      /\ UNCHANGED <<status, age, sched>>
  BY <1>1 DEF LockActive, IInv
<1>3. req[r].ends = {} /\ found \in SUBSET Intents
  BY <1>2 DEF IInv, RequestSound, Before
<1>4. /\ req' \in [Requests -> Req] /\ \A q \in Requests \ {r} : req'[q] = req[q]
      /\ req'[r].pc = "commit" /\ req'[r].want = None /\ req'[r].target = req[r].target
      /\ req'[r].ends = {} /\ req'[r].found = found
  BY <1>2, <1>3 DEF TypeOK, Req
<1> QED
  BY <1>1, <1>2, <1>4, TakesRow

(* The row of a confirmation. *)
LEMMA LockIntentKeeps == ASSUME IInv, NEW r \in Requests, LockIntent(r), ~Rollback(r) PROVE IInv'
<1>1. PICK i \in Intents : i = req[r].want
  BY DEF LockIntent, IInv, RequestSound, Before
<1>2. /\ req[r].pc = "intent" /\ Lock(r, i) /\ Active(i) /\ TypeOK
      /\ req' = [req EXCEPT ![r].pc = "commit", ![r].want = None, ![r].ends = {i}]
      /\ UNCHANGED <<status, age, sched>>
  BY <1>1 DEF LockIntent, IInv
<1>3. req[r].found = {}
  BY <1>2 DEF IInv, RequestSound, Before
<1>4. /\ req' \in [Requests -> Req] /\ \A q \in Requests \ {r} : req'[q] = req[q]
      /\ req'[r].pc = "commit" /\ req'[r].want = None /\ req'[r].target = req[r].target
      /\ req'[r].ends = {i} /\ req'[r].found = {}
  BY <1>2, <1>3 DEF TypeOK, Req
<1> QED
  BY <1>2, <1>4, TakesRow

(* A request ends. *)
LEMMA RequestEnds ==
  ASSUME IInv, NEW r \in Requests, req' = [req EXCEPT ![r] = NoReq], locks' = Released(r),
         UNCHANGED sched,
         status' \in [Intents -> {"ABSENT", "LINK_CLICKED", "CONFIRMATION_PENDING", "ENDED"}],
         age' \in [Intents -> {"fresh", "due", "overdue"}],
         \A i \in Intents : \/ status'[i] = status[i] /\ age'[i] = age[i]
                            \/ locks[i] = r /\ (Active(i)' => age'[i] = age[i] /\ Active(i))
                            \/ locks[PairOf[i]] = r /\ ~Active(i),
         OneActiveIntent'
  PROVE  IInv'
<1> USE TransactionsAssumption
<1>1. r \in Transactions /\ r \notin Schedulers /\ r # None
  BY DEF Transactions
<1>2. req' \in [Requests -> Req] /\ req'[r] = NoReq /\ \A q \in Requests \ {r} : req'[q] = req[q]
  BY DEF IInv, TypeOK, Req, NoReq
<1>3. TypeOK'
  BY <1>1, <1>2, Ending DEF IInv, TypeOK
<1>4. \A y \in Lockable : locks'[y] # r /\ locks'[y] \in {locks[y], r, None}
  BY <1>1, Ending
<1>5. \A u \in Transactions \ {r} : Undisturbed(u)
  BY <1>1, Ending
<1>6. RequestSound(r)'
  BY <1>2 DEF RequestSound, Before, AtRow, AtCommit, NoReq
<1>7. \A s \in Schedulers \ {r} : sched'[s] = sched[s]
  OBVIOUS
<1> QED
  BY <1>1, <1>2, <1>3, <1>4, <1>5, <1>6, <1>7, StepSound

(* A request fails, is refused or is replayed. *)
LEMMA RollbackKeeps == ASSUME IInv, NEW r \in Requests, Rollback(r) PROVE IInv'
<1>1. status' = status /\ age' = age
  BY DEF Rollback
<1>2. OneActiveIntent'
  BY <1>1 DEF IInv, OneActiveIntent, Active
<1> QED
  BY <1>1, <1>2, RequestEnds DEF Rollback, IInv, TypeOK

(* A click commits: with the row it inserts the pair has one active row, since
   the one that was active, if any, has ended with the same commit. *)
LEMMA CommitCreateKeeps == ASSUME IInv, NEW r \in Requests, CommitCreate(r) PROVE IInv'
<1> DEFINE ends == req[r].ends
<1>1. /\ req[r].pc = "commit" /\ req[r].target \in Pairs
      /\ req' = [req EXCEPT ![r] = NoReq] /\ UNCHANGED sched
  BY DEF CommitCreate
<1>2. Keeps(r, ends \union req[r].found) /\ Knows(r, ends \union req[r].found) /\ TypeOK
  BY <1>1, LockableAssumption DEF IInv, RequestSound, AtCommit
<1>3. ends \in SUBSET Intents
  BY <1>2 DEF TypeOK, Req
<1>4. PICK new : /\ Write(r, ends, new)
                 /\ \/ new = status
                    \/ \E i \in OfPair(r) : /\ req[r].found = {} /\ status[i] = "ABSENT"
                                            /\ new = [status EXCEPT ![i] = "LINK_CLICKED"]
  BY DEF CommitCreate
<1> HIDE DEF ends
<1>5. /\ locks' = Released(r)
      /\ status' = [i \in Intents |-> IF i \in ends THEN "ENDED" ELSE new[i]]
      /\ age' = [i \in Intents |-> IF i \in ends THEN "fresh" ELSE age[i]]
  BY <1>4 DEF Write
<1>6. age' \in [Intents -> {"fresh", "due", "overdue"}]
  BY <1>2, <1>5 DEF TypeOK
<1>7. ASSUME NEW i \in ends PROVE locks[i] = r /\ ~Active(i)'
  BY <1>2, <1>3, <1>5 DEF Keeps, Active
<1>8. CASE new = status
  <2>1. \A i \in Intents \ ends : status'[i] = status[i] /\ age'[i] = age[i]
    BY <1>5, <1>8
  <2>2. status' \in [Intents -> {"ABSENT", "LINK_CLICKED", "CONFIRMATION_PENDING", "ENDED"}]
    BY <1>2, <1>5, <1>8 DEF TypeOK
  <2>3. OneActiveIntent'
    BY <1>7, <2>1 DEF IInv, OneActiveIntent, Active
  <2> QED
    BY <1>1, <1>5, <1>6, <1>7, <2>1, <2>2, <2>3, RequestEnds
<1>9. ASSUME NEW n \in OfPair(r), req[r].found = {}, status[n] = "ABSENT",
             new = [status EXCEPT ![n] = "LINK_CLICKED"]
      PROVE  IInv'
  <2>1. n \in Intents /\ PairOf[n] = req[r].target /\ locks[PairOf[n]] = r /\ ~Active(n)
    BY <1>2, <1>9 DEF OfPair, Knows, Active
  <2>2. \A i \in Intents \ ends : i # n => status'[i] = status[i] /\ age'[i] = age[i]
    BY <1>2, <1>5, <1>9 DEF TypeOK
  <2>3. status' \in [Intents -> {"ABSENT", "LINK_CLICKED", "CONFIRMATION_PENDING", "ENDED"}]
    BY <1>2, <1>5, <1>9 DEF TypeOK
  <2>4. ASSUME NEW i \in Intents, NEW j \in Intents, Active(i)', Active(j)', PairOf[i] = PairOf[j]
        PROVE  i = j
    <3>1. i \notin ends /\ j \notin ends
      BY <1>7, <2>4
    <3>2. (i # n => Active(i)) /\ (j # n => Active(j))
      BY <2>2, <2>4, <3>1 DEF Active
    <3>3. \A k \in Intents : k # n /\ PairOf[k] = PairOf[n] /\ Active(k) => k \in ends
      BY <1>2, <1>9, <2>1 DEF Knows, OfPair
    <3>4. i # n /\ j # n => i = j
      BY <2>4, <3>2 DEF IInv, OneActiveIntent
    <3> QED
      BY <2>4, <3>1, <3>2, <3>3, <3>4
  <2>5. OneActiveIntent'
    BY <2>4 DEF OneActiveIntent
  <2>6. ASSUME NEW i \in Intents
        PROVE  \/ status'[i] = status[i] /\ age'[i] = age[i]
               \/ locks[i] = r /\ ~Active(i)'
               \/ locks[PairOf[i]] = r /\ ~Active(i)
    BY <1>7, <2>1, <2>2
  <2> QED
    BY <1>1, <1>5, <1>6, <2>3, <2>5, <2>6, RequestEnds
<1> QED
  BY <1>4, <1>8, <1>9

(* A confirmation commits. *)
LEMMA CommitConfirmKeeps == ASSUME IInv, NEW r \in Requests, CommitConfirm(r) PROVE IInv'
<1> DEFINE ends == req[r].ends
<1>1. /\ req[r].pc = "commit" /\ Write(r, ends, status)
      /\ req' = [req EXCEPT ![r] = NoReq] /\ UNCHANGED sched
  BY DEF CommitConfirm
<1>2. Keeps(r, ends) /\ TypeOK
  BY <1>1 DEF IInv, RequestSound, AtCommit, Keeps
<1>3. ends \in SUBSET Intents
  BY <1>2 DEF TypeOK, Req
<1> HIDE DEF ends
<1>4. /\ locks' = Released(r)
      /\ status' = [i \in Intents |-> IF i \in ends THEN "ENDED" ELSE status[i]]
      /\ age' = [i \in Intents |-> IF i \in ends THEN "fresh" ELSE age[i]]
  BY <1>1 DEF Write
<1>5. /\ status' \in [Intents -> {"ABSENT", "LINK_CLICKED", "CONFIRMATION_PENDING", "ENDED"}]
      /\ age' \in [Intents -> {"fresh", "due", "overdue"}]
  BY <1>2, <1>4 DEF TypeOK
<1>6. ASSUME NEW i \in ends PROVE locks[i] = r /\ ~Active(i)'
  BY <1>2, <1>3, <1>4 DEF Keeps, Active
<1>7. \A i \in Intents \ ends : status'[i] = status[i] /\ age'[i] = age[i]
  BY <1>4
<1>8. OneActiveIntent'
  BY <1>6, <1>7 DEF IInv, OneActiveIntent, Active
<1> QED
  BY <1>1, <1>4, <1>5, <1>6, <1>7, <1>8, RequestEnds

(* A request begins, without a lock. *)
LEMMA SendKeeps ==
  ASSUME IInv, NEW r \in Requests, SendCreate(r) \/ SendConfirm(r)
  PROVE  IInv'
<1> USE TransactionsAssumption, LockableAssumption
<1>1. PICK k \in Keys, target \in Pairs \union Intents : Send(r, k, target)
  BY DEF SendCreate, SendConfirm
<1>2. /\ req[r] = NoReq /\ UNCHANGED <<status, age, locks, sched>>
      /\ req' = [req EXCEPT ![r] = [NoReq EXCEPT !.pc = "key", !.target = target, !.want = k]]
  BY <1>1 DEF Send
<1>3. /\ req' \in [Requests -> Req] /\ \A q \in Requests \ {r} : req'[q] = req[q]
      /\ req'[r] = [NoReq EXCEPT !.pc = "key", !.target = target, !.want = k]
  BY <1>2 DEF IInv, TypeOK, Req, NoReq, Lockable
<1>4. TypeOK' /\ OneActiveIntent'
  BY <1>2, <1>3 DEF IInv, TypeOK, OneActiveIntent, Active
<1>5. \A u \in Transactions \ {r} : Undisturbed(u)
  BY <1>2 DEF Undisturbed, Active, Overdue
<1>6. RequestSound(r)'
  <2>1. target # None
    BY DEF Lockable
  <2> QED
    BY <1>3, <2>1 DEF RequestSound, Before, AtRow, AtCommit, NoReq
<1>7. \A y \in Lockable : locks'[y] # r /\ locks'[y] \in {locks[y], r, None}
  BY <1>2, HeldBefore DEF NoReq
<1>8. r \in Transactions /\ r \notin Schedulers /\ \A s \in Schedulers \ {r} : sched'[s] = sched[s]
  BY <1>2 DEF Transactions
<1> QED
  BY <1>3, <1>4, <1>5, <1>6, <1>7, <1>8, StepSound

-----------------------------------------------------------------------------
(* The clock and the schedulers. *)

(* The clock: rows only get older. *)
LEMMA AgeKeeps == ASSUME IInv, NEW i \in Intents, Age(i) PROVE IInv'
<1>1. /\ UNCHANGED <<status, locks, req, sched>> /\ Active(i) /\ age[i] # "overdue"
      /\ age' = [age EXCEPT ![i] = IF @ = "fresh" THEN "due" ELSE "overdue"]
  BY DEF Age
<1>2. TypeOK' /\ OneActiveIntent' /\ LocksFit'
  BY <1>1 DEF IInv, TypeOK, OneActiveIntent, Active, LocksFit, Fits
<1>3. ASSUME NEW u PROVE Undisturbed(u)
  BY <1>1 DEF Undisturbed, Active, Overdue, IInv, TypeOK
<1>4. ASSUME NEW r \in Requests PROVE RequestSound(r)'
  BY <1>1, <1>3, RequestAlone DEF IInv
<1>5. ASSUME NEW s \in Schedulers PROVE SchedulerSound(s)'
  BY <1>1, <1>3, SchedulerAlone DEF IInv
<1> QED
  BY <1>2, <1>4, <1>5 DEF IInv

(* Where a scheduler goes. *)
LEMMA GoingOn ==
  ASSUME TypeOK, NEW pc \in {"expire", "due"}, NEW ripe \in SUBSET Intents,
         NEW rows \in SUBSET Intents, NEW at \in GoOn(pc, ripe, rows)
  PROVE  /\ at.pc \in {"expire", "due"} /\ at.ripe \in SUBSET Intents
         /\ at.want \in Intents \union {None} /\ at.todo \in SUBSET Intents
<1>1. ASSUME NEW p \in {"expire", "due"}, NEW rp \in SUBSET Intents, NEW rs \in SUBSET Intents,
             NEW a \in Reach(p, rp, rs)
      PROVE  /\ a.pc \in {"expire", "due"} /\ a.ripe \in SUBSET Intents
             /\ a.want \in Intents \union {None} /\ a.todo \in SUBSET Intents
  BY <1>1 DEF Reach
<1>2. {i \in ripe : status[i] = "LINK_CLICKED"} \in SUBSET Intents /\ {} \in SUBSET Intents
  OBVIOUS
<1> QED
  BY <1>1, <1>2 DEF GoOn

(* A scheduler starts, without a lock. *)
LEMMA AdvanceStartKeeps == ASSUME IInv, NEW s \in Schedulers, AdvanceStart(s) PROVE IInv'
<1> USE TransactionsAssumption
<1> DEFINE ripe == {i \in Intents : status[i] = "LINK_CLICKED" /\ age[i] = "due"}
           rows == {i \in Intents : Overdue(i)}
<1>1. PICK at \in GoOn("expire", ripe, rows) :
        sched' = [sched EXCEPT ![s] = [pc |-> at.pc, ripe |-> at.ripe, want |-> at.want,
                                       todo |-> at.todo, ends |-> {}, asks |-> {}]]
  BY DEF AdvanceStart
<1>2. /\ at.pc \in {"expire", "due"} /\ at.ripe \in SUBSET Intents
      /\ at.want \in Intents \union {None} /\ at.todo \in SUBSET Intents
  <2>1. ripe \in SUBSET Intents /\ rows \in SUBSET Intents /\ TypeOK
    BY DEF IInv
  <2> HIDE DEF ripe, rows
  <2> QED
    BY <2>1, GoingOn
<1>3. sched[s].pc = "idle" /\ UNCHANGED <<status, age, locks, req>>
  BY DEF AdvanceStart
<1>4. /\ sched' \in [Schedulers -> Sched] /\ \A q \in Schedulers \ {s} : sched'[q] = sched[q]
      /\ sched'[s].pc # "idle" /\ sched'[s].ends = {} /\ sched'[s].asks = {}
  BY <1>1, <1>2 DEF IInv, TypeOK, Sched
<1>5. TypeOK' /\ OneActiveIntent'
  BY <1>3, <1>4 DEF IInv, TypeOK, OneActiveIntent, Active
<1>6. \A u \in Transactions \ {s} : Undisturbed(u)
  BY <1>3 DEF Undisturbed, Active, Overdue
<1>7. SchedulerSound(s)'
  BY <1>4 DEF SchedulerSound, Keeps
<1>8. \A y \in Lockable : locks'[y] # s /\ locks'[y] \in {locks[y], s, None}
  BY <1>3 DEF IInv, LocksFit, Fits, Transactions
<1>9. s \in Transactions /\ s \notin Requests /\ \A r \in Requests \ {s} : req'[r] = req[r]
  BY <1>3 DEF Transactions
<1> QED
  BY <1>4, <1>5, <1>6, <1>7, <1>8, <1>9, StepSound

(* A scheduler gets the lock of a row, which it ends, asks for, or leaves. *)
LEMMA TakeRowKeeps == ASSUME IInv, NEW s \in Schedulers, NEW i \in Intents, TakeRow(s, i) PROVE IInv'
<1> USE TransactionsAssumption
<1>1. PICK at \in GoOn(sched[s].pc, sched[s].ripe, sched[s].todo) :
        sched' = [sched EXCEPT ![s] =
                    [pc |-> at.pc, ripe |-> at.ripe, want |-> at.want, todo |-> at.todo,
                     ends |-> IF Expires(s, i) THEN @.ends \union {i} ELSE @.ends,
                     asks |-> IF Asks(s, i) THEN @.asks \union {i} ELSE @.asks]]
  BY DEF TakeRow
<1>2. /\ sched[s].want = i /\ Lock(s, i) /\ UNCHANGED <<status, age, req>>
      /\ TypeOK /\ SchedulerSound(s)
  BY DEF TakeRow, IInv
<1>3. sched[s].pc \in {"expire", "due"}
  BY <1>2, LockableAssumption DEF SchedulerSound, NoSched, TypeOK, Sched, Lockable
<1>4. /\ at.pc \in {"expire", "due"} /\ at.ripe \in SUBSET Intents
      /\ at.want \in Intents \union {None} /\ at.todo \in SUBSET Intents
  BY <1>2, <1>3, GoingOn DEF TypeOK, Sched
<1>5. /\ sched' \in [Schedulers -> Sched] /\ \A q \in Schedulers \ {s} : sched'[q] = sched[q]
      /\ sched'[s].pc # "idle"
      /\ sched'[s].ends = IF Expires(s, i) THEN sched[s].ends \union {i} ELSE sched[s].ends
      /\ sched'[s].asks = IF Asks(s, i) THEN sched[s].asks \union {i} ELSE sched[s].asks
  BY <1>1, <1>2, <1>4 DEF TypeOK, Sched
<1>6. s \in Transactions /\ s \notin Requests /\ i \in Lockable
  BY DEF Transactions, Lockable
<1>7. TypeOK' /\ OneActiveIntent'
  BY <1>2, <1>5, <1>6, Locking DEF TypeOK
<1>8. SchedulerSound(s)'
  <2>1. \A j \in sched'[s].ends \union sched'[s].asks :
          j \in sched[s].ends \union sched[s].asks \/ (j = i /\ Active(i))
    BY <1>5 DEF Expires, Asks, Active
  <2>2. locks'[i] = s /\ \A y \in Lockable : locks[y] = s => locks'[y] = s
    BY <1>2, <1>6, Locking
  <2>3. sched[s].ends \union sched[s].asks \in SUBSET Intents
    BY <1>2 DEF TypeOK, Sched
  <2> QED
    BY <1>2, <1>5, <2>1, <2>2, <2>3 DEF SchedulerSound, Keeps, Active, Lockable
<1>9. ASSUME NEW y \in Lockable PROVE /\ locks'[y] \in {locks[y], s, None}
                                      /\ locks'[y] = s => Fits(y, s)'
  <2>1. locks'[y] = locks[y] \/ (y = i /\ locks'[y] = s)
    BY <1>2, <1>6, Locking
  <2>2. locks[y] = s => y \in Intents
    BY <1>6 DEF IInv, LocksFit, Fits
  <2> QED
    BY <1>5, <2>1, <2>2 DEF Fits
<1>10. \A u \in Transactions \ {s} : Undisturbed(u)
  BY <1>2, <1>6, Locking
<1> QED
  BY <1>2, <1>5, <1>6, <1>7, <1>8, <1>9, <1>10, StepSound

(* A scheduler ends. *)
LEMMA SchedulerEnds ==
  ASSUME IInv, NEW s \in Schedulers, sched' = [sched EXCEPT ![s] = NoSched], locks' = Released(s),
         UNCHANGED req,
         status' \in [Intents -> {"ABSENT", "LINK_CLICKED", "CONFIRMATION_PENDING", "ENDED"}],
         age' \in [Intents -> {"fresh", "due", "overdue"}],
         \A i \in Intents : \/ status'[i] = status[i] /\ age'[i] = age[i]
                            \/ locks[i] = s /\ (Active(i)' => age'[i] = age[i] /\ Active(i))
  PROVE  IInv'
<1> USE TransactionsAssumption
<1>1. s \in Transactions /\ s \notin Requests /\ s # None
  BY DEF Transactions
<1>2. sched' \in [Schedulers -> Sched] /\ sched'[s] = NoSched
      /\ \A q \in Schedulers \ {s} : sched'[q] = sched[q]
  BY LockableAssumption DEF IInv, TypeOK, Sched, NoSched
<1>3. /\ locks' \in [Lockable -> Transactions \union {None}]
      /\ \A y \in Lockable : locks'[y] # s /\ locks'[y] \in {locks[y], None}
      /\ \A u \in Transactions \ {s} : Undisturbed(u)
  BY <1>1, Ending
<1>4. TypeOK'
  BY <1>2, <1>3 DEF IInv, TypeOK
<1>5. OneActiveIntent'
  <2>1. \A i \in Intents : Active(i)' => Active(i)
    BY DEF Active
  <2> QED
    BY <2>1 DEF IInv, OneActiveIntent
<1>6. SchedulerSound(s)'
  BY <1>2 DEF SchedulerSound, Keeps, NoSched
<1>7. \A r \in Requests \ {s} : req'[r] = req[r]
  OBVIOUS
<1> QED
  BY <1>1, <1>2, <1>3, <1>4, <1>5, <1>6, <1>7, StepSound

(* A scheduler fails, or is the victim of a circle. *)
LEMMA AdvanceRollbackKeeps ==
  ASSUME IInv, NEW s \in Schedulers, AdvanceRollback(s)
  PROVE  IInv'
BY SchedulerEnds DEF AdvanceRollback, IInv, TypeOK

(* A scheduler commits: it writes only rows that it has locked. *)
LEMMA AdvanceCommitKeeps == ASSUME IInv, NEW s \in Schedulers, AdvanceCommit(s) PROVE IInv'
<1> DEFINE ends == sched[s].ends
           asks == sched[s].asks
<1>1. Keeps(s, ends \union asks) /\ TypeOK
  BY DEF IInv, SchedulerSound
<1>2. /\ locks' = Released(s) /\ sched' = [sched EXCEPT ![s] = NoSched] /\ UNCHANGED req
      /\ status' = [i \in Intents |-> IF i \in ends THEN "ENDED"
                                      ELSE IF i \in asks THEN "CONFIRMATION_PENDING" ELSE status[i]]
      /\ age' = [i \in Intents |-> IF i \in ends THEN "fresh" ELSE age[i]]
  BY DEF AdvanceCommit, Write
<1> HIDE DEF ends, asks
<1>3. /\ status' \in [Intents -> {"ABSENT", "LINK_CLICKED", "CONFIRMATION_PENDING", "ENDED"}]
      /\ age' \in [Intents -> {"fresh", "due", "overdue"}]
  BY <1>1, <1>2 DEF TypeOK
<1>4. ASSUME NEW i \in Intents
      PROVE  \/ status'[i] = status[i] /\ age'[i] = age[i]
             \/ locks[i] = s /\ (Active(i)' => age'[i] = age[i] /\ Active(i))
  BY <1>1, <1>2 DEF Keeps, Active
<1> QED
  BY <1>2, <1>3, <1>4, SchedulerEnds

-----------------------------------------------------------------------------
(* IInv is inductive. *)
LEMMA NextKeeps == ASSUME IInv, [Next]_vars PROVE IInv'
<1>1. CASE \E i \in Intents : Age(i)
  BY <1>1, AgeKeeps
<1>2. ASSUME NEW r \in Requests, SendCreate(r) \/ SendConfirm(r) \/ Advance(r) \/ Abort(r)
      PROVE  IInv'
  <2>1. CASE SendCreate(r) \/ SendConfirm(r)
    BY <2>1, SendKeeps
  <2>2. CASE Rollback(r)
    BY <2>2, RollbackKeeps
  <2>3. CASE Advance(r) /\ ~Rollback(r)
    BY <2>3, LockKeyKeeps, LockPairKeeps, LockExpiredKeeps, LockActiveKeeps, LockIntentKeeps,
       CommitCreateKeeps, CommitConfirmKeeps DEF Advance
  <2>4. CASE Abort(r)
    BY <2>2, <2>4 DEF Abort
  <2> QED
    BY <1>2, <2>1, <2>2, <2>3, <2>4
<1>3. ASSUME NEW s \in Schedulers, AdvanceWatchIntents(s) \/ AdvanceAbort(s)
      PROVE  IInv'
  BY <1>3, AdvanceStartKeeps, TakeRowKeeps, AdvanceCommitKeeps, AdvanceRollbackKeeps
  DEF AdvanceWatchIntents, AdvanceAbort
<1>4. ASSUME NEW t \in Transactions, DeadlockVictim(t)
      PROVE  IInv'
  BY <1>4, RollbackKeeps, AdvanceRollbackKeeps DEF DeadlockVictim, Transactions
<1>5. CASE UNCHANGED vars
  <2>1. UNCHANGED <<status, age, locks, req, sched>>
    BY <1>5 DEF vars
  <2>2. TypeOK' /\ OneActiveIntent' /\ LocksFit'
    BY <2>1 DEF IInv, TypeOK, OneActiveIntent, Active, LocksFit, Fits
  <2>3. ASSUME NEW u PROVE Undisturbed(u)
    BY <2>1 DEF Undisturbed, Active, Overdue
  <2>4. ASSUME NEW r \in Requests PROVE RequestSound(r)'
    BY <2>1, <2>3, RequestAlone DEF IInv
  <2>5. ASSUME NEW s \in Schedulers PROVE SchedulerSound(s)'
    BY <2>1, <2>3, SchedulerAlone DEF IInv
  <2> QED
    BY <2>2, <2>4, <2>5 DEF IInv
<1> QED
  BY <1>1, <1>2, <1>3, <1>4, <1>5 DEF Next, Steps

(* The inductive invariant: who holds which lock, that locked rows stay as they
   were found, and that a click knows the active rows of the pair it has locked. *)
THEOREM Inductive == Spec => []IInv
<1>1. IInv /\ [Next]_vars => IInv'
  BY NextKeeps
<1> QED
  BY InitInv, <1>1, PTL DEF Spec

(* Every variable of IntentLocks holds values of its type. *)
THEOREM TypeCorrect == Spec => []TypeOK
<1>1. IInv => TypeOK
  BY DEF IInv
<1> QED
  BY Inductive, <1>1, PTL

(* createWatchIntent under the lock of its pair, beside any schedulers: a pair
   never has two active intents. *)
THEOREM OneActive == Spec => []OneActiveIntent
<1>1. IInv => OneActiveIntent
  BY DEF IInv
<1> QED
  BY Inductive, <1>1, PTL

-----------------------------------------------------------------------------
(* Circles. *)

(* A request that waits for a lock holds no row, and it holds its pair only when
   it waits for a row. *)
LEMMA WaitingRequest ==
  ASSUME IInv, NEW r \in Requests, Want(r) # None, NEW y \in Lockable, locks[y] = r
  PROVE  /\ req[r].pc \in {"pair", "intent", "expire", "active"}
         /\ y \notin Intents
         /\ y \in Pairs => req[r].pc \notin {"pair", "intent"}
<1> USE LockableAssumption
<1>1. req[r].pc \notin {"idle", "key", "commit"}
  <2>1. req[r].pc # "commit"
    BY DEF IInv, RequestSound, AtCommit, Want
  <2> QED
    BY <2>1, HeldBefore
<1>2. req[r].pc \in {"pair", "intent", "expire", "active"}
  BY <1>1 DEF IInv, TypeOK, Req
<1> QED
  BY <1>2, HeldBefore

(* Who wants a key has no lock yet, and who wants a pair only its key. *)
LEMMA WantsInOrder ==
  ASSUME IInv, NEW t \in Transactions, NEW x \in Keys \union Pairs, Want(t) = x
  PROVE  /\ t \in Requests
         /\ x \in Keys => req[t].pc = "key"
         /\ x \in Pairs => req[t].pc = "pair"
<1> USE LockableAssumption, TransactionsAssumption
<1>1. x \notin Intents /\ x # None
  BY DEF Lockable
<1>2. t \in Requests
  <2>1. t \in Schedulers => sched[t].want \in Intents \union {None}
    BY DEF IInv, TypeOK, Sched
  <2> QED
    BY <1>1, <2>1 DEF Want, Transactions
<1>3. req[t].want = x /\ Before(t) /\ AtRow(t) /\ AtCommit(t)
  BY <1>2 DEF Want, IInv, RequestSound
<1>4. req[t].pc \in {"idle", "key", "pair", "expire", "active", "intent", "commit"}
  BY <1>2 DEF IInv, TypeOK, Req
<1>5. req[t].pc \notin {"idle", "expire", "active", "intent", "commit"}
  BY <1>1, <1>3 DEF Before, AtRow, AtCommit, OfPair, NoReq
<1>6. (req[t].pc = "key" => x \in Keys) /\ (req[t].pc = "pair" => x \in Pairs)
  BY <1>3 DEF Before
<1> QED
  BY <1>2, <1>4, <1>5, <1>6

(* A request in a circle holds, while it waits, its key or its pair alone.  So
   who waits for it is a request, at its key or its pair, which can hold its key
   alone; and who waits for that one is at its own key and holds nothing. *)
LEMMA NoRequestInACircle ==
  ASSUME IInv, NEW S \in SUBSET Transactions, Circle(S)
  PROVE  S \intersect Requests = {}
<1> USE LockableAssumption, TransactionsAssumption
<1> SUFFICES ASSUME NEW r \in S, r \in Requests PROVE FALSE
  OBVIOUS
<1>1. \A t \in S : \E u \in S : WaitsFor(t, u)
  BY DEF Circle
<1>2. \A u \in S : \E t \in S : WaitsFor(t, u)
  BY DEF Circle
<1>3. ASSUME NEW t \in Transactions PROVE Want(t) \in Lockable \union {None}
  BY <1>3 DEF Want, IInv, TypeOK, Req, Sched, Transactions, Lockable
<1>4. ASSUME NEW q \in S, q \in Requests
      PROVE  \E t \in S : /\ Want(t) \in Lockable /\ locks[Want(t)] = q /\ t \in Transactions
                          /\ Want(t) \in Keys \union Pairs
                          /\ req[q].pc \in {"pair", "intent", "expire", "active"}
                          /\ Want(t) \in Pairs => req[q].pc \notin {"pair", "intent"}
  <2>1. PICK t \in S : WaitsFor(t, q)
    BY <1>2
  <2>2. Want(q) # None
    BY <1>1 DEF WaitsFor
  <2>3. Want(t) \in Lockable /\ locks[Want(t)] = q
    BY <1>3, <2>1 DEF WaitsFor
  <2> QED
    BY <1>4, <2>2, <2>3, WaitingRequest DEF Lockable
<1>5. PICK t \in S : /\ Want(t) \in Keys \union Pairs /\ t \in Transactions
  BY <1>4
<1>6. t \in Requests /\ req[t].pc \in {"key", "pair"}
  BY <1>5, WantsInOrder
<1>7. PICK v \in S : /\ Want(v) \in Keys \union Pairs /\ v \in Transactions
                     /\ req[t].pc \in {"pair", "intent", "expire", "active"}
                     /\ Want(v) \in Pairs => req[t].pc \notin {"pair", "intent"}
  BY <1>4, <1>6
<1>8. v \in Requests /\ req[v].pc = "key"
  <2>1. req[t].pc = "pair"
    BY <1>6, <1>7
  <2>2. Want(v) \in Keys
    BY <1>7, <2>1
  <2>3. PICK k \in Keys : Want(v) = k
    BY <2>2
  <2> QED
    BY <1>7, <2>3, WantsInOrder
<1> QED
  BY <1>4, <1>8

(* C1Service and C1IdempotencyService: whatever requests run beside whatever
   schedulers, on any keys, pairs and rows, only schedulers can wait for each
   other in a circle, two of them or more.  In one process there is no deadlock. *)
THEOREM OnlySchedulersDeadlock == Spec => []CirclesAreOfSchedulers
<1>1. IInv => CirclesAreOfSchedulers
  <2> SUFFICES ASSUME IInv, NEW S \in SUBSET Transactions, Circle(S)
               PROVE  S \subseteq Schedulers /\ \E s, t \in S : s # t
    BY DEF CirclesAreOfSchedulers
  <2>1. S \subseteq Schedulers
    BY NoRequestInACircle DEF Transactions
  <2>2. \E s, t \in S : s # t
    BY DEF Circle, WaitsFor
  <2> QED
    BY <2>1, <2>2
<1> QED
  BY Inductive, <1>1, PTL

-----------------------------------------------------------------------------
(* Ended rows. *)

(* advanceWatchIntents, confirm and expireActiveIntent, in any number of
   processes: who writes a row has looked at it again under its lock, so what
   has ended is not written any more. *)
THEOREM EndedIsFinal == Spec => EndedStays
<1>1. ASSUME IInv, Next PROVE \A i \in Intents : status[i] = "ENDED" => status'[i] = "ENDED"
  <2>1. CASE status' = status
    BY <2>1
  <2>2. ASSUME NEW r \in Requests, CommitCreate(r) \/ CommitConfirm(r)
        PROVE  \A i \in Intents : status[i] = "ENDED" => status'[i] = "ENDED"
    <3>1. PICK new : /\ Write(r, req[r].ends, new)
                     /\ \A i \in Intents : status[i] = "ENDED" => new[i] = "ENDED"
      <4>1. CASE CommitConfirm(r)
        BY <4>1 DEF CommitConfirm
      <4>2. CASE CommitCreate(r) /\ Write(r, req[r].ends, status)
        BY <4>2
      <4>3. ASSUME NEW n \in OfPair(r), status[n] = "ABSENT",
                   Write(r, req[r].ends, [status EXCEPT ![n] = "LINK_CLICKED"])
            PROVE  \E new : /\ Write(r, req[r].ends, new)
                            /\ \A i \in Intents : status[i] = "ENDED" => new[i] = "ENDED"
        <5>1. \A i \in Intents : status[i] = "ENDED" =>
                                  [status EXCEPT ![n] = "LINK_CLICKED"][i] = "ENDED"
          BY <4>3 DEF IInv, TypeOK
        <5> QED
          BY <4>3, <5>1
      <4> QED
        BY <2>2, <4>1, <4>2, <4>3 DEF CommitCreate
    <3> QED
      BY <3>1 DEF Write
  <2>3. ASSUME NEW s \in Schedulers, AdvanceCommit(s)
        PROVE  \A i \in Intents : status[i] = "ENDED" => status'[i] = "ENDED"
    <3>1. ASSUME NEW i \in sched[s].asks PROVE status[i] # "ENDED"
      <4>1. SchedulerSound(s)
        BY <1>1, Zenon DEF IInv
      <4>2. Keeps(s, sched[s].ends \union sched[s].asks)
        BY <4>1, Zenon DEF SchedulerSound
      <4> QED
        BY <4>2 DEF Keeps, Active
    <3> QED
      BY <2>3, <3>1 DEF AdvanceCommit, Write
  <2>4. ASSUME NEW r \in Requests, SendCreate(r) \/ SendConfirm(r) \/ Advance(r) \/ Abort(r)
        PROVE  status' = status \/ CommitCreate(r) \/ CommitConfirm(r)
    BY <2>4 DEF SendCreate, SendConfirm, Send, Advance, Abort, Rollback, LockKey, LockPair,
       LockExpired, LockActive, LockIntent
  <2>5. ASSUME NEW s \in Schedulers, AdvanceWatchIntents(s) \/ AdvanceAbort(s)
        PROVE  status' = status \/ AdvanceCommit(s)
    BY <2>5 DEF AdvanceWatchIntents, AdvanceAbort, AdvanceRollback, AdvanceStart, TakeRow
  <2>6. ASSUME (\E i \in Intents : Age(i)) \/ (\E t \in Transactions : DeadlockVictim(t))
        PROVE  status' = status
    BY <2>6 DEF Age, DeadlockVictim, Rollback, AdvanceRollback
  <2> QED
    BY <1>1, <2>1, <2>2, <2>3, <2>4, <2>5, <2>6 DEF Next, Steps
<1>2. IInv /\ [Next]_vars => [\A i \in Intents : status[i] = "ENDED" => status'[i] = "ENDED"]_vars
  BY <1>1
<1> QED
  BY Inductive, <1>2, PTL DEF Spec, EndedStays
=============================================================================
