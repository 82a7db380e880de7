------------------------- MODULE RatingLedgerProofs -------------------------
(***************************************************************************)
(* Proofs about RatingLedger, for any number of movies, flavors,           *)
(* dimensions, requests and any set of catalogs.  The invariant says that  *)
(* a request that is past the lock of its movie holds that lock, hence     *)
(* that the rating and the posting it has read are still what they were;   *)
(* and that the rows of aggregates it has taken its old value from and     *)
(* added its new value to are, step by step, those of the old posting and  *)
(* of the new one.  Its commit then moves each aggregate by exactly what   *)
(* the posting of its movie changes.                                       *)
(***************************************************************************)
EXTENDS RatingLedger, FiniteSetTheorems, TLAPS

(* The aggregates a posting counts in. *)
KeysOf(p) == {p.flavor} \union p.dimensions

(* The aggregates of a request's movie before and after it. *)
OldKeys(r) == IF rating[Movie(r)].status = "ACTIVE" THEN KeysOf(posted[Movie(r)]) ELSE {}
NewKeys(r) == IF tx[r].op = "PUT" THEN KeysOf(tx[r].derived) ELSE {}

(* An eligible movie has a flavor. *)
CatalogServes == \A m \in Movies : catalog[m].eligible => catalog[m].flavor \in Flavors

(* The rows of a movie go together. *)
RowsAgree ==
  \A m \in Movies :
    /\ rating[m].status = "ACTIVE"
         => /\ posted[m].flavor \in Flavors
            /\ rating[m].value \in Values
            /\ viewing[m] = "RATED_COMPLETED"
    /\ rating[m].status # "ACTIVE"
         => posted[m] = NoPosting /\ viewing[m] # "RATED_COMPLETED"

(* A request is about a movie, and past its first statement holds its lock. *)
Holds(r) ==
  /\ tx[r].pc # "idle" => /\ tx[r].movie \in Movies
                          /\ tx[r].op \in {"PUT", "DELETE"}
                          /\ tx[r].op = "PUT" => tx[r].value \in Values
  /\ tx[r].pc \notin {"idle", "lock"} => locks[tx[r].movie] = r

(* What it has read still holds, and how far it has got with the aggregates. *)
InStep(r) ==
  /\ tx[r].pc \in {"idle", "lock", "read"} => tx[r].taken = {} /\ tx[r].added = {}
  /\ tx[r].pc \in {"out", "write", "in", "commit"} =>
       /\ Expected(r)
       /\ tx[r].op = "PUT" => tx[r].derived.flavor \in Flavors
       /\ tx[r].op = "DELETE" => tx[r].derived = NoPosting
  /\ tx[r].pc = "out" =>
       /\ rating[Movie(r)].status = "ACTIVE"
       /\ tx[r].added = {}
       /\ tx[r].want \in KeysOf(posted[Movie(r)])
       /\ tx[r].taken \subseteq KeysOf(posted[Movie(r)])
       /\ posted[Movie(r)].flavor \in tx[r].taken \union {tx[r].want}
  /\ tx[r].pc = "write" => tx[r].added = {}
  /\ tx[r].pc \in {"write", "in", "commit"} => tx[r].taken = OldKeys(r)
  /\ tx[r].pc = "in" =>
       /\ tx[r].op = "PUT"
       /\ tx[r].want \in KeysOf(tx[r].derived)
       /\ tx[r].added \subseteq KeysOf(tx[r].derived)
       /\ tx[r].derived.flavor \in tx[r].added \union {tx[r].want}
  /\ tx[r].pc = "commit" => tx[r].added = NewKeys(r)

IInv == /\ TypeOK /\ CatalogServes /\ RowsAgree /\ LedgerBalances
        /\ \A r \in Requests : Holds(r) /\ InStep(r)

-----------------------------------------------------------------------------
(* Before the first request nothing is rated and nothing is counted. *)
LEMMA InitInv == Init => IInv
<1> SUFFICES ASSUME Init PROVE IInv
  OBVIOUS
<1> USE DEF Init
<1>1. TypeOK
  BY CatalogsAssumption DEF TypeOK, Tx, Contribution, NoPosting, Idle, Request
<1>2. CatalogServes /\ RowsAgree
  BY CatalogsAssumption, KeysAssumption DEF CatalogServes, RowsAgree, Catalog, Entry, Aggregates
<1>3. LedgerBalances
  <2> SUFFICES ASSUME NEW k \in Aggregates
               PROVE  aggregate[k] = [count |-> Cardinality(PostedTo(k)), sum |-> Stars(k)]
    BY DEF LedgerBalances
  <2>1. PostedTo(k) = {}
    BY KeysAssumption DEF PostedTo, NoPosting
  <2>2. \A v \in 1..5 : Rated(k, v) = {}
    BY <2>1 DEF Rated
  <2>3. Cardinality(PostedTo(k)) = 0 /\ \A v \in 1..5 : Cardinality(Rated(k, v)) = 0
    BY <2>1, <2>2, FS_EmptySet
  <2>4. Stars(k) = 0
    BY <2>3 DEF Stars
  <2> QED
    BY <2>3, <2>4
<1>4. \A r \in Requests : Holds(r) /\ InStep(r)
  BY DEF Holds, InStep, Idle, Request
<1> QED
  BY <1>1, <1>2, <1>3, <1>4 DEF IInv

(* A step that leaves the tables and the catalog alone. *)
LEMMA SameTables ==
  ASSUME IInv, UNCHANGED <<catalog, tables>>
  PROVE  CatalogServes' /\ RowsAgree' /\ LedgerBalances'
<1> USE DEF IInv, tables
<1>1. CatalogServes' /\ RowsAgree'
  BY DEF CatalogServes, RowsAgree
<1>2. LedgerBalances'
  BY DEF LedgerBalances, PostedTo, Rated, Stars
<1> QED
  BY <1>1, <1>2

(* Types, when request r only changes what is its own, and locks. *)
LEMMA OwnType ==
  ASSUME TypeOK, NEW r \in Requests, UNCHANGED <<catalog, tables>>, NEW t \in Tx,
         tx' = [tx EXCEPT ![r] = t],
         locks' \in [Movies \union Aggregates -> Requests \union {None}]
  PROVE  TypeOK' /\ tx'[r] = t /\ \A s \in Requests \ {r} : tx'[s] = tx[s]
  BY DEF TypeOK, tables

(* What the others hold and have read is not disturbed by the step of request
   r that changes no table. *)
LEMMA OneRequest ==
  ASSUME IInv, NEW r \in Requests, UNCHANGED <<catalog, tables>>, TypeOK',
         \A s \in Requests \ {r} : tx'[s] = tx[s],
         \A x \in Movies \union Aggregates : locks'[x] # locks[x] => locks[x] \in {None, r},
         Holds(r)', InStep(r)'
  PROVE  IInv'
<1>1. ASSUME NEW s \in Requests, s # r PROVE Holds(s)' /\ InStep(s)'
  <2>1. tx'[s] = tx[s] /\ Holds(s) /\ InStep(s) /\ s # None
    BY <1>1, KeysAssumption DEF IInv
  <2>2. Holds(s)'
    BY <1>1, <2>1 DEF Holds
  <2>3. InStep(s)'
    BY <2>1 DEF InStep, Expected, OldKeys, NewKeys, KeysOf, Movie, tables
  <2> QED
    BY <2>2, <2>3
<1> QED
  BY <1>1, SameTables DEF IInv

(* The end of a transaction that changes nothing. *)
LEMMA RollbackInv ==
  ASSUME IInv, NEW r \in Requests, Rollback(r)
  PROVE  IInv'
<1> USE DEF Rollback, Release
<1>1. TypeOK'
  BY DEF IInv, TypeOK, Tx, Contribution, tables, Idle, Request, NoPosting
<1>2. tx'[r] = Idle
  BY DEF IInv, TypeOK, Tx, Contribution
<1>3. Holds(r)' /\ InStep(r)'
  BY <1>2 DEF Holds, InStep, Idle, Request
<1>4. \A s \in Requests \ {r} : tx'[s] = tx[s]
  BY DEF IInv, TypeOK, Tx, Contribution
<1>5. \A x \in Movies \union Aggregates : locks'[x] # locks[x] => locks[x] \in {None, r}
  OBVIOUS
<1> QED
  BY <1>1, <1>3, <1>4, <1>5, OneRequest

(* A new request. *)
LEMMA SendInv ==
  ASSUME IInv, NEW r \in Requests, Send(r)
  PROVE  IInv'
<1>1. PICK m \in Movies :
        \/ \E value \in Values, expected \in 1..MaxRevision \union {None} :
             SendPut(r, m, value, expected)
        \/ \E expected \in 1..MaxRevision : SendDelete(r, m, expected)
  BY DEF Send
<1>2. PICK op \in {"PUT", "DELETE"}, value \in Values \union {None}, expected \in Nat \union {None} :
        /\ tx' = [tx EXCEPT ![r] = Request("lock", op, m, value, expected)]
        /\ op = "PUT" => value \in Values
        /\ UNCHANGED <<catalog, tables, locks>>
  BY <1>1, SizesAssumption DEF SendPut, SendDelete
<1>3. tx'[r] = Request("lock", op, m, value, expected)
  BY <1>2 DEF IInv, TypeOK, Tx, Contribution
<1>4. TypeOK'
  BY <1>2 DEF IInv, TypeOK, Tx, Contribution, tables, Idle, Request, NoPosting
<1>5. Holds(r)' /\ InStep(r)'
  BY <1>2, <1>3 DEF Holds, InStep, Idle, Request
<1>6. \A s \in Requests \ {r} : tx'[s] = tx[s]
  BY <1>2 DEF IInv, TypeOK, Tx, Contribution
<1> QED
  BY <1>2, <1>4, <1>5, <1>6, OneRequest

-----------------------------------------------------------------------------
(* The statements of a transaction before its commit. *)

LEMMA LockMovieInv ==
  ASSUME IInv, NEW r \in Requests, LockMovie(r)
  PROVE  IInv'
<1> DEFINE t == [tx[r] EXCEPT !.pc = "read"]
<1>1. /\ tx[r].pc = "lock" /\ tx[r].movie \in Movies /\ tx[r] \in Tx
      /\ Holds(r) /\ InStep(r) /\ TypeOK
  BY DEF IInv, TypeOK, Holds, LockMovie
<1>2. /\ tx' = [tx EXCEPT ![r] = t]
      /\ locks[tx[r].movie] \in {None, r} /\ locks' = [locks EXCEPT ![tx[r].movie] = r]
      /\ UNCHANGED <<catalog, tables>>
  BY DEF LockMovie, Lock, Free, Goto, Movie
<1>3. /\ t \in Tx
      /\ t.op = tx[r].op /\ t.movie = tx[r].movie /\ t.value = tx[r].value
      /\ t.taken = tx[r].taken /\ t.added = tx[r].added /\ t.pc = "read"
  BY <1>1 DEF Tx
<1> HIDE DEF t
<1>4. locks' \in [Movies \union Aggregates -> Requests \union {None}]
  BY <1>1, <1>2 DEF TypeOK
<1>5. TypeOK' /\ tx'[r] = t /\ \A s \in Requests \ {r} : tx'[s] = tx[s]
  BY <1>1, <1>2, <1>3, <1>4, OwnType
<1>6. Holds(r)'
  BY <1>1, <1>2, <1>3, <1>5 DEF TypeOK, Holds
<1>7. InStep(r)'
  BY <1>1, <1>3, <1>5 DEF InStep
<1>8. \A x \in Movies \union Aggregates : locks'[x] # locks[x] => locks[x] \in {None, r}
  BY <1>1, <1>2 DEF TypeOK
<1> QED
  BY <1>2, <1>5, <1>6, <1>7, <1>8, OneRequest

LEMMA ReadInv ==
  ASSUME IInv, NEW r \in Requests, Read(r)
  PROVE  IInv'
<1> DEFINE m == tx[r].movie
           update == rating[m].status = "ACTIVE"
           derived == IF tx[r].op = "DELETE" THEN NoPosting
                      ELSE [flavor |-> catalog[m].flavor, dimensions |-> catalog[m].dimensions]
           t == [tx[r] EXCEPT !.pc = IF update THEN "out" ELSE "write",
                              !.want = IF update THEN posted[m].flavor ELSE None,
                              !.derived = derived]
<1>1. /\ tx[r].pc = "read" /\ tx[r].op \in {"PUT", "DELETE"} /\ m \in Movies /\ tx[r] \in Tx
      /\ tx[r].taken = {} /\ tx[r].added = {} /\ Holds(r) /\ TypeOK
  BY DEF IInv, TypeOK, Holds, InStep, Read
<1>2. /\ Eligible(r) /\ Expected(r)
      /\ tx' = [tx EXCEPT ![r] = t]
      /\ UNCHANGED <<catalog, tables, locks>>
  BY DEF Read, Movie, Posting
<1>3. derived \in Contribution /\ (tx[r].op = "DELETE" => derived = NoPosting)
  BY <1>1 DEF TypeOK, Catalog, Entry, NoPosting, Contribution
<1>4. update => posted[m].flavor \in Flavors
  BY <1>1 DEF IInv, RowsAgree
<1>5. tx[r].op = "PUT" => derived.flavor \in Flavors
  BY <1>1, <1>2 DEF IInv, CatalogServes, Eligible, Movie
<1> HIDE DEF derived
<1>6. /\ t \in Tx
      /\ t.op = tx[r].op /\ t.movie = m /\ t.expected = tx[r].expected /\ t.value = tx[r].value
      /\ t.taken = {} /\ t.added = {} /\ t.derived = derived
      /\ t.pc = IF update THEN "out" ELSE "write"
      /\ t.want = IF update THEN posted[m].flavor ELSE None
  BY <1>1, <1>3, <1>4 DEF Tx, Aggregates
<1> HIDE DEF t
<1>7. TypeOK' /\ tx'[r] = t /\ \A s \in Requests \ {r} : tx'[s] = tx[s]
  BY <1>1, <1>2, <1>6, OwnType DEF TypeOK
<1>8. Holds(r)'
  BY <1>1, <1>2, <1>6, <1>7 DEF Holds
<1>9. Expected(r)'
  BY <1>2, <1>6, <1>7 DEF Expected, Movie, tables
<1>10. InStep(r)'
  BY <1>1, <1>2, <1>3, <1>5, <1>6, <1>7, <1>9 DEF InStep, Movie, tables, KeysOf, OldKeys
<1> QED
  BY <1>2, <1>7, <1>8, <1>10, OneRequest

LEMMA WriteRowsInv ==
  ASSUME IInv, NEW r \in Requests, WriteRows(r)
  PROVE  IInv'
<1> DEFINE t == [tx[r] EXCEPT !.pc = IF tx[r].op = "PUT" THEN "in" ELSE "commit",
                              !.want = tx[r].derived.flavor]
<1>1. /\ tx[r].pc = "write" /\ tx[r].op \in {"PUT", "DELETE"} /\ tx[r].movie \in Movies
      /\ tx[r] \in Tx /\ Holds(r) /\ InStep(r) /\ TypeOK
  BY DEF IInv, TypeOK, Holds, WriteRows
<1>2. tx' = [tx EXCEPT ![r] = t] /\ UNCHANGED <<catalog, tables, locks>>
  BY DEF WriteRows
<1>3. /\ t \in Tx
      /\ t.op = tx[r].op /\ t.movie = tx[r].movie /\ t.expected = tx[r].expected
      /\ t.value = tx[r].value
      /\ t.taken = tx[r].taken /\ t.added = tx[r].added /\ t.derived = tx[r].derived
      /\ t.pc = IF tx[r].op = "PUT" THEN "in" ELSE "commit"
      /\ t.want = tx[r].derived.flavor
  BY <1>1 DEF Tx, Contribution, Aggregates
<1> HIDE DEF t
<1>4. TypeOK' /\ tx'[r] = t /\ \A s \in Requests \ {r} : tx'[s] = tx[s]
  BY <1>1, <1>2, <1>3, OwnType DEF TypeOK
<1>5. Holds(r)'
  BY <1>1, <1>2, <1>3, <1>4 DEF Holds
<1>6. Expected(r)' /\ OldKeys(r)' = OldKeys(r)
  BY <1>1, <1>2, <1>3, <1>4 DEF Expected, Movie, tables, InStep, OldKeys, KeysOf
<1>7. InStep(r)'
  BY <1>1, <1>3, <1>4, <1>6 DEF InStep, KeysOf, NewKeys
<1> QED
  BY <1>2, <1>4, <1>5, <1>7, OneRequest

(* What a step of Continue comes to. *)
LEMMA ContinueCases ==
  ASSUME NEW here, NEW left, NEW pc, NEW next \in Continue(here, left, pc)
  PROVE  \/ left = {} /\ next.pc = pc /\ next.want = None
         \/ next.pc = here /\ next.want \in left
  BY DEF Continue

LEMMA TakeOutInv ==
  ASSUME IInv, NEW r \in Requests, TakeOut(r)
  PROVE  IInv'
<1> DEFINE m == tx[r].movie
           keys == KeysOf(posted[m])
           taken == tx[r].taken \union {tx[r].want}
<1>1. /\ tx[r].pc = "out" /\ m \in Movies /\ tx[r] \in Tx
      /\ Holds(r) /\ InStep(r) /\ TypeOK
  BY DEF IInv, TypeOK, Holds, TakeOut
<1>2. /\ rating[m].status = "ACTIVE" /\ tx[r].added = {} /\ Expected(r)
      /\ tx[r].want \in keys /\ taken \subseteq keys /\ posted[m].flavor \in taken
  BY <1>1 DEF InStep, Movie
<1>3. keys \subseteq Aggregates
  BY <1>1, <1>2 DEF IInv, RowsAgree, TypeOK, Contribution, KeysOf, Aggregates
<1>4. PICK next \in Continue("out", posted[m].dimensions \ taken, "write") :
        tx' = [tx EXCEPT ![r].taken = taken, ![r].pc = next.pc, ![r].want = next.want]
  BY DEF TakeOut, Movie, Posting
<1>5. /\ locks[tx[r].want] \in {None, r} /\ locks' = [locks EXCEPT ![tx[r].want] = r]
      /\ UNCHANGED <<catalog, tables>>
  BY DEF TakeOut, Lock, Free
<1>6. \/ posted[m].dimensions \ taken = {} /\ next.pc = "write" /\ next.want = None
      \/ next.pc = "out" /\ next.want \in posted[m].dimensions \ taken
  BY ContinueCases
<1>7. next.want \in Aggregates \union {None} /\ next.pc \in {"out", "write"}
  BY <1>3, <1>6 DEF KeysOf
<1> DEFINE t == [tx[r] EXCEPT !.taken = taken, !.pc = next.pc, !.want = next.want]
<1>8. taken \in SUBSET Aggregates
  BY <1>2, <1>3
<1>9. tx' = [tx EXCEPT ![r] = t]
  BY <1>4
<1> HIDE DEF taken
<1>10. /\ t \in Tx
       /\ t.op = tx[r].op /\ t.movie = m /\ t.expected = tx[r].expected /\ t.value = tx[r].value
       /\ t.taken = taken /\ t.added = tx[r].added /\ t.derived = tx[r].derived
       /\ t.pc = next.pc /\ t.want = next.want
  BY <1>1, <1>7, <1>8 DEF Tx
<1> HIDE DEF t
<1>11. locks' \in [Movies \union Aggregates -> Requests \union {None}]
  BY <1>1, <1>5 DEF TypeOK
<1>12. TypeOK' /\ tx'[r] = t /\ \A s \in Requests \ {r} : tx'[s] = tx[s]
  BY <1>1, <1>5, <1>9, <1>10, <1>11, OwnType
<1>13. Holds(r)'
  BY <1>1, <1>5, <1>10, <1>12 DEF TypeOK, Holds
<1>14. Expected(r)'
  BY <1>2, <1>5, <1>10, <1>12 DEF Expected, Movie, tables
<1>15. InStep(r)'
  <2>1. CASE next.pc = "write"
    <3>1. taken = keys
      BY <1>2, <1>6, <2>1 DEF KeysOf
    <3>2. taken = OldKeys(r)'
      BY <1>2, <1>5, <1>10, <1>12, <3>1 DEF OldKeys, Movie, tables, KeysOf
    <3> QED
      BY <1>1, <1>2, <1>10, <1>12, <1>14, <2>1, <3>2 DEF InStep
  <2>2. CASE next.pc = "out"
    <3>1. next.want \in keys
      BY <1>6, <2>2 DEF KeysOf
    <3> QED
      BY <1>1, <1>2, <1>5, <1>10, <1>12, <1>14, <2>2, <3>1 DEF InStep, Movie, tables, KeysOf
  <2> QED
    BY <1>7, <2>1, <2>2
<1>16. \A x \in Movies \union Aggregates : locks'[x] # locks[x] => locks[x] \in {None, r}
  BY <1>1, <1>5 DEF TypeOK
<1> QED
  BY <1>5, <1>12, <1>13, <1>15, <1>16, OneRequest

LEMMA AddInInv ==
  ASSUME IInv, NEW r \in Requests, AddIn(r)
  PROVE  IInv'
<1> DEFINE m == tx[r].movie
           keys == KeysOf(tx[r].derived)
           added == tx[r].added \union {tx[r].want}
<1>1. /\ tx[r].pc = "in" /\ m \in Movies /\ tx[r] \in Tx
      /\ Holds(r) /\ InStep(r) /\ TypeOK
  BY DEF IInv, TypeOK, Holds, AddIn
<1>2. /\ tx[r].op = "PUT" /\ tx[r].derived.flavor \in Flavors /\ Expected(r)
      /\ tx[r].taken = OldKeys(r)
      /\ tx[r].want \in keys /\ added \subseteq keys /\ tx[r].derived.flavor \in added
  BY <1>1 DEF InStep
<1>3. keys \subseteq Aggregates
  BY <1>1, <1>2 DEF Tx, Contribution, KeysOf, Aggregates
<1>4. PICK next \in Continue("in", tx[r].derived.dimensions \ added, "commit") :
        tx' = [tx EXCEPT ![r].added = added, ![r].pc = next.pc, ![r].want = next.want]
  BY DEF AddIn
<1>5. /\ locks[tx[r].want] \in {None, r} /\ locks' = [locks EXCEPT ![tx[r].want] = r]
      /\ UNCHANGED <<catalog, tables>>
  BY DEF AddIn, Lock, Free
<1>6. \/ tx[r].derived.dimensions \ added = {} /\ next.pc = "commit" /\ next.want = None
      \/ next.pc = "in" /\ next.want \in tx[r].derived.dimensions \ added
  BY ContinueCases
<1>7. next.want \in Aggregates \union {None} /\ next.pc \in {"in", "commit"}
  BY <1>3, <1>6 DEF KeysOf
<1> DEFINE t == [tx[r] EXCEPT !.added = added, !.pc = next.pc, !.want = next.want]
<1>8. added \in SUBSET Aggregates
  BY <1>2, <1>3
<1>9. tx' = [tx EXCEPT ![r] = t]
  BY <1>4
<1> HIDE DEF added
<1>10. /\ t \in Tx
       /\ t.op = tx[r].op /\ t.movie = m /\ t.expected = tx[r].expected /\ t.value = tx[r].value
       /\ t.taken = tx[r].taken /\ t.added = added /\ t.derived = tx[r].derived
       /\ t.pc = next.pc /\ t.want = next.want
  BY <1>1, <1>7, <1>8 DEF Tx
<1> HIDE DEF t
<1>11. locks' \in [Movies \union Aggregates -> Requests \union {None}]
  BY <1>1, <1>5 DEF TypeOK
<1>12. TypeOK' /\ tx'[r] = t /\ \A s \in Requests \ {r} : tx'[s] = tx[s]
  BY <1>1, <1>5, <1>9, <1>10, <1>11, OwnType
<1>13. Holds(r)'
  BY <1>1, <1>5, <1>10, <1>12 DEF TypeOK, Holds
<1>14. Expected(r)' /\ OldKeys(r)' = OldKeys(r)
  BY <1>2, <1>5, <1>10, <1>12 DEF Expected, Movie, tables, OldKeys, KeysOf
<1>15. InStep(r)'
  <2>1. CASE next.pc = "commit"
    <3>1. added = keys
      BY <1>2, <1>6, <2>1 DEF KeysOf
    <3>2. added = NewKeys(r)'
      BY <1>2, <1>10, <1>12, <3>1 DEF NewKeys, KeysOf
    <3> QED
      BY <1>1, <1>2, <1>10, <1>12, <1>14, <2>1, <3>2 DEF InStep
  <2>2. CASE next.pc = "in"
    <3>1. next.want \in keys
      BY <1>6, <2>2 DEF KeysOf
    <3> QED
      BY <1>1, <1>2, <1>10, <1>12, <1>14, <2>2, <3>1 DEF InStep, KeysOf
  <2> QED
    BY <1>7, <2>1, <2>2
<1>16. \A x \in Movies \union Aggregates : locks'[x] # locks[x] => locks[x] \in {None, r}
  BY <1>1, <1>5 DEF TypeOK
<1> QED
  BY <1>5, <1>12, <1>13, <1>15, <1>16, OneRequest

-----------------------------------------------------------------------------
(* The world around. *)

LEMMA WorldInv ==
  ASSUME IInv, (\E m \in Movies : ConfirmWatched(m)) \/ (\E c \in Catalogs : Publish(c))
  PROVE  IInv'
<1>1. ASSUME NEW m \in Movies, ConfirmWatched(m) PROVE IInv'
  <2> USE <1>1 DEF ConfirmWatched, IInv
  <2>1. TypeOK' /\ CatalogServes'
    BY DEF TypeOK, CatalogServes
  <2>2. RowsAgree'
    BY DEF TypeOK, RowsAgree
  <2>3. LedgerBalances'
    BY DEF LedgerBalances, PostedTo, Rated, Stars
  <2>4. \A r \in Requests : Holds(r)' /\ InStep(r)'
    BY DEF Holds, InStep, Expected, OldKeys, NewKeys, KeysOf, Movie
  <2> QED
    BY <2>1, <2>2, <2>3, <2>4
<1>2. ASSUME NEW c \in Catalogs, Publish(c) PROVE IInv'
  <2> USE <1>2 DEF Publish, tables, IInv
  <2>1. TypeOK' /\ CatalogServes'
    <3>1. c \in Catalog /\ \A m \in Movies : c[m].eligible => c[m].flavor # None
      BY CatalogsAssumption
    <3>2. catalog' \in Catalog
      <4>1. \A m \in Movies : catalog[m] \in Entry /\ c[m] \in Entry
        BY <3>1 DEF TypeOK, Catalog
      <4>2. \A m \in Movies : [catalog[m] EXCEPT !.eligible = FALSE] \in Entry
        BY <4>1 DEF Entry
      <4> QED
        BY <4>1, <4>2 DEF Catalog
    <3>3. CatalogServes'
      BY <3>1 DEF TypeOK, Catalog, Entry, CatalogServes
    <3> QED
      BY <3>2, <3>3 DEF TypeOK
  <2>2. RowsAgree'
    BY DEF RowsAgree
  <2>3. LedgerBalances'
    BY DEF LedgerBalances, PostedTo, Rated, Stars
  <2>4. \A r \in Requests : Holds(r)' /\ InStep(r)'
    BY DEF Holds, InStep, Expected, OldKeys, NewKeys, KeysOf, Movie
  <2> QED
    BY <2>1, <2>2, <2>3, <2>4
<1> QED
  BY <1>1, <1>2

-----------------------------------------------------------------------------
(* The commit. *)

(* Two finite sets that differ in one element at most. *)
LEMMA OneElement ==
  ASSUME NEW S, NEW T, NEW x, IsFiniteSet(S), IsFiniteSet(T), S \ {x} = T \ {x}
  PROVE  /\ Cardinality(S) \in Nat /\ Cardinality(T) \in Nat
         /\ Cardinality(T) = Cardinality(S) - (IF x \in S THEN 1 ELSE 0)
                                            + (IF x \in T THEN 1 ELSE 0)
<1>1. Cardinality(S) \in Nat /\ Cardinality(T) \in Nat
  BY FS_CardinalityType
<1>2. Cardinality(S \ {x}) = IF x \in S THEN Cardinality(S) - 1 ELSE Cardinality(S)
  BY FS_RemoveElement
<1>3. Cardinality(T \ {x}) = IF x \in T THEN Cardinality(T) - 1 ELSE Cardinality(T)
  BY FS_RemoveElement
<1> QED
  BY <1>1, <1>2, <1>3

(* Movies are finite, and so is what is counted of them. *)
LEMMA Counted ==
  /\ \A k : IsFiniteSet(PostedTo(k)) /\ IsFiniteSet(PostedTo(k)')
  /\ \A k, v : IsFiniteSet(Rated(k, v)) /\ IsFiniteSet(Rated(k, v)')
<1>1. \A k : PostedTo(k) \in SUBSET Movies /\ PostedTo(k)' \in SUBSET Movies
  BY DEF PostedTo
<1>2. \A k, v : Rated(k, v) \in SUBSET Movies /\ Rated(k, v)' \in SUBSET Movies
  BY <1>1 DEF Rated
<1> QED
  BY <1>1, <1>2, FS_Subset, SizesAssumption

(* The transaction that commits: its lock, its values, how far it has got. *)
LEMMA Committing ==
  ASSUME IInv, NEW r \in Requests, Commit(r)
  PROVE  /\ Movie(r) \in Movies /\ tx[r] \in Tx /\ locks[Movie(r)] = r
         /\ tx[r].op \in {"PUT", "DELETE"}
         /\ tx[r].op = "PUT" => tx[r].value \in Values /\ tx[r].derived.flavor \in Flavors
         /\ tx[r].op = "DELETE" => tx[r].derived = NoPosting
         /\ tx[r].taken = OldKeys(r) /\ tx[r].added = NewKeys(r)
<1>1. tx[r].pc = "commit" /\ Holds(r) /\ InStep(r) /\ tx[r] \in Tx
  BY DEF IInv, TypeOK, Commit
<1> QED
  BY <1>1 DEF Holds, InStep, Movie

(* What a commit does to the rows of its movie, and to no other. *)
LEMMA CommitRows ==
  ASSUME IInv, NEW r \in Requests, Commit(r)
  PROVE  /\ rating'[Movie(r)].status = IF tx[r].op = "PUT" THEN "ACTIVE" ELSE "DELETED"
         /\ rating'[Movie(r)].value = IF tx[r].op = "PUT" THEN tx[r].value
                                                          ELSE rating[Movie(r)].value
         /\ posted'[Movie(r)] = tx[r].derived
         /\ viewing'[Movie(r)] = ViewingAfter(tx[r].op)
         /\ \A n \in Movies : n # Movie(r) => /\ rating'[n] = rating[n]
                                              /\ posted'[n] = posted[n]
                                              /\ viewing'[n] = viewing[n]
  BY Committing DEF IInv, TypeOK, Commit

(* Its movie was posted to the aggregates it has taken its old value from and
   is posted to those it has added its new value to. *)
LEMMA CommitPosting ==
  ASSUME IInv, NEW r \in Requests, Commit(r), NEW k \in Aggregates
  PROVE  /\ Movie(r) \in PostedTo(k) <=> k \in tx[r].taken
         /\ Movie(r) \in PostedTo(k)' <=> k \in tx[r].added
         /\ PostedTo(k) \ {Movie(r)} = PostedTo(k)' \ {Movie(r)}
         /\ \A v : Rated(k, v) \ {Movie(r)} = Rated(k, v)' \ {Movie(r)}
<1> DEFINE m == Movie(r)
<1>0. k # None
  BY KeysAssumption
<1>1. m \in PostedTo(k) <=> k \in tx[r].taken
  <2>1. m \in Movies /\ tx[r].taken = OldKeys(r)
    BY Committing
  <2>2. CASE rating[m].status = "ACTIVE"
    BY <2>1, <2>2 DEF PostedTo, OldKeys, KeysOf
  <2>3. CASE rating[m].status # "ACTIVE"
    <3>1. posted[m] = NoPosting
      BY <2>1, <2>3 DEF IInv, RowsAgree
    <3> QED
      BY <1>0, <2>1, <2>3, <3>1 DEF PostedTo, OldKeys, NoPosting
  <2> QED
    BY <2>2, <2>3
<1>2. m \in PostedTo(k)' <=> k \in tx[r].added
  <2>1. /\ m \in Movies /\ tx[r].added = NewKeys(r) /\ posted'[m] = tx[r].derived
        /\ tx[r].op \in {"PUT", "DELETE"}
        /\ tx[r].op = "DELETE" => tx[r].derived = NoPosting
    BY Committing, CommitRows
  <2>2. m \in PostedTo(k)' <=> k = tx[r].derived.flavor \/ k \in tx[r].derived.dimensions
    BY <2>1 DEF PostedTo
  <2> QED
    BY <1>0, <2>1, <2>2 DEF NewKeys, KeysOf, NoPosting
<1>3. PostedTo(k) \ {m} = PostedTo(k)' \ {m}
  BY CommitRows DEF PostedTo
<1>4. \A v : Rated(k, v) \ {m} = Rated(k, v)' \ {m}
  <2>1. \A n \in Movies : n # m => rating'[n] = rating[n]
    BY CommitRows
  <2>2. PostedTo(k) \subseteq Movies /\ PostedTo(k)' \subseteq Movies
    BY DEF PostedTo
  <2> QED
    BY <1>3, <2>1, <2>2 DEF Rated
<1> QED
  BY <1>1, <1>2, <1>3, <1>4

(* The old and the new value of the movie are stars. *)
LEMMA CommitValues ==
  ASSUME IInv, NEW r \in Requests, Commit(r), NEW k \in Aggregates
  PROVE  /\ k \in tx[r].taken => rating[Movie(r)].value \in 1..5
         /\ k \in tx[r].added => tx[r].op = "PUT" /\ tx[r].value \in 1..5
         /\ rating[Movie(r)].value \in 0..5
<1>1. Movie(r) \in Movies
  BY Committing
<1>2. rating[Movie(r)].value \in Values \union {0}
  BY <1>1 DEF IInv, TypeOK
<1>3. k \in tx[r].taken => rating[Movie(r)].value \in Values
  <2>1. k \in tx[r].taken => rating[Movie(r)].status = "ACTIVE"
    BY Committing DEF OldKeys
  <2> QED
    BY <1>1, <2>1 DEF IInv, RowsAgree
<1>4. k \in tx[r].added => tx[r].op = "PUT" /\ tx[r].value \in Values
  BY Committing DEF NewKeys
<1>5. \A v \in Values : v \in 1..5 /\ v \in 0..5
  BY ValuesAssumption
<1> QED
  BY <1>2, <1>3, <1>4, <1>5

(* A commit moves each aggregate by what it takes out and what it adds. *)
LEMMA CommitBalances ==
  ASSUME IInv, NEW r \in Requests, Commit(r)
  PROVE  LedgerBalances' /\ aggregate' \in [Aggregates -> [count : Nat, sum : Nat]]
<1>1. ASSUME NEW k \in Aggregates
      PROVE  /\ aggregate'[k] = [count |-> Cardinality(PostedTo(k)'), sum |-> Stars(k)']
             /\ Cardinality(PostedTo(k)') \in Nat /\ Stars(k)' \in Nat
  <2> DEFINE m == Movie(r)
             old == rating[m].value
             out == IF k \in tx[r].taken THEN 1 ELSE 0
             in == IF k \in tx[r].added THEN 1 ELSE 0
             value == IF tx[r].op = "PUT" THEN tx[r].value ELSE 0
             n(v) == Cardinality(Rated(k, v))
             nn(v) == Cardinality(Rated(k, v)')
  <2>1. aggregate[k] = [count |-> Cardinality(PostedTo(k)), sum |-> Stars(k)]
    BY DEF IInv, LedgerBalances
  <2>2. aggregate'[k] = [count |-> Cardinality(PostedTo(k)) - out + in,
                         sum |-> Stars(k) - out * old + in * value]
    BY <2>1 DEF Commit, Tentative, OldValue
  <2>3. /\ Cardinality(PostedTo(k)) \in Nat /\ Cardinality(PostedTo(k)') \in Nat
        /\ Cardinality(PostedTo(k)') = Cardinality(PostedTo(k)) - out + in
    BY CommitPosting, Counted, OneElement
  <2>4. /\ k \in tx[r].taken => old \in 1..5
        /\ k \in tx[r].added => value \in 1..5
        /\ old \in 0..5
    BY CommitValues
  <2>5. \A v \in 1..5 : m \in Rated(k, v) <=> k \in tx[r].taken /\ old = v
    BY CommitPosting DEF Rated
  <2>6. \A v \in 1..5 : m \in Rated(k, v)' <=> k \in tx[r].added /\ value = v
    <3>1. k \in tx[r].added => rating'[m].value = value
      BY CommitRows, CommitValues
    <3> QED
      BY <3>1, CommitPosting DEF Rated
  <2>7. \A v \in 1..5 : /\ n(v) \in Nat /\ nn(v) \in Nat
                        /\ nn(v) = n(v) - (IF k \in tx[r].taken /\ old = v THEN 1 ELSE 0)
                                        + (IF k \in tx[r].added /\ value = v THEN 1 ELSE 0)
    <3> SUFFICES ASSUME NEW v \in 1..5
                 PROVE  /\ n(v) \in Nat /\ nn(v) \in Nat
                        /\ nn(v) = n(v) - (IF m \in Rated(k, v) THEN 1 ELSE 0)
                                        + (IF m \in Rated(k, v)' THEN 1 ELSE 0)
      BY <2>5, <2>6
    <3>1. Rated(k, v) \ {m} = Rated(k, v)' \ {m}
      BY CommitPosting
    <3> QED
      BY <3>1, Counted, OneElement
  <2>8. /\ Stars(k) = n(1) + 2 * n(2) + 3 * n(3) + 4 * n(4) + 5 * n(5)
        /\ Stars(k)' = nn(1) + 2 * nn(2) + 3 * nn(3) + 4 * nn(4) + 5 * nn(5)
    BY DEF Stars
  <2> DEFINE d(v) == IF k \in tx[r].taken /\ old = v THEN 1 ELSE 0
             e(v) == IF k \in tx[r].added /\ value = v THEN 1 ELSE 0
  <2>9. /\ \A v \in 1..5 : n(v) \in Nat /\ nn(v) \in Nat /\ nn(v) = n(v) - d(v) + e(v)
        /\ \A v \in 1..5 : d(v) \in {0, 1} /\ e(v) \in {0, 1}
    BY <2>7
  <2>10. out * old = d(1) + 2 * d(2) + 3 * d(3) + 4 * d(4) + 5 * d(5)
    <3> HIDE DEF old
    <3>1. k \in tx[r].taken => old = 1 \/ old = 2 \/ old = 3 \/ old = 4 \/ old = 5
      BY <2>4
    <3> QED
      BY <2>4, <3>1
  <2>11. in * value = e(1) + 2 * e(2) + 3 * e(3) + 4 * e(4) + 5 * e(5)
    <3>1. value \in Int
      <4>1. tx[r].op = "PUT" => tx[r].value \in Values
        BY Committing
      <4>2. \A v \in Values : v \in Int
        BY ValuesAssumption
      <4> QED
        BY <4>1, <4>2
    <3> HIDE DEF value
    <3>2. k \in tx[r].added => value = 1 \/ value = 2 \/ value = 3 \/ value = 4 \/ value = 5
      BY <2>4
    <3> QED
      BY <3>1, <3>2
  <2> DEFINE P == out * old
             Q == in * value
  <2>12. Stars(k)' \in Nat /\ Stars(k)' = Stars(k) - P + Q
    <3>1. /\ n(1) \in Nat /\ nn(1) \in Nat /\ nn(1) = n(1) - d(1) + e(1)
          /\ n(2) \in Nat /\ nn(2) \in Nat /\ nn(2) = n(2) - d(2) + e(2)
          /\ n(3) \in Nat /\ nn(3) \in Nat /\ nn(3) = n(3) - d(3) + e(3)
          /\ n(4) \in Nat /\ nn(4) \in Nat /\ nn(4) = n(4) - d(4) + e(4)
          /\ n(5) \in Nat /\ nn(5) \in Nat /\ nn(5) = n(5) - d(5) + e(5)
      BY <2>9
    <3>2. /\ d(1) \in Nat /\ d(2) \in Nat /\ d(3) \in Nat /\ d(4) \in Nat /\ d(5) \in Nat
          /\ e(1) \in Nat /\ e(2) \in Nat /\ e(3) \in Nat /\ e(4) \in Nat /\ e(5) \in Nat
      BY <2>9
    <3>3. /\ P = d(1) + 2 * d(2) + 3 * d(3) + 4 * d(4) + 5 * d(5)
          /\ Q = e(1) + 2 * e(2) + 3 * e(3) + 4 * e(4) + 5 * e(5)
      BY <2>10, <2>11
    <3> HIDE DEF n, nn, d, e, P, Q
    <3> QED
      BY <2>8, <3>1, <3>2, <3>3
  <2> QED
    BY <2>2, <2>3, <2>12
<1>2. LedgerBalances'
  BY <1>1 DEF LedgerBalances
<1>3. aggregate' = [k \in Aggregates |-> aggregate'[k]]
  BY DEF Commit
<1> QED
  BY <1>1, <1>2, <1>3

LEMMA CommitInv ==
  ASSUME IInv, NEW r \in Requests, Commit(r)
  PROVE  IInv'
<1> DEFINE m == Movie(r)
<1>1. TypeOK'
  <2>1. /\ m \in Movies /\ tx[r] \in Tx /\ tx[r].op \in {"PUT", "DELETE"}
        /\ tx[r].op = "PUT" => tx[r].value \in Values
    BY Committing
  <2>2. tx' \in [Requests -> Tx] /\ locks' \in [Movies \union Aggregates -> Requests \union {None}]
    BY DEF IInv, TypeOK, Tx, Contribution, Commit, Release, Idle, Request, NoPosting
  <2>3. posted' \in [Movies -> Contribution]
    BY <2>1 DEF IInv, TypeOK, Commit, Tx
  <2>4. /\ viewing' \in [Movies -> {"NONE", "WATCHED_CONFIRMED", "RATED_COMPLETED"}]
        /\ rating' \in [Movies -> [status : {"NONE", "ACTIVE", "DELETED"}, revision : Nat,
                                   value : Values \union {0}]]
    BY <2>1 DEF IInv, TypeOK, Commit, ViewingAfter
  <2>5. catalog' \in Catalog
    BY DEF IInv, TypeOK, Commit
  <2> QED
    BY <2>2, <2>3, <2>4, <2>5, CommitBalances DEF TypeOK
<1>2. CatalogServes'
  BY DEF IInv, CatalogServes, Commit
<1>3. RowsAgree'
  <2> SUFFICES ASSUME NEW n \in Movies
               PROVE  /\ rating'[n].status = "ACTIVE"
                           => /\ posted'[n].flavor \in Flavors
                              /\ rating'[n].value \in Values
                              /\ viewing'[n] = "RATED_COMPLETED"
                      /\ rating'[n].status # "ACTIVE"
                           => posted'[n] = NoPosting /\ viewing'[n] # "RATED_COMPLETED"
    BY DEF RowsAgree
  <2>1. CASE n = m
    BY <2>1, Committing, CommitRows DEF ViewingAfter
  <2>2. CASE n # m
    BY <2>2, CommitRows DEF IInv, RowsAgree
  <2> QED
    BY <2>1, <2>2
<1>4. tx'[r] = Idle /\ \A s \in Requests \ {r} : tx'[s] = tx[s]
  BY DEF IInv, TypeOK, Commit
<1>5. ASSUME NEW s \in Requests PROVE Holds(s)' /\ InStep(s)'
  <2>1. CASE s = r
    BY <1>4, <2>1 DEF Holds, InStep, Idle, Request
  <2>2. CASE s # r
    <3>1. tx'[s] = tx[s] /\ Holds(s) /\ InStep(s)
      BY <1>4, <2>2 DEF IInv
    <3>2. Holds(s)'
      BY <2>2, <3>1 DEF IInv, TypeOK, Holds, Commit, Release
    <3>3. CASE tx[s].pc \in {"out", "write", "in", "commit"}
      <4>1. tx[s].movie \in Movies /\ tx[s].movie # m
        BY <2>2, <3>1, <3>3, Committing DEF Holds
      <4>2. rating'[tx[s].movie] = rating[tx[s].movie] /\ posted'[tx[s].movie] = posted[tx[s].movie]
        BY <4>1, CommitRows
      <4> QED
        BY <3>1, <3>2, <4>2 DEF InStep, Expected, OldKeys, NewKeys, KeysOf, Movie
    <3>4. CASE tx[s].pc \notin {"out", "write", "in", "commit"}
      BY <3>1, <3>2, <3>4 DEF InStep
    <3> QED
      BY <3>3, <3>4
  <2> QED
    BY <2>1, <2>2
<1> QED
  BY <1>1, <1>2, <1>3, <1>5, CommitBalances DEF IInv

LEMMA NextInv == IInv /\ [Next]_vars => IInv'
<1> SUFFICES ASSUME IInv, [Next]_vars PROVE IInv'
  OBVIOUS
<1>1. CASE UNCHANGED vars
  <2> USE <1>1 DEF IInv, vars, tables
  <2>1. TypeOK' /\ CatalogServes' /\ RowsAgree' /\ LedgerBalances'
    BY SameTables DEF TypeOK
  <2>2. \A r \in Requests : Holds(r)' /\ InStep(r)'
    BY DEF Holds, InStep, Expected, OldKeys, NewKeys, Movie
  <2> QED
    BY <2>1, <2>2
<1>2. CASE (\E m \in Movies : ConfirmWatched(m)) \/ (\E c \in Catalogs : Publish(c))
  BY <1>2, WorldInv
<1>3. ASSUME NEW r \in Requests, Send(r) \/ Advance(r) \/ DeadlockVictim(r) \/ Abort(r)
      PROVE  IInv'
  <2>1. CASE Send(r)
    BY <2>1, SendInv
  <2>2. CASE LockMovie(r)
    BY <2>2, LockMovieInv
  <2>3. CASE Read(r)
    BY <2>3, ReadInv
  <2>4. CASE TakeOut(r)
    BY <2>4, TakeOutInv
  <2>5. CASE WriteRows(r)
    BY <2>5, WriteRowsInv
  <2>6. CASE AddIn(r)
    BY <2>6, AddInInv
  <2>7. CASE Commit(r)
    BY <2>7, CommitInv
  <2>8. CASE Refuse(r) \/ PopcornRefused(r) \/ DeadlockVictim(r) \/ Abort(r)
    BY <2>8, RollbackInv DEF Refuse, PopcornRefused, DeadlockVictim, Abort
  <2> QED
    BY <1>3, <2>1, <2>2, <2>3, <2>4, <2>5, <2>6, <2>7, <2>8 DEF Advance
<1> QED
  BY <1>1, <1>2, <1>3 DEF Next

(* The invariant holds in every reachable state. *)
THEOREM Inductive == Spec => []IInv
<1> QED
  BY InitInv, NextInv, PTL DEF Spec

(* Every variable keeps its type, whatever requests and imports do. *)
THEOREM TypeCorrect == Spec => []TypeOK
<1>1. IInv => TypeOK
  BY DEF IInv
<1> QED
  BY <1>1, Inductive, PTL

(* The aggregates of flavors and tastes count and sum exactly the active
   ratings, for any interleaving of changes, aborts and imports. *)
THEOREM AggregatesBalance == Spec => []LedgerBalances
<1>1. IInv => LedgerBalances
  BY DEF IInv
<1> QED
  BY <1>1, Inductive, PTL

(* Active rating, frame and completed viewing go together. *)
THEOREM FrameFollowsRating == Spec => []ActiveHasFrame
<1>1. IInv => ActiveHasFrame
  BY KeysAssumption DEF IInv, RowsAgree, ActiveHasFrame, NoPosting, Aggregates
<1> QED
  BY <1>1, Inductive, PTL

(* A change applies to the revision its caller has seen: the check made when
   the rating was read still holds at the commit. *)
THEOREM UpdatesKept == Spec => NoLostUpdate
<1>1. IInv /\ [Next]_vars =>
        [\A r \in Requests : Commit(r) =>
           LET row == rating[Movie(r)] IN
           tx[r].expected = IF row.status = "ACTIVE" THEN row.revision ELSE None]_vars
  BY DEF IInv, InStep, Expected, Commit
<1> QED
  BY <1>1, Inductive, PTL DEF Spec, NoLostUpdate

-----------------------------------------------------------------------------
(* The constraints of the aggregates. *)

LEMMA DisjointUnion ==
  ASSUME NEW S, NEW T, IsFiniteSet(S), IsFiniteSet(T), S \intersect T = {}
  PROVE  /\ IsFiniteSet(S \union T)
         /\ Cardinality(S \union T) = Cardinality(S) + Cardinality(T)
<1>1. Cardinality(S) \in Nat /\ Cardinality(T) \in Nat
  BY FS_CardinalityType
<1>2. Cardinality(S \intersect T) = 0
  BY FS_EmptySet
<1>3. /\ IsFiniteSet(S \union T)
      /\ Cardinality(S \union T) = Cardinality(S) + Cardinality(T) - Cardinality(S \intersect T)
  BY FS_Union
<1> QED
  BY <1>1, <1>2, <1>3

(* The ratings posted to an aggregate are those of one to five stars. *)
LEMMA ByStars ==
  ASSUME IInv, NEW k \in Aggregates
  PROVE  /\ \A v \in 1..5 : Cardinality(Rated(k, v)) \in Nat
         /\ Cardinality(PostedTo(k)) = Cardinality(Rated(k, 1)) + Cardinality(Rated(k, 2))
              + Cardinality(Rated(k, 3)) + Cardinality(Rated(k, 4)) + Cardinality(Rated(k, 5))
<1> DEFINE R(v) == Rated(k, v)
<1>1. /\ \A v : IsFiniteSet(R(v))
      /\ \A v : Cardinality(R(v)) \in Nat
  BY Counted, FS_CardinalityType
<1>2. \A m \in PostedTo(k) : rating[m].value \in 1..5
  <2>1. \A m \in PostedTo(k) : rating[m].status = "ACTIVE"
    BY KeysAssumption DEF IInv, RowsAgree, PostedTo, NoPosting
  <2>2. \A m \in PostedTo(k) : rating[m].value \in Values
    BY <2>1 DEF IInv, RowsAgree, PostedTo
  <2> QED
    BY <2>2, ValuesAssumption
<1>3. PostedTo(k) = R(1) \union (R(2) \union (R(3) \union (R(4) \union R(5))))
  BY <1>2 DEF Rated
<1>4. \A v, w \in 1..5 : v # w => R(v) \intersect R(w) = {}
  BY DEF Rated
<1> HIDE DEF R
<1>5. /\ IsFiniteSet(R(4) \union R(5))
      /\ Cardinality(R(4) \union R(5)) = Cardinality(R(4)) + Cardinality(R(5))
  <2>1. IsFiniteSet(R(4)) /\ IsFiniteSet(R(5)) /\ R(4) \intersect R(5) = {}
    BY <1>1, <1>4
  <2> QED
    BY <2>1, DisjointUnion
<1>6. /\ IsFiniteSet(R(3) \union (R(4) \union R(5)))
      /\ Cardinality(R(3) \union (R(4) \union R(5)))
           = Cardinality(R(3)) + (Cardinality(R(4)) + Cardinality(R(5)))
  <2>1. IsFiniteSet(R(3)) /\ R(3) \intersect (R(4) \union R(5)) = {}
    BY <1>1, <1>4
  <2> QED
    BY <1>5, <2>1, DisjointUnion
<1>7. /\ IsFiniteSet(R(2) \union (R(3) \union (R(4) \union R(5))))
      /\ Cardinality(R(2) \union (R(3) \union (R(4) \union R(5))))
           = Cardinality(R(2)) + (Cardinality(R(3)) + (Cardinality(R(4)) + Cardinality(R(5))))
  <2>1. IsFiniteSet(R(2)) /\ R(2) \intersect (R(3) \union (R(4) \union R(5))) = {}
    BY <1>1, <1>4
  <2> QED
    BY <1>6, <2>1, DisjointUnion
<1>8. Cardinality(PostedTo(k))
        = Cardinality(R(1)) + (Cardinality(R(2)) + (Cardinality(R(3))
            + (Cardinality(R(4)) + Cardinality(R(5)))))
  <2>1. /\ IsFiniteSet(R(1))
        /\ R(1) \intersect (R(2) \union (R(3) \union (R(4) \union R(5)))) = {}
    BY <1>1, <1>4
  <2> QED
    BY <1>3, <1>7, <2>1, DisjointUnion
<1>9. \A v \in 1..5 : Cardinality(R(v)) \in Nat
  BY <1>1
<1>10. /\ Cardinality(R(1)) \in Nat /\ Cardinality(R(2)) \in Nat /\ Cardinality(R(3)) \in Nat
       /\ Cardinality(R(4)) \in Nat /\ Cardinality(R(5)) \in Nat
  BY <1>9
<1>11. Cardinality(PostedTo(k)) = Cardinality(R(1)) + Cardinality(R(2)) + Cardinality(R(3))
                                    + Cardinality(R(4)) + Cardinality(R(5))
  BY <1>8, <1>10
<1> QED
  BY <1>9, <1>11 DEF R

(* A row taken out counts the old rating of its movie, one added counts a new
   rating of one to five stars. *)
LEMMA TakenRow ==
  ASSUME IInv, NEW r \in Requests, NEW k \in Aggregates
  PROVE  /\ k \in tx[r].taken => Movie(r) \in PostedTo(k) /\ OldValue(r) \in 1..5
         /\ k \in tx[r].added => tx[r].op = "PUT" /\ tx[r].value \in 1..5
<1>1. Holds(r) /\ InStep(r) /\ tx[r] \in Tx
  BY DEF IInv, TypeOK
<1>2. \A v \in Values : v \in 1..5
  BY ValuesAssumption
<1>3. ASSUME k \in tx[r].taken PROVE Movie(r) \in PostedTo(k) /\ OldValue(r) \in 1..5
  <2>1. tx[r].pc \in {"out", "write", "in", "commit"}
    BY <1>1, <1>3 DEF InStep, Tx
  <2>2. Movie(r) \in Movies
    BY <1>1, <2>1 DEF Holds, Movie
  <2>3. rating[Movie(r)].status = "ACTIVE" /\ k \in KeysOf(posted[Movie(r)])
    BY <1>1, <1>3, <2>1 DEF InStep, OldKeys
  <2>4. Movie(r) \in PostedTo(k)
    BY <2>2, <2>3 DEF PostedTo, KeysOf
  <2>5. OldValue(r) \in Values
    BY <2>2, <2>3 DEF IInv, RowsAgree, OldValue
  <2> QED
    BY <1>2, <2>4, <2>5
<1>4. ASSUME k \in tx[r].added PROVE tx[r].op = "PUT" /\ tx[r].value \in 1..5
  <2>1. tx[r].pc \in {"in", "commit"}
    BY <1>1, <1>4 DEF InStep, Tx
  <2>2. tx[r].op = "PUT"
    BY <1>1, <1>4, <2>1 DEF InStep, NewKeys
  <2> QED
    BY <1>1, <1>2, <2>1, <2>2 DEF Holds
<1> QED
  BY <1>3, <1>4

(* No constraint of an aggregate, checked at every statement that updates its
   row, ever stops a request. *)
THEOREM ConstraintsHold == Spec => []ChecksNeverFire
<1>1. ASSUME IInv, NEW r \in Requests, NEW k \in Aggregates,
             k \in tx[r].taken \union tx[r].added
      PROVE  LET row == Tentative(r, k) IN
             /\ k \in tx[r].taken => aggregate[k].count > 0
             /\ row.count >= 0 /\ row.sum <= 5 * row.count
             /\ row.sum >= row.count /\ (row.count = 0 => row.sum = 0)
  <2> DEFINE out == IF k \in tx[r].taken THEN 1 ELSE 0
             in == IF k \in tx[r].added THEN 1 ELSE 0
             old == OldValue(r)
             value == IF tx[r].op = "PUT" THEN tx[r].value ELSE 0
             n(v) == Cardinality(Rated(k, v))
             P == out * old
             Q == in * value
             N == n(1) + n(2) + n(3) + n(4) + n(5)
             S == n(1) + 2 * n(2) + 3 * n(3) + 4 * n(4) + 5 * n(5)
  <2>1. aggregate[k].count = N /\ aggregate[k].sum = S
    <3>1. aggregate[k] = [count |-> Cardinality(PostedTo(k)), sum |-> Stars(k)]
      BY <1>1 DEF IInv, LedgerBalances
    <3>2. Cardinality(PostedTo(k)) = N
      BY <1>1, ByStars
    <3> QED
      BY <3>1, <3>2 DEF Stars
  <2>2. Tentative(r, k).count = N - out + in /\ Tentative(r, k).sum = S - P + Q
    BY <2>1 DEF Tentative
  <2>3. /\ n(1) \in Nat /\ n(2) \in Nat /\ n(3) \in Nat /\ n(4) \in Nat /\ n(5) \in Nat
    BY <1>1, ByStars
  <2>4. \/ in = 0 /\ Q = 0
        \/ in = 1 /\ Q \in 1..5
    <3>1. tx[r].op = "PUT" => tx[r].value \in Int
      <4>1. \A v \in Values : v \in Int
        BY ValuesAssumption
      <4>2. tx[r].pc \in {"idle", "lock", "read"} => k \notin tx[r].added
        BY <1>1 DEF IInv, InStep
      <4> QED
        BY <1>1, <4>1, <4>2 DEF IInv, Holds, TypeOK, Tx, InStep
    <3>2. value \in Int
      BY <3>1
    <3>3. k \in tx[r].added => value \in 1..5
      BY <1>1, TakenRow
    <3> HIDE DEF value
    <3> QED
      BY <3>2, <3>3
  <2>5. \/ out = 0 /\ P = 0
        \/ out = 1 /\ \E v \in 1..5 : P = v /\ n(v) >= 1
    <3>1. k \in tx[r].taken => old \in 1..5 /\ Movie(r) \in PostedTo(k)
      BY <1>1, TakenRow
    <3>2. k \in tx[r].taken => n(old) >= 1
      <4>1. k \in tx[r].taken => Rated(k, old) # {}
        BY <3>1 DEF Rated, OldValue
      <4>2. IsFiniteSet(Rated(k, old)) /\ Cardinality(Rated(k, old)) \in Nat
        BY Counted, FS_CardinalityType
      <4> HIDE DEF old
      <4> QED
        BY <4>1, <4>2, FS_EmptySet
    <3>3. old \in Int
      <4>1. tx[r].pc # "idle" /\ Movie(r) \in Movies
        BY <1>1 DEF IInv, InStep, Holds, Movie
      <4>2. old \in Values \union {0}
        BY <4>1, <1>1 DEF IInv, OldValue, TypeOK
      <4>3. \A v \in Values \union {0} : v \in Int
        BY ValuesAssumption
      <4> QED
        BY <4>2, <4>3
    <3> HIDE DEF old, n
    <3> QED
      BY <3>1, <3>2, <3>3
  <2>6. k \in tx[r].taken => out = 1
    OBVIOUS
  <2> HIDE DEF n, out, in, P, Q
  <2>7. /\ out = 1 => N > 0
        /\ N - out + in >= 0 /\ S - P + Q <= 5 * (N - out + in)
        /\ S - P + Q >= N - out + in
        /\ N - out + in = 0 => S - P + Q = 0
    <3>1. \/ out = 0 /\ P = 0
          \/ out = 1 /\ P = 1 /\ n(1) >= 1
          \/ out = 1 /\ P = 2 /\ n(2) >= 1
          \/ out = 1 /\ P = 3 /\ n(3) >= 1
          \/ out = 1 /\ P = 4 /\ n(4) >= 1
          \/ out = 1 /\ P = 5 /\ n(5) >= 1
      BY <2>5
    <3> DEFINE M == N - out
               T == S - P
    <3>2. /\ M \in Nat /\ T \in Int
          /\ M <= T /\ T <= 5 * M
          /\ out = 1 => N > 0
      BY <2>3, <3>1
    <3> HIDE DEF M, T
    <3>3. M + in >= 0 /\ T + Q <= 5 * (M + in) /\ T + Q >= M + in /\ (M + in = 0 => T + Q = 0)
      BY <2>4, <3>2
    <3> QED
      BY <3>2, <3>3 DEF M, T
  <2> QED
    BY <2>1, <2>2, <2>6, <2>7
<1>2. IInv => ChecksNeverFire
  BY <1>1 DEF ChecksNeverFire
<1> QED
  BY <1>2, Inductive, PTL
-----------------------------------------------------------------------------
(* The refinement.  What a request has read of the viewing record and of the
   catalog need not be so any longer when it commits; it is enough that the
   movie is still watched and that some catalog gave it that posting. *)

Past == {"out", "write", "in", "commit"}

Published == \A m \in Movies : catalog[m].eligible =>
               \E c \in Catalogs : c[m].eligible /\ c[m] = catalog[m]

AsRead(r) == tx[r].pc \in Past /\ tx[r].op = "PUT" =>
               viewing[Movie(r)] # "NONE" /\ tx[r].derived \in Served[Movie(r)]

PromiseInv == IInv /\ Published /\ \A r \in Requests : AsRead(r)

(* A movie that was watched stays watched: a deleted rating does not undo it. *)
LEMMA StaysWatched ==
  ASSUME IInv, [Next]_vars, NEW m \in Movies, viewing[m] # "NONE"
  PROVE  viewing'[m] # "NONE"
<1>0. viewing \in [Movies -> {"NONE", "WATCHED_CONFIRMED", "RATED_COMPLETED"}]
  BY DEF IInv, TypeOK
<1>1. CASE UNCHANGED vars
  BY <1>1 DEF vars, tables
<1>2. ASSUME NEW n \in Movies, ConfirmWatched(n) PROVE viewing'[m] # "NONE"
  BY <1>0, <1>2 DEF ConfirmWatched
<1>3. ASSUME NEW c \in Catalogs, Publish(c) PROVE viewing'[m] # "NONE"
  BY <1>3 DEF Publish, tables
<1>4. ASSUME NEW r \in Requests, Send(r) \/ Advance(r) \/ DeadlockVictim(r) \/ Abort(r)
      PROVE  viewing'[m] # "NONE"
  <2>1. CASE Commit(r)
    BY <1>0, <2>1 DEF Commit, ViewingAfter
  <2>2. CASE ~Commit(r)
    BY <1>4, <2>2 DEF Advance, LockMovie, Read, Refuse, TakeOut, WriteRows, PopcornRefused, AddIn,
                      Send, SendPut, SendDelete, DeadlockVictim, Abort, Rollback, tables
  <2> QED
    BY <2>1, <2>2
<1> QED
  BY <1>1, <1>2, <1>3, <1>4 DEF Next

(* A request that is past its reads has just made them or goes on as it was. *)
LEMMA GoesOn ==
  ASSUME IInv, [Next]_vars, NEW r \in Requests, tx'[r].pc \in Past
  PROVE  \/ Read(r)
         \/ /\ tx[r].pc \in Past /\ tx'[r].op = tx[r].op
            /\ tx'[r].movie = tx[r].movie /\ tx'[r].derived = tx[r].derived
<1>0. tx \in [Requests -> Tx]
  BY DEF IInv, TypeOK
<1>1. CASE UNCHANGED tx
  BY <1>1
<1>2. ASSUME NEW s \in Requests, s # r, Send(s) \/ Advance(s) \/ DeadlockVictim(s) \/ Abort(s)
      PROVE  tx'[r] = tx[r]
  BY <1>0, <1>2 DEF Advance, LockMovie, Read, Refuse, TakeOut, WriteRows, PopcornRefused, AddIn,
                    Commit, Send, SendPut, SendDelete, DeadlockVictim, Abort, Rollback, Goto
<1>3. CASE Send(r) \/ Refuse(r) \/ PopcornRefused(r) \/ Commit(r) \/ DeadlockVictim(r)
           \/ Abort(r) \/ LockMovie(r)
  BY <1>0, <1>3 DEF LockMovie, Refuse, PopcornRefused, Commit, Send, SendPut, SendDelete,
                    DeadlockVictim, Abort, Rollback, Goto, Idle, Request, Past, Tx
<1>4. CASE TakeOut(r)
  BY <1>0, <1>4 DEF TakeOut, Past, Tx
<1>5. CASE WriteRows(r)
  BY <1>0, <1>5 DEF WriteRows, Past, Tx
<1>6. CASE AddIn(r)
  BY <1>0, <1>6 DEF AddIn, Past, Tx
<1>7. (\E m \in Movies : ConfirmWatched(m)) \/ (\E c \in Catalogs : Publish(c)) => UNCHANGED tx
  BY DEF ConfirmWatched, Publish
<1>8. UNCHANGED vars => UNCHANGED tx
  BY DEF vars
<1> QED
  BY <1>1, <1>2, <1>3, <1>4, <1>5, <1>6, <1>7, <1>8 DEF Next, Advance

(* Both facts about what was read are kept by every step. *)
LEMMA NextPromise == PromiseInv /\ [Next]_vars => PromiseInv'
<1> SUFFICES ASSUME PromiseInv, [Next]_vars PROVE PromiseInv'
  OBVIOUS
<1>1. IInv /\ IInv'
  BY NextInv DEF PromiseInv
<1>2. Published'
  <2>1. CASE UNCHANGED catalog
    BY <2>1 DEF PromiseInv, Published
  <2>2. ASSUME NEW c \in Catalogs, Publish(c) PROVE Published'
    <3> SUFFICES ASSUME NEW m \in Movies, catalog'[m].eligible
                 PROVE  \E d \in Catalogs : d[m].eligible /\ d[m] = catalog'[m]
      BY DEF Published
    <3>1. catalog[m] \in Entry
      BY <1>1 DEF IInv, TypeOK, Catalog
    <3>2. catalog'[m] = IF c[m].eligible THEN c[m] ELSE [catalog[m] EXCEPT !.eligible = FALSE]
      BY <2>2 DEF Publish
    <3>3. c[m].eligible /\ catalog'[m] = c[m]
      BY <3>1, <3>2 DEF Entry
    <3> QED
      BY <3>3
  <2>3. (\E c \in Catalogs : Publish(c)) \/ UNCHANGED catalog
    BY DEF Next, vars, ConfirmWatched, Advance, LockMovie, Read, Refuse, TakeOut, WriteRows,
           PopcornRefused, AddIn, Commit, Send, SendPut, SendDelete, DeadlockVictim, Abort, Rollback
  <2> QED
    BY <2>1, <2>2, <2>3
<1>3. ASSUME NEW r \in Requests PROVE AsRead(r)'
  <2> SUFFICES ASSUME tx'[r].pc \in Past, tx'[r].op = "PUT"
               PROVE  viewing'[Movie(r)'] # "NONE" /\ tx'[r].derived \in Served[Movie(r)']
    BY DEF AsRead, Served
  <2>1. Movie(r)' \in Movies
    BY <1>1 DEF IInv, Holds, Movie, Past
  <2>2. CASE Read(r)
    <3>1. /\ tx'[r].movie = tx[r].movie /\ tx[r].op = "PUT" /\ viewing' = viewing
          /\ tx'[r].derived = [flavor |-> catalog[Movie(r)].flavor,
                               dimensions |-> catalog[Movie(r)].dimensions]
      BY <1>1, <2>2 DEF IInv, TypeOK, Tx, Read, tables
    <3>2. viewing[Movie(r)] # "NONE" /\ catalog[Movie(r)].eligible
      BY <2>2, <3>1 DEF Read, Eligible
    <3>3. PICK c \in Catalogs : c[Movie(r)].eligible /\ c[Movie(r)] = catalog[Movie(r)]
      BY <2>1, <3>1, <3>2 DEF PromiseInv, Published, Movie
    <3> QED
      BY <2>1, <3>1, <3>2, <3>3 DEF Served, Movie
  <2>3. CASE ~Read(r)
    <3>1. /\ tx[r].pc \in Past /\ tx'[r].op = tx[r].op
          /\ tx'[r].movie = tx[r].movie /\ tx'[r].derived = tx[r].derived
      BY <1>1, <2>3, GoesOn
    <3>2. viewing[Movie(r)] # "NONE" /\ tx[r].derived \in Served[Movie(r)]
      BY <3>1 DEF PromiseInv, AsRead
    <3> QED
      BY <1>1, <2>1, <3>1, <3>2, StaysWatched DEF Movie
  <2> QED
    BY <2>2, <2>3
<1> QED
  BY <1>1, <1>2, <1>3 DEF PromiseInv
(* Before the first request, every catalog is one that is published. *)
LEMMA InitPromise == Init => PromiseInv
<1> SUFFICES ASSUME Init PROVE PromiseInv
  OBVIOUS
<1>1. Published
  BY DEF Init, Published
<1>2. \A r \in Requests : AsRead(r)
  BY DEF Init, AsRead, Past, Idle, Request
<1> QED
  BY <1>1, <1>2, InitInv DEF PromiseInv

(* The instance counts as this module does. *)
LEMMA SameCount == \A S : Atomic!Cardinality(S) = Cardinality(S)
  BY DEF Cardinality, Atomic!Cardinality

(* A ledger that balances has the totals of the abstract one, before a step
   and after it. *)
LEMMA BalanceTotals ==
  /\ LedgerBalances /\ aggregate = [k \in Aggregates |-> aggregate[k]] => Atomic!Totalled
  /\ (LedgerBalances /\ aggregate = [k \in Aggregates |-> aggregate[k]])' => Atomic!Totalled'
<1>1. ASSUME NEW k PROVE Atomic!Total(k) = [count |-> Cardinality(PostedTo(k)), sum |-> Stars(k)]
  <2>1. Atomic!Counted(k) = PostedTo(k)
    BY DEF Atomic!Counted, PostedTo
  <2>2. \A v : Atomic!Stars(k, v) = v * Cardinality({m \in PostedTo(k) : rating[m].value = v})
    BY <2>1, SameCount DEF Atomic!Stars
  <2>3. \A v : Atomic!Stars(k, v) = v * Cardinality(Rated(k, v))
    BY <2>2 DEF Rated
  <2>4. Cardinality(Rated(k, 1)) \in Nat
    BY Counted, FS_CardinalityType
  <2>5. 1 * Cardinality(Rated(k, 1)) = Cardinality(Rated(k, 1))
    BY <2>4
  <2> QED
    BY <2>1, <2>3, <2>5, SameCount DEF Atomic!Total, Stars
<1>2. ASSUME NEW k PROVE Atomic!Total(k)' = [count |-> Cardinality(PostedTo(k)'), sum |-> Stars(k)']
  <2>1. Atomic!Counted(k)' = PostedTo(k)'
    BY DEF Atomic!Counted, PostedTo
  <2>2. \A v : Atomic!Stars(k, v)' = v * Cardinality({m \in PostedTo(k)' : rating'[m].value = v})
    BY <2>1, SameCount DEF Atomic!Stars
  <2>3. \A v : Atomic!Stars(k, v)' = v * Cardinality(Rated(k, v)')
    BY <2>2 DEF Rated
  <2>4. Cardinality(Rated(k, 1)') \in Nat
    BY Counted, FS_CardinalityType
  <2>5. 1 * Cardinality(Rated(k, 1)') = Cardinality(Rated(k, 1)')
    BY <2>4
  <2> QED
    BY <2>1, <2>3, <2>5, SameCount DEF Atomic!Total, Stars
<1>5. LedgerBalances /\ aggregate = [k \in Aggregates |-> aggregate[k]] => Atomic!Totalled
  BY <1>1 DEF LedgerBalances, Atomic!Totalled
<1>6. (LedgerBalances /\ aggregate = [k \in Aggregates |-> aggregate[k]])' => Atomic!Totalled'
  BY <1>2 DEF LedgerBalances, Atomic!Totalled
<1> QED
  BY <1>5, <1>6

(* A commit is a step of the abstract ledger. *)
LEMMA CommitIsAtomic ==
  ASSUME PromiseInv, NEW r \in Requests, Commit(r)
  PROVE  Atomic!Next
<1> DEFINE m == Movie(r)
<1>1. IInv /\ AsRead(r)
  BY DEF PromiseInv
<1>2. m \in Movies /\ tx[r] \in Tx /\ tx[r].op \in {"PUT", "DELETE"}
  BY <1>1, Committing
<1>3. Atomic!Totalled'
  BY <1>1, CommitBalances, BalanceTotals DEF Commit
<1>4. CASE tx[r].op = "PUT"
  <2>1. viewing[m] # "NONE" /\ tx[r].derived \in Served[m] /\ tx[r].value \in Values
    BY <1>1, <1>4, Committing DEF AsRead, Past, Commit
  <2>2. Atomic!Put(m, tx[r].value, tx[r].derived)
    BY <1>3, <1>4, <2>1 DEF Atomic!Put, Commit, ViewingAfter
  <2> QED
    BY <1>2, <2>1, <2>2 DEF Atomic!Next
<1>5. CASE tx[r].op = "DELETE"
  <2>1. rating[m].status = "ACTIVE"
    BY <1>1, <1>5 DEF Commit, IInv, InStep, Expected
  <2>2. tx[r].derived = NoPosting
    BY <1>1, <1>5, Committing
  <2>3. rating[m] = [status |-> rating[m].status, revision |-> rating[m].revision,
                     value |-> rating[m].value]
    BY <1>1, <1>2 DEF IInv, TypeOK
  <2>4. rating' = [rating EXCEPT ![m] = [status |-> "DELETED", revision |-> rating[m].revision + 1,
                                         value |-> rating[m].value]]
    BY <1>1, <1>5 DEF Commit
  <2>5. rating' = [rating EXCEPT ![m].status = "DELETED", ![m].revision = @ + 1]
    BY <1>1, <1>2, <2>3, <2>4 DEF IInv, TypeOK
  <2>6. Atomic!Delete(m)
    BY <1>3, <1>5, <2>1, <2>2, <2>5 DEF Atomic!Delete, Commit, ViewingAfter
  <2> QED
    BY <1>2, <2>6 DEF Atomic!Next
<1> QED
  BY <1>2, <1>4, <1>5

(* Requests change ratings as if each change were made in one step, with the
   aggregates at the totals of what is posted to them: differences, locks,
   circles, aborts and imports do not show. *)
THEOREM RatingsAreAtomic == Spec => ImplementsAtomicRatings
<1>1. Init => Atomic!Init
  <2> SUFFICES ASSUME Init PROVE Atomic!Init
    OBVIOUS
  <2>1. LedgerBalances /\ aggregate = [k \in Aggregates |-> aggregate[k]]
    BY InitInv DEF IInv, Init
  <2> QED
    BY <2>1, BalanceTotals DEF Init, Atomic!Init
<1>2. PromiseInv /\ [Next]_vars => [Atomic!Next]_(Atomic!vars)
  <2> SUFFICES ASSUME PromiseInv, [Next]_vars PROVE Atomic!Next \/ UNCHANGED tables
    BY DEF tables, Atomic!vars
  <2>1. ASSUME NEW r \in Requests, Commit(r) PROVE Atomic!Next
    BY <2>1, CommitIsAtomic
  <2>2. ASSUME NEW m \in Movies, ConfirmWatched(m) PROVE Atomic!Next
    BY <2>2 DEF ConfirmWatched, Atomic!Watch, Atomic!Next
  <2>3. \/ \E r \in Requests : Commit(r)
        \/ \E m \in Movies : ConfirmWatched(m)
        \/ UNCHANGED tables
    BY DEF Next, vars, Publish, Advance, LockMovie, Read, Refuse, TakeOut, WriteRows,
           PopcornRefused, AddIn, Send, SendPut, SendDelete, DeadlockVictim, Abort, Rollback
  <2> QED
    BY <2>1, <2>2, <2>3
<1> QED
  BY <1>1, <1>2, InitPromise, NextPromise, PTL DEF Spec, ImplementsAtomicRatings, Atomic!Spec
-----------------------------------------------------------------------------
(* Circles of waiting requests. *)

(* A request that has not got past the lock of its movie holds nothing. *)
LocksInv == \A r \in Requests, x \in Movies \union Aggregates :
              locks[x] = r => tx[r].pc \notin {"idle", "lock"}

(* Locks are taken after the one of the movie, and all of them given back. *)
LEMMA NextLocks == IInv /\ LocksInv /\ [Next]_vars => LocksInv'
<1> SUFFICES ASSUME IInv, LocksInv, [Next]_vars,
                    NEW r \in Requests, NEW x \in Movies \union Aggregates, locks'[x] = r
             PROVE  tx'[r].pc \notin {"idle", "lock"}
  BY DEF LocksInv
<1>0. /\ tx \in [Requests -> Tx] /\ r # None
      /\ locks \in [Movies \union Aggregates -> Requests \union {None}]
      /\ locks[x] = r => tx[r].pc \notin {"idle", "lock"}
  BY KeysAssumption DEF IInv, TypeOK, LocksInv
<1>1. CASE UNCHANGED <<locks, tx>>
  BY <1>0, <1>1
<1>2. ASSUME NEW s \in Requests, Send(s) \/ Advance(s) \/ DeadlockVictim(s) \/ Abort(s)
      PROVE  tx'[r].pc \notin {"idle", "lock"}
  <2>1. CASE LockMovie(s)
    BY <1>0, <2>1 DEF LockMovie, Lock, Free, Goto, Movie, Tx
  <2>2. CASE Send(s)
    <3>1. tx[s].pc = "idle" /\ UNCHANGED locks /\ \A q \in Requests \ {s} : tx'[q] = tx[q]
      BY <1>0, <2>2 DEF Send, SendPut, SendDelete, Idle, Request
    <3> QED
      BY <1>0, <3>1
  <2>3. CASE Rollback(s) \/ Commit(s)
    BY <1>0, <2>3 DEF Rollback, Commit, Release
  <2>4. CASE Read(s) \/ WriteRows(s)
    <3>1. UNCHANGED locks /\ tx'[r].pc \in {tx[r].pc, "out", "write", "in", "commit"}
      BY <1>0, <2>4 DEF Read, WriteRows, Tx
    <3> QED
      BY <1>0, <3>1
  <2>5. CASE TakeOut(s) \/ AddIn(s)
    <3>1. /\ tx[s].pc \in {"out", "in"}
          /\ locks'[x] = locks[x] \/ locks'[x] = s
      BY <1>0, <2>5 DEF TakeOut, AddIn, Lock
    <3>2. CASE TakeOut(s)
      <4>1. PICK next \in Continue("out", Posting(Movie(s)).dimensions
                                            \ (tx[s].taken \union {tx[s].want}), "write") :
              tx' = [tx EXCEPT ![s].taken = tx[s].taken \union {tx[s].want},
                               ![s].pc = next.pc, ![s].want = next.want]
        BY <3>2 DEF TakeOut
      <4>2. next.pc \in {"out", "write"}
        BY ContinueCases
      <4> QED
        BY <1>0, <3>1, <4>1, <4>2 DEF Tx
    <3>3. CASE AddIn(s)
      <4>1. PICK next \in Continue("in", tx[s].derived.dimensions
                                           \ (tx[s].added \union {tx[s].want}), "commit") :
              tx' = [tx EXCEPT ![s].added = tx[s].added \union {tx[s].want},
                               ![s].pc = next.pc, ![s].want = next.want]
        BY <3>3 DEF AddIn
      <4>2. next.pc \in {"in", "commit"}
        BY ContinueCases
      <4> QED
        BY <1>0, <3>1, <4>1, <4>2 DEF Tx
    <3> QED
      BY <2>5, <3>2, <3>3
  <2> QED
    BY <1>2, <2>1, <2>2, <2>3, <2>4, <2>5
       DEF Advance, Refuse, PopcornRefused, DeadlockVictim, Abort
<1>3. \/ UNCHANGED <<locks, tx>>
      \/ \E s \in Requests : Send(s) \/ Advance(s) \/ DeadlockVictim(s) \/ Abort(s)
  BY DEF Next, vars, ConfirmWatched, Publish
<1> QED
  BY <1>1, <1>2, <1>3

(* No circle goes through the lock of a movie: requests wait for each other in
   a circle only over rows of aggregates. *)
THEOREM CirclesAreOverAggregates ==
  Spec => [](\A S \in SUBSET Requests : Deadlocked(S) => \A r \in S : tx[r].pc # "lock")
<1> DEFINE NoMovieInCircle ==
             \A S \in SUBSET Requests : Deadlocked(S) => \A r \in S : tx[r].pc # "lock"
<1>1. Init => LocksInv
  BY KeysAssumption DEF Init, LocksInv
<1>2. IInv /\ LocksInv => NoMovieInCircle
  <2> SUFFICES ASSUME IInv, LocksInv, NEW S \in SUBSET Requests, Deadlocked(S), NEW r \in S
               PROVE  tx[r].pc # "lock"
    OBVIOUS
  <2>1. PICK s \in S : r \in Blocker(s)
    BY DEF Deadlocked
  <2>2. CASE tx[s].pc = "lock"
    <3>1. locks[Movie(s)] = r
      BY <2>1, <2>2 DEF Blocker
    <3>2. Movie(s) \in Movies
      BY <2>2 DEF IInv, Holds, Movie
    <3> QED
      BY <3>1, <3>2 DEF LocksInv
  <2>3. CASE tx[s].pc \in {"out", "in"}
    <3>1. locks[tx[s].want] = r
      BY <2>1, <2>3 DEF Blocker
    <3>2. tx[s].want \in Aggregates
      <4>1. /\ TypeOK /\ tx[s] \in Tx /\ Holds(s) /\ InStep(s) /\ Movie(s) \in Movies
        BY <2>3 DEF IInv, TypeOK, Holds, Movie
      <4>2. tx[s].pc = "out" => posted[Movie(s)].flavor \in Flavors
        BY <4>1 DEF IInv, RowsAgree, InStep
      <4>3. tx[s].pc = "in" => tx[s].derived.flavor \in Flavors
        BY <4>1 DEF InStep
      <4> QED
        BY <2>3, <4>1, <4>2, <4>3 DEF InStep, TypeOK, Tx, Contribution, KeysOf, Aggregates
    <3> QED
      BY <3>1, <3>2 DEF LocksInv
  <2>4. tx[s].pc = "lock" \/ tx[s].pc \in {"out", "in"}
    BY <2>1 DEF Blocker
  <2> QED
    BY <2>2, <2>3, <2>4
<1>3. NoMovieInCircle <=>
        \A S \in SUBSET Requests : Deadlocked(S) => \A r \in S : tx[r].pc # "lock"
  OBVIOUS
<1> HIDE DEF NoMovieInCircle
<1> QED
  BY <1>1, <1>2, <1>3, NextLocks, Inductive, PTL DEF Spec
=============================================================================
