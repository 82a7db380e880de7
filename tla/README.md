# FEELM: verification project

TLA+ models of two parts of FEELM, the TLC runs that check them on small
instances, and TLAPS proofs of their main properties for all instances:

- the **backend** (Java, Spring, PostgreSQL): the transactions of C1 and C2;
- **run B1 r4** (Python), the program that fits and evaluates the service's
  recommendation model on a server: how its phases are published, its
  containers run and its evaluation supervised.

All paths below are relative to the repository; Java paths are relative to
`backend/src/main/java/com/feelm/catalog/`, SQL paths to
`backend/src/main/resources/db/migration/`, Python paths to `scripts/`. "The
plan of r4" is `docs/recommendation/plans/service-v1-b1-r4-server-fit-recovery.md`.

The logic of the backend lives in its transactions: services written with
`JdbcTemplate`, several SQL statements each, under READ COMMITTED, with
advisory locks, `FOR UPDATE`, unique indexes, triggers and CHECK constraints.
What can go wrong is hardly visible in the (sequential, in-process) tests:
statements of two transactions in an order nobody wrote down, a read that is
stale by the time it is relied on, a crash or a retry between two steps,
deliveries out of order. That is what the models are about.

The logic of run B1 r4 lives in files, processes and timeouts. Its phases are
commands an operator starts; nothing locks them but the names in one directory,
and a fit takes hours under Docker or systemd. What can go wrong there is a
process that dies between two names, a second command started beside the first,
an input that changes during a phase, a daemon that answers late or not at all,
and a container or evaluator that goes on computing after its starter gave up.

## The system

| Component | State | Operations | Hard part | What makes it correct |
|---|---|---|---|---|
| C1 watch intents (`c1/service/C1Service`, `WatchIntentScheduler`) | `watch_intent`, `viewing_record` | click (`createWatchIntent`), `confirm`, `advanceWatchIntents` every 60 s | clicks, confirmations and scheduler meet on the same rows; overdue rows | one active intent, viewing record backed by a confirmation, intent state machine, no error 500 from a unique index |
| C1 idempotency (`c1/foundation/C1IdempotencyService`) | `idempotency_record` | `execute` around every C1 mutation | retries and crashes around the commit, key reuse | effect and stored answer at most once, every caller gets the stored answer |
| C1 ratings (`C1Service.mutateRating`, `removeRating`) | `rating`, `frame`, `popcorn`, `rating_taste_contribution`, `flavor_aggregate`, `taste_aggregate` | PUT, DELETE | aggregates updated by differences, catalog replaced in between, row locks in no fixed order | aggregates equal what the active ratings amount to, no lost update |
| C1 journal and outbox (`C1MutationJournal`, `C1OutboxDispatcher`) | `user_behavior_event`, `domain_outbox` | `append`, `dispatchNext` | several workers, failures, bounded retry, crashes | one worker per row, final stays final, every row ends |
| C2 active rating input (`c2/input`) | `c2_rating_input_*` | `consume` per event, `findProjected` | events out of order, lost and given up | projection never behind a processed event, effectively once |
| C2 ranking and exposure (`c2/recommendation`) | exposure batches | `rank`, `record` | ranking computed outside the transaction | insert-only; read-only otherwise |
| C2B personal discovery (`c2b/service`) | collections, deliveries, items, cursors | `getOrCreate`, `append`, `dismiss`, completion by a rating | revisions of a delivery under four writers | positions contiguous, no candidate twice |
| C3 party (`c3/service/C3LocalService`) | parties, invitations, members, OTT subscriptions | create, invite, accept, compare | lock orders differ between operations | at most four members, circles of waits resolved |
| C4 membership (`c4`) | accounts, sessions, refresh tokens, flows, mail outbox | signup, login, `refresh`, logout | refresh race window, mail after commit | one ACTIVE token per session, a revoked family stays revoked |
| C5 reports and shares (`c5`) | reports, exports, files, grants, viewer sessions | create, export, share, revoke, exchange | snapshot older than the lock, files beside rows | gapless revisions, nothing shown through a revoked grant |
| Catalog importer (`importer`) | catalog versions, flavor assignments | validate, stage, publish | concurrent imports | one ACTIVE version |
| Publication of B1 r4 (`service_v1_b1_r4_publication.py` and its callers) | names in the output directory: claims, staging, finals, failures; hashed inputs | `acquire_publication`, `publish_success`, `publish_handled_failure`, `release_verified_claim` | two commands at once, crashes between any two calls, drifting inputs, no lock | each phase decided once, in order; what nobody verified keeps its claim; one lease |
| Container runs of B1 r4 (`run_container` in `run_service_v1_b1_gbt_r4.py`) | the container at the Docker daemon | create, attach, wait, inspect, stop, remove, each with a timeout | a request that timed out may still be carried out; cleanup fails half way | one container at a time; a clean run has stopped its container |
| Evaluation supervisor of B1 r4 (`run_evaluation_supervised`, `monitor_evaluation_unit`) | two systemd units, two clients, two pipes | start, sample, stop, collect, judge, clean up | three processes and systemd racing at a deadline; a collected unit looks like a good one; a full pipe | a published evaluation exited well and left nothing; the supervision ends |
| r1 to r3, REC-EV-030 confirmation | files | sequential stages | superseded, or one process | – |
| Catalog reads, C6 lab, recommender, data pipeline, frontend | none of their own in the store | queries, numeric ranking, batch programs, views | – | – |

How they interact. A C1 mutation runs inside `C1IdempotencyService.execute`,
appends to the journal, and the outbox row commits with it. A worker delivers
`RATING_*` rows to the C2 projection in its own transactions; ranking reads the
projection. A confirmation creates the viewing record a rating needs. An import
changes what ratings are derived from. A rating completes items of C2B
deliveries. There are no in-process callbacks: all sharing is through rows.

A producer of run B1 r4 (preflight, fit, score, evaluation) acquires the lease
of its phase, computes through `run_container` or the evaluation supervisor,
publishes a success or a handled failure and releases its claim. A reviewer
does the same over the phase before it, with an audit in place of the
computation. The next phase starts only from the finals of all earlier ones, so
the directory is the whole protocol between them. Backend and run share
nothing: what the run fits reaches the backend as an artifact of the recommender.

`PROJECT.json` lists the components with their status, every hazard at its
line, and the properties that cover it.

## Modules

| Module | Models | Checked by | Proved in |
|---|---|---|---|
| `ExactlyOnce` | the promise of `C1IdempotencyService`: abstract, no locks, no crashes | as a PROPERTY of `WatchIntent` | |
| `WatchIntent` | clicks, confirmations, scheduler and clock for one user and movie, statement by statement, inside the idempotent transaction | `MCWatchIntent` | `WatchIntentProofs` |
| `IntentLocks` | who waits for whom in `watch_intent`: many users and movies, many requests, a scheduler in each process | `MCIntentLocks` | `IntentLocksProofs` |
| `OutboxDispatcher` | delivery protocol of `domain_outbox` | itself | `OutboxDispatcherProofs` |
| `ActiveRatingInput` | `OutboxDispatcher` (INSTANCE) composed with rating commits, the projecting consumer and a reader | `MCActiveRatingInput` | `ActiveRatingInputProofs` |
| `AtomicRatings` | the promise of the ratings of one user: abstract, each change one step, aggregates as totals | as a PROPERTY of `RatingLedger` | |
| `RatingLedger` | rating transactions of one user with aggregates, row locks, deadlocks and imports | `MCRatingLedger` | `RatingLedgerProofs` |
| `PhaseChain` | the promise of the r4 publication: abstract, phases decided once and in order | as a PROPERTY of `PhaseRun` | |
| `PhasePublication` | claims, staging, renames, verification and release, call by call, under producers and reviewers that may crash, with inputs that drift | through `PhaseRun` | `PhasePublicationProofs` |
| `ContainerRun` | `run_container` and the Docker daemon | through `PhaseRun` | `PhaseRunProofs` |
| `PhaseRun` | `PhasePublication` with a `ContainerRun` (INSTANCE) in the work of each attempt | `MCPhaseRun` | `PhaseRunProofs` |
| `EvaluationSupervisor` | supervisor, monitor, systemd units, clients, a pipe and the clock | itself | `EvaluationSupervisorProofs` |

Operators whose comment begins with "Fault:" are not part of any
specification. Each is a plausible bug in place of a definition (a lock not
taken, a read of the wrong table, a reset forgotten); with it in place the
property it is listed with in `PROJECT.json` fails, so every property is known
to be able to fail.

### How transactions are modelled

A transaction is a sequence of statements; each is one action. What it writes
stays in a per-transaction record until the action that commits, which changes
the tables at once. A lock is held until commit or rollback. A statement that
must wait is an action that is not enabled. `Abort` is possible at every
statement: an exception, a lost connection and a crash of the process look the
same from the database. READ COMMITTED appears as what it is: each statement
reads the tables as they are at that action, and a `FOR UPDATE` that had to
wait looks at its row again.

**WatchIntent.** `C1IdempotencyService.execute` is `LockKey`, `FindNothing` /
`FindReplay` / `FindReused`, the mutation, `Commit`, `Reply`. The click is
`LockDomain` (advisory lock of user and movie), `ExpireActiveIntent`,
`FindCurrentOffer`, `FindViewing`, `FindActiveIntent`, then one of
`AlreadyWatched`, `ActiveReused`, `InsertIntent`. The confirmation is
`LockIntent`, `FindExisting`, `ConfirmWatched` or `ConfirmNotWatched`; it does
not take the lock of the pair, as in the code. The scheduler is `AdvanceStart`,
`AdvanceExpire`, `AdvanceDue`. An answer can be lost after the commit (`Abort`
at `reply`), and a caller may send any key again, with the same body or
another. One pair of user and movie is enough here because every row, unique
index and lock of a request is keyed by it; the scheduler, which writes the rows
of all pairs, and of which there is one in every process, is the subject of
`IntentLocks`. The offer catalog is a
free choice (found or 404); times are the two windows of `C1TimePolicy`.
`InsertRefused` and `ConfirmRefused` are the unique-index errors; a click that
finds no id left (`Intents` is the bound) can only abort.

`Arrows` are the arrows of the code; `DocumentedArrows` those of the document,
two fewer (see Findings).

**IntentLocks.** What is left of a request is what it locks: its key (`LockKey`),
its pair (`LockPair`), the overdue row its click ends (`LockExpired`), the active
row the click finds (`LockActive`), the row of a confirmation (`LockIntent`); its
checks are choices. A scheduler is `AdvanceStart` (`now()` and the rows that are
overdue, or due), `TakeRow` for one row after another, in any order, and
`AdvanceCommit`. A statement that finds a row locked waits for that row alone
(`want`), and when it gets the lock looks at the row again (`Expires`, `Asks`).
`Circle` is what PostgreSQL's deadlock detection looks for, `DeadlockVictim` what
it does. The second UPDATE finds its rows when the first has taken its last one:
a commit in between could only take rows away, because a row that was due at
`now()` never comes back to LINK_CLICKED. The three terminal statuses are one,
`ENDED`; unique indexes, answers and viewing records are those of `WatchIntent`.

**OutboxDispatcher.** A claim is a row lock taken with `FOR UPDATE SKIP
LOCKED`; `PROCESSING` and the attempt count are private until commit, so a
crash gives the row back uncounted. `next_attempt_at` is abstracted to whether
it lies in the future. Rows may become visible in another order than
`occurred_at`.

**ActiveRatingInput.** The rating change is one atomic commit with its event.
A worker's delivery is `DispatchNext`, `CheckApplied`, `LockActor`,
`ReadActiveRatings`, then `Deliver` or `ConsumerFails` (rollback to savepoint,
attempt counted) or `Crash`. The digest `input_version` stands for the set it
is a digest of. `latest` is a history variable. The dispatcher never offers an
event that is already applied, so the step `consumed` is unreachable; the proof
shows that the code's `alreadyApplied` checks are redundant under this
dispatcher.

**RatingLedger.** Per request: `LockMovie`, `Read` (eligibility, rating,
posting) or `Refuse`, `TakeOut` per aggregate row, `WriteRows` or
`PopcornRefused` (trigger), `AddIn` per aggregate row, `Commit`. The advisory
lock of the domain and the row locks of viewing record and rating are one lock
here: the first is always taken before the others, so nobody ever waits for
them. Aggregate rows are locked as they are updated, in an order the code does
not fix; circles of waiting transactions are real and PostgreSQL ends them
(`DeadlockVictim`). One user is enough: users share no row. `AtomicRatings` is
what all of that amounts to: `Commit` of a PUT is its `Put`, of a DELETE its
`Delete`, `ConfirmWatched` its `Watch`, all else stutters; its aggregates are
totals over the ratings, where the code adds and takes away differences. The dimensions of
a rating come from the catalog version that was active when it was posted,
which `posted` keeps. `completeRatedRecommendationItems` is left to the C2B
module of the plan; it touches none of these tables.

### How run B1 r4 is modelled

**PhasePublication.** The state of the protocol is the set of names in one
directory; an action is one call that changes or scans it. A claim is made with
`O_EXCL` (`Claim`: only if the phase has none), a publication is a rename that
replaces nothing (`Rename`), and a scan looks at all names at once
(`ExactlyCompleted`). `namespace_children` sees only names that begin with the
run's id, which probe files do not: the checks of the callers use
`ExactlyCompletedByPrefix`. What an entry contains is abstracted to who wrote
it (`by`): tokens, inode numbers, seals and digests serve to tell exactly that.
The hashed inputs are one version, which `Drift` changes, and changes back, at
any time; a rehash compares it with the one of the lease (`fp`). Each
requirement that fails goes where the code's exception goes: nowhere before the
lease (`blocked`, nothing removed), to the except branch of the phase after it
(`raise`), and nowhere again while a failure is being written. `Crash` is
possible at every step and leaves every name. `verified` is a history variable:
the attempts that got through the checks of `release_verified_claim`.

**ContainerRun.** `run_container` call by call: `Create`, `Attach`, `Wait`, the
stop and confirmation after a timeout, `Inspect`, the nested `finally` blocks
(`Settle`, `Reinspect`, `StopRunning`, `ConfirmRunning`, `Remove`), `Log`. The
daemon is a process of its own: a create or start that was asked for may be
carried out after the runner gave up on it, a stop may be without effect, a
removal may succeed without an answer. The locals the code decides on
(`seen`, `confirmed`, `failed`, `unclean`) are kept, because that they are stale
is the hazard.

**PhaseRun.** The attempts of `PhasePublication`, whose `Work` now runs the
containers of the phase one after the other (two in a preflight). A producer
starts only where `docker ps --all` shows no container of the run; a failure
records `cleanup.complete`. A dead attempt's container goes on.

**EvaluationSupervisor.** `StartMonitor`, `StartTarget`, the polling loop
(`StopTarget`, `GiveUp`, `Read`), `Judge` and the except branch (`Handle`);
beside them the monitor (`AwaitTarget`, `Sample`, `ReadTerminal`, `Census`,
`Report`, `Emit`) and systemd (`Started`, `Exits`, `Reaped`, `Collected`,
`ClientEnds`). Time is counted in sampling intervals; `Tick` happens when
everybody waits, so stops and probes are instantaneous on that clock. A sample
is one unit of the monitor's output, and `PipeRoom` samples fit into the pipe
that nobody reads before both clients have ended. The census of processes and
the unit are separate: processes that cannot be killed outlive their unit. A
unit that was collected shows the terminal properties of one that never failed
(`ReadTerminal`), as `systemctl show` does. Assumed of the outside: the client
`systemd-run --wait` ends with its unit and carries its result, so nobody kills
a client alone; the evaluator's own output fits its pipe; when the supervisor
dies the units go on. The first assumption matters: the except branch stops a
unit only while its client lives, so after the death of a client alone a failure
could call its cleanup complete over an active unit. A final census that cannot
be read is an error of the monitor (`Census`), and such an evaluation cannot pass.

## Runs

| Run | Instance | Shows |
|---|---|---|
| `watch_intent` | 2 requests at a time, 2 click keys, 1 confirmation key, 2 intents, clock 0..3 with windows 1 and 2 (1.7 M states) | `ConstraintsNeverFire`, `ViewingBacked`, `AnswersMatchRows`, `IntentLifecycle`; implements `ExactlyOnce` |
| `watch_intent_race` | as the first, property BR-C1-028 | violated, see Findings |
| `watch_intent_unasked` | one click, one confirmation, a late scheduler; property of the documented states | violated, see Findings |
| `intent_locks` | the schedulers of 2 processes, 1 request, 2 pairs with a row each (80 k states) | `CirclesAreOfSchedulers`, `EndedStays`, `OverdueIntentEnds`, `RequestsEnd` |
| `outbox_dispatcher` | 3 rows, 2 workers, 2 attempts | `ClaimsExclusive`, `AttemptsCounted`, `EventsSettle` |
| `active_rating_input` | 2 changes, 2 workers, 2 users, 2 movies, 3 attempts (37 k states) | `LatestHeals`, `ProcessedIsReflected`, `AppliedOnce`, `NeverCorrupt`, `CatchesUp`; implements `OutboxDispatcher` |
| `active_rating_input_deleted` | a rating, its deletion | violated, see Findings |
| `rating_ledger` | 2 requests, 2 movies sharing rows, 2 flavors, 2 dimensions, values 1 and 5, 2 catalogs, 3 revisions (1.2 M states) | `LedgerBalances`, `ActiveHasFrame`, `ChecksNeverFire`, `NoLostUpdate`; implements `AtomicRatings` |
| `rating_ledger_live` | 2 requests, one catalog | `RequestsEnd` in spite of deadlocks |
| `phase_run` | 2 attempts, a preflight with two containers and its review, 2 versions of the inputs (595 k states) | `OneContainer`, `CleanMeansStopped`, `CompleteMeansStopped`, `UnverifiedKeepsClaim`, `LeaseOverVerifiedChain`, `LateClaimIsRefused`, `UndisturbedLeaseCloses`; implements `PhaseChain` |
| `evaluation` | runtime 3, grace 1, overtime 1, room for 2 samples | `OutcomeIsTrue`, `SupervisionEnds` |
| `evaluation_pipe` | the same | `PassIsNoTimeout` violated, see Findings |

The passing runs also check the type invariant of their module, but for
`intent_locks`, whose type invariant is proved only.

### Bounds, and why they are enough

- Two transactions at a time: each property is about the conflict of a pair;
  three and more add queueing for the same locks. The proofs are for any
  number.
- `WatchIntent`: two intents are needed for a second click after the first
  intent ended; the clock reaches the due window (1), the end of the first
  intent (2) and the due window of a second one opened at 2 (3). One
  confirmation key is enough for retry, replay and reuse of a key with another
  body; the two click keys are what a double click has.
- `IntentLocks`: two rows and two schedulers are what a circle needs, and one
  request is what meets it: as a third in the circle, as the one that waits for a
  scheduler, or as the one a scheduler waits for. Two rows of different pairs are
  the hard case: of one pair only one is active at a time (`OneActive`). The
  safety properties are proved for any number of all of them.
- `OutboxDispatcher`: two attempts have a first failure, a retry and a dead
  letter. Three rows let two be claimed while one waits.
- `ActiveRatingInput`: two events of one user are consumed in the order of their
  commits or against it, one of them by a worker that was kept waiting, and
  either may end as a dead letter; two of different users go on side by side.
  Three attempts have a first, a middle and a last one. The safety properties are
  proved for any number of events, workers, users and movies.
- `RatingLedger`: values 1 and 5 are the extremes the CHECK constraints bound;
  three revisions rate, change, delete and rate again; the two catalogs move a
  movie to another flavor, drop a dimension and drop a movie.
- `phase_run`: two attempts are both commands for one phase, a phase and its
  review, or a command and the one after it; the attempts choose their phases
  freely. Two phases have a first and one that builds on it, a producer and a
  reviewer; the two containers of a preflight have a first that left something
  behind. Two versions let an input drift and drift back. The proofs are for
  any number of attempts, phases, containers and versions.
- `evaluation`: the runtime is longer than the pipe has room, so the monitor can
  fill it, and long enough to end normally before that; the two later deadlines
  are one interval each, which is enough to be before, at and after them. The
  same properties hold with a runtime of 5 and of 8. With room for every
  sample (`PipeRoom` 4) `PassIsNoTimeout` holds as well: the pipe alone violates it.
- `CHECK_DEADLOCK FALSE` only where the events of the instance are used up and
  the system rightly stops.

### Fairness

- Requests (`IntentLocks`, `RatingLedger`): strong fairness of a request's
  steps. A waiting statement is enabled only now and then, but PostgreSQL
  serves its lock queues in order, so it cannot be overtaken for ever.
- Schedulers (`IntentLocks`): weak fairness of running again (fixed delay of
  60 s) and strong fairness of taking each row, from the same queues. Schedulers
  that failed for ever promise nothing, so liveness is claimed from the last
  failure on that is not a deadlock (`Steps`, which lacks `AdvanceAbort`);
  deadlocks may go on for ever, and the properties hold in spite of them.
- `DeadlockVictim`: weak fairness; deadlock detection runs after
  `deadlock_timeout` while the circle stands.
- Workers: weak fairness of polling (fixed delay of 1 s), strong fairness of
  finishing a delivery: not every delivery dies with its process. That is an
  assumption about the environment and a real limit of the code: a crash is not
  counted as an attempt, so an event that always kills its worker is delivered
  for ever (listed under the hazards).
- Attempts (`PhaseRun`): weak fairness of a live attempt's next step. Every call
  to Docker has a timeout after which the runner goes on, so no step of it waits
  for anybody. The daemon owes nothing, and an attempt may crash instead.
- `EvaluationSupervisor`: weak fairness of the supervisor's loop, of the
  monitor, of a requested start, of the clients and of time. The evaluator may
  run for ever, systemd may never collect its unit, and processes may never be
  reaped.

## Findings

Two rules of `docs/c1-draft/02-business-rules.md` are not what the code does,
nor is one of the states of `docs/c1-draft/03-state-machines.md`, and one
statement of the plan of r4.

- **BR-C1-028** ("once a viewing record exists, a click opens no new intent").
  `createWatchIntent` reads `viewing_record` before it waits for the row of the
  active intent (`C1Service.java:89-90`). A confirmation that commits during
  that wait is missed and the click inserts a new intent for a watched movie.
  The advisory lock does not help because `confirm` does not take it. Run
  `watch_intent_race`. The intent that is left over runs through its life as
  usual; `ViewingBacked` and `ConstraintsNeverFire` hold in spite of it, and
  there is one such intent at most (theorem `OneStrayIntent`).
- **Confirmation of an intent nobody was asked about**. The diagram of the
  intent's states (`docs/c1-draft/03-state-machines.md:11-16`) reaches
  `CONFIRMED_WATCHED` and `CONFIRMED_NOT_WATCHED` from `CONFIRMATION_PENDING`
  only, and the table calls the answer to a confirmation in `LINK_CLICKED`
  forbidden (line 24: "금지"). `confirm` asks for an active status and for
  `confirmation_due_at` to have passed (`C1Service.java:202-209`), so between
  that time and the scheduler's next run it takes an intent from `LINK_CLICKED`
  to the end. Run `watch_intent_unasked`. The documents do not agree with each
  other: BR-C1-026 (`02-business-rules.md:37`) refuses only intents that are
  terminal or not yet due, as the code does, and `pending` shows a due
  `LINK_CLICKED` intent to be answered. What holds of the code is
  `IntentLifecycle`: its arrows, each in its time, so nobody answers before the
  intent is due.
- **BR-C1-038** ("after a deletion the rating is not in the recommendation
  input"). The projection is rebuilt by the event of the deletion; when that
  event ends as `DEAD_LETTER`, nothing retries it and nothing compares the
  projection with the ratings. Run `active_rating_input_deleted`. It heals with
  the user's next change (`LatestHeals`), and nothing but such a dead letter
  leaves it behind (theorem `StaleOnlyByDeadLetter`).
- **The evaluation monitor's pipe.** "PASS requires target exit 0, no timeout or
  OOM, one sample or more, ..., monitor exit 0 and complete cleanup" (the plan
  of r4, line 784). The supervisor reads the pipes of both clients only after
  both have ended (`run_service_v1_b1_gbt_r4.py:6224-6235`); the monitor prints
  all its samples in one line before it ends (6617). Once they exceed the pipe
  (64 KiB, some 140 samples at 2 s, of up to four hours), each waits for the
  other, until the supervisor's budget is over and a good evaluation is
  recorded as a timeout. Run `evaluation_pipe`; `SupervisionEnds` holds, so it
  costs the evaluation, not the lease. Where the pipe holds every sample the
  statement is true (theorem `OnlyThePipeTimesOut`).

Two statements of the plan of r4 that the models show to be too strong, without
a run of their own:

- The table of states (lines 845-852) has no claim beside a success with a
  stable rehash ("next gate possible"), and a concurrent loser that finds the
  owner's claim. `acquire_publication` scans before it claims, so a command may
  scan first, claim after the other's verified unlink, and then be refused by
  its second scan. Its claim stays, beside a closed success, and blocks every
  later phase. `LateClaimIsRefused` says exactly when this happens and that it
  never does more.
- A failure is published after "the end of the whole control group" (lines
  785-787). The except branch stops a unit only while its client lives; when
  the unit has ended and processes of it could not be killed,
  `cleanup.complete` may be true. What `OutcomeIsTrue` says of a complete
  cleanup is therefore about the unit only (`CompleteMeansInactive`).

## Proofs

Proved for every value of the constants, from the named assumptions of the
modules (distinct keys, finite movies, values 1..5, an eligible movie has a
flavor, ...), which TLC evaluates in the runs. Each proof module has an
inductive invariant (`IInv`, `Inv` or `SystemInv`), one lemma per action or family of actions, and the
theorems.

**`WatchIntentProofs`**

- `TypeCorrect`, `NoConstraintFires`, `ViewingIsBacked`, `AnswersStayTrue`,
  `IntentsFollowArrows`, `ImplementsExactlyOnce`. The properties are not
  inductive: that a confirmation finds no viewing record of another intent
  needs "what a transaction read under a lock and still relies on is so"
  (`ReadInv`, `RecordInv`), which needs who holds which lock (`LockInv`) and
  that a locked row stays active (`RowsInv`), which needs the order of the
  statements (`StepInv`). What the click read of `viewing_record` is not part
  of it: that is the race of BR-C1-028. `AnswersInv` counts the answers without
  numbers, as an empty set or a set of one key, so that a commit adds one. The
  refinement is by steps: `Commit` is `Execute`, `Reply` is `Answer`, all else
  stutters.
- `OneAnswerPerKey`: from the abstract specification alone, through the
  refinement, so it needs nothing of locks or statements.
- `OneStrayIntent`: once there is a viewing record, only a click that read
  `viewing_record` before can still open an intent (`Stray`), and no click
  becomes one (`NoNewStray`). It holds the lock of the pair from before that
  read, so there is one at most, and opening the intent ends it
  (`OnlyClicksOpen`). The statement is temporal: of two intents not yet opened,
  one is never opened.

- `IntentsFollowArrows` is about the arrows and times of the code; the documented
  ones are violated by a run.

**`IntentLocksProofs`**

- `TypeCorrect`, `OneActive`, `OnlySchedulersDeadlock`, `EndedIsFinal`, for any
  number of requests, schedulers, keys, pairs and rows. The invariant says which
  locks a transaction holds at each place (`LocksFit`, `RequestSound`,
  `SchedulerSound`), that rows it has locked and found active stay so (`Keeps`),
  and that a click knows all active rows of the pair it has locked (`Knows`).
- The argument of `OnlySchedulersDeadlock`: a request that waits holds no row
  (`WaitingRequest`), because the pair has no second active row to lock. So who
  waits for it wants its key or its pair, and is therefore a request that has at
  most its own key (`WantsInOrder`); who waits for that one wants a key and holds
  nothing, so nobody waits for it and there is no circle
  (`NoRequestInACircle`). That leaves the schedulers, which hold rows while they
  wait for rows, in no order: their circles are real, and one has at least two of
  them because nobody waits for itself. What PostgreSQL then does is in the
  model, and that everybody gets on in spite of it is model-checked.

**`OutboxDispatcherProofs`**

- `TypeCorrect`, `DeliveredByOne`, `RetryIsBounded`, `FinalStays`. Claims and
  attempts need each other: only a claimed unfinished row is finished, and an
  unfinished row has attempts left.
- `RetryRunsOut`: `Rest` is two changes for each attempt that is left, and one
  for a backoff. Each change of an unfinished row takes from it, a crash does
  not change the row, and a row never changes once it is final. What is left of
  `EventsSettle` to fairness is that the next change comes.

**`ActiveRatingInputProofs`**

- `ConsumerKeepsProtocol` (refinement of `OutboxDispatcher`, whose invariant is
  then reused) and, by it, `DispatcherRulesKept`; `TypeCorrect`,
  `LatestChangeHeals`, `ProcessedChangesStay`, `EffectivelyOnce`,
  `ReadersAgree`. The heart is `Fresh`: what a worker has read under the lock of
  its actor is at least as new as every event of the actor processed so far,
  because any other worker of the actor was excluded since.
- `StaleOnlyByDeadLetter`: when all events of a user are final the last one is
  PROCESSED, and `LatestHeals` applies, or it is a dead letter, or the user has
  no event and an untouched, empty input.
- `InputIsGenuine`: the ratings a worker reads, and so the items it writes, are
  each backed by a committed event; carried through `seen` and `Deliver`.

**`RatingLedgerProofs`**

- `TypeCorrect`, `AggregatesBalance`, `FrameFollowsRating`, `UpdatesKept`,
  `ConstraintsHold`. `InStep` says that a request's reads still hold (its movie
  is locked) and that the rows it has taken out and added are, at each step,
  part of the keys of the old and of the new posting, and all of them at the
  commit. The commit then moves each aggregate by one element of a finite set,
  counted value by value.
- `RatingsAreAtomic`: every commit is a step of `AtomicRatings`. The aggregates
  that the code moves by differences are the totals the abstract step demands,
  by `LedgerBalances` after the step; that the posting is one a catalog once
  served is an invariant of its own, since an import may have replaced that
  catalog by the time of the commit.
- `CirclesAreOverAggregates`: a request that waits for a movie holds nothing
  yet, so nobody waits for it.

**`PhasePublicationProofs`**

- `TypeCorrect`, `UnverifiedIsClaimed`, `LeaseIsExclusive`, `ChainIsVerified`,
  `LateClaimNeverLeases`, `PublicationImplementsChain`. Of all steps five
  matter: the claim, the lease granted by the second scan, the rename, the
  verification and the unlink; every other step is `Quiet`: it changes no name
  the invariant speaks of. `Holds` says that between claim and unlink the claim
  is there, that a claim has an attempt which holds it or stopped, and that only
  a verified publication is unlinked; `Leases` that one attempt at most holds a
  lease, that terminal entries of its phase are its own, and that every earlier
  phase has a verified success. The heart is the second scan: that it finds no
  claim but the caller's excludes every other holder, of any phase, although the
  first scan and the claim are not atomic.
- `SuccessesAreAPrefix`: from `PhaseChain` alone, through the refinement.
- `UndisturbedIsNeverRefused`: `UndisturbedLeaseCloses` less its fairness. While
  the inputs hold still, the holder's process and cleanup succeed and no other
  attempt leaves anything but a final (`Undisturbed`), the names it owns are exactly those its place calls for (`Owned`, `OnTrack`), so that no
  scan and no requirement of its own finds anything else, and each of its steps
  is `Forward` in the order `Rank`.

**`PhaseRunProofs`**

- `SystemImplementsPublication`, and by it `SystemKeepsThePublication` and
  `SystemIsNeverRefused`: all of the above holds with the containers.
- `SystemTypeCorrect`, `OneContainerComputes`, `CleanRunIsStopped`,
  `CompleteCleanupIsStopped`. `RunSound` is the invariant of one container run.
  An attempt whose container runs, or may still be started, has its claim or its
  failure in the directory (`LiveBlocks`), so no other attempt gets a lease
  (`LeaseAlone`), and only a lease starts a container (`OneLive`); a failure
  that calls the cleanup complete blocks the same way (`CompleteIsOver`).
- `NothingComputesBesideTheLease`: `LeaseAlone`, for containers that run.
- `SuccessRanEveryContainer`: a success is staged from the work only, which
  leaves it with no container to go (`StagedIsComplete`); the count changes only
  at work, when the phase has no outcome yet.
- `AttemptsAreFinite`: `Remaining` sums the places an attempt has yet to reach,
  the calls of its container, what the daemon owes and 18 for each container to
  come; every step that changes any of them for an attempt lowers its sum. A
  container whose create is answered late weighs most, because the daemon still
  has three things to do for it. `Drift`, and the steps of others, change nothing.
- `AttemptsGoOn`: an attempt that has not ended has a next step. Its claim cannot
  have gone (`Holds`), and a container without a next call belongs to a dead
  process (`DeadIsOver`).

**`EvaluationSupervisorProofs`**

- `TypeCorrect`, `OutcomesAreTrue`. The monitor's evidence does not suffice for a
  published evaluation to have left nothing: it needs that a client that
  ended well had a unit that did (`ClientFollowsUnit`), and that such a unit
  ended in time and left no process (`GoodExitIsFinal`).
- `OnlyThePipeTimesOut`, under the assumption `PipeRoom >= RuntimeMax`: a monitor
  that has not failed is done within the runtime (`InTime`), because what it
  has printed and what it has yet to print fit into the pipe (`Unread`); who is
  given up after that has failed or has a client that did not end well
  (`GaveUpLate`).
- `SupervisionIsFinite`: `Effort` sums what supervisor, monitor, unit, client and
  clock have yet to go through; every step of `Next`, without exception, lowers
  it. The weights: a unit counts twice its processes, which it may leave behind,
  and an interval twice the sample it allows.
- `SupervisionGoesOn`: as long as the supervision is open one of them has a step
  whose guard waits for nobody. Together the two are `SupervisionEnds`, but for
  the step from "can" to "does", which is what fairness is for.

Only model-checked: liveness (`RequestsEnd` of `IntentLocks` and of
`RatingLedger`, `OverdueIntentEnds`, `EventsSettle`, `CatchesUp`,
`UndisturbedLeaseCloses`, `SupervisionEnds`), which the provers do not reach
under fairness. What their safety part is, is proved where it could be
stated: which circles there can be (`OnlySchedulersDeadlock`,
`CirclesAreOverAggregates`), no
step that can be repeated for ever (`RetryRunsOut`, `AttemptsAreFinite`,
`SupervisionIsFinite`), nothing that refuses or blocks
(`UndisturbedIsNeverRefused`, `AttemptsGoOn`, `SupervisionGoesOn`). The runs that expect a violation show what the code does
not keep; what it keeps instead is `OneStrayIntent`, `StaleOnlyByDeadLetter` and
`OnlyThePipeTimesOut`.

## Not modelled

Ranking, the recommender, the C6 lab, catalog reads, the data pipeline and the
frontend keep no state of their own or are numeric; C2B, C3, C4, C5 and the
importer's own run are planned (below). Of run B1 r4, what the Spark job and
the evaluators compute, what the artifacts contain and the one-time design
review, which has a publication of its own, are left out; so are r1 to r3, which
r4 supersedes, and the sealed confirmation of REC-EV-030, one sequential
program over files. The other research scripts are batch programs without
concurrency, retries or state that outlives a step. Validation of requests, formatting,
HTTP mapping, logging and read-only queries are left out everywhere. The
hazards of the planned components are listed in `PROJECT.json` with what is
planned for them.

## Plan

In this order; each module with its runs, faults and, where it fits, proofs.

1. `PersonalDiscovery` (C2B): deliveries under the actor's advisory lock with
   `getOrCreate`, `append`, `dismiss` and the completion by a rating; cursors
   bound to a revision; the ranking read before the transaction. Properties:
   contiguous positions, no candidate twice, a cursor extends only its own
   revision, a rated movie is not offered as open. Composes with the commit of
   `RatingLedger`.
2. `RefreshRotation` (C4): one session family, concurrent refreshes, lost
   answers, the 5 s window, logout. An abstract specification "a family is
   ACTIVE with one newest token, or revoked for ever", refined by the
   transactions. Then the signup flow with its mail after the commit.
3. `PartyMembership` (C3): invitations and acceptance; party, invitation and
   key locks in their real orders; at most four members, count equals rows.
4. `ReportRevisions` and `ShareAccess` (C5): REPEATABLE READ snapshot taken
   before the advisory lock; grants, exchange and revocation; files and rows.
5. `CatalogPublish` (importer): two imports, one ACTIVE version.
6. Proofs of the safety invariants of 1 to 3, first of all the refinement
   of 2.
7. For the modules there are: a step measure, as those of `AttemptsAreFinite` and
   `SupervisionIsFinite`, for a rating request.
