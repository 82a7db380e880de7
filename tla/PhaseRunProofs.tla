--------------------------- MODULE PhaseRunProofs ---------------------------
(***************************************************************************)
(* A phase with its containers, for any attempts and any number of         *)
(* containers: it keeps the publication protocol, and nothing computes     *)
(* beside the holder of the lease.                                         *)
(*                                                                         *)
(* A container is live when it runs or its start was asked for.  A live    *)
(* container of an attempt that has left its work is behind a claim that   *)
(* no one unlinks, or behind a failure: both keep every later scan from    *)
(* being exact, so no other attempt is granted a lease.                    *)
(***************************************************************************)
EXTENDS PhaseRun, PhasePublicationProofs

LEMMA SystemStepIsStep == SystemNext => [Next]_vars
<1>1. ASSUME NEW a \in Attempts, Proceed(a) PROVE [Next]_vars
  BY <1>1 DEF Proceed, Check, Protocol, BeginContainer, StepContainer, NextContainer,
              Compute, Raise, RecordFailure, Next, Step, Acquire, Execute, Handle
<1>2. ASSUME NEW a \in Attempts, Start(a) \/ Crashes(a) \/ Dockerd(a) PROVE [Next]_vars
  BY <1>2 DEF Crashes, Dockerd, Next
<1>3. Drift => Next
  BY DEF Next
<1> QED
  BY <1>1, <1>2, <1>3 DEF SystemNext

(* The system with its containers keeps the publication protocol: what holds
   of the protocol holds of it. *)
THEOREM SystemImplementsPublication == SystemSpec => Spec
<1>1. SystemInit => Init
  BY DEF SystemInit
<1>2. [SystemNext]_allVars => [Next]_vars
  BY SystemStepIsStep DEF allVars
<1> QED
  BY <1>1, <1>2, PTL DEF SystemSpec, Spec

-----------------------------------------------------------------------------
(* Types. *)
LEMMA CreateTyped == ASSUME RunTypeOK, NEW r \in Attempts, Create(r) PROVE RunTypeOK'
  BY DEF Create, RunTypeOK, Run, Steps, Container
LEMMA AttachTyped == ASSUME RunTypeOK, NEW r \in Attempts, Attach(r) PROVE RunTypeOK'
  BY DEF Attach, RunTypeOK, Run, Steps, Container
LEMMA WaitTyped == ASSUME RunTypeOK, NEW r \in Attempts, Wait(r) PROVE RunTypeOK'
  BY DEF Wait, RunTypeOK, Run, Steps, Container
LEMMA TerminateTyped ==
  ASSUME RunTypeOK, NEW r \in Attempts, StopTimedOut(r) \/ StopRunning(r) PROVE RunTypeOK'
  BY DEF StopTimedOut, StopRunning, Terminate, RunTypeOK, Run, Steps, Container
LEMMA FieldsTyped ==
  ASSUME NEW x \in Run, NEW at \in Steps, NEW c \in BOOLEAN, NEW u \in BOOLEAN
  PROVE  [x EXCEPT !.at = at, !.confirmed = c, !.unclean = u] \in Run
  BY DEF Run
LEMMA ConfirmTyped ==
  ASSUME RunTypeOK, NEW r \in Attempts, ConfirmTimedOut(r) \/ ConfirmRunning(r)
  PROVE  RunTypeOK'
<1>1. run[r] \in Run /\ run \in [Attempts -> Run] /\ cont' = cont
  BY DEF RunTypeOK, ConfirmTimedOut, ConfirmRunning
<1>2. Confirmation(r) \subseteq BOOLEAN
  BY DEF Confirmation
<1>3. SUFFICES ASSUME NEW at \in Steps, NEW c \in BOOLEAN, NEW u \in BOOLEAN,
                      run' = [run EXCEPT ![r].at = at, ![r].confirmed = c,
                                         ![r].unclean = @ \/ u]
               PROVE  RunTypeOK'
  <2>1. CASE ConfirmTimedOut(r)
    <3>1. PICK c \in Confirmation(r), u \in BOOLEAN, at \in {"inspect", "settle"} :
            run' = [run EXCEPT ![r].at = at, ![r].confirmed = c, ![r].unclean = @ \/ u]
      BY <2>1 DEF ConfirmTimedOut
    <3>2. at \in Steps /\ c \in BOOLEAN
      BY <1>2 DEF Steps
    <3> QED
      BY <1>3, <3>1, <3>2
  <2>2. CASE ConfirmRunning(r)
    <3>1. PICK c \in Confirmation(r) :
            run' = [run EXCEPT ![r].confirmed = c, ![r].unclean = @ \/ ~c,
                               ![r].at = IF c THEN "remove" ELSE "log"]
      BY <2>2 DEF ConfirmRunning
    <3>2. c \in BOOLEAN /\ (~c) \in BOOLEAN
      BY <1>2
    <3>3. (IF c THEN "remove" ELSE "log") \in Steps
      BY DEF Steps
    <3>4. run' = [run EXCEPT ![r].at = IF c THEN "remove" ELSE "log", ![r].confirmed = c,
                             ![r].unclean = @ \/ ~c]
      BY <1>1, <3>1 DEF Run
    <3> QED
      BY <1>3, <3>2, <3>3, <3>4
  <2> QED
    BY <2>1, <2>2
<1>4. (run[r].unclean \/ u) \in BOOLEAN
  OBVIOUS
<1>5. [run[r] EXCEPT !.at = at, !.confirmed = c, !.unclean = run[r].unclean \/ u] \in Run
  BY <1>1, <1>4, FieldsTyped, Zenon
<1>6. run' = [run EXCEPT ![r] = [run[r] EXCEPT !.at = at, !.confirmed = c,
                                              !.unclean = run[r].unclean \/ u]]
  BY <1>1, <1>3 DEF Run
<1> QED
  BY <1>1, <1>5, <1>6 DEF RunTypeOK
LEMMA InspectTyped == ASSUME RunTypeOK, NEW r \in Attempts, Inspect(r) PROVE RunTypeOK'
  BY DEF Inspect, Observed, RunTypeOK, Run, Steps, Container
LEMMA SettleTyped == ASSUME RunTypeOK, NEW r \in Attempts, Settle(r) PROVE RunTypeOK'
<1>1. run[r] \in Run /\ run \in [Attempts -> Run]
  BY DEF RunTypeOK
<1>2. PICK u \in BOOLEAN :
        run' = [run EXCEPT ![r].at = IF run[r].made THEN "reinspect" ELSE "log",
                           ![r].confirmed = @ \/ ~run[r].made,
                           ![r].unclean = @ \/ u]
  BY DEF Settle
<1>3. CASE run[r].made
  BY <1>1, <1>2, <1>3 DEF RunTypeOK, Run, Settle, Steps
<1>4. CASE ~run[r].made
  BY <1>1, <1>2, <1>4 DEF RunTypeOK, Run, Settle, Steps
<1> QED
  BY <1>3, <1>4
LEMMA ReinspectTyped == ASSUME RunTypeOK, NEW r \in Attempts, Reinspect(r) PROVE RunTypeOK'
  BY DEF Reinspect, Observed, RunTypeOK, Run, Steps, Container
LEMMA RemoveTyped == ASSUME RunTypeOK, NEW r \in Attempts, Remove(r) PROVE RunTypeOK'
  BY DEF Remove, RunTypeOK, Run, Steps, Container
LEMMA LogTyped == ASSUME RunTypeOK, NEW r \in Attempts, Log(r) PROVE RunTypeOK'
<1>1. run[r] \in Run /\ run \in [Attempts -> Run]
  BY DEF RunTypeOK
<1>2. PICK f \in BOOLEAN : run' = [run EXCEPT ![r].at = "over", ![r].failed = @ \/ f]
  BY DEF Log
<1>3. CASE f
  BY <1>1, <1>2, <1>3 DEF RunTypeOK, Run, Log
<1>4. CASE ~f
  BY <1>1, <1>2, <1>4 DEF RunTypeOK, Run, Log
<1> QED
  BY <1>3, <1>4

LEMMA RunStepTyped ==
  ASSUME RunTypeOK, NEW r \in Attempts, RunStep(r) \/ Daemon(r) \/ Begin(r)
  PROVE  RunTypeOK'
<1>1. CASE RunStep(r)
  BY <1>1, CreateTyped, AttachTyped, WaitTyped, TerminateTyped, ConfirmTyped,
     InspectTyped, SettleTyped, ReinspectTyped, RemoveTyped, LogTyped DEF RunStep
<1>2. CASE Daemon(r)
  BY <1>2 DEF Daemon, CreatedLate, Started, Exits, RunTypeOK, Container
<1>3. CASE Begin(r)
  BY <1>3 DEF Begin, RunTypeOK, Run, Steps
<1> QED
  BY <1>1, <1>2, <1>3

-----------------------------------------------------------------------------
(* One container. *)
WithContainer == Steps \ {"create", "settle", "log"}

RunSound(r) ==
  /\ run[r].at \in {"off", "create"} => ~run[r].made /\ cont[r] = "none"
  /\ run[r].at \in WithContainer => run[r].made
  /\ ~run[r].made => ~run[r].asked /\ cont[r] \in {"none", "pending", "created"}
  /\ run[r].made => cont[r] # "pending"
  /\ cont[r] = "running" => run[r].asked
  /\ run[r].at \in {"log", "over"} /\ run[r].made /\ ~run[r].unclean => cont[r] = "removed"

Live(r) == run[r].asked /\ cont[r] \in {"created", "running"}

LEMMA RunStepSound ==
  ASSUME RunTypeOK, NEW r \in Attempts, RunSound(r), RunStep(r) \/ Daemon(r) \/ Begin(r)
  PROVE  RunSound(r)'
<1> USE DEF RunTypeOK, RunSound, WithContainer, Steps, Run, Container
<1>1. CASE Create(r)
  BY <1>1 DEF Create
<1>2. CASE Attach(r)
  BY <1>2 DEF Attach
<1>3. CASE Wait(r)
  BY <1>3 DEF Wait
<1>4. CASE StopTimedOut(r)
  BY <1>4 DEF StopTimedOut, Terminate
<1>5. CASE ConfirmTimedOut(r)
  BY <1>5 DEF ConfirmTimedOut
<1>6. CASE Inspect(r)
  BY <1>6 DEF Inspect
<1>7. CASE Settle(r)
  BY <1>7 DEF Settle
<1>8. CASE Reinspect(r)
  BY <1>8 DEF Reinspect
<1>9. CASE StopRunning(r)
  BY <1>9 DEF StopRunning, Terminate
<1>10. CASE ConfirmRunning(r)
  BY <1>10 DEF ConfirmRunning
<1>11. CASE Remove(r)
  BY <1>11 DEF Remove
<1>12. CASE Log(r)
  BY <1>12 DEF Log
<1>13. CASE Daemon(r)
  BY <1>13 DEF Daemon, CreatedLate, Started, Exits
<1>14. CASE Begin(r)
  BY <1>14 DEF Begin
<1> QED
  BY <1>1, <1>2, <1>3, <1>4, <1>5, <1>6, <1>7, <1>8, <1>9, <1>10, <1>11, <1>12,
     <1>13, <1>14 DEF RunStep

(* Only the attachment makes a container live. *)
LEMMA OnlyAttachMakesLive ==
  ASSUME RunTypeOK, NEW r \in Attempts, RunSound(r),
         RunStep(r) \/ Daemon(r) \/ Begin(r), Live(r)', ~Live(r)
  PROVE  run[r].at \in Steps
<1> USE DEF RunTypeOK, RunSound, Live
<1>1. CASE RunStep(r)
  BY <1>1 DEF RunStep, Create, Attach, Wait, StopTimedOut, StopRunning, Terminate,
     ConfirmTimedOut, ConfirmRunning, Inspect, Settle, Reinspect, Remove, Log, Steps
<1>2. CASE Daemon(r)
  BY <1>2 DEF Daemon, CreatedLate, Started, Exits
<1>3. CASE Begin(r)
  BY <1>3 DEF Begin, Run
<1> QED
  BY <1>1, <1>2, <1>3

-----------------------------------------------------------------------------
(* Where the protocol takes an attempt without its containers. *)
Busy == {"work", "raise", "crashed", "blocked"}

AfterWrite == {"rehash", "seal", "rename", "check-final", "post", "release", "unlink",
               "closing", "failed", "blocked", "crashed"}

Announced == {"check-final", "post", "release", "unlink", "closing", "failed"}

Moves(a) ==
  /\ \A b \in Attempts \ {a} : pc'[b] = pc[b] /\ mode'[b] = mode[b]
  /\ pc'[a] \notin Busy /\ mode'[a] = "success" => pc[a] \notin Busy /\ mode[a] = "success"
  /\ pc[a] \in AfterWrite /\ mode[a] = "failure"
       => pc'[a] \in AfterWrite /\ mode'[a] = "failure"
  /\ pc'[a] = "write" => mode'[a] = "failure"
  /\ mode'[a] = "failure" /\ pc'[a] \in Announced
       => \/ mode[a] = "failure" /\ pc[a] \in Announced
          \/ Mine(a, "failure") \in dir'

LEMMA RefuseMoves == ASSUME TypeOK, NEW a \in Attempts, Refuse(a) PROVE Moves(a)
  BY DEF Refuse, Go, Moves, Busy, AfterWrite, Announced, TypeOK

LEMMA AcquireMoves ==
  ASSUME TypeOK, NEW a \in Attempts, Start(a) \/ Acquire(a) PROVE Moves(a) /\ pc[a] # "work"
<1> USE RefuseMoves DEF Go, Moves, Busy, AfterWrite, Announced, TypeOK, Require
<1>1. CASE Start(a)
  BY <1>1 DEF Start
<1>2. CASE CheckPasses(a) \/ CheckFails(a)
  BY <1>2 DEF CheckPasses, CheckFails
<1>3. CASE PreExecutionFailure(a)
  BY <1>3 DEF PreExecutionFailure
<1>4. CASE Scan(a) \/ Claim(a)
  BY <1>4 DEF Scan, Claim
<1>5. CASE Probe(a) \/ Unprobe(a)
  BY <1>5 DEF Probe, Unprobe
<1>6. CASE Rescan(a)
  BY <1>6 DEF Rescan
<1> QED
  BY <1>1, <1>2, <1>3, <1>4, <1>5, <1>6 DEF Acquire

LEMMA HandleMoves ==
  ASSUME TypeOK, NEW a \in Attempts, Stage(a) \/ Handle(a) PROVE Moves(a) /\ pc[a] # "work"
<1> USE RefuseMoves DEF Go, Moves, Busy, AfterWrite, Announced, TypeOK
<1>1. CASE Stage(a)
  BY <1>1 DEF Stage
<1>2. CASE CleanUp(a)
  BY <1>2 DEF CleanUp
<1>3. CASE DiscardReview(a)
  BY <1>3 DEF DiscardReview
<1>4. CASE WriteFailure(a)
  BY <1>4 DEF WriteFailure
<1> QED
  BY <1>1, <1>2, <1>3, <1>4 DEF Handle

LEMMA PublishMoves ==
  ASSUME TypeOK, NEW a \in Attempts, PublishAndRelease(a) PROVE Moves(a) /\ pc[a] # "work"
<1> USE RefuseMoves DEF Go, Moves, Busy, AfterWrite, Announced, TypeOK, Require
<1>1. CASE Publish(a) \/ Rehash(a) \/ Seal(a)
  BY <1>1 DEF Publish, Rehash, Seal
<1>2. CASE Rename(a)
  BY <1>2 DEF Rename, Terminal
<1>3. CASE CheckFinal(a) \/ PostRehash(a)
  BY <1>3 DEF CheckFinal, PostRehash
<1>4. CASE Release(a)
  BY <1>4 DEF Release
<1>5. CASE Unlink(a)
  BY <1>5 DEF Unlink
<1>6. CASE Close(a)
  BY <1>6 DEF Close
<1> QED
  BY <1>1, <1>2, <1>3, <1>4, <1>5, <1>6 DEF PublishAndRelease

LEMMA WorkMoves ==
  ASSUME TypeOK, NEW a \in Attempts, Work(a) PROVE pc[a] = "work" /\
    (\A b \in Attempts \ {a} : pc'[b] = pc[b]) /\ mode' = mode /\ pc'[a] \in {"publish", "raise", "blocked"}
  BY DEF Work, Refuse, Go, TypeOK

-----------------------------------------------------------------------------
(* The failures of a phase stay, and are announced before the claim goes. *)
Blocks(a) == Mine(a, "claim") \in dir \/ Mine(a, "failure") \in dir

FailuresFollowMode ==
  \A a \in Attempts : /\ pc[a] = "write" => mode[a] = "failure"
                      /\ mode[a] = "failure" /\ pc[a] \in Announced
                           => Mine(a, "failure") \in dir

(* A container is at work only while its attempt is. *)
WorkOnly ==
  \A a \in Attempts : /\ RunSound(a)
                      /\ run[a].at \in Steps => pc[a] = "work"
                      /\ left[a] = 0 => run[a].at = "off"
                      /\ pc[a] \notin Busy /\ mode[a] = "success" => run[a].at = "off"

LiveBlocks == \A a \in Attempts : Live(a) \/ complete[a] => Blocks(a)

LeaseAlone == \A a \in Attempts : pc[a] \in Leased =>
                \A b \in Attempts \ {a} : ~Live(b) /\ ~complete[b]

CompleteIsOver ==
  \A a \in Attempts : complete[a] => /\ pc[a] \in AfterWrite /\ mode[a] = "failure"
                                     /\ \A b \in Attempts : ~Live(b)

OneLive == \A a, b \in Attempts : Live(a) /\ Live(b) => a = b

FinalNeverRan == \A e \in dir : e.kind = "final" => run[e.by].at = "off"

SystemInv == /\ Inv /\ SystemTypeOK /\ FailuresFollowMode /\ WorkOnly /\ LiveBlocks
             /\ LeaseAlone /\ CompleteIsOver /\ OneLive /\ FinalNeverRan

LEMMA SystemInitInv == SystemInit => SystemInv
<1> SUFFICES ASSUME SystemInit PROVE SystemInv
  OBVIOUS
<1>1. Inv
  BY InitInv DEF SystemInit
<1>2. SystemTypeOK
  BY <1>1, ContainersAssumption
  DEF SystemInit, RunInit, SystemTypeOK, RunTypeOK, Inv, TypeOK, Run, NotBegun, Container, Init
<1> QED
  BY <1>1, <1>2
  DEF SystemInit, Init, RunInit, SystemInv, FailuresFollowMode, WorkOnly, RunSound, NotBegun,
      WithContainer, Steps, LiveBlocks, Live, LeaseAlone, CompleteIsOver, OneLive,
      FinalNeverRan, Announced, Leased

(* The four kinds of steps. *)
LEMMA SystemCases ==
  ASSUME SystemNext
  PROVE  \/ \E a \in Attempts :
              \/ (Start(a) \/ Acquire(a) \/ Stage(a) \/ Handle(a) \/ PublishAndRelease(a))
                   /\ UNCHANGED runVars
              \/ RecordFailure(a)
              \/ Compute(a)
              \/ Raise(a)
              \/ Crashes(a)
              \/ BeginContainer(a) \/ StepContainer(a) \/ Dockerd(a)
              \/ NextContainer(a)
         \/ Drift /\ UNCHANGED runVars
  BY DEF SystemNext, Proceed, Check, Protocol, Acquire, Handle

-----------------------------------------------------------------------------
LEMMA SystemTypeStep == ASSUME SystemTypeOK, WorkOnly, [SystemNext]_allVars PROVE SystemTypeOK'
<1> USE DEF SystemTypeOK
<1>1. TypeOK'
  BY TypeStep, SystemStepIsStep DEF allVars
<1>2. CASE UNCHANGED runVars
  BY <1>1, <1>2 DEF runVars, RunTypeOK
<1>3. ASSUME NEW a \in Attempts, BeginContainer(a) \/ StepContainer(a) \/ Dockerd(a)
      PROVE  SystemTypeOK'
  BY <1>1, <1>3, RunStepTyped DEF BeginContainer, StepContainer, Dockerd
<1>4. ASSUME NEW a \in Attempts, NextContainer(a) PROVE SystemTypeOK'
  <2>1. left[a] # 0
    BY <1>4 DEF NextContainer, Passed, Returned, WorkOnly
  <2>2. RunTypeOK'
    BY <1>4 DEF NextContainer, NotBegun, RunTypeOK, Run, Container
  <2> QED
    BY <1>1, <1>4, <2>1, <2>2 DEF NextContainer
<1>5. ASSUME NEW a \in Attempts, RecordFailure(a) PROVE SystemTypeOK'
  <2>1. PICK counted \in BOOLEAN :
          complete' = [complete EXCEPT ![a] = /\ ~Review(a) /\ CleanRun(a)
                                              /\ counted /\ NoContainers]
    BY <1>5 DEF RecordFailure
  <2>2. (~Review(a) /\ CleanRun(a) /\ counted /\ NoContainers) \in BOOLEAN
    OBVIOUS
  <2>3. complete' \in [Attempts -> BOOLEAN]
    BY <2>1, <2>2, Zenon
  <2> QED
    BY <1>1, <1>5, <2>3 DEF RecordFailure, RunTypeOK
<1>6. ASSUME NEW a \in Attempts, Crashes(a) PROVE SystemTypeOK'
  BY <1>1, <1>6 DEF Crashes, RunTypeOK, Run
<1>7. ASSUME NEW a \in Attempts, Compute(a) \/ Raise(a) PROVE UNCHANGED runVars
  BY <1>7 DEF Compute, Raise
<1> QED
  BY <1>2, <1>3, <1>4, <1>5, <1>6, <1>7, SystemCases DEF allVars

(* A step of one container leaves the others. *)
LEMMA RunFrame ==
  ASSUME RunTypeOK, NEW a \in Attempts, RunStep(a) \/ Daemon(a) \/ Begin(a)
  PROVE  \A b \in Attempts \ {a} : run'[b] = run[b] /\ cont'[b] = cont[b]
<1> USE DEF RunTypeOK
<1>1. CASE RunStep(a)
  BY <1>1 DEF RunStep, Create, Attach, Wait, StopTimedOut, StopRunning, Terminate,
     ConfirmTimedOut, ConfirmRunning, Inspect, Settle, Reinspect, Remove, Log
<1>2. CASE Daemon(a)
  BY <1>2 DEF Daemon, CreatedLate, Started, Exits
<1>3. CASE Begin(a)
  BY <1>3 DEF Begin
<1> QED
  BY <1>1, <1>2, <1>3

LEMMA RunStepPlace ==
  ASSUME RunTypeOK, NEW a \in Attempts, RunStep(a)
  PROVE  run[a].at \in Steps /\ run'[a].at \in Steps \union {"over"}
<1> USE DEF Steps, RunTypeOK, Run
<1>1. CASE Create(a) \/ Attach(a) \/ Wait(a)
  BY <1>1 DEF Create, Attach, Wait
<1>2. CASE StopTimedOut(a) \/ StopRunning(a)
  BY <1>2 DEF StopTimedOut, StopRunning, Terminate
<1>3. CASE ConfirmTimedOut(a)
  BY <1>3 DEF ConfirmTimedOut
<1>4. CASE ConfirmRunning(a)
  BY <1>4 DEF ConfirmRunning
<1>5. CASE Inspect(a) \/ Reinspect(a)
  BY <1>5 DEF Inspect, Reinspect
<1>6. CASE Settle(a)
  BY <1>6 DEF Settle
<1>7. CASE Remove(a) \/ Log(a)
  BY <1>7 DEF Remove, Log
<1> QED
  BY <1>1, <1>2, <1>3, <1>4, <1>5, <1>6, <1>7 DEF RunStep

(* What blocks stays, as long as it is needed. *)
LEMMA BlocksStay ==
  ASSUME SystemInv, TypeOK', NEW a \in Attempts, Effect(a), NEW b \in Attempts,
         Blocks(b), Live(b) \/ complete[b]
  PROVE  Blocks(b)'
<1> USE DEF SystemInv, Inv, Blocks, Mine
<1>1. CASE Unlink(a)
  <2>1. CASE b = a
    <3>1. pc[a] = "unlink" /\ a \in Attempts
      BY <1>1 DEF Unlink
    <3>2. mode[a] = "failure"
      <4>1. CASE Live(a)
        BY <3>1, <4>1 DEF WorkOnly, RunSound, Live, Busy, TypeOK
      <4>2. CASE complete[a]
        BY <4>2 DEF CompleteIsOver
      <4> QED
        BY <2>1, <4>1, <4>2
    <3>3. Mine(a, "failure") \in dir
      BY <3>1, <3>2 DEF FailuresFollowMode, Announced
    <3> QED
      BY <1>1, <2>1, <3>3 DEF Unlink
  <2>2. CASE b # a
    BY <1>1, <2>2 DEF Unlink
  <2> QED
    BY <2>1, <2>2
<1>2. CASE Quiet(a)
  <2>1. phase' = phase /\ Mine(b, "claim") \in Entry /\ Mine(b, "failure") \in Entry
    BY <1>2, MineTyped DEF Quiet
  <2> QED
    BY <1>2, <2>1 DEF Quiet, KeepsNames, Terminals
<1>3. CASE Granted(a) \/ Claimed(a) \/ Renamed(a) \/ Verifies(a)
  BY <1>3 DEF Granted, Claimed, Renamed, Verifies
<1> QED
  BY <1>1, <1>2, <1>3 DEF Effect

(* A lease is granted only beside nothing that blocks. *)
LEMMA LeaseGrows ==
  ASSUME SystemInv, NEW a \in Attempts, Effect(a), NEW b \in Attempts, pc'[b] \in Leased
  PROVE  pc[b] \in Leased \/ (b = a /\ \A c \in Attempts \ {a} : ~Blocks(c))
<1> USE DEF SystemInv, Inv, TypeOK
<1>1. CASE Granted(a)
  <2>1. \A c \in Attempts \ {a} : ~Blocks(c)
    BY <1>1 DEF Granted, ExactlyCompleted, Blocks, Mine
  <2>2. b # a => pc'[b] = pc[b]
    BY <1>1 DEF Granted
  <2> QED
    BY <2>1, <2>2
<1>2. CASE Quiet(a)
  BY <1>2 DEF Quiet
<1>3. CASE Claimed(a) \/ Renamed(a) \/ Verifies(a) \/ Unlink(a)
  BY <1>3 DEF Claimed, Renamed, Verifies, Unlink, Go, Leased
<1> QED
  BY <1>1, <1>2, <1>3 DEF Effect

(* Failures and finals are never removed; a final is new only by a rename. *)
LEMMA TerminalsGrow ==
  ASSUME SystemInv, TypeOK', NEW a \in Attempts, Effect(a)
  PROVE  /\ phase' = phase
         /\ \A b \in Attempts : Mine(b, "failure") \in dir => Mine(b, "failure") \in dir'
         /\ \A e \in dir' : e.kind = "final" =>
               e \in dir \/ (e = Mine(a, "final") /\ pc[a] = "rename" /\ mode[a] = "success")
<1> USE DEF SystemInv, Inv
<1>1. CASE Quiet(a)
  <2>1. \A b \in Attempts : Mine(b, "failure") \in Entry /\ Mine(b, "failure").kind = "failure"
    BY MineTyped DEF Mine
  <2>2. phase' = phase /\ KeepsNames
    BY <1>1 DEF Quiet
  <2> QED
    BY <2>1, <2>2 DEF KeepsNames, Terminals, TypeOK
<1>2. CASE Renamed(a)
  BY <1>2 DEF Renamed, Terminal, Mine
<1>3. CASE Granted(a) \/ Claimed(a) \/ Verifies(a) \/ Unlink(a)
  BY <1>3 DEF Granted, Claimed, Verifies, Unlink, Mine
<1> QED
  BY <1>1, <1>2, <1>3 DEF Effect

Rest == /\ FailuresFollowMode /\ WorkOnly /\ LiveBlocks /\ LeaseAlone
        /\ CompleteIsOver /\ OneLive /\ FinalNeverRan

(* A step of the protocol that leaves containers and records alone. *)
LEMMA ProtocolKeepsRest ==
  ASSUME SystemInv, TypeOK', NEW a \in Attempts, Effect(a), Moves(a), pc[a] # "work",
         UNCHANGED runVars
  PROVE  Rest'
<1> USE DEF SystemInv, runVars, Moves
<1>1. \A b \in Attempts : Live(b)' = Live(b) /\ complete'[b] = complete[b]
  BY DEF Live
<1>2. FailuresFollowMode'
  BY TerminalsGrow DEF FailuresFollowMode, Mine
<1>3. WorkOnly'
  BY DEF WorkOnly, RunSound
<1>4. LiveBlocks'
  BY <1>1, BlocksStay DEF LiveBlocks
<1>5. LeaseAlone'
  BY <1>1, LeaseGrows DEF LeaseAlone, LiveBlocks
<1>6. CompleteIsOver'
  BY <1>1 DEF CompleteIsOver
<1>7. OneLive'
  BY <1>1 DEF OneLive
<1>8. FinalNeverRan'
  BY TerminalsGrow DEF FinalNeverRan, WorkOnly, Busy, Mine
<1> QED
  BY <1>2, <1>3, <1>4, <1>5, <1>6, <1>7, <1>8 DEF Rest

(* The computation is over, or raises: the attempt leaves its work with no
   container at a step. *)
LEMMA LeavingKeepsRest ==
  ASSUME SystemInv, TypeOK', NEW a \in Attempts, Effect(a), pc[a] = "work",
         UNCHANGED runVars, mode' = mode, \A b \in Attempts \ {a} : pc'[b] = pc[b],
         \/ pc'[a] \in {"raise", "blocked"} /\ run[a].at \notin Steps
         \/ pc'[a] = "publish" /\ run[a].at = "off"
  PROVE  Rest'
<1> USE DEF SystemInv, runVars
<1>1. \A b \in Attempts : Live(b)' = Live(b) /\ complete'[b] = complete[b]
  BY DEF Live
<1>2. FailuresFollowMode'
  BY TerminalsGrow DEF FailuresFollowMode, Mine, Announced
<1>3. WorkOnly'
  BY DEF WorkOnly, RunSound, Busy, Steps
<1>4. LiveBlocks'
  BY <1>1, BlocksStay DEF LiveBlocks
<1>5. LeaseAlone'
  BY <1>1, LeaseGrows DEF LeaseAlone, LiveBlocks
<1>6. CompleteIsOver'
  BY <1>1 DEF CompleteIsOver, AfterWrite
<1>7. OneLive'
  BY <1>1 DEF OneLive
<1>8. FinalNeverRan'
  BY TerminalsGrow DEF FinalNeverRan, Mine
<1> QED
  BY <1>2, <1>3, <1>4, <1>5, <1>6, <1>7, <1>8 DEF Rest

LEMMA CrashKeepsRest ==
  ASSUME SystemInv, TypeOK', NEW a \in Attempts, Effect(a), Crashes(a)
  PROVE  Rest'
<1> USE DEF SystemInv
<1>1. /\ pc' = [pc EXCEPT ![a] = "crashed"] /\ pc[a] # "crashed" /\ UNCHANGED <<dir, mode>>
      /\ UNCHANGED <<cont, left, complete>>
      /\ \A b \in Attempts \ {a} : run'[b] = run[b]
      /\ \/ run'[a] = run[a] /\ run[a].at \notin Steps
         \/ run[a].at \in Steps /\ run'[a] = [run[a] EXCEPT !.at = "dead"]
  BY DEF Crashes, Crash, Go, Stopped, SystemTypeOK, RunTypeOK
<1>2. \A b \in Attempts : Live(b)' = Live(b) /\ complete'[b] = complete[b]
  BY <1>1 DEF Live, SystemTypeOK, RunTypeOK, Run
<1>3. FailuresFollowMode'
  BY <1>1, TerminalsGrow DEF FailuresFollowMode, Mine, Announced, Inv, TypeOK
<1>4. WorkOnly'
  <2>1. \A b \in Attempts : RunSound(b)'
    BY <1>1 DEF WorkOnly, RunSound, WithContainer, Steps, SystemTypeOK, RunTypeOK, Run
  <2>2. run'[a].at \notin Steps
    BY <1>1 DEF SystemTypeOK, RunTypeOK, Run, Steps
  <2>3. left'[a] = 0 => run'[a].at = "off"
    BY <1>1 DEF WorkOnly, Steps
  <2> QED
    BY <1>1, <2>1, <2>2, <2>3 DEF WorkOnly, Busy, Inv, TypeOK
<1>5. LiveBlocks'
  BY <1>2, BlocksStay DEF LiveBlocks
<1>6. LeaseAlone'
  BY <1>2, LeaseGrows DEF LeaseAlone, LiveBlocks
<1>7. CompleteIsOver'
  BY <1>1, <1>2 DEF CompleteIsOver, AfterWrite, Inv, TypeOK
<1>8. OneLive'
  BY <1>2 DEF OneLive
<1>9. FinalNeverRan'
  BY <1>1 DEF FinalNeverRan, Steps, Inv, TypeOK, Entry
<1> QED
  BY <1>3, <1>4, <1>5, <1>6, <1>7, <1>8, <1>9 DEF Rest

(* The failure is written: only when no container is listed does it say that
   the cleanup was complete. *)
LEMMA RecordKeepsRest ==
  ASSUME SystemInv, TypeOK', NEW a \in Attempts, Effect(a), Moves(a), RecordFailure(a)
  PROVE  Rest'
<1> USE DEF SystemInv
<1>1. /\ pc[a] = "write" /\ mode[a] = "failure" /\ mode' = mode
      /\ pc'[a] \in {"rehash", "blocked"}
      /\ UNCHANGED <<run, cont, left>> /\ \A b \in Attempts \ {a} : complete'[b] = complete[b]
      /\ Mine(a, "claim") \in dir'
  <2>1. /\ pc[a] = "write" /\ UNCHANGED <<run, cont, left>> /\ WriteFailure(a)
        /\ \A b \in Attempts \ {a} : complete'[b] = complete[b]
    BY DEF RecordFailure, WriteFailure, SystemTypeOK
  <2>2. mode[a] = "failure"
    BY <2>1 DEF FailuresFollowMode
  <2>3. Mine(a, "claim") \in dir
    BY <2>1 DEF Inv, Holds, HolderHasClaim, Holding, Leased
  <2> QED
    BY <2>1, <2>2, <2>3 DEF WriteFailure, Refuse, Go, Inv, TypeOK
<1>2. complete'[a] => \A b \in Attempts : ~Live(b)
  BY DEF RecordFailure, NoContainers, Listed, Live, SystemTypeOK
<1>3. \A b \in Attempts : Live(b)' = Live(b)
  BY <1>1 DEF Live
<1>4. FailuresFollowMode'
  BY <1>1, TerminalsGrow DEF FailuresFollowMode, Mine, Moves, Announced
<1>5. WorkOnly'
  BY <1>1 DEF WorkOnly, RunSound, Moves, Busy
<1>6. LiveBlocks'
  <2>1. Blocks(a)'
    BY <1>1, TerminalsGrow DEF Blocks, Mine
  <2> QED
    BY <1>1, <1>3, <2>1, BlocksStay DEF LiveBlocks
<1>7. LeaseAlone'
  <2>1. \A b \in Attempts : pc'[b] \in Leased => b = a
    BY <1>1 DEF Inv, Leases, OneLease, Leased, Moves
  <2>2. pc[a] \in Leased
    BY <1>1 DEF Leased
  <2> QED
    BY <1>1, <1>3, <2>1, <2>2 DEF LeaseAlone
<1>8. CompleteIsOver'
  BY <1>1, <1>2, <1>3 DEF CompleteIsOver, Moves, AfterWrite
<1>9. OneLive'
  BY <1>3 DEF OneLive
<1>10. FinalNeverRan'
  BY <1>1, TerminalsGrow DEF FinalNeverRan
<1> QED
  BY <1>4, <1>5, <1>6, <1>7, <1>8, <1>9, <1>10 DEF Rest

(* A step of a container: what becomes live belongs to the holder of the
   lease, beside whom nothing is. *)
LEMMA ContainerKeepsRest ==
  ASSUME SystemInv, SystemTypeOK', NEW a \in Attempts,
         BeginContainer(a) \/ StepContainer(a) \/ Dockerd(a)
  PROVE  Rest'
<1> USE DEF SystemInv
<1>1. UNCHANGED vars /\ UNCHANGED <<left, complete>>
  BY DEF BeginContainer, StepContainer, Dockerd
<1>2. RunStep(a) \/ Daemon(a) \/ Begin(a)
  BY DEF BeginContainer, StepContainer, Dockerd
<1>3. \A b \in Attempts \ {a} : run'[b] = run[b] /\ cont'[b] = cont[b]
  BY <1>2, RunFrame DEF SystemTypeOK
<1>4. RunSound(a)'
  BY <1>2, RunStepSound DEF SystemTypeOK, WorkOnly
<1>5. run'[a].at # run[a].at =>
        pc[a] = "work" /\ run'[a].at \in Steps \union {"over"} /\ left[a] # 0
  <2>1. CASE BeginContainer(a)
    BY <2>1 DEF BeginContainer, Begin, Steps, SystemTypeOK, RunTypeOK, Run
  <2>2. CASE StepContainer(a)
    BY <2>2, RunStepPlace DEF StepContainer, WorkOnly, SystemTypeOK, Steps
  <2>3. CASE Dockerd(a)
    BY <2>3 DEF Dockerd, Daemon, CreatedLate, Started, Exits
  <2> QED
    BY <2>1, <2>2, <2>3
<1>6. \A b \in Attempts \ {a} : Live(b)' = Live(b)
  BY <1>3 DEF Live
<1>7. Live(a)' /\ ~Live(a) => /\ pc[a] = "work" /\ pc[a] \in Leased
                              /\ Mine(a, "claim") \in dir
  <2>1. SUFFICES ASSUME Live(a)', ~Live(a) PROVE run[a].at \in Steps
    BY DEF WorkOnly, Leased, Inv, Holds, HolderHasClaim, Holding
  <2> QED
    BY <1>2, <2>1, OnlyAttachMakesLive DEF SystemTypeOK, WorkOnly
<1>8. FailuresFollowMode'
  BY <1>1 DEF FailuresFollowMode, vars, Mine
<1>9. WorkOnly'
  <2>1. \A b \in Attempts \ {a} : RunSound(b)'
    BY <1>3 DEF WorkOnly, RunSound
  <2> QED
    BY <1>1, <1>3, <1>4, <1>5, <2>1 DEF WorkOnly, vars, Busy, Steps
<1>10. LiveBlocks'
  BY <1>1, <1>6, <1>7 DEF LiveBlocks, Blocks, vars, Mine
<1>11. LeaseAlone'
  BY <1>1, <1>6, <1>7 DEF LeaseAlone, vars, Inv, Leases, OneLease
<1>12. CompleteIsOver'
  BY <1>1, <1>6, <1>7 DEF CompleteIsOver, LeaseAlone, AfterWrite, vars
<1>13. OneLive'
  BY <1>6, <1>7 DEF OneLive, LeaseAlone
<1>14. FinalNeverRan'
  <2> SUFFICES ASSUME NEW e \in dir, e.kind = "final", run'[e.by].at # "off" PROVE FALSE
    BY <1>1 DEF FinalNeverRan, vars
  <2>1. e.by = a /\ e.phase = phase[a] /\ run[a].at = "off"
    BY <1>3 DEF FinalNeverRan, Inv, TypeOK, Entry, EntriesBelong, Terminals
  <2>2. pc[a] = "work"
    BY <1>5, <2>1
  <2> QED
    BY <2>1, <2>2 DEF Inv, Leases, NotYetPublished, Undecided, Unpublished, Terminals
<1> QED
  BY <1>8, <1>9, <1>10, <1>11, <1>12, <1>13, <1>14 DEF Rest

LEMMA NextContainerKeepsRest ==
  ASSUME SystemInv, SystemTypeOK', NEW a \in Attempts, NextContainer(a)
  PROVE  Rest'
<1> USE DEF SystemInv
<1>1. /\ UNCHANGED vars /\ UNCHANGED complete /\ pc[a] = "work"
      /\ run'[a] = NotBegun /\ cont'[a] = "none"
      /\ \A b \in Attempts \ {a} : run'[b] = run[b] /\ cont'[b] = cont[b] /\ left'[b] = left[b]
  BY DEF NextContainer, SystemTypeOK, RunTypeOK
<1>2. ~Live(a)' /\ \A b \in Attempts \ {a} : Live(b)' = Live(b)
  BY <1>1 DEF Live, NotBegun
<1>3. FailuresFollowMode'
  BY <1>1 DEF FailuresFollowMode, vars, Mine
<1>4. WorkOnly'
  BY <1>1 DEF WorkOnly, RunSound, WithContainer, Steps, NotBegun, vars
<1>5. LiveBlocks'
  BY <1>1, <1>2 DEF LiveBlocks, Blocks, vars, Mine
<1>6. LeaseAlone'
  BY <1>1, <1>2 DEF LeaseAlone, vars
<1>7. CompleteIsOver'
  BY <1>1, <1>2 DEF CompleteIsOver, vars
<1>8. OneLive'
  BY <1>2 DEF OneLive
<1>9. FinalNeverRan'
  BY <1>1 DEF FinalNeverRan, vars, NotBegun, Inv, TypeOK, Entry
<1> QED
  BY <1>3, <1>4, <1>5, <1>6, <1>7, <1>8, <1>9 DEF Rest

LEMMA SystemInvStep == SystemInv /\ [SystemNext]_allVars => SystemInv'
<1> SUFFICES ASSUME SystemInv, [SystemNext]_allVars PROVE SystemInv'
  OBVIOUS
<1>1. Inv' /\ TypeOK'
  BY InvStep, SystemStepIsStep DEF SystemInv, allVars, Inv
<1>2. SystemTypeOK'
  BY SystemTypeStep DEF SystemInv
<1>3. SUFFICES Rest'
  BY <1>1, <1>2 DEF Rest, SystemInv
<1>4. TypeOK
  BY DEF SystemInv, Inv
<1>5. ASSUME NEW a \in Attempts,
             Start(a) \/ Acquire(a) \/ Stage(a) \/ Handle(a) \/ PublishAndRelease(a)
      PROVE  Effect(a) /\ Moves(a) /\ pc[a] # "work"
  <2>1. Start(a) => Effect(a)
    BY <1>4, GoQuiet DEF Start, Effect, Places, Acquiring, Acquired, Leased, Stopped,
                         Holding, Unpublished
  <2>2. Stage(a) \/ Handle(a) => Effect(a)
    BY <1>4, ExecuteEffect DEF Execute
  <2> QED
    BY <1>4, <1>5, <2>1, <2>2, AcquireEffect, PublishEffect, AcquireMoves, HandleMoves,
       PublishMoves
<1>6. ASSUME NEW a \in Attempts,
             Start(a) \/ Acquire(a) \/ Stage(a) \/ Handle(a) \/ PublishAndRelease(a),
             UNCHANGED runVars
      PROVE  Rest'
  BY <1>1, <1>5, <1>6, ProtocolKeepsRest
<1>7. ASSUME NEW a \in Attempts, RecordFailure(a) PROVE Rest'
  <2>1. Handle(a)
    BY <1>7 DEF RecordFailure, Handle
  <2> QED
    BY <1>1, <1>5, <1>7, <2>1, RecordKeepsRest
<1>8. ASSUME NEW a \in Attempts, Compute(a) PROVE Rest'
  <2>1. Work(a) /\ UNCHANGED runVars /\ run[a].at = "off"
    BY <1>8 DEF Compute, SystemInv, WorkOnly
  <2>2. Effect(a)
    BY <1>4, <2>1, ExecuteEffect DEF Execute
  <2> QED
    BY <1>1, <1>4, <2>1, <2>2, WorkMoves, LeavingKeepsRest DEF Steps
<1>9. ASSUME NEW a \in Attempts, Raise(a) PROVE Rest'
  <2>1. WorkFails(a) /\ UNCHANGED runVars /\ run[a].at \notin Steps
    BY <1>9 DEF Raise, Steps
  <2>2. Effect(a)
    BY <1>4, <2>1, ExecuteEffect DEF Execute
  <2>3. /\ pc[a] = "work" /\ mode' = mode /\ pc'[a] = "raise"
        /\ \A b \in Attempts \ {a} : pc'[b] = pc[b]
    BY <1>4, <2>1 DEF WorkFails, Go, TypeOK
  <2> QED
    BY <1>1, <2>1, <2>2, <2>3, LeavingKeepsRest
<1>10. ASSUME NEW a \in Attempts, Crashes(a) PROVE Rest'
  <2>1. Effect(a)
    BY <1>4, <1>10, GoQuiet DEF Crashes, Crash, Effect, Places, Acquiring, Acquired, Leased,
                                Stopped, Holding, Unpublished
  <2> QED
    BY <1>1, <1>10, <2>1, CrashKeepsRest
<1>11. ASSUME NEW a \in Attempts, BeginContainer(a) \/ StepContainer(a) \/ Dockerd(a)
       PROVE  Rest'
  BY <1>2, <1>11, ContainerKeepsRest
<1>12. ASSUME NEW a \in Attempts, NextContainer(a) PROVE Rest'
  BY <1>2, <1>12, NextContainerKeepsRest
<1>13. CASE UNCHANGED <<dir, pc, phase, fp, mode, verified, run, cont, left, complete>>
            \/ (Drift /\ UNCHANGED runVars)
  BY <1>13
  DEF Drift, runVars, SystemInv, Rest, FailuresFollowMode, WorkOnly, RunSound, LiveBlocks,
      Blocks, Live, LeaseAlone, CompleteIsOver, OneLive, FinalNeverRan, Mine
<1> QED
  BY <1>6, <1>7, <1>8, <1>9, <1>10, <1>11, <1>12, <1>13, SystemCases
  DEF allVars, vars, runVars

LEMMA SystemInvHolds == SystemSpec => []SystemInv
  BY SystemInitInv, SystemInvStep, PTL DEF SystemSpec

-----------------------------------------------------------------------------
(* Types of the protocol and of the container runs, for any number of
   containers. *)
THEOREM SystemTypeCorrect == SystemSpec => []SystemTypeOK
<1>1. SystemInv => SystemTypeOK
  BY DEF SystemInv
<1> QED
  BY SystemInvHolds, <1>1, PTL

(* At most one container computes, whatever was left behind by attempts that
   crashed, timed out or failed. *)
THEOREM OneContainerComputes == SystemSpec => []OneContainer
<1>1. SystemInv => OneContainer
  <2> SUFFICES ASSUME SystemInv, NEW a \in Attempts, NEW b \in Attempts,
                      cont[a] = "running", cont[b] = "running"
               PROVE  a = b
    BY DEF OneContainer
  <2> QED
    BY DEF SystemInv, WorkOnly, RunSound, OneLive, Live
<1> QED
  BY SystemInvHolds, <1>1, PTL

(* A published success has stopped its containers; a failure that calls its
   cleanup complete is believed for good. *)
THEOREM CompleteCleanupIsStopped == SystemSpec => []CompleteMeansStopped
<1>1. SystemInv => CompleteMeansStopped
  <2> SUFFICES ASSUME SystemInv, NEW e \in dir
               PROVE  /\ e.kind = "final" => cont[e.by] # "running"
                      /\ e.kind = "failure" /\ complete[e.by]
                           => \A b \in Attempts : cont[b] # "running"
    BY DEF CompleteMeansStopped
  <2>1. e.by \in Attempts
    BY DEF SystemInv, Inv, TypeOK, Entry
  <2>2. e.kind = "final" => cont[e.by] # "running"
    BY <2>1 DEF SystemInv, FinalNeverRan, WorkOnly, RunSound
  <2>3. complete[e.by] => \A b \in Attempts : cont[b] # "running"
    BY <2>1 DEF SystemInv, CompleteIsOver, WorkOnly, RunSound, Live
  <2> QED
    BY <2>2, <2>3
<1> QED
  BY SystemInvHolds, <1>1, PTL

(* run_container that returns without a cleanup error has left no running
   container, whatever the daemon did with its calls. *)
THEOREM CleanRunIsStopped == SystemSpec => []CleanMeansStopped
<1>1. SystemInv => CleanMeansStopped
  BY DEF SystemInv, CleanMeansStopped, Returned, WorkOnly, RunSound
<1> QED
  BY SystemInvHolds, <1>1, PTL

(* A phase or a review that holds the lease has the machine to itself: what an
   attempt before it has left, crashed or not, does not compute beside it. *)
LeaseComputesAlone ==
  \A a, b \in Attempts : pc[a] \in Leased /\ cont[b] = "running" => a = b

(* LeaseComputesAlone, whatever crashed before the lease was granted. *)
THEOREM NothingComputesBesideTheLease == SystemSpec => []LeaseComputesAlone
<1>1. SystemInv => LeaseComputesAlone
  <2> SUFFICES ASSUME SystemInv, NEW a \in Attempts, NEW b \in Attempts \ {a},
                      pc[a] \in Leased, cont[b] = "running"
               PROVE  FALSE
    BY DEF LeaseComputesAlone
  <2>1. Live(b)
    BY DEF SystemInv, WorkOnly, RunSound, Live
  <2> QED
    BY <2>1 DEF SystemInv, LeaseAlone
<1> QED
  BY SystemInvHolds, <1>1, PTL

-----------------------------------------------------------------------------
(* What holds of the publication holds of it with its containers. *)
THEOREM SystemKeepsThePublication ==
  SystemSpec => /\ ImplementsChain /\ []OneLease /\ []LeaseOverVerifiedChain
                /\ []UnverifiedKeepsClaim /\ []LateClaimIsRefused
  BY SystemImplementsPublication, PublicationImplementsChain, LeaseIsExclusive,
     ChainIsVerified, UnverifiedIsClaimed, LateClaimNeverLeases, PTL

(* The containers of a phase do not get in the way of an undisturbed lease. *)
THEOREM SystemIsNeverRefused ==
  ASSUME NEW a \in Attempts
  PROVE  SystemSpec => NeverRefused(a)
<1>1. Spec => NeverRefused(a)
  BY UndisturbedIsNeverRefused
<1> QED
  BY <1>1, SystemImplementsPublication, PTL

-----------------------------------------------------------------------------
(* A success is of a phase that has run all its containers to a pass: none is
   skipped by a requirement that fails, an except branch or a retry. *)
SuccessIsComplete ==
  \A e \in dir : e.kind = "final" /\ ~Review(e.by) => left[e.by] = 0

(* What is staged as a success has run them all. *)
StagedSuccess(a) == pc[a] \in {"publish", "rehash", "seal", "rename"} /\ mode[a] = "success"

StagedIsComplete ==
  \A a \in Attempts : StagedSuccess(a) /\ ~Review(a) => left[a] = 0

AllRan == SuccessIsComplete /\ StagedIsComplete

(* Steps that leave the count of an attempt's containers. *)
LEMMA ProtocolKeepsAllRan ==
  ASSUME SystemInv, AllRan, NEW a \in Attempts, UNCHANGED left, Effect(a), TypeOK',
         \A b \in Attempts \ {a} : pc'[b] = pc[b] /\ mode'[b] = mode[b],
         StagedSuccess(a)' /\ ~Review(a) => StagedSuccess(a) \/ left[a] = 0
  PROVE  AllRan'
<1>1. UNCHANGED phase
  BY DEF Effect, Quiet, Granted, Claimed, Renamed, Verifies, Unlink
<1>2. StagedIsComplete'
  BY <1>1 DEF AllRan, StagedIsComplete, StagedSuccess, Review
<1>3. ASSUME NEW e \in dir', e.kind = "final", ~Review(e.by) PROVE left[e.by] = 0
  <2>1. CASE e \in dir
    BY <1>3, <2>1 DEF AllRan, SuccessIsComplete
  <2>2. CASE e \notin dir
    <3>1. Renamed(a)
      BY <1>3, <2>2 DEF Effect, Quiet, KeepsNames, Granted, Claimed, Verifies, Unlink, Mine,
                        Terminals, TypeOK
    <3>2. e = Terminal(a) /\ pc[a] = "rename"
      BY <2>2, <3>1 DEF Renamed
    <3>3. e.by = a /\ mode[a] = "success"
      BY <1>3, <3>2 DEF Terminal, Mine, SystemInv, Inv, TypeOK
    <3> QED
      BY <1>3, <3>2, <3>3 DEF AllRan, StagedIsComplete, StagedSuccess
  <2> QED
    BY <2>1, <2>2
<1>4. SuccessIsComplete'
  BY <1>1, <1>3 DEF SuccessIsComplete, Review
<1> QED
  BY <1>2, <1>4 DEF AllRan

(* The protocol stages a success from the work of the phase only. *)
LEMMA StagedByWork ==
  ASSUME SystemInv, NEW a \in Attempts,
         Start(a) \/ Acquire(a) \/ Stage(a) \/ Handle(a) \/ PublishAndRelease(a),
         StagedSuccess(a)', ~Review(a)
  PROVE  StagedSuccess(a)
<1> USE DEF SystemInv, Inv, TypeOK, Go, Refuse, StagedSuccess
<1>1. CASE Start(a) \/ Acquire(a)
  BY <1>1 DEF Start, Acquire, CheckPasses, CheckFails, PreExecutionFailure, Scan, Claim, Probe,
              Unprobe, Rescan, Require
<1>2. CASE Stage(a) \/ CleanUp(a) \/ DiscardReview(a)
  BY <1>2 DEF Stage, CleanUp, DiscardReview
<1>3. CASE WriteFailure(a)
  BY <1>3 DEF WriteFailure, FailuresFollowMode
<1>4. CASE PublishAndRelease(a)
  BY <1>4 DEF PublishAndRelease, Publish, Rehash, Seal, Rename, CheckFinal, PostRehash, Release,
              Unlink, Close, Require
<1> QED
  BY <1>1, <1>2, <1>3, <1>4 DEF Handle

(* Every step of the system keeps the count. *)
LEMMA AllRanStep == ASSUME SystemInv, AllRan, [SystemNext]_allVars PROVE AllRan'
<1>1. TypeOK /\ TypeOK'
  BY TypeStep, SystemStepIsStep DEF SystemInv, Inv, allVars
<1>2. ASSUME NEW a \in Attempts,
             Start(a) \/ Acquire(a) \/ Stage(a) \/ Handle(a) \/ PublishAndRelease(a),
             UNCHANGED left
      PROVE  AllRan'
  <2>1. Effect(a)
    <3>1. Start(a) => Effect(a)
      BY <1>1, GoQuiet DEF Start, Effect, Places, Acquiring, Acquired, Leased, Stopped,
                           Holding, Unpublished
    <3> QED
      BY <1>1, <1>2, <3>1, AcquireEffect, ExecuteEffect, PublishEffect DEF Execute
  <2>2. Moves(a)
    BY <1>1, <1>2, AcquireMoves, HandleMoves, PublishMoves
  <2>3. \A b \in Attempts \ {a} : pc'[b] = pc[b] /\ mode'[b] = mode[b]
    BY <2>2 DEF Moves
  <2>4. StagedSuccess(a)' /\ ~Review(a) => StagedSuccess(a) \/ left[a] = 0
    BY <1>2, StagedByWork
  <2> QED
    BY <1>1, <1>2, <2>1, <2>3, <2>4, ProtocolKeepsAllRan
<1>3. ASSUME NEW a \in Attempts, RecordFailure(a) PROVE AllRan'
  BY <1>2, <1>3 DEF RecordFailure, Handle
<1>4. ASSUME NEW a \in Attempts, Compute(a) PROVE AllRan'
  <2>1. left[a] = 0 /\ Work(a) /\ UNCHANGED left
    BY <1>4 DEF Compute, runVars
  <2>2. Effect(a)
    BY <1>1, <2>1, ExecuteEffect DEF Execute
  <2>3. \A b \in Attempts \ {a} : pc'[b] = pc[b] /\ mode'[b] = mode[b]
    BY <1>1, <2>1, WorkMoves
  <2> QED
    BY <1>1, <2>1, <2>2, <2>3, ProtocolKeepsAllRan
<1>5. ASSUME NEW a \in Attempts, Raise(a) \/ Crashes(a) PROVE AllRan'
  <2>1. /\ UNCHANGED left /\ mode' = mode /\ pc'[a] \in {"raise", "crashed"}
        /\ \A b \in Attempts \ {a} : pc'[b] = pc[b]
    BY <1>1, <1>5 DEF Raise, WorkFails, Crashes, Crash, Go, TypeOK, runVars
  <2>2. Effect(a)
    BY <1>1, <1>5, ExecuteEffect, GoQuiet
    DEF Raise, Execute, Crashes, Crash, Effect, Places, Acquiring, Acquired, Leased,
        Stopped, Holding, Unpublished
  <2>3. ~StagedSuccess(a)'
    BY <2>1 DEF StagedSuccess
  <2>4. \A b \in Attempts \ {a} : pc'[b] = pc[b] /\ mode'[b] = mode[b]
    BY <2>1
  <2> QED
    BY <1>1, <2>1, <2>2, <2>3, <2>4, ProtocolKeepsAllRan
<1>6. ASSUME NEW a \in Attempts, NextContainer(a) PROVE AllRan'
  <2>1. /\ pc[a] = "work" /\ UNCHANGED vars
        /\ \A b \in Attempts \ {a} : left'[b] = left[b]
    BY <1>6 DEF NextContainer, SystemInv, SystemTypeOK
  <2>2. ASSUME NEW e \in dir, e.kind = "final" PROVE e.by # a
    <3>1. Undecided(phase[a])
      BY <2>1 DEF SystemInv, Inv, Leases, NotYetPublished, Unpublished
    <3>2. e.phase = phase[e.by]
      BY <2>2 DEF SystemInv, Inv, EntriesBelong, Terminals
    <3> QED
      BY <2>2, <3>1, <3>2 DEF Undecided, Terminals
  <2>3. \A e \in dir : e.by \in Attempts
    BY <1>1 DEF TypeOK, Entry
  <2>4. SuccessIsComplete'
    BY <2>1, <2>2, <2>3 DEF AllRan, SuccessIsComplete, Review, vars
  <2>5. StagedIsComplete'
    BY <2>1 DEF AllRan, StagedIsComplete, StagedSuccess, Review, vars
  <2> QED
    BY <2>4, <2>5 DEF AllRan
<1>7. CASE UNCHANGED <<dir, pc, phase, mode, left>>
  BY <1>7 DEF AllRan, SuccessIsComplete, StagedIsComplete, StagedSuccess, Review
<1>8. ASSUME NEW a \in Attempts, BeginContainer(a) \/ StepContainer(a) \/ Dockerd(a)
      PROVE  AllRan'
  BY <1>7, <1>8 DEF BeginContainer, StepContainer, Dockerd, vars
<1>9. CASE (Drift /\ UNCHANGED runVars) \/ UNCHANGED allVars
  BY <1>7, <1>9 DEF Drift, runVars, allVars, vars
<1> QED
  BY <1>2, <1>3, <1>4, <1>5, <1>6, <1>8, <1>9, SystemCases DEF runVars

(* A published success has run every container of its phase. *)
THEOREM SuccessRanEveryContainer == SystemSpec => []SuccessIsComplete
<1>1. SystemInit => AllRan
  BY DEF SystemInit, Init, AllRan, SuccessIsComplete, StagedIsComplete, StagedSuccess
<1>2. AllRan => SuccessIsComplete
  BY DEF AllRan
<1>3. SystemInv /\ AllRan /\ [SystemNext]_allVars => AllRan'
  BY AllRanStep
<1> QED
  BY <1>1, <1>2, <1>3, SystemInvHolds, PTL DEF SystemSpec

-----------------------------------------------------------------------------
(* What an attempt has yet to go through: its own calls, with the except branch
   behind those of the success, ... *)
LateEffort(a) ==
  CASE pc[a] = "rehash" -> 8 [] pc[a] = "seal" -> 7 [] pc[a] = "rename" -> 6
    [] pc[a] = "check-final" -> 5 [] pc[a] = "post" -> 4 [] pc[a] = "release" -> 3
    [] pc[a] = "unlink" -> 2 [] OTHER -> 1

PlaceEffort(a) ==
  CASE pc[a] = "idle" -> 30 [] pc[a] = "check" -> 29 [] pc[a] = "prefail" -> 28
    [] pc[a] = "scan" -> 27 [] pc[a] = "claim" -> 26 [] pc[a] = "probe" -> 25
    [] pc[a] = "unprobe" -> 24 [] pc[a] = "rescan" -> 23 [] pc[a] = "held" -> 22
    [] pc[a] = "work" -> 21 [] pc[a] = "publish" -> 20 [] pc[a] = "raise" -> 11
    [] pc[a] = "write" -> 10 [] pc[a] \in Stopped -> 0
    [] OTHER -> IF mode[a] = "success" THEN 11 + LateEffort(a) ELSE LateEffort(a)

(* ... the calls of the container it is at, what the daemon has yet to do for
   it, and the containers after it. *)
RunEffort(a) ==
  CASE run[a].at = "off" -> 17 [] run[a].at = "create" -> 16 [] run[a].at = "attach" -> 11
    [] run[a].at = "wait" -> 10 [] run[a].at = "stop" -> 9 [] run[a].at = "confirm" -> 8
    [] run[a].at = "inspect" -> 7 [] run[a].at = "settle" -> 6 [] run[a].at = "reinspect" -> 5
    [] run[a].at = "terminate" -> 4 [] run[a].at = "reconfirm" -> 3
    [] run[a].at = "remove" -> 2 [] run[a].at = "log" -> 1 [] OTHER -> 0
DaemonEffort(a) == CASE cont[a] = "pending" -> 3 [] cont[a] = "created" -> 2
                     [] cont[a] = "running" -> 1 [] OTHER -> 0

Remaining(a) == PlaceEffort(a) + RunEffort(a) + DaemonEffort(a) + 18 * left[a]

(* The efforts are numbers in every state, ... *)
LEMMA RemainingTyped ==
  ASSUME NEW a \in Attempts
  PROVE  PlaceEffort(a) \in Nat /\ RunEffort(a) \in Nat /\ DaemonEffort(a) \in Nat
  BY DEF PlaceEffort, LateEffort, RunEffort, DaemonEffort

(* ... so in the next one. *)
LEMMA RemainingTypedAfter ==
  ASSUME NEW a \in Attempts
  PROVE  PlaceEffort(a)' \in Nat /\ RunEffort(a)' \in Nat /\ DaemonEffort(a)' \in Nat
  BY DEF PlaceEffort, LateEffort, RunEffort, DaemonEffort

(* Every call of the protocol, and every requirement that fails, leads to a
   later place. *)
LEMMA PlaceSpends ==
  ASSUME TypeOK, NEW a \in Attempts, Acts(a), pc[a] = "write" => mode[a] = "failure"
  PROVE  PlaceEffort(a)' < PlaceEffort(a)
  <1> USE DEF TypeOK, Places, Acquiring, Acquired, Leased, Stopped, Go, PlaceEffort, LateEffort
  <1>0. ASSUME Refuse(a), pc[a] \notin Stopped \union {"idle", "raise"} PROVE PlaceEffort(a)' < PlaceEffort(a)
    BY <1>0 DEF Refuse
  <1>1. CASE Start(a) \/ Crash(a)
    BY <1>1 DEF Start, Crash
  <1>2. CASE CheckPasses(a) \/ CheckFails(a)
    BY <1>2 DEF CheckPasses, CheckFails
  <1>3. CASE PreExecutionFailure(a)
    BY <1>3, <1>0 DEF PreExecutionFailure
  <1>4. CASE Scan(a) \/ Claim(a)
    BY <1>4, <1>0 DEF Scan, Require, Claim
  <1>5. CASE Probe(a) \/ Unprobe(a)
    BY <1>5 DEF Probe, Unprobe
  <1>6. CASE Rescan(a)
    BY <1>6, <1>0 DEF Rescan, Require
  <1>7. CASE Stage(a)
    BY <1>7, <1>0 DEF Stage
  <1>8. CASE Work(a) \/ WorkFails(a)
    BY <1>8, <1>0 DEF Work, WorkFails
  <1>9. CASE CleanUp(a) \/ DiscardReview(a)
    BY <1>9 DEF CleanUp, DiscardReview
  <1>10. CASE WriteFailure(a)
    BY <1>10, <1>0 DEF WriteFailure
  <1>11. CASE Publish(a)
    BY <1>11, <1>0 DEF Publish, Require
  <1>12. CASE Rehash(a) \/ Seal(a)
    BY <1>12, <1>0 DEF Rehash, Seal, Require
  <1>13. CASE Rename(a)
    BY <1>13, <1>0 DEF Rename
  <1>14. CASE CheckFinal(a) \/ PostRehash(a)
    BY <1>14, <1>0 DEF CheckFinal, PostRehash, Require
  <1>15. CASE Release(a)
    BY <1>15, <1>0 DEF Release
  <1>16. CASE Unlink(a)
    BY <1>16 DEF Unlink
  <1>17. CASE Close(a)
    BY <1>17, <1>0 DEF Close, Require
  <1> QED
    BY <1>1, <1>2, <1>3, <1>4, <1>5, <1>6, <1>7, <1>8, <1>9, <1>10, <1>11, <1>12, <1>13, <1>14,
       <1>15, <1>16, <1>17 DEF Acts, Step, Acquire, Execute, Handle, PublishAndRelease

(* Every call of run_container, answered or not, leads to a later one; a create
   that is carried out late costs more than what the daemon owes after it. *)
LEMMA RunSpends ==
  ASSUME RunTypeOK, NEW a \in Attempts, RunSound(a), RunStep(a) \/ Begin(a)
  PROVE  RunEffort(a)' + DaemonEffort(a)' < RunEffort(a) + DaemonEffort(a)
  <1> USE DEF RunTypeOK, Run, Steps, Container, RunEffort, DaemonEffort
  <1>1. CASE Begin(a)
    BY <1>1 DEF Begin
  <1>2. CASE Create(a)
    BY <1>2 DEF Create, RunSound
  <1>3. CASE Attach(a) \/ Wait(a)
    BY <1>3 DEF Attach, Wait
  <1>4. CASE StopTimedOut(a) \/ StopRunning(a)
    BY <1>4 DEF StopTimedOut, StopRunning, Terminate
  <1>5. CASE ConfirmTimedOut(a)
    BY <1>5 DEF ConfirmTimedOut
  <1>6. CASE ConfirmRunning(a)
    BY <1>6 DEF ConfirmRunning
  <1>7. CASE Inspect(a)
    BY <1>7 DEF Inspect
  <1>8. CASE Settle(a)
    BY <1>8 DEF Settle
  <1>9. CASE Reinspect(a)
    BY <1>9 DEF Reinspect
  <1>10. CASE Remove(a)
    BY <1>10 DEF Remove
  <1>11. CASE Log(a)
    BY <1>11 DEF Log
  <1> QED
    BY <1>1, <1>2, <1>3, <1>4, <1>5, <1>6, <1>7, <1>8, <1>9, <1>10, <1>11 DEF RunStep

(* The daemon carries out a late create, a start and an exit once each. *)
LEMMA DaemonSpends ==
  ASSUME RunTypeOK, NEW a \in Attempts, Daemon(a)
  PROVE  DaemonEffort(a)' < DaemonEffort(a) /\ run' = run
  BY DEF RunTypeOK, Container, Daemon, CreatedLate, Started, Exits, DaemonEffort

(* What attempt a and its container are at. *)
Standing(a) == <<pc[a], run[a], cont[a], left[a]>>

(* The attempt that takes a step, or whose container changes. *)
LEMMA Steppers ==
  ASSUME SystemTypeOK, [SystemNext]_allVars, NEW a \in Attempts, Standing(a)' # Standing(a)
  PROVE  \/ Acts(a) /\ UNCHANGED <<cont, left>> /\ run'[a] = run[a]
         \/ Crashes(a) /\ Acts(a) /\ UNCHANGED <<cont, left>> /\ run'[a].at = "dead"
         \/ (BeginContainer(a) \/ StepContainer(a) \/ Dockerd(a)) /\ UNCHANGED <<pc, mode, left>>
         \/ NextContainer(a)
  <1> USE DEF SystemTypeOK, Standing
  <1>1. ASSUME NEW b \in Attempts,
               Start(b) \/ Acquire(b) \/ Stage(b) \/ Handle(b) \/ PublishAndRelease(b),
               UNCHANGED <<run, cont, left>>
        PROVE  b = a /\ Acts(b)
    <2>1. Acts(b)
      BY <1>1 DEF Acts, Step, Execute
    <2> QED
      BY <1>1, <2>1, OthersKeep
  <1>2. ASSUME NEW b \in Attempts, RecordFailure(b) PROVE b = a /\ Acts(b) /\ UNCHANGED <<run, cont, left>>
    BY <1>1, <1>2 DEF RecordFailure, Handle
  <1>3. ASSUME NEW b \in Attempts, Compute(b) \/ Raise(b)
        PROVE  b = a /\ Acts(b) /\ UNCHANGED <<run, cont, left>>
    <2>1. Acts(b) /\ UNCHANGED <<run, cont, left>>
      BY <1>3 DEF Compute, Raise, Acts, Step, Execute, runVars
    <2> QED
      BY <2>1, OthersKeep
  <1>4. ASSUME NEW b \in Attempts, Crashes(b)
        PROVE  /\ b = a /\ Acts(b) /\ UNCHANGED <<cont, left>>
               /\ run'[a] = run[a] \/ run'[a].at = "dead"
    <2>1. Acts(b) /\ UNCHANGED <<cont, left>>
      BY <1>4 DEF Crashes, Acts
    <2>2. \A c \in Attempts \ {b} : run'[c] = run[c]
      BY <1>4 DEF Crashes, RunTypeOK
    <2>3. run'[b] = run[b] \/ run'[b].at = "dead"
      BY <1>4 DEF Crashes, RunTypeOK, Run
    <2> QED
      BY <2>1, <2>2, <2>3, OthersKeep
  <1>5. ASSUME NEW b \in Attempts, BeginContainer(b) \/ StepContainer(b) \/ Dockerd(b)
        PROVE  b = a /\ UNCHANGED <<pc, mode, left>>
    <2>1. UNCHANGED <<pc, mode, left>>
      BY <1>5 DEF BeginContainer, StepContainer, Dockerd, vars
    <2>2. \A c \in Attempts \ {b} : run'[c] = run[c] /\ cont'[c] = cont[c]
      BY <1>5 DEF BeginContainer, Begin, StepContainer, RunStep, Create, Attach, Wait, StopTimedOut,
                  ConfirmTimedOut, Inspect, Settle, Reinspect, StopRunning, ConfirmRunning,
                  Terminate, Remove, Log, Dockerd, Daemon, CreatedLate, Started, Exits, RunTypeOK
    <2> QED
      BY <2>1, <2>2
  <1>6. ASSUME NEW b \in Attempts, NextContainer(b) PROVE b = a
    BY <1>6 DEF NextContainer, RunTypeOK, vars
  <1>7. ~(Drift /\ UNCHANGED runVars) /\ ~UNCHANGED allVars
    BY DEF Drift, runVars, allVars, vars
  <1> QED
    BY <1>1, <1>2, <1>3, <1>4, <1>5, <1>6, <1>7, SystemCases DEF runVars

(* Four efforts, of which some are spent. *)
LEMMA FourSpend ==
  ASSUME NEW a \in Nat, NEW b \in Nat, NEW c \in Nat, NEW d \in Nat,
         NEW x \in Nat, NEW y \in Nat, NEW z \in Nat,
         x + (y + z) < a + (b + c)
  PROVE  x + y + z + 18 * d < a + b + c + 18 * d
  OBVIOUS

(* An attempt's own calls spend, a death costs nothing, a container that comes
   next is paid for by the count. *)
LEMMA StandingSpends ==
  ASSUME SystemInv, [SystemNext]_allVars, NEW a \in Attempts, Standing(a)' # Standing(a)
  PROVE  Remaining(a)' < Remaining(a)
  <1>1. /\ PlaceEffort(a) \in Nat /\ RunEffort(a) \in Nat /\ DaemonEffort(a) \in Nat
        /\ PlaceEffort(a)' \in Nat /\ RunEffort(a)' \in Nat /\ DaemonEffort(a)' \in Nat
        /\ left[a] \in Nat
    BY RemainingTyped, RemainingTypedAfter DEF SystemInv, SystemTypeOK
  <1>2. CASE Acts(a) /\ UNCHANGED <<cont, left>> /\ (run'[a] = run[a] \/ run'[a].at = "dead")
    <2>1. PlaceEffort(a)' < PlaceEffort(a)
      BY <1>2, PlaceSpends DEF SystemInv, SystemTypeOK, FailuresFollowMode
    <2>2. RunEffort(a)' <= RunEffort(a) /\ DaemonEffort(a)' = DaemonEffort(a)
      BY <1>1, <1>2 DEF RunEffort, DaemonEffort
    <2>3. PlaceEffort(a)' + (RunEffort(a)' + DaemonEffort(a)')
            < PlaceEffort(a) + (RunEffort(a) + DaemonEffort(a))
      BY <1>1, <2>1, <2>2
    <2> QED
      BY <1>1, <1>2, <2>3, FourSpend DEF Remaining
  <1>3. CASE (BeginContainer(a) \/ StepContainer(a) \/ Dockerd(a)) /\ UNCHANGED <<pc, mode, left>>
    <2>1. PlaceEffort(a)' = PlaceEffort(a)
      BY <1>3 DEF PlaceEffort, LateEffort
    <2>2. RunEffort(a)' + DaemonEffort(a)' < RunEffort(a) + DaemonEffort(a)
      <3>1. CASE BeginContainer(a) \/ StepContainer(a)
        BY <3>1, RunSpends DEF BeginContainer, StepContainer, SystemInv, SystemTypeOK, WorkOnly
      <3>2. CASE Dockerd(a)
        <4>1. DaemonEffort(a)' < DaemonEffort(a) /\ run' = run
          BY <3>2, DaemonSpends DEF Dockerd, SystemInv, SystemTypeOK
        <4>2. RunEffort(a)' = RunEffort(a)
          BY <4>1 DEF RunEffort
        <4> QED
          BY <1>1, <4>1, <4>2
      <3> QED
        BY <1>3, <3>1, <3>2
    <2>3. PlaceEffort(a)' + (RunEffort(a)' + DaemonEffort(a)')
            < PlaceEffort(a) + (RunEffort(a) + DaemonEffort(a))
      BY <1>1, <2>1, <2>2
    <2> QED
      BY <1>1, <1>3, <2>3, FourSpend DEF Remaining
  <1>4. CASE NextContainer(a)
    <2>1. PlaceEffort(a)' = PlaceEffort(a)
      BY <1>4 DEF NextContainer, vars, PlaceEffort, LateEffort
    <2>2. run[a].at = "over" /\ left[a] # 0
      BY <1>4 DEF NextContainer, Passed, Returned, SystemInv, WorkOnly
    <2>3. RunEffort(a)' = 17 /\ DaemonEffort(a)' = 0 /\ left'[a] = left[a] - 1
      BY <1>4 DEF NextContainer, NotBegun, RunEffort, DaemonEffort, SystemInv, SystemTypeOK, RunTypeOK
    <2> QED
      BY <1>1, <2>1, <2>2, <2>3 DEF Remaining
  <1> QED
    BY <1>2, <1>3, <1>4, Steppers DEF SystemInv

(* An attempt is over after a number of steps that the containers of its phase
   bound from the start, those of the daemon for it included: no call, cleanup
   or requirement leads back to an earlier one, and no other attempt makes it
   start again. *)
EveryAttemptSpends ==
  [][\A a \in Attempts : Standing(a)' # Standing(a) => Remaining(a)' < Remaining(a)]_allVars

(* EveryAttemptSpends: run_container and the publication have no endless loop. *)
THEOREM AttemptsAreFinite ==
  SystemSpec => EveryAttemptSpends /\ [](\A a \in Attempts : Remaining(a) \in Nat)
  <1> DEFINE Finite == \A a \in Attempts : Remaining(a) \in Nat
  <1>1. SystemInv => Finite
    <2> SUFFICES ASSUME SystemInv, NEW a \in Attempts PROVE Remaining(a) \in Nat
      OBVIOUS
    <2>1. /\ PlaceEffort(a) \in Nat /\ RunEffort(a) \in Nat /\ DaemonEffort(a) \in Nat
          /\ left[a] \in Nat
      BY RemainingTyped DEF SystemInv, SystemTypeOK
    <2> QED
      BY <2>1 DEF Remaining
  <1>2. SystemInv /\ [SystemNext]_allVars
          => [\A a \in Attempts : Standing(a)' # Standing(a) => Remaining(a)' < Remaining(a)]_allVars
    BY StandingSpends
  <1> HIDE DEF Finite
  <1>3. SystemSpec => EveryAttemptSpends /\ []Finite
    BY <1>1, <1>2, SystemInvHolds, PTL DEF SystemSpec, EveryAttemptSpends
  <1> QED
    BY <1>3 DEF Finite

-----------------------------------------------------------------------------
(* A run_container that nothing will end is one whose process has died. *)
DeadIsOver == \A a \in Attempts : run[a].at = "dead" => pc[a] = "crashed"

(* Only the crash of its process leaves a container's calls for good. *)
LEMMA DeadIsOverHolds == SystemSpec => []DeadIsOver
  <1>1. SystemInit => DeadIsOver
    BY DEF SystemInit, RunInit, NotBegun, DeadIsOver
  <1>2. SystemInv /\ DeadIsOver /\ [SystemNext]_allVars => DeadIsOver'
    <2> SUFFICES ASSUME SystemInv, DeadIsOver, [SystemNext]_allVars,
                        NEW a \in Attempts, run'[a].at = "dead"
                 PROVE  pc'[a] = "crashed"
      BY DEF DeadIsOver
    <2> USE DEF SystemInv, SystemTypeOK
    <2>1. CASE Standing(a)' = Standing(a)
      BY <2>1 DEF Standing, DeadIsOver
    <2>2. ~(Acts(a) /\ run'[a] = run[a])
      <3> SUFFICES ASSUME Acts(a), run'[a] = run[a] PROVE FALSE
        OBVIOUS
      <3>1. PlaceEffort(a)' < PlaceEffort(a)
        BY PlaceSpends DEF FailuresFollowMode
      <3>2. PlaceEffort(a) = 0
        BY DEF DeadIsOver, PlaceEffort, Stopped
      <3> QED
        BY <3>1, <3>2, RemainingTypedAfter
    <2>3. CASE Crashes(a)
      BY <2>3 DEF Crashes, Crash, Go, TypeOK
    <2>4. CASE BeginContainer(a) \/ StepContainer(a) \/ Dockerd(a) \/ NextContainer(a)
      <3>1. pc' = pc
        BY <2>4 DEF BeginContainer, StepContainer, Dockerd, NextContainer, vars
      <3>2. CASE BeginContainer(a) \/ NextContainer(a)
        BY <3>2 DEF BeginContainer, Begin, NextContainer, NotBegun, RunTypeOK, Run
      <3>3. CASE StepContainer(a)
        BY <3>3, RunStepPlace DEF StepContainer, Steps
      <3>4. CASE Dockerd(a)
        BY <3>1, <3>4 DEF Dockerd, Daemon, CreatedLate, Started, Exits, DeadIsOver
      <3> QED
        BY <2>4, <3>2, <3>3, <3>4
    <2> QED
      BY <2>1, <2>2, <2>3, <2>4, Steppers
  <1> QED
    BY <1>1, <1>2, SystemInvHolds, PTL DEF SystemSpec

(* Each requirement is met or refused, and each call answered or given up;
   what is left to wait for is the claim to unlink, and in the work the
   container. *)
CanGoOn(a) ==
  \/ pc[a] \notin {"work", "unlink"}
  \/ pc[a] = "unlink" /\ Mine(a, "claim") \in dir
  \/ pc[a] = "work" /\ (left[a] = 0 \/ run[a].at \in {"off", "over"} \union Steps)

NoAttemptIsStuck == \A a \in Attempts : pc[a] \notin Stopped \union {"idle"} => CanGoOn(a)

(* An attempt that has not ended has a next step of its own: nobody else takes
   the claim that it unlinks, and a container never leaves its work without a
   call to make, whatever the daemon answered. *)
THEOREM AttemptsGoOn == SystemSpec => []NoAttemptIsStuck
  <1>1. SystemInv /\ DeadIsOver => NoAttemptIsStuck
    <2> SUFFICES ASSUME SystemInv, DeadIsOver, NEW a \in Attempts PROVE CanGoOn(a)
      BY DEF NoAttemptIsStuck
    <2>1. CASE pc[a] = "unlink"
      BY <2>1 DEF CanGoOn, SystemInv, Inv, Holds, HolderHasClaim, Holding, Acquired, Leased
    <2>2. CASE pc[a] = "work"
      BY <2>2 DEF CanGoOn, DeadIsOver, SystemInv, SystemTypeOK, RunTypeOK, Run
    <2> QED
      BY <2>1, <2>2 DEF CanGoOn
  <1> QED
    BY <1>1, SystemInvHolds, DeadIsOverHolds, PTL
=============================================================================
