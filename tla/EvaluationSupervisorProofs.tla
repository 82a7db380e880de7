--------------------- MODULE EvaluationSupervisorProofs ---------------------
(***************************************************************************)
(* The safety of the supervision of an evaluation, for every runtime,      *)
(* grace period and pipe.                                                  *)
(***************************************************************************)
EXTENDS EvaluationSupervisor, TLAPS

(* The monitor samples once an interval, and at its deadline for the last
   time. *)
SamplesCounted ==
  /\ sup.at = "start" => mon.at = "off"
  /\ mon.at \in {"off", "wait"} => mon.samples = 0
  /\ mon.at = "sample" => mon.samples <= now /\ mon.samples <= RuntimeMax
  /\ mon.at = "sleep" => mon.samples <= now + 1 /\ mon.samples <= RuntimeMax

(* What the client of the evaluator knows of the unit: it is made with the
   request, ends with the unit and has its result, until the supervisor kills
   it. *)
ClientFollowsUnit ==
  /\ sup.at \in {"start", "launch"} => client = "none"
  /\ client = "none" => unit = "none"
  /\ client \in {"ok", "failed"} /\ sup.at # "failure" => unit \in {"ended", "collected"}
  /\ client = "ok" => exit = "ok"

(* An evaluator that exited well left no process, in time. *)
GoodExitIsFinal ==
  /\ exit = "ok" => unit \in {"ended", "collected"} /\ ~group /\ ~overran
  /\ unit \in {"ended", "collected"} => exit # "none"
  /\ overran => now > RuntimeMax

Inv == /\ TypeOK /\ SamplesCounted /\ ClientFollowsUnit /\ GoodExitIsFinal
       /\ SuccessMeansGone /\ CompleteMeansInactive

(* Before the start nothing has happened. *)
LEMMA InitInv == Init => Inv
<1> SUFFICES ASSUME Init PROVE Inv
  OBVIOUS
<1> USE SupervisorAssumption DEF Init
<1>1. mon \in Monitor
  BY DEF Monitor
<1>2. sup \in Supervisor
  BY DEF Supervisor
<1>3. mon.samples <= RuntimeMax + 1 /\ now \in 0..GivesUp /\ pipe \in 0..PipeRoom
  BY DEF GivesUp, Deadline
<1>4. TypeOK
  BY <1>1, <1>2, <1>3, Zenon DEF TypeOK
<1> QED
  BY <1>4 DEF Inv, SamplesCounted, ClientFollowsUnit, GoodExitIsFinal,
              SuccessMeansGone, CompleteMeansInactive

(* The loop and the census of the monitor change the unit only by stopping it. *)
LEMMA MonitorStops ==
  ASSUME Sample \/ Census
  PROVE  /\ UNCHANGED <<now, client, sup, overran>>
         /\ \/ UNCHANGED <<unit, group, exit>>
            \/ unit = "active" /\ unit' = "ended" /\ exit' = "failed"
<1>1. ASSUME NEW error \in BOOLEAN, Stop(error)
      PROVE  \/ UNCHANGED <<unit, group, exit>>
             \/ unit = "active" /\ unit' = "ended" /\ exit' = "failed"
  BY <1>1 DEF Stop, target
<1>2. CASE Sample
  BY <1>1, <1>2, Zenon DEF Sample, others, target
<1>3. CASE Census
  BY <1>1, <1>3, Zenon DEF Census, others, target
<1> QED
  BY <1>2, <1>3

(* The record of the monitor. *)
LEMMA SampleTyped == ASSUME TypeOK, Sample PROVE mon' \in Monitor
<1>1. CASE UNCHANGED mon
  BY <1>1 DEF TypeOK
<1>2. ASSUME NEW n \in Nat, NEW at \in {"sleep","terminal"}, mon' = [mon EXCEPT !.samples = n, !.at = at]
      PROVE  mon' \in Monitor
  BY <1>2 DEF TypeOK, Monitor
<1>3. ASSUME NEW n \in Nat, NEW e \in BOOLEAN,  mon' = [mon EXCEPT !.at = "terminal", !.failed = TRUE, !.stopped = TRUE,
                                   !.errors = e, !.samples = n]
      PROVE  mon' \in Monitor
  BY <1>3 DEF TypeOK, Monitor
<1>4. ASSUME NEW f \in BOOLEAN, NEW e \in BOOLEAN, mon' = [mon EXCEPT !.at = "terminal", !.failed = f, !.errors = e]
      PROVE  mon' \in Monitor
  BY <1>4 DEF TypeOK, Monitor
<1>5. mon.samples \in Nat /\ mon.samples + 1 \in Nat /\ mon.errors \in BOOLEAN
  BY DEF TypeOK, Monitor
<1>6. CASE /\ unit = "active" \/ group
           /\ mon' = [mon EXCEPT !.samples = @ + 1,
                              !.at = IF unit = "active" THEN "sleep" ELSE "terminal"]
  <2>1. CASE unit = "active"
    <3>1. mon' = [mon EXCEPT !.samples = mon.samples + 1, !.at = "sleep"]
      BY <1>6, <2>1
    <3> QED
      BY <1>2, <1>5, <3>1, Zenon
  <2>2. CASE unit # "active"
    <3>1. mon' = [mon EXCEPT !.samples = mon.samples + 1, !.at = "terminal"]
      BY <1>6, <2>2
    <3> QED
      BY <1>2, <1>5, <3>1, Zenon
  <2> QED
    BY <2>1, <2>2
<1>7. ASSUME NEW error \in BOOLEAN, NEW read \in BOOLEAN, 
             mon' = [mon EXCEPT !.at = "terminal", !.failed = TRUE, !.stopped = TRUE,
                                   !.errors = @ \/ error \/ ~read,
                                   !.samples = IF read /\ (unit = "active" \/ group)
                                                 THEN @ + 1 ELSE @]
      PROVE mon' \in Monitor
  <2>1. CASE read /\ (unit = "active" \/ group)
    <3>1. mon' = [mon EXCEPT !.at = "terminal", !.failed = TRUE, !.stopped = TRUE,
                           !.errors = mon.errors \/ error \/ ~read, !.samples = mon.samples + 1]
      BY <1>7, <2>1, Zenon
    <3>2. (mon.errors \/ error \/ ~read) \in BOOLEAN
      OBVIOUS
    <3> QED
      BY <1>3, <1>5, <3>1, <3>2, Zenon
  <2>2. CASE ~(read /\ (unit = "active" \/ group))
    <3>1. mon' = [mon EXCEPT !.at = "terminal", !.failed = TRUE, !.stopped = TRUE,
                           !.errors = mon.errors \/ error \/ ~read, !.samples = mon.samples]
      BY <1>7, <2>2, Zenon
    <3>2. (mon.errors \/ error \/ ~read) \in BOOLEAN
      OBVIOUS
    <3> QED
      BY <1>3, <1>5, <3>1, <3>2, Zenon
  <2> QED
    BY <2>1, <2>2
<1>8. CASE mon' = [mon EXCEPT !.at = "terminal", !.failed = mon.samples = 0,
                              !.errors = @ \/ mon.samples = 0]
  BY <1>4, <1>5, <1>8
<1> QED
  BY <1>6, <1>7, <1>8 DEF Sample

(* ... whatever step is taken. *)
LEMMA MonitorTyped == ASSUME TypeOK, [Next]_vars PROVE mon' \in Monitor
<1> USE DEF TypeOK, Monitor
<1>1. CASE StartMonitor
  BY <1>1 DEF StartMonitor, target
<1>2. CASE StartTarget
  BY <1>2 DEF StartTarget, target
<1>3. CASE StopTarget
  BY <1>3 DEF StopTarget, target, Stop
<1>4. CASE GiveUp
  BY <1>4 DEF GiveUp, target
<1>5. CASE Read
  BY <1>5 DEF Read, target
<1>6. CASE Judge
  BY <1>6 DEF Judge, target
<1>7. CASE Handle
  BY <1>7 DEF Handle, target, Stop
<1>8. CASE Die
  BY <1>8 DEF Die, target, Closed
<1>9. CASE AwaitTarget
  BY <1>9 DEF AwaitTarget, target, others
<1>10. CASE Sample
  BY <1>10, SampleTyped
<1>11. CASE ReadTerminal
  BY <1>11 DEF ReadTerminal, target, others
<1>12. CASE Census
  BY <1>12 DEF Census, target, others, Stop
<1>13. CASE Report
  BY <1>13 DEF Report, target, others
<1>14. CASE Emit
  BY <1>14 DEF Emit, target, Full
<1>15. CASE MonitorDies
  BY <1>15 DEF MonitorDies, target, others
<1>16. CASE Started
  BY <1>16 DEF Started, target
<1>17. CASE Exits
  BY <1>17 DEF Exits, target
<1>18. CASE Reaped
  BY <1>18 DEF Reaped, target
<1>19. CASE Collected
  BY <1>19 DEF Collected, target
<1>20. CASE ClientEnds
  BY <1>20 DEF ClientEnds, target
<1>21. CASE Tick
  BY <1>21 DEF Tick, target, GivesUp, Deadline
<1>22. CASE UNCHANGED vars
  BY <1>22 DEF vars, target
<1> QED
  BY <1>1, <1>2, <1>3, <1>4, <1>5, <1>6, <1>7, <1>8, <1>9, <1>10, <1>11, <1>12, <1>13, <1>14, <1>15, <1>16, <1>17, <1>18, <1>19, <1>20, <1>21, <1>22 DEF Next, SupervisorStep, MonitorStep

(* The record of the supervisor. *)
LEMMA SupervisorTyped == ASSUME TypeOK, [Next]_vars PROVE sup' \in Supervisor
<1> USE DEF TypeOK, Supervisor
<1>1. CASE StartMonitor
  BY <1>1 DEF StartMonitor, target
<1>2. CASE StartTarget
  BY <1>2 DEF StartTarget, target
<1>3. CASE StopTarget
  BY <1>3 DEF StopTarget, target, Stop
<1>4. CASE GiveUp
  BY <1>4 DEF GiveUp, target
<1>5. CASE Read
  BY <1>5 DEF Read, target
<1>6. CASE Judge
  BY <1>6 DEF Judge, target
<1>7. CASE Handle
  BY <1>7 DEF Handle, target, Stop
<1>8. CASE Die
  BY <1>8 DEF Die, target, Closed
<1>9. CASE AwaitTarget
  BY <1>9 DEF AwaitTarget, target, others
<1>10. CASE Sample
  BY <1>10 DEF Sample, target, others, Stop
<1>11. CASE ReadTerminal
  BY <1>11 DEF ReadTerminal, target, others
<1>12. CASE Census
  BY <1>12 DEF Census, target, others, Stop
<1>13. CASE Report
  BY <1>13 DEF Report, target, others
<1>14. CASE Emit
  BY <1>14 DEF Emit, target, Full
<1>15. CASE MonitorDies
  BY <1>15 DEF MonitorDies, target, others
<1>16. CASE Started
  BY <1>16 DEF Started, target
<1>17. CASE Exits
  BY <1>17 DEF Exits, target
<1>18. CASE Reaped
  BY <1>18 DEF Reaped, target
<1>19. CASE Collected
  BY <1>19 DEF Collected, target
<1>20. CASE ClientEnds
  BY <1>20 DEF ClientEnds, target
<1>21. CASE Tick
  BY <1>21 DEF Tick, target, GivesUp, Deadline
<1>22. CASE UNCHANGED vars
  BY <1>22 DEF vars, target
<1> QED
  BY <1>1, <1>2, <1>3, <1>4, <1>5, <1>6, <1>7, <1>8, <1>9, <1>10, <1>11, <1>12, <1>13, <1>14, <1>15, <1>16, <1>17, <1>18, <1>19, <1>20, <1>21, <1>22 DEF Next, SupervisorStep, MonitorStep

(* The other variables. *)
LEMMA ScalarsTyped ==
  ASSUME TypeOK, [Next]_vars
  PROVE  /\ now' \in 0..GivesUp /\ pipe' \in 0..PipeRoom
         /\ unit' \in {"none", "requested", "active", "ended", "collected"}
         /\ group' \in BOOLEAN /\ overran' \in BOOLEAN
         /\ exit' \in {"none", "ok", "failed"}
         /\ client' \in {"none", "alive", "ok", "failed"}
<1> USE SupervisorAssumption DEF TypeOK
<1>1. CASE StartMonitor
  BY <1>1 DEF StartMonitor, target
<1>2. CASE StartTarget
  BY <1>2 DEF StartTarget, target
<1>3. CASE StopTarget
  BY <1>3 DEF StopTarget, target, Stop
<1>4. CASE GiveUp
  BY <1>4 DEF GiveUp, target
<1>5. CASE Read
  BY <1>5 DEF Read, target
<1>6. CASE Judge
  BY <1>6 DEF Judge, target
<1>7. CASE Handle
  BY <1>7 DEF Handle, target, Stop
<1>8. CASE Die
  BY <1>8 DEF Die, target, Closed
<1>9. CASE AwaitTarget
  BY <1>9 DEF AwaitTarget, target, others
<1>10. CASE Sample
  BY <1>10 DEF Sample, target, others, Stop
<1>11. CASE ReadTerminal
  BY <1>11 DEF ReadTerminal, target, others
<1>12. CASE Census
  BY <1>12 DEF Census, target, others, Stop
<1>13. CASE Report
  BY <1>13 DEF Report, target, others
<1>14. CASE Emit
  BY <1>14 DEF Emit, target, Full
<1>15. CASE MonitorDies
  BY <1>15 DEF MonitorDies, target, others
<1>16. CASE Started
  BY <1>16 DEF Started, target
<1>17. CASE Exits
  BY <1>17 DEF Exits, target
<1>18. CASE Reaped
  BY <1>18 DEF Reaped, target
<1>19. CASE Collected
  BY <1>19 DEF Collected, target
<1>20. CASE ClientEnds
  BY <1>20 DEF ClientEnds, target
<1>21. CASE Tick
  BY <1>21 DEF Tick, target, GivesUp, Deadline
<1>22. CASE UNCHANGED vars
  BY <1>22 DEF vars, target
<1> QED
  BY <1>1, <1>2, <1>3, <1>4, <1>5, <1>6, <1>7, <1>8, <1>9, <1>10, <1>11, <1>12, <1>13, <1>14, <1>15, <1>16, <1>17, <1>18, <1>19, <1>20, <1>21, <1>22 DEF Next, SupervisorStep, MonitorStep

(* A sample of the loop is one of the interval, and the last is taken at the
   deadline. *)
LEMMA SamplesStep ==
  ASSUME TypeOK, SamplesCounted, [Next]_vars
  PROVE  SamplesCounted' /\ mon'.samples <= RuntimeMax + 1
<1> USE SupervisorAssumption DEF TypeOK, SamplesCounted, Monitor, Supervisor
<1>1. CASE StartMonitor
  <2>1. PICK at \in {"off", "wait", "dead"} : mon' = [mon EXCEPT !.at = at]
    BY <1>1 DEF StartMonitor
  <2>2. sup'.at # "start" /\ mon.samples = 0
    BY <1>1 DEF StartMonitor, Supervisor
  <2> QED
    BY <2>1, <2>2
<1>2. CASE StartTarget
  BY <1>2 DEF StartTarget, target
<1>3. CASE StopTarget
  BY <1>3 DEF StopTarget, target, Stop
<1>4. CASE GiveUp
  BY <1>4 DEF GiveUp, target
<1>5. CASE Read
  BY <1>5 DEF Read, target
<1>6. CASE Judge
  BY <1>6 DEF Judge, target
<1>7. CASE Handle
  BY <1>7 DEF Handle, target, Stop
<1>8. CASE Die
  BY <1>8 DEF Die, target, Closed
<1>9. CASE AwaitTarget
  BY <1>9 DEF AwaitTarget, target, others
<1>10. CASE Sample
  <2>1. mon.samples <= RuntimeMax /\ mon.samples <= now /\ now' = now
        /\ sup' = sup /\ sup.at # "start"
    BY <1>10 DEF Sample, others
  <2>2. CASE /\ now < RuntimeMax
             /\ mon' = [mon EXCEPT !.samples = @ + 1,
                                  !.at = IF unit = "active" THEN "sleep" ELSE "terminal"]
    BY <2>1, <2>2
  <2>3. CASE \E error, read \in BOOLEAN :
               mon' = [mon EXCEPT !.at = "terminal", !.failed = TRUE, !.stopped = TRUE,
                                  !.errors = @ \/ error \/ ~read,
                                  !.samples = IF read /\ (unit = "active" \/ group)
                                                THEN @ + 1 ELSE @]
    BY <2>1, <2>3
  <2>4. CASE mon' = [mon EXCEPT !.at = "terminal", !.failed = mon.samples = 0,
                                !.errors = @ \/ mon.samples = 0]
    BY <2>1, <2>4
  <2> QED
    BY <1>10, <2>2, <2>3, <2>4 DEF Sample
<1>11. CASE ReadTerminal
  BY <1>11 DEF ReadTerminal, target, others
<1>12. CASE Census
  BY <1>12 DEF Census, target, others, Stop
<1>13. CASE Report
  BY <1>13 DEF Report, target, others
<1>14. CASE Emit
  BY <1>14 DEF Emit, target, Full
<1>15. CASE MonitorDies
  BY <1>15 DEF MonitorDies, target, others
<1>16. CASE Started
  BY <1>16 DEF Started, target
<1>17. CASE Exits
  BY <1>17 DEF Exits, target
<1>18. CASE Reaped
  BY <1>18 DEF Reaped, target
<1>19. CASE Collected
  BY <1>19 DEF Collected, target
<1>20. CASE ClientEnds
  BY <1>20 DEF ClientEnds, target
<1>21. CASE Tick
  BY <1>21 DEF Tick, target, GivesUp, Deadline
<1>22. CASE UNCHANGED vars
  BY <1>22 DEF vars, target
<1> QED
  BY <1>1, <1>2, <1>3, <1>4, <1>5, <1>6, <1>7, <1>8, <1>9, <1>10, <1>11, <1>12, <1>13, <1>14, <1>15, <1>16, <1>17, <1>18, <1>19, <1>20, <1>21, <1>22 DEF Next, SupervisorStep, MonitorStep

(* An evaluator exits well only in time, and with its whole control group. *)
LEMMA ExitStep == ASSUME Inv, [Next]_vars PROVE GoodExitIsFinal'
<1> USE SupervisorAssumption DEF Inv, TypeOK, GoodExitIsFinal, ClientFollowsUnit
<1>1. CASE StartMonitor
  BY <1>1 DEF StartMonitor, target
<1>2. CASE StartTarget
  BY <1>2 DEF StartTarget, target
<1>3. CASE StopTarget
  BY <1>3 DEF StopTarget, target, Stop
<1>4. CASE GiveUp
  BY <1>4 DEF GiveUp, target
<1>5. CASE Read
  BY <1>5 DEF Read, target
<1>6. CASE Judge
  BY <1>6 DEF Judge, target
<1>7. CASE Handle
  BY <1>7 DEF Handle, target, Stop
<1>8. CASE Die
  BY <1>8 DEF Die, target, Closed
<1>9. CASE AwaitTarget
  BY <1>9 DEF AwaitTarget, target, others
<1>10. CASE Sample
  BY <1>10, MonitorStops
<1>11. CASE ReadTerminal
  BY <1>11 DEF ReadTerminal, target, others
<1>12. CASE Census
  BY <1>12, MonitorStops
<1>13. CASE Report
  BY <1>13 DEF Report, target, others
<1>14. CASE Emit
  BY <1>14 DEF Emit, target, Full
<1>15. CASE MonitorDies
  BY <1>15 DEF MonitorDies, target, others
<1>16. CASE Started
  BY <1>16 DEF Started, target
<1>17. CASE Exits
  BY <1>17 DEF Exits, target
<1>18. CASE Reaped
  BY <1>18 DEF Reaped, target
<1>19. CASE Collected
  BY <1>19 DEF Collected, target
<1>20. CASE ClientEnds
  BY <1>20 DEF ClientEnds, target
<1>21. CASE Tick
  BY <1>21 DEF Tick, target, GivesUp, Deadline
<1>22. CASE UNCHANGED vars
  BY <1>22 DEF vars, target
<1> QED
  BY <1>1, <1>2, <1>3, <1>4, <1>5, <1>6, <1>7, <1>8, <1>9, <1>10, <1>11, <1>12, <1>13, <1>14, <1>15, <1>16, <1>17, <1>18, <1>19, <1>20, <1>21, <1>22 DEF Next, SupervisorStep, MonitorStep

(* The client follows the unit. *)
LEMMA ClientStep == ASSUME Inv, [Next]_vars PROVE ClientFollowsUnit'
<1> USE DEF Inv, TypeOK, ClientFollowsUnit, GoodExitIsFinal, Supervisor
<1>1. CASE StartMonitor
  BY <1>1 DEF StartMonitor, target
<1>2. CASE StartTarget
  BY <1>2 DEF StartTarget, target
<1>3. CASE StopTarget
  BY <1>3 DEF StopTarget, target, Stop
<1>4. CASE GiveUp
  BY <1>4 DEF GiveUp, target
<1>5. CASE Read
  BY <1>5 DEF Read, target
<1>6. CASE Judge
  BY <1>6 DEF Judge, target
<1>7. CASE Handle
  BY <1>7 DEF Handle, target, Stop
<1>8. CASE Die
  BY <1>8 DEF Die, target, Closed
<1>9. CASE AwaitTarget
  BY <1>9 DEF AwaitTarget, target, others
<1>10. CASE Sample
  BY <1>10, MonitorStops
<1>11. CASE ReadTerminal
  BY <1>11 DEF ReadTerminal, target, others
<1>12. CASE Census
  BY <1>12, MonitorStops
<1>13. CASE Report
  BY <1>13 DEF Report, target, others
<1>14. CASE Emit
  BY <1>14 DEF Emit, target, Full
<1>15. CASE MonitorDies
  BY <1>15 DEF MonitorDies, target, others
<1>16. CASE Started
  BY <1>16 DEF Started, target
<1>17. CASE Exits
  BY <1>17 DEF Exits, target
<1>18. CASE Reaped
  BY <1>18 DEF Reaped, target
<1>19. CASE Collected
  BY <1>19 DEF Collected, target
<1>20. CASE ClientEnds
  BY <1>20 DEF ClientEnds, target
<1>21. CASE Tick
  BY <1>21 DEF Tick, target, GivesUp, Deadline
<1>22. CASE UNCHANGED vars
  BY <1>22 DEF vars, target
<1> QED
  BY <1>1, <1>2, <1>3, <1>4, <1>5, <1>6, <1>7, <1>8, <1>9, <1>10, <1>11, <1>12, <1>13, <1>14, <1>15, <1>16, <1>17, <1>18, <1>19, <1>20, <1>21, <1>22 DEF Next, SupervisorStep, MonitorStep

(* A cleanup that is called complete has stopped the unit, or found none. *)
LEMMA CompleteStep == ASSUME Inv, [Next]_vars PROVE CompleteMeansInactive'
<1> USE DEF Inv, TypeOK, ClientFollowsUnit, CompleteMeansInactive, Supervisor
<1>1. CASE StartMonitor
  BY <1>1 DEF StartMonitor, target
<1>2. CASE StartTarget
  BY <1>2 DEF StartTarget, target
<1>3. CASE StopTarget
  BY <1>3 DEF StopTarget, target, Stop
<1>4. CASE GiveUp
  BY <1>4 DEF GiveUp, target
<1>5. CASE Read
  BY <1>5 DEF Read, target
<1>6. CASE Judge
  BY <1>6 DEF Judge, target
<1>7. CASE Handle
  BY <1>7 DEF Handle, target, Stop
<1>8. CASE Die
  BY <1>8 DEF Die, target, Closed
<1>9. CASE AwaitTarget
  BY <1>9 DEF AwaitTarget, target, others
<1>10. CASE Sample
  BY <1>10, MonitorStops
<1>11. CASE ReadTerminal
  BY <1>11 DEF ReadTerminal, target, others
<1>12. CASE Census
  BY <1>12, MonitorStops
<1>13. CASE Report
  BY <1>13 DEF Report, target, others
<1>14. CASE Emit
  BY <1>14 DEF Emit, target, Full
<1>15. CASE MonitorDies
  BY <1>15 DEF MonitorDies, target, others
<1>16. CASE Started
  BY <1>16 DEF Started, target
<1>17. CASE Exits
  BY <1>17 DEF Exits, target
<1>18. CASE Reaped
  BY <1>18 DEF Reaped, target
<1>19. CASE Collected
  BY <1>19 DEF Collected, target
<1>20. CASE ClientEnds
  BY <1>20 DEF ClientEnds, target
<1>21. CASE Tick
  BY <1>21 DEF Tick, target, GivesUp, Deadline
<1>22. CASE UNCHANGED vars
  BY <1>22 DEF vars, target
<1> QED
  BY <1>1, <1>2, <1>3, <1>4, <1>5, <1>6, <1>7, <1>8, <1>9, <1>10, <1>11, <1>12, <1>13, <1>14, <1>15, <1>16, <1>17, <1>18, <1>19, <1>20, <1>21, <1>22 DEF Next, SupervisorStep, MonitorStep

(* A success is judged on a client that ended well. *)
LEMMA SuccessStep == ASSUME Inv, [Next]_vars PROVE SuccessMeansGone'
<1> USE DEF Inv, TypeOK, ClientFollowsUnit, GoodExitIsFinal, SuccessMeansGone, Supervisor
<1>1. CASE StartMonitor
  BY <1>1 DEF StartMonitor, target
<1>2. CASE StartTarget
  BY <1>2 DEF StartTarget, target
<1>3. CASE StopTarget
  BY <1>3 DEF StopTarget, target, Stop
<1>4. CASE GiveUp
  BY <1>4 DEF GiveUp, target
<1>5. CASE Read
  BY <1>5 DEF Read, target
<1>6. CASE Judge
  BY <1>6 DEF Judge, target
<1>7. CASE Handle
  BY <1>7 DEF Handle, target, Stop
<1>8. CASE Die
  BY <1>8 DEF Die, target, Closed
<1>9. CASE AwaitTarget
  BY <1>9 DEF AwaitTarget, target, others
<1>10. CASE Sample
  BY <1>10 DEF Sample, target, others, Stop
<1>11. CASE ReadTerminal
  BY <1>11 DEF ReadTerminal, target, others
<1>12. CASE Census
  BY <1>12 DEF Census, target, others, Stop
<1>13. CASE Report
  BY <1>13 DEF Report, target, others
<1>14. CASE Emit
  BY <1>14 DEF Emit, target, Full
<1>15. CASE MonitorDies
  BY <1>15 DEF MonitorDies, target, others
<1>16. CASE Started
  BY <1>16 DEF Started, target
<1>17. CASE Exits
  BY <1>17 DEF Exits, target
<1>18. CASE Reaped
  BY <1>18 DEF Reaped, target
<1>19. CASE Collected
  BY <1>19 DEF Collected, target
<1>20. CASE ClientEnds
  BY <1>20 DEF ClientEnds, target
<1>21. CASE Tick
  BY <1>21 DEF Tick, target, GivesUp, Deadline
<1>22. CASE UNCHANGED vars
  BY <1>22 DEF vars, target
<1> QED
  BY <1>1, <1>2, <1>3, <1>4, <1>5, <1>6, <1>7, <1>8, <1>9, <1>10, <1>11, <1>12, <1>13, <1>14, <1>15, <1>16, <1>17, <1>18, <1>19, <1>20, <1>21, <1>22 DEF Next, SupervisorStep, MonitorStep

(* Inv is inductive. *)
LEMMA InvHolds == Spec => []Inv
<1>1. Inv /\ [Next]_vars => Inv'
  BY MonitorTyped, SupervisorTyped, ScalarsTyped, SamplesStep, ExitStep, ClientStep,
     CompleteStep, SuccessStep
  DEF Inv, TypeOK
<1> QED
  BY InitInv, <1>1, PTL DEF Spec

(* Types, the end of time and the number of samples. *)
THEOREM TypeCorrect == Spec => []TypeOK
<1>1. Inv => TypeOK
  BY DEF Inv
<1> QED
  BY InvHolds, <1>1, PTL

(* finalize_phase and write_failure after the supervision: the result that is
   published is of an evaluator that exited well, in time, and left no process,
   and a failure that calls its cleanup complete leaves no evaluator unit
   active. *)
THEOREM OutcomesAreTrue == Spec => []OutcomeIsTrue
<1>1. Inv => OutcomeIsTrue
  BY DEF Inv, OutcomeIsTrue
<1> QED
  BY InvHolds, <1>1, PTL

-----------------------------------------------------------------------------
(* The pipe.  A run shows an evaluation with every sign of a PASS given up   *)
(* for a timeout, because the samples of the monitor do not fit into the     *)
(* pipe nobody reads.  That is the only way to it: where they fit, whatever  *)
(* else goes on, it does not happen.                                         *)

(* A monitor that has not failed keeps within the runtime. *)
InTime ==
  /\ mon.at \in {"off", "wait"} => now = 0
  /\ mon.at \in {"off", "wait", "sample", "sleep"} => ~mon.failed
  /\ mon.at = "sleep" => now < RuntimeMax
  /\ ~MonitorEnded /\ ~mon.failed => now <= RuntimeMax /\ mon.samples <= RuntimeMax
  /\ mon.pass => ~mon.failed /\ mon.at \in {"print", "ended", "dead"}

(* What is in the pipe, and what is still to be printed, are its samples. *)
Unread ==
  /\ mon.at # "print" /\ ~MonitorEnded => pipe = 0
  /\ mon.at = "print" => pipe + mon.left <= mon.samples

(* A supervisor that gives up does so for an evaluator or a monitor that has
   overrun: neither turns into a good one afterwards. *)
GaveUpLate ==
  /\ client = "alive" /\ exit = "ok" => now <= RuntimeMax
  /\ sup.gaveUp => now >= GivesUp /\ (client = "ok" => mon.failed)

PipeInv == InTime /\ Unread /\ GaveUpLate

(* The steps that change what the monitor is doing, or the time. *)
LEMMA WhoMoves ==
  ASSUME [Next]_vars
  PROVE  \/ StartMonitor \/ MonitorStep \/ MonitorDies \/ Tick
         \/ UNCHANGED <<mon, now>> /\ pipe' \in {pipe, 0}
  BY Zenon DEF Next, SupervisorStep, StartTarget, StopTarget, GiveUp, Read, Judge, Handle, Die,
     Started, Exits, Reaped, Collected, ClientEnds, vars

(* A sample of the loop: it is taken in time, or the monitor has failed, or
   the control group is gone. *)
LEMMA SampleMoves ==
  ASSUME TypeOK, Sample
  PROVE  /\ mon.at = "sample" /\ mon'.pass = mon.pass /\ mon'.left = mon.left
         /\ UNCHANGED others
         /\ \/ /\ now < RuntimeMax /\ mon'.at \in {"sleep", "terminal"}
               /\ mon'.failed = mon.failed /\ mon'.samples = mon.samples + 1
            \/ mon'.at = "terminal" /\ mon'.failed
            \/ mon'.at = "terminal" /\ mon'.samples = mon.samples
  BY DEF TypeOK, Monitor, Sample

(* After the loop the samples are what they were, and the verdict too, unless
   the census could not be taken. *)
LEMMA AfterTheLoop ==
  ASSUME TypeOK, ReadTerminal \/ Census \/ Report \/ Emit
  PROVE  /\ UNCHANGED <<now, client, sup>>
         /\ mon'.samples = mon.samples
         /\ \/ mon'.failed = mon.failed
            \/ mon'.failed /\ mon.at = "census" /\ mon'.pass = mon.pass
         /\ mon'.pass => mon.pass \/ (~mon.failed /\ mon'.at = "print")
         /\ \/ /\ mon.at # "print" /\ ~MonitorEnded /\ mon.at \notin {"off", "wait", "sample", "sleep"}
               /\ pipe' = pipe
               /\ \/ mon'.at \in {"terminal", "census", "collect"}
                  \/ mon'.at = "print" /\ mon'.left = mon.samples
            \/ /\ mon.at = "print" /\ mon'.at = "print" /\ mon.left > 0
               /\ mon'.left = mon.left - 1 /\ pipe' \in {pipe + 1, 0}
            \/ mon.at = "print" /\ mon'.at = "ended"
  <1> USE DEF TypeOK, Monitor, MonitorEnded
  <1>1. CASE ReadTerminal
    BY <1>1 DEF ReadTerminal, others
  <1>2. CASE Census
    BY <1>2 DEF Census, others
  <1>3. CASE Report
    BY <1>3 DEF Report, others
  <1>4. CASE Emit
    BY <1>4 DEF Emit, others
  <1> QED
    BY <1>1, <1>2, <1>3, <1>4

(* Time passes for a monitor that sleeps, has ended or is blocked. *)
LEMMA TickMoves ==
  ASSUME TypeOK, Tick
  PROVE  /\ now' = now + 1 /\ UNCHANGED <<target, client, pipe, sup>>
         /\ client = "alive" => unit = "active"
         /\ mon'.samples = mon.samples /\ mon'.failed = mon.failed /\ mon'.pass = mon.pass
         /\ mon'.left = mon.left
         /\ \/ mon.at = "sleep" /\ mon'.at = "sample"
            \/ mon.at \in {"ended", "dead"} /\ mon'.at = mon.at
            \/ mon.at = "print" /\ mon'.at = "print" /\ pipe >= PipeRoom /\ mon.left > 0
  BY DEF TypeOK, Monitor, Tick, Waiting, Full

(* The monitor keeps within the runtime or has failed: only a full pipe could
   hold it up for longer. *)
LEMMA InTimeStep ==
  ASSUME Inv, PipeInv, PipeRoom >= RuntimeMax, [Next]_vars
  PROVE  InTime'
  <1> USE SupervisorAssumption DEF Inv, TypeOK, PipeInv, InTime, MonitorEnded
  <1>0. mon.samples \in Nat /\ mon.left \in Nat /\ now \in Nat /\ pipe \in Nat
    BY DEF Monitor
  <1>1. CASE StartMonitor
    <2>1. PICK at \in {"off", "wait", "dead"} : mon' = [mon EXCEPT !.at = at]
      BY <1>1 DEF StartMonitor
    <2>2. mon.at = "off" /\ now' = now
      BY <1>1 DEF StartMonitor, SamplesCounted
    <2> QED
      BY <2>1, <2>2 DEF Monitor
  <1>2. CASE AwaitTarget
    BY <1>2, <1>0 DEF AwaitTarget, others, Monitor, SamplesCounted
  <1>3. CASE Sample
    BY <1>3, <1>0, SampleMoves DEF others, SamplesCounted
  <1>4. CASE ReadTerminal \/ Census \/ Report \/ Emit
    BY <1>4, <1>0, AfterTheLoop
  <1>5. CASE MonitorDies
    BY <1>5, <1>0 DEF MonitorDies, others, Monitor
  <1>6. CASE Tick
    <2>1. ~mon.failed /\ mon.at = "print" => pipe + mon.left <= RuntimeMax
      BY <1>0 DEF Unread
    <2>2. ~mon.failed /\ mon.at = "print" => ~(pipe >= PipeRoom /\ mon.left > 0)
      BY <2>1, <1>0
    <2> QED
      BY <1>6, <1>0, <2>2, TickMoves
  <1>7. CASE UNCHANGED <<mon, now>>
    BY <1>7
  <1> QED
    BY <1>1, <1>2, <1>3, <1>4, <1>5, <1>6, <1>7, WhoMoves DEF MonitorStep

(* The pipe holds what has been printed since it was last read. *)
LEMMA UnreadStep ==
  ASSUME Inv, PipeInv, [Next]_vars
  PROVE  Unread'
  <1> USE SupervisorAssumption DEF Inv, TypeOK, PipeInv, Unread, MonitorEnded
  <1>0. mon.samples \in Nat /\ mon.left \in Nat /\ now \in Nat /\ pipe \in Nat
    BY DEF Monitor
  <1>1. CASE StartMonitor
    <2>1. PICK at \in {"off", "wait", "dead"} : mon' = [mon EXCEPT !.at = at]
      BY <1>1 DEF StartMonitor
    <2>2. mon.at = "off" /\ pipe' = pipe
      BY <1>1 DEF StartMonitor, SamplesCounted
    <2> QED
      BY <2>1, <2>2 DEF Monitor
  <1>2. CASE AwaitTarget
    BY <1>2, <1>0 DEF AwaitTarget, others, Monitor
  <1>3. CASE Sample
    BY <1>3, <1>0, SampleMoves DEF others
  <1>4. CASE ReadTerminal \/ Census \/ Report \/ Emit
    BY <1>4, <1>0, AfterTheLoop
  <1>5. CASE MonitorDies
    BY <1>5, <1>0 DEF MonitorDies, others, Monitor
  <1>6. CASE Tick
    BY <1>6, <1>0, TickMoves
  <1>7. CASE UNCHANGED <<mon, now>> /\ pipe' \in {pipe, 0}
    BY <1>7, <1>0
  <1> QED
    BY <1>1, <1>2, <1>3, <1>4, <1>5, <1>6, <1>7, WhoMoves DEF MonitorStep

(* Who is given up is too late to turn out well. *)
LEMMA GaveUpStep ==
  ASSUME Inv, PipeInv, [Next]_vars
  PROVE  GaveUpLate'
  <1> USE SupervisorAssumption DEF Inv, TypeOK, PipeInv, GaveUpLate
  <1>0. now \in Nat /\ RuntimeMax \in Nat /\ GivesUp \in Nat /\ RuntimeMax < GivesUp
    BY DEF GivesUp, Deadline
  <1>1. CASE GiveUp
    <2>1. /\ now >= GivesUp /\ UNCHANGED <<now, target, client, mon>>
          /\ client = "alive" \/ ~MonitorEnded
      BY <1>1 DEF GiveUp
    <2>2. ~MonitorEnded => mon.failed
      BY <1>0, <2>1 DEF InTime
    <2> QED
      BY <2>1, <2>2 DEF target
  <1>2. CASE ClientEnds
    <2>1. client = "alive" /\ client' = exit /\ UNCHANGED <<now, target, mon, sup>>
      BY <1>2 DEF ClientEnds
    <2> QED
      BY <1>0, <2>1 DEF target
  <1>3. CASE Exits
    <2>1. exit' = "ok" => now <= RuntimeMax
      BY <1>3 DEF Exits
    <2> QED
      BY <1>3, <2>1 DEF Exits
  <1>4. CASE Tick
    BY <1>0, <1>4, TickMoves DEF target, GoodExitIsFinal
  <1>5. CASE Sample \/ Census
    <2>1. mon.failed => mon'.failed
      BY <1>5, SampleMoves, AfterTheLoop DEF InTime
    <2> QED
      BY <1>5, <2>1, MonitorStops
  <1>6. CASE ReadTerminal \/ Report \/ Emit
    <2>1. (mon.failed => mon'.failed) /\ UNCHANGED <<now, client, sup>>
      BY <1>6, AfterTheLoop
    <2> QED
      BY <1>6, <2>1 DEF ReadTerminal, Report, Emit, target
  <1>7. CASE AwaitTarget \/ MonitorDies
    BY <1>7 DEF AwaitTarget, MonitorDies, others, target, Monitor
  <1>8. CASE StartMonitor
    <2>1. UNCHANGED <<now, target, client>> /\ sup'.gaveUp = sup.gaveUp /\ mon'.failed = mon.failed
      BY <1>8 DEF StartMonitor, Supervisor, Monitor
    <2> QED
      BY <2>1 DEF target
  <1>9. CASE StartTarget
    BY <1>9 DEF StartTarget, Supervisor, ClientFollowsUnit, GoodExitIsFinal
  <1>10. CASE StopTarget
    <2>1. exit' \in {exit, "failed"} /\ UNCHANGED <<now, client, mon>> /\ sup'.gaveUp = sup.gaveUp
      BY <1>10 DEF StopTarget, Stop, target, Supervisor
    <2> QED
      BY <2>1
  <1>11. CASE Handle
    <2>1. client' # "alive" /\ client' = (IF client = "alive" THEN "failed" ELSE client)
      BY <1>11 DEF Handle
    <2>2. UNCHANGED <<now, mon>> /\ sup'.gaveUp = sup.gaveUp
      BY <1>11 DEF Handle, Supervisor
    <2> QED
      BY <2>1, <2>2
  <1>12. CASE Read \/ Judge \/ Die
    <2>1. UNCHANGED <<now, target, client, mon>> /\ sup'.gaveUp = sup.gaveUp
      BY <1>12 DEF Read, Judge, Die, Supervisor
    <2> QED
      BY <2>1 DEF target
  <1>13. CASE Started \/ Reaped \/ Collected
    BY <1>13 DEF Started, Reaped, Collected
  <1>14. CASE UNCHANGED vars
    BY <1>14 DEF vars, target
  <1> QED
    BY <1>1, <1>2, <1>3, <1>4, <1>5, <1>6, <1>7, <1>8, <1>9, <1>10, <1>11, <1>12, <1>13, <1>14
    DEF Next, SupervisorStep, MonitorStep

(* Where the pipe holds every sample that fits into the runtime, an evaluation
   that has all the signs of a PASS is not given up for a timeout: the
   disagreement of the code with its plan is the pipe, and nothing else. *)
THEOREM OnlyThePipeTimesOut ==
  ASSUME PipeRoom >= RuntimeMax
  PROVE  Spec => []PassIsNoTimeout
  <1>1. Init => PipeInv
    BY SupervisorAssumption DEF Init, PipeInv, InTime, Unread, GaveUpLate, MonitorEnded
  <1>2. Inv /\ PipeInv /\ [Next]_vars => PipeInv'
    BY InTimeStep, UnreadStep, GaveUpStep DEF PipeInv
  <1>3. PipeInv => PassIsNoTimeout
    BY DEF PipeInv, InTime, GaveUpLate, PassIsNoTimeout
  <1> QED
    BY <1>1, <1>2, <1>3, InvHolds, PTL DEF Spec

-----------------------------------------------------------------------------
(* What is yet to come, of each of those who take part. *)
SupervisorEffort ==
  CASE sup.at = "start" -> 6 [] sup.at = "launch" -> 5
    [] sup.at = "watch" -> IF sup.stopped THEN 3 ELSE 4
    [] sup.at = "judge" -> 2 [] sup.at = "except" -> 1 [] OTHER -> 0
MonitorEffort ==
  CASE mon.at = "off" -> RuntimeMax + 10 [] mon.at = "wait" -> RuntimeMax + 9
    [] mon.at = "sample" -> RuntimeMax + 8 [] mon.at = "sleep" -> RuntimeMax + 7
    [] mon.at = "terminal" -> RuntimeMax + 6
    [] mon.at = "census" -> IF mon.stopped THEN RuntimeMax + 4 ELSE RuntimeMax + 5
    [] mon.at = "collect" -> RuntimeMax + 3
    [] mon.at = "print" -> mon.left + 1 [] OTHER -> 0
UnitEffort ==
  CASE unit = "none" -> 8 [] unit = "requested" -> 6 [] unit = "active" -> 4
    [] unit = "ended" -> 2 [] OTHER -> 0
TargetEffort == UnitEffort + (IF group THEN 1 ELSE 0)
ClientEffort == CASE client = "none" -> 2 [] client = "alive" -> 1 [] OTHER -> 0

TimeEffort == 2 * (GivesUp - now)

Effort == SupervisorEffort + MonitorEffort + TargetEffort + ClientEffort + TimeEffort

(* A unit that has ended has a result. *)
EndedHasResult == unit \in {"ended", "collected"} => exit # "none"

EffortOK == /\ SupervisorEffort \in Nat /\ MonitorEffort \in Nat /\ TargetEffort \in Nat
            /\ ClientEffort \in Nat /\ TimeEffort \in Nat

(* Every effort is a natural number, ... *)
LEMMA EffortTyped == TypeOK => EffortOK
  <1> SUFFICES ASSUME TypeOK PROVE EffortOK
    OBVIOUS
  <1> USE SupervisorAssumption
  <1>1. mon.left \in Nat /\ RuntimeMax \in Nat
    BY DEF TypeOK, Monitor
  <1>2. MonitorEffort \in Nat
    BY <1>1 DEF MonitorEffort
  <1>3. SupervisorEffort \in Nat /\ ClientEffort \in Nat
    BY DEF SupervisorEffort, ClientEffort
  <1>4. TargetEffort \in Nat
    BY DEF TargetEffort, UnitEffort
  <1>5. TimeEffort \in Nat
    BY DEF TypeOK, TimeEffort, GivesUp, Deadline
  <1> QED
    BY <1>2, <1>3, <1>4, <1>5 DEF EffortOK

(* ... before and after a step. *)
LEMMA EffortTypedAfter == TypeOK' => EffortOK'
  BY EffortTyped, PTL

(* Stopping a unit costs nothing. *)
LEMMA StopSpends ==
  ASSUME TypeOK, NEW error \in BOOLEAN, Stop(error)
  PROVE  TargetEffort' <= TargetEffort
  BY DEF TypeOK, Stop, target, TargetEffort, UnitEffort

(* Each step of the monitor brings it forward. *)
LEMMA MonitorSpends ==
  ASSUME TypeOK, MonitorStep \/ MonitorDies
  PROVE  /\ MonitorEffort' < MonitorEffort /\ TargetEffort' <= TargetEffort
         /\ UNCHANGED <<client, sup, now>>
  <1> USE SupervisorAssumption DEF TypeOK
  <1>0. /\ mon \in Monitor /\ mon.left \in Nat /\ mon.samples \in Nat /\ RuntimeMax \in Nat
        /\ mon.samples <= RuntimeMax + 1
    BY DEF Monitor
  <1>1. CASE AwaitTarget \/ MonitorDies
    BY <1>0, <1>1 DEF AwaitTarget, MonitorDies, others, target, Monitor, MonitorEffort,
                      TargetEffort, UnitEffort
  <1>2. CASE Sample
    <2>1. MonitorEffort' < MonitorEffort
      BY <1>0, <1>2, SampleMoves DEF MonitorEffort
    <2>2. UNCHANGED target \/ \E error \in BOOLEAN : Stop(error)
      BY <1>2 DEF Sample
    <2>3. TargetEffort' <= TargetEffort
      BY <2>2, StopSpends, EffortTyped DEF EffortOK, target, TargetEffort, UnitEffort
    <2> QED
      BY <1>2, <2>1, <2>3 DEF Sample, others
  <1>3. CASE ReadTerminal
    BY <1>0, <1>3 DEF ReadTerminal, others, target, Monitor, MonitorEffort, TargetEffort, UnitEffort
  <1>4. CASE Census
    <2>1. MonitorEffort' < MonitorEffort
      <3>1. mon.at = "census"
        BY <1>4 DEF Census
      <3>2. \/ mon'.at = "collect"
            \/ mon'.at = "census" /\ ~mon.stopped /\ mon'.stopped
            \/ mon'.at = "print" /\ mon'.left = mon.samples
        BY <1>0, <1>4 DEF Census, Monitor
      <3> QED
        BY <1>0, <3>1, <3>2 DEF MonitorEffort
    <2>2. UNCHANGED target \/ \E error \in BOOLEAN : Stop(error)
      BY <1>4 DEF Census
    <2>3. TargetEffort' <= TargetEffort
      BY <2>2, StopSpends, EffortTyped DEF EffortOK, target, TargetEffort, UnitEffort
    <2> QED
      BY <1>4, <2>1, <2>3 DEF Census, others
  <1>5. CASE Report
    BY <1>0, <1>5 DEF Report, others, target, Monitor, MonitorEffort, TargetEffort, UnitEffort
  <1>6. CASE Emit
    BY <1>0, <1>6 DEF Emit, target, Monitor, MonitorEffort, TargetEffort, UnitEffort
  <1> QED
    BY <1>1, <1>2, <1>3, <1>4, <1>5, <1>6 DEF MonitorStep

(* Each step of the supervisor brings it forward, and undoes nothing of the
   others. *)
LEMMA SupervisorSpends ==
  ASSUME Inv, SupervisorStep \/ Die
  PROVE  /\ SupervisorEffort' < SupervisorEffort /\ MonitorEffort' <= MonitorEffort
         /\ TargetEffort' <= TargetEffort /\ ClientEffort' <= ClientEffort /\ now' = now
  <1> USE SupervisorAssumption DEF Inv, TypeOK
  <1>0. /\ mon \in Monitor /\ mon.left \in Nat /\ RuntimeMax \in Nat
        /\ MonitorEffort \in Nat /\ TargetEffort \in Nat /\ ClientEffort \in Nat
    BY EffortTyped DEF EffortOK, Monitor
  <1>1. CASE StartMonitor
    <2>1. mon.at = "off" /\ UNCHANGED <<target, client, now>>
      BY <1>1 DEF StartMonitor, SamplesCounted
    <2>2. mon'.at \in {"off", "wait", "dead"}
      BY <1>0, <1>1 DEF StartMonitor, Monitor
    <2>3. SupervisorEffort' < SupervisorEffort
      BY <1>1 DEF StartMonitor, Supervisor, SupervisorEffort
    <2> QED
      BY <1>0, <2>1, <2>2, <2>3 DEF target, MonitorEffort, TargetEffort, UnitEffort, ClientEffort
  <1>2. CASE StartTarget
    <2>1. SupervisorEffort' < SupervisorEffort
      BY <1>2 DEF StartTarget, Supervisor, SupervisorEffort
    <2>2. client = "none" /\ unit = "none" /\ UNCHANGED <<group, mon, now>>
      BY <1>2 DEF StartTarget, ClientFollowsUnit
    <2>3. client' \in {"none", "alive"} /\ unit' \in {"none", "requested"}
      BY <1>2, <2>2 DEF StartTarget
    <2> QED
      BY <1>0, <2>1, <2>2, <2>3 DEF MonitorEffort, TargetEffort, UnitEffort, ClientEffort
  <1>3. CASE StopTarget
    <2>1. SupervisorEffort' < SupervisorEffort /\ UNCHANGED <<client, mon, now>>
      BY <1>3 DEF StopTarget, StopDue, Supervisor, SupervisorEffort
    <2>2. TargetEffort' <= TargetEffort
      BY <1>3, StopSpends DEF StopTarget
    <2> QED
      BY <1>0, <2>1, <2>2 DEF MonitorEffort, ClientEffort
  <1>4. CASE GiveUp \/ Read \/ Judge \/ Die
    <2>1. SupervisorEffort' < SupervisorEffort
      <3>1. \/ sup.at = "watch" /\ sup'.at \in {"except", "judge"}
            \/ sup.at = "judge" /\ sup'.at \in {"success", "except"}
            \/ /\ sup.at \in {"start", "launch", "watch", "judge", "except"}
               /\ sup'.at = "dead"
        BY <1>4 DEF GiveUp, Read, Judge, Die, Closed, Supervisor
      <3> QED
        BY <3>1 DEF SupervisorEffort
    <2>2. UNCHANGED <<target, client, mon, now>>
      BY <1>4 DEF GiveUp, Read, Judge, Die
    <2> QED
      BY <1>0, <2>1, <2>2 DEF target, MonitorEffort, TargetEffort, UnitEffort, ClientEffort
  <1>5. CASE Handle
    <2>1. SupervisorEffort' < SupervisorEffort
      BY <1>5 DEF Handle, Supervisor, SupervisorEffort
    <2>2. UNCHANGED <<mon, now>> /\ client' = (IF client = "alive" THEN "failed" ELSE client)
      BY <1>5 DEF Handle
    <2>3. UNCHANGED target \/ \E error \in BOOLEAN : Stop(error)
      BY <1>5 DEF Handle
    <2>4. TargetEffort' <= TargetEffort
      BY <1>0, <2>3, StopSpends DEF target, TargetEffort, UnitEffort
    <2> QED
      BY <1>0, <2>1, <2>2, <2>4 DEF MonitorEffort, ClientEffort
  <1> QED
    BY <1>1, <1>2, <1>3, <1>4, <1>5 DEF SupervisorStep

(* So does each step of systemd, of the evaluator and of a client. *)
LEMMA OutsideSpends ==
  ASSUME TypeOK, EndedHasResult, Started \/ Exits \/ Reaped \/ Collected \/ ClientEnds
  PROVE  /\ UNCHANGED <<mon, sup, now>>
         /\ \/ TargetEffort' < TargetEffort /\ ClientEffort' = ClientEffort
            \/ TargetEffort' = TargetEffort /\ ClientEffort' < ClientEffort
  <1> USE DEF TypeOK
  <1>1. CASE Started \/ Exits \/ Reaped \/ Collected
    <2>1. UNCHANGED <<mon, sup, now, client>>
      BY <1>1 DEF Started, Exits, Reaped, Collected
    <2>2. TargetEffort' < TargetEffort
      BY <1>1 DEF Started, Exits, Reaped, Collected, TargetEffort, UnitEffort
    <2> QED
      BY <2>1, <2>2 DEF ClientEffort
  <1>2. CASE ClientEnds
    <2>1. UNCHANGED <<mon, sup, now, unit, group>>
      BY <1>2 DEF ClientEnds, target
    <2>2. client = "alive" /\ client' \in {"ok", "failed"}
      BY <1>2 DEF ClientEnds, EndedHasResult
    <2> QED
      BY <2>1, <2>2 DEF ClientEffort, TargetEffort, UnitEffort
  <1> QED
    BY <1>1, <1>2

(* An interval that passes is worth the sample that it allows. *)
LEMMA TickSpends ==
  ASSUME TypeOK, Tick
  PROVE  /\ now' = now + 1 /\ UNCHANGED <<target, client, sup>>
         /\ MonitorEffort' <= MonitorEffort + 1
  <1>0. mon.left \in Nat /\ RuntimeMax \in Nat
    BY SupervisorAssumption DEF TypeOK, Monitor
  <1> QED
    BY <1>0, TickMoves DEF MonitorEffort

(* Sums of efforts, after a step and after an interval. *)
LEMMA SumSmaller ==
  ASSUME NEW a \in Nat, NEW b \in Nat, NEW c \in Nat, NEW d \in Nat, NEW e \in Nat,
         NEW x \in Nat, NEW y \in Nat, NEW z \in Nat, NEW u \in Nat,
         x <= a, y <= b, z <= c, u <= d, x < a \/ y < b \/ z < c \/ u < d
  PROVE  x + y + z + u + e < a + b + c + d + e
  OBVIOUS

(* An interval is worth two, the sample after it one. *)
LEMMA SumAfterInterval ==
  ASSUME NEW a \in Nat, NEW b \in Nat, NEW c \in Nat, NEW d \in Nat, NEW e \in Nat,
         NEW y \in Nat, y <= b + 1
  PROVE  a + y + c + d + (e - 2) < a + b + c + d + e
  OBVIOUS

(* One that spends is enough where nobody gains. *)
LEMMA OneSpends ==
  ASSUME EffortOK, EffortOK', TimeEffort' = TimeEffort,
         SupervisorEffort' <= SupervisorEffort, MonitorEffort' <= MonitorEffort,
         TargetEffort' <= TargetEffort, ClientEffort' <= ClientEffort,
         \/ SupervisorEffort' < SupervisorEffort \/ MonitorEffort' < MonitorEffort
         \/ TargetEffort' < TargetEffort \/ ClientEffort' < ClientEffort
  PROVE  Effort' < Effort
  <1>1. Effort' = SupervisorEffort' + MonitorEffort' + TargetEffort' + ClientEffort' + TimeEffort
    BY DEF Effort
  <1> QED
    BY <1>1, SumSmaller DEF Effort, EffortOK

(* Every step that is taken has spent some of the effort. *)
LEMMA StepSpends ==
  ASSUME Inv, Inv', EndedHasResult, Next
  PROVE  Effort' < Effort
  <1>1. TypeOK /\ TypeOK'
    BY DEF Inv
  <1>2. EffortOK /\ EffortOK'
    BY <1>1, EffortTyped, EffortTypedAfter
  <1>3. now' = now => TimeEffort' = TimeEffort
    BY DEF TimeEffort, GivesUp, Deadline
  <1>4. CASE SupervisorStep \/ Die
    <2>1. SupervisorEffort' < SupervisorEffort /\ SupervisorEffort' <= SupervisorEffort
      BY <1>2, <1>4, SupervisorSpends DEF EffortOK
    <2>2. /\ MonitorEffort' <= MonitorEffort /\ TargetEffort' <= TargetEffort
          /\ ClientEffort' <= ClientEffort /\ TimeEffort' = TimeEffort
      BY <1>3, <1>4, SupervisorSpends
    <2> QED
      BY <1>2, <2>1, <2>2, OneSpends
  <1>5. CASE MonitorStep \/ MonitorDies
    <2>1. MonitorEffort' < MonitorEffort /\ MonitorEffort' <= MonitorEffort
      BY <1>1, <1>2, <1>5, MonitorSpends DEF EffortOK
    <2>2. TargetEffort' <= TargetEffort /\ TimeEffort' = TimeEffort /\ UNCHANGED <<client, sup>>
      BY <1>1, <1>3, <1>5, MonitorSpends
    <2>3. SupervisorEffort' <= SupervisorEffort /\ ClientEffort' <= ClientEffort
      BY <1>2, <2>2 DEF EffortOK, SupervisorEffort, ClientEffort
    <2> QED
      BY <1>2, <2>1, <2>2, <2>3, OneSpends
  <1>6. CASE Started \/ Exits \/ Reaped \/ Collected \/ ClientEnds
    <2>1. UNCHANGED <<mon, sup, now>>
      BY <1>1, <1>6, OutsideSpends
    <2>2. SupervisorEffort' = SupervisorEffort /\ MonitorEffort' = MonitorEffort
      BY <2>1 DEF SupervisorEffort, MonitorEffort
    <2>3. SupervisorEffort' <= SupervisorEffort /\ MonitorEffort' <= MonitorEffort
      BY <1>2, <2>2 DEF EffortOK
    <2>4. TargetEffort' <= TargetEffort /\ ClientEffort' <= ClientEffort
      BY <1>1, <1>2, <1>6, OutsideSpends DEF EffortOK
    <2>5. TargetEffort' < TargetEffort \/ ClientEffort' < ClientEffort
      BY <1>1, <1>6, OutsideSpends
    <2> QED
      BY <1>2, <1>3, <2>1, <2>3, <2>4, <2>5, OneSpends
  <1>7. CASE Tick
    <2>1. UNCHANGED <<target, client, sup>> /\ MonitorEffort' <= MonitorEffort + 1
      BY <1>1, <1>7, TickSpends
    <2>2. /\ SupervisorEffort' = SupervisorEffort /\ ClientEffort' = ClientEffort
          /\ TargetEffort' = TargetEffort
      BY <2>1 DEF target, SupervisorEffort, ClientEffort, TargetEffort, UnitEffort
    <2>3. TimeEffort' = TimeEffort - 2
      BY <1>1, <1>7, TickSpends, SupervisorAssumption DEF TypeOK, TimeEffort, GivesUp, Deadline
    <2> QED
      BY <1>2, <2>1, <2>2, <2>3, SumAfterInterval DEF Effort, EffortOK
  <1> QED
    BY <1>4, <1>5, <1>6, <1>7 DEF Next

(* Whatever a supervision does, with whom and however late, it does in a number
   of steps bounded at the start: no polling loop, no cleanup and no read of a
   full pipe goes on for ever. *)
EveryStepSpends == [][Effort' < Effort]_vars

(* Whoever ends a unit, the evaluator, systemd or a stop, leaves a result. *)
LEMMA EndedHasResultHolds == Spec => []EndedHasResult
  <1>1. Init => EndedHasResult
    BY DEF Init, EndedHasResult
  <1>2. EndedHasResult /\ [Next]_vars => EndedHasResult'
    <2> SUFFICES ASSUME EndedHasResult, [Next]_vars PROVE EndedHasResult'
      OBVIOUS
    <2>1. ASSUME NEW error \in BOOLEAN, Stop(error) PROVE EndedHasResult'
      BY <2>1 DEF Stop, EndedHasResult, target
    <2>2. CASE StopTarget \/ Handle \/ Sample \/ Census
      <3>1. UNCHANGED target \/ \E error \in BOOLEAN : Stop(error)
        BY <2>2 DEF StopTarget, Handle, Sample, Census
      <3> QED
        BY <2>1, <3>1 DEF EndedHasResult, target
    <2>3. CASE StartTarget \/ Started \/ Exits \/ Collected
      BY <2>3 DEF StartTarget, Started, Exits, Collected, EndedHasResult
    <2>4. CASE UNCHANGED <<unit, exit>>
      BY <2>4 DEF EndedHasResult
    <2> QED
      BY <2>2, <2>3, <2>4
      DEF Next, SupervisorStep, MonitorStep, StartMonitor, GiveUp, Read, Judge, Die, AwaitTarget,
          ReadTerminal, Report, Emit, MonitorDies, Reaped, ClientEnds, Tick, others, target, vars
  <1> QED
    BY <1>1, <1>2, PTL DEF Spec

(* No polling loop of supervisor or monitor, no cleanup and no blocked pipe
   can make a supervision take more steps than its first state allows. *)
THEOREM SupervisionIsFinite == Spec => EveryStepSpends /\ [](Effort \in Nat)
  <1>1. Inv => Effort \in Nat
    BY EffortTyped DEF Inv, Effort, EffortOK
  <1>2. Inv /\ Inv' /\ EndedHasResult /\ [Next]_vars => [Effort' < Effort]_vars
    BY StepSpends
  <1> QED
    BY <1>1, <1>2, InvHolds, EndedHasResultHolds, PTL DEF Spec, EveryStepSpends

-----------------------------------------------------------------------------
(* Who can take a step without waiting for anybody, by the guards of the steps
   that LiveSpec is fair to. *)
SupervisorCan == \/ sup.at \in {"start", "launch", "judge", "except"}
                 \/ sup.at = "watch" /\ (StopDue \/ BothEnded \/ now >= GivesUp)
MonitorCan    == \/ mon.at \in {"sample", "terminal", "census", "collect"}
                 \/ mon.at = "wait" /\ unit = "active"
                 \/ mon.at = "wait" /\ unit # "requested" /\ sup.at # "launch"
                 \/ mon.at = "print" /\ ~Full
SystemdCan    == unit = "requested" \/ (client = "alive" /\ unit \in {"ended", "collected"})
TimeCan       == Waiting /\ now < GivesUp

SomebodyCan == SupervisorCan \/ MonitorCan \/ SystemdCan \/ TimeCan

(* The supervisor watches a monitor that was started, and a client has a unit. *)
Begun == /\ sup.at \in {"launch", "watch"} => mon.at # "off"
         /\ client = "alive" => unit # "none"

(* The order of the starts. *)
LEMMA BegunHolds == Spec => []Begun
  <1>1. Init => Begun
    BY DEF Init, Begun
  <1>2. Inv /\ Begun /\ [Next]_vars => Begun'
    <2> SUFFICES ASSUME TypeOK, Begun, [Next]_vars PROVE Begun'
      BY DEF Inv
    <2> USE DEF TypeOK, Begun
    <2>1. ASSUME NEW error \in BOOLEAN, Stop(error) PROVE unit # "none" => unit' # "none"
      BY <2>1 DEF Stop, target
    <2>2. CASE StartMonitor
      BY <2>2 DEF StartMonitor, Monitor, Supervisor, target
    <2>3. CASE StartTarget
      BY <2>3 DEF StartTarget, Supervisor
    <2>4. CASE StopTarget \/ Handle
      <3>1. unit # "none" => unit' # "none"
        BY <2>1, <2>4 DEF StopTarget, Handle, target
      <3>2. client' \in {client, "failed"} /\ mon' = mon
        BY <2>4 DEF StopTarget, Handle
      <3>3. sup'.at \in {sup.at, "failure"}
        BY <2>4 DEF StopTarget, Handle, Supervisor
      <3> QED
        BY <3>1, <3>2, <3>3
    <2>5. CASE GiveUp \/ Read \/ Judge \/ Die
      BY <2>5 DEF GiveUp, Read, Judge, Die, Supervisor, target
    <2>6. CASE MonitorStep \/ MonitorDies
      <3>1. UNCHANGED <<client, sup>>
        BY <2>6, MonitorSpends
      <3>2. unit # "none" => unit' # "none"
        BY <2>1, <2>6 DEF MonitorStep, MonitorDies, AwaitTarget, Sample, ReadTerminal, Census,
                          Report, Emit, target
      <3>3. mon.at # "off" => mon'.at # "off"
        BY <2>6, SampleMoves, AfterTheLoop DEF MonitorStep, MonitorDies, AwaitTarget, Monitor
      <3> QED
        BY <3>1, <3>2, <3>3
    <2>7. CASE Started \/ Exits \/ Reaped \/ Collected
      BY <2>7 DEF Started, Exits, Reaped, Collected
    <2>8. CASE ClientEnds
      BY <2>8 DEF ClientEnds, target
    <2>9. CASE Tick
      BY <2>9, TickMoves DEF target, Monitor
    <2>10. CASE UNCHANGED vars
      BY <2>10 DEF vars, target
    <2> QED
      BY <2>2, <2>3, <2>4, <2>5, <2>6, <2>7, <2>8, <2>9, <2>10 DEF Next, SupervisorStep
  <1> QED
    BY <1>1, <1>2, InvHolds, PTL DEF Spec

(* The supervisor waits for its clients, a client for its unit, the monitor for
   the unit and for a reader of its pipe: as long as the supervision is open,
   one of them need not wait, or the clock brings their deadline closer. *)
NobodyIsStuck == sup.at \notin Closed => SomebodyCan

(* The polling loop, the monitor and systemd never wait for each other in a
   circle that no deadline opens. *)
THEOREM SupervisionGoesOn == Spec => []NobodyIsStuck
  <1>1. Inv /\ Begun => NobodyIsStuck
    <2> SUFFICES ASSUME Inv, Begun, sup.at \notin Closed, ~SupervisorCan, ~MonitorCan, ~SystemdCan
                 PROVE  TimeCan
      BY DEF NobodyIsStuck, SomebodyCan
    <2> USE SupervisorAssumption DEF Inv, TypeOK
    <2>1. sup.at = "watch" /\ ~StopDue /\ ~BothEnded /\ now < GivesUp
      BY DEF SupervisorCan, Closed, Supervisor, GivesUp, Deadline
    <2>2. unit # "requested" /\ (client = "alive" => unit = "active")
      BY DEF SystemdCan, Begun
    <2>3. mon.at \in {"sleep", "ended", "dead"} \/ (mon.at = "print" /\ Full)
      BY <2>1, <2>2 DEF MonitorCan, Begun, Monitor
    <2> QED
      BY <2>1, <2>2, <2>3 DEF TimeCan, Waiting
  <1> QED
    BY <1>1, InvHolds, BegunHolds, PTL
=============================================================================
