------------------------ MODULE EvaluationSupervisor ------------------------
(***************************************************************************)
(* The supervision of an evaluation (run_service_v1_b1_gbt_r4.py): under   *)
(* the lease of the phase, the supervisor starts a monitor and then the    *)
(* evaluator as two systemd units, each through a client whose output it   *)
(* reads only after both clients have ended.  The monitor samples the      *)
(* evaluator's control group and prints every sample when it is done.      *)
(*                                                                         *)
(* Time is counted in sampling intervals from the start of the evaluator;  *)
(* whatever takes no part in it is instantaneous.  The publication is one  *)
(* step here; PhasePublication has its own.                                *)
(***************************************************************************)
EXTENDS Naturals

CONSTANTS RuntimeMax,    \* RuntimeMaxSec, and the monitor's own deadline
          Grace,         \* from there to the supervisor's deadline
          Overtime,      \* from there to its TimeoutError
          PipeRoom       \* samples that fit into an unread pipe

ASSUME SupervisorAssumption == {RuntimeMax, Grace, Overtime, PipeRoom} \subseteq Nat \ {0}

VARIABLES now,           \* intervals since the start
          unit,          \* the evaluator's unit, as systemd has it
          group,         \* its control group holds a process
          exit,          \* the result of the unit: "ok" or "failed"
          client,        \* systemd-run --wait of the evaluator
          mon,           \* the monitor process
          pipe,          \* what it printed and nobody has read
          sup,           \* the supervisor
          overran        \* history: the unit was active at RuntimeMax

target == <<unit, group, exit>>
vars   == <<now, target, client, mon, pipe, sup, overran>>

Deadline == RuntimeMax + Grace
GivesUp  == Deadline + Overtime

(* failed: measurement_failed, timed out or OOM.  errors: cleanup_errors.
   inactive, sawFailure: the terminal properties.  left: samples to print. *)
Monitor == [at : {"off", "wait", "sample", "sleep", "terminal", "census",
                  "collect", "print", "ended", "dead"},
            samples : Nat, left : Nat, failed : BOOLEAN, stopped : BOOLEAN,
            errors : BOOLEAN, inactive : BOOLEAN, sawFailure : BOOLEAN,
            verified : BOOLEAN, pass : BOOLEAN]

(* stopped: supervisor_stop_requested.  complete: cleanup.complete of the
   failure.  gaveUp: its error is the TimeoutError. *)
Supervisor == [at : {"start", "launch", "watch", "judge", "except", "success",
                     "failure", "dead"},
               stopped : BOOLEAN, complete : BOOLEAN, gaveUp : BOOLEAN]

Init == /\ now = 0 /\ pipe = 0
        /\ unit = "none" /\ group = FALSE /\ exit = "none" /\ client = "none"
        /\ mon = [at |-> "off", samples |-> 0, left |-> 0, failed |-> FALSE,
                  stopped |-> FALSE, errors |-> FALSE, inactive |-> FALSE,
                  sawFailure |-> FALSE, verified |-> FALSE, pass |-> FALSE]
        /\ sup = [at |-> "start", stopped |-> FALSE, complete |-> FALSE, gaveUp |-> FALSE]
        /\ overran = FALSE

-----------------------------------------------------------------------------
(* _stop_systemd_control_group, and whether it reports an error: systemctl
   stop, then kill, until the unit is not active.  Processes that cannot be
   killed outlive the unit; a unit that is not loaded cannot be stopped. *)
Stop(error) ==
  \/ /\ unit = "active"
     /\ unit' = "ended" /\ exit' = "failed"
     /\ group' \in BOOLEAN
  \/ /\ unit = "active" => error
     /\ unit \in {"none", "requested", "collected"} => error
     /\ UNCHANGED target

MonitorEnded == mon.at \in {"ended", "dead"}

(* Popen of the monitor, then _wait_systemd_active. *)
StartMonitor ==
  /\ sup.at = "start"
  /\ \/ /\ mon' = [mon EXCEPT !.at = "wait"]
        /\ sup' = [sup EXCEPT !.at = "launch"]
     \/ /\ \E at \in {"off", "wait", "dead"} : mon' = [mon EXCEPT !.at = at]
        /\ sup' = [sup EXCEPT !.at = "except"]
  /\ UNCHANGED <<now, target, client, pipe, overran>>

(* Popen of the evaluator, and its request on stdin. *)
StartTarget ==
  /\ sup.at = "launch"
  /\ \/ /\ client' = "alive" /\ unit' = "requested"
        /\ \E at \in {"watch", "except"} : sup' = [sup EXCEPT !.at = at]
     \/ /\ sup' = [sup EXCEPT !.at = "except"]
        /\ UNCHANGED <<client, unit>>
  /\ UNCHANGED <<now, group, exit, mon, pipe, overran>>

(* The loop while a client lives: the evaluator is stopped once, when the
   monitor has ended before it or the deadline has passed. *)
StopDue == /\ client = "alive" /\ ~sup.stopped
           /\ MonitorEnded \/ now >= Deadline

StopTarget ==
  /\ sup.at = "watch" /\ StopDue
  /\ \E error \in BOOLEAN : Stop(error)
  /\ sup' = [sup EXCEPT !.stopped = TRUE]
  /\ UNCHANGED <<now, client, mon, pipe, overran>>

(* Fault: the budget is the evaluator's alone. *)
GiveUpOnTarget ==
  /\ sup.at = "watch" /\ client = "alive" /\ now >= GivesUp
  /\ sup' = [sup EXCEPT !.at = "except", !.gaveUp = TRUE]
  /\ UNCHANGED <<now, target, client, mon, pipe, overran>>

GiveUp ==
  /\ sup.at = "watch" /\ (client = "alive" \/ ~MonitorEnded)
  /\ now >= GivesUp
  /\ sup' = [sup EXCEPT !.at = "except", !.gaveUp = TRUE]
  /\ UNCHANGED <<now, target, client, mon, pipe, overran>>

(* Both clients have ended; their output is read now. *)
BothEnded == client # "alive" /\ MonitorEnded

Read == /\ sup.at = "watch" /\ BothEnded
        /\ sup' = [sup EXCEPT !.at = "judge"]
        /\ pipe' = 0
        /\ UNCHANGED <<now, target, client, mon, overran>>

(* Fault: the monitor's evidence decides, which is of the unit already. *)
JudgeEvidence ==
  /\ sup.at = "judge"
  /\ sup' = [sup EXCEPT !.at = IF mon.at = "ended" /\ mon.pass THEN "success" ELSE "except"]
  /\ UNCHANGED <<now, target, client, mon, pipe, overran>>

(* The exit codes and the monitor's evidence; then the result is validated
   and finalize_phase publishes, or raises. *)
Judge ==
  /\ sup.at = "judge"
  /\ \/ /\ mon.at = "ended" /\ client = "ok" /\ mon.pass
        /\ sup' = [sup EXCEPT !.at = "success"]
     \/ sup' = [sup EXCEPT !.at = "except"]
  /\ UNCHANGED <<now, target, client, mon, pipe, overran>>

(* Fault: the errors of the stop are dropped, as the loop drops them. *)
HandleUnheard ==
  /\ sup.at = "except"
  /\ \/ client = "alive" /\ \E error \in BOOLEAN : Stop(error)
     \/ client # "alive" /\ UNCHANGED target
  /\ client' = IF client = "alive" THEN "failed" ELSE client
  /\ pipe' = 0
  /\ \E complete \in BOOLEAN :
       sup' = [sup EXCEPT !.at = "failure", !.complete = complete]
  /\ UNCHANGED <<now, mon, overran>>

(* The except branch: an evaluator whose client lives is stopped, the clients
   are killed and their pipes read; the failure says that the cleanup is
   complete when none of this raised. *)
Handle ==
  /\ sup.at = "except"
  /\ \E error, complete \in BOOLEAN :
       /\ \/ client = "alive" /\ Stop(error)
          \/ client # "alive" /\ ~error /\ UNCHANGED target
       /\ complete => ~error
       /\ sup' = [sup EXCEPT !.at = "failure", !.complete = complete]
  /\ client' = IF client = "alive" THEN "failed" ELSE client
  /\ pipe' = 0
  /\ UNCHANGED <<now, mon, overran>>

Closed == {"success", "failure", "dead"}

(* The supervisor dies; the units go on. *)
Die == /\ sup.at \notin Closed
       /\ sup' = [sup EXCEPT !.at = "dead"]
       /\ UNCHANGED <<now, target, client, mon, pipe, overran>>

-----------------------------------------------------------------------------
(* monitor_evaluation_unit. *)
others == <<now, client, pipe, sup, overran>>

(* A minute for the evaluator to become active. *)
AwaitTarget == /\ mon.at = "wait"
               /\ \/ unit = "active" /\ mon' = [mon EXCEPT !.at = "sample"]
                  \/ /\ unit \notin {"requested", "active"} /\ sup.at # "launch"
                     /\ mon' = [mon EXCEPT !.at = "dead"]
               /\ UNCHANGED <<target, others>>

(* Fault: the monitor has no deadline of its own. *)
SampleForever ==
  /\ mon.at = "sample" /\ unit = "active"
  /\ mon' = [mon EXCEPT !.samples = @ + 1, !.at = "sleep"]
  /\ UNCHANGED <<target, others>>

(* The loop: a sample that cannot be read, an OOM kill or the deadline stops
   the unit; a control group that is gone ends the loop.  The first sample
   may come too late. *)
Sample ==
  /\ mon.at = "sample"
  /\ \/ /\ unit = "active" \/ group
        /\ mon' = [mon EXCEPT !.samples = @ + 1,
                              !.at = IF unit = "active" THEN "sleep" ELSE "terminal"]
        /\ now < RuntimeMax
        /\ UNCHANGED target
     \/ /\ \E error, read \in BOOLEAN :
             /\ Stop(error)
             /\ mon' = [mon EXCEPT !.at = "terminal", !.failed = TRUE, !.stopped = TRUE,
                                   !.errors = @ \/ error \/ ~read,
                                   !.samples = IF read /\ (unit = "active" \/ group)
                                                 THEN @ + 1 ELSE @]
     \/ /\ unit # "active" /\ ~group
        /\ mon' = [mon EXCEPT !.at = "terminal", !.failed = mon.samples = 0,
                              !.errors = @ \/ mon.samples = 0]
        /\ UNCHANGED target
  /\ UNCHANGED others

(* A unit that systemd has collected shows the properties of one that never
   failed. *)
ReadTerminal ==
  /\ mon.at = "terminal"
  /\ mon' = [mon EXCEPT !.at = "census", !.inactive = unit # "active",
                        !.sawFailure = unit = "ended" /\ exit = "failed"]
  /\ UNCHANGED <<target, others>>

(* The final census of the group, half a minute long: what is left is stopped
   once.  A census that cannot be taken ends it. *)
Census ==
  /\ mon.at = "census"
  /\ \/ /\ ~group
        /\ mon' = [mon EXCEPT !.at = "collect", !.verified = TRUE]
        /\ UNCHANGED target
     \/ /\ group /\ ~mon.stopped
        /\ \E error \in BOOLEAN :
             /\ Stop(error)
             /\ mon' = [mon EXCEPT !.stopped = TRUE, !.errors = @ \/ error]
     \/ /\ \E probed \in BOOLEAN :
             /\ probed => group /\ mon.stopped
             /\ mon' = [mon EXCEPT !.at = "print", !.errors = TRUE, !.left = mon.samples,
                                   !.failed = @ \/ ~probed]
        /\ UNCHANGED target
  /\ UNCHANGED others

(* Another half a minute for systemd to collect the unit; then the evidence. *)
Report ==
  /\ mon.at = "collect"
  /\ \E collected \in BOOLEAN :
       /\ collected => unit = "collected"
       /\ mon' = [mon EXCEPT !.at = "print", !.left = mon.samples,
                             !.pass = /\ ~mon.failed /\ ~mon.errors /\ ~mon.sawFailure
                                      /\ mon.inactive /\ mon.verified /\ collected]
  /\ UNCHANGED <<target, others>>

(* One line with every sample; a full pipe blocks until somebody reads. *)
Full == sup.at = "watch" /\ pipe >= PipeRoom /\ mon.left > 0

Emit == /\ mon.at = "print" /\ ~Full
        /\ \/ /\ mon.left > 0
              /\ mon' = [mon EXCEPT !.left = @ - 1]
              /\ pipe' = IF sup.at = "watch" THEN pipe + 1 ELSE 0
           \/ /\ mon.left = 0
              /\ mon' = [mon EXCEPT !.at = "ended"]
              /\ UNCHANGED pipe
        /\ UNCHANGED <<now, target, client, sup, overran>>

(* A probe of the monitor raises, or the monitor is killed. *)
MonitorDies == /\ mon.at \notin {"off", "ended", "dead"}
               /\ mon' = [mon EXCEPT !.at = "dead"]
               /\ UNCHANGED <<target, others>>

-----------------------------------------------------------------------------
(* systemd and the evaluator. *)
Started == /\ unit = "requested"
           /\ \/ unit' = "active" /\ group' = TRUE /\ UNCHANGED exit
              \/ unit' = "ended" /\ exit' = "failed" /\ UNCHANGED group
           /\ UNCHANGED <<client, mon, pipe, now, sup, overran>>

(* The evaluator exits, or its unit is stopped at RuntimeMaxSec or after an
   OOM kill; a process that cannot be killed fails the unit and stays. *)
Exits == /\ unit = "active"
         /\ unit' = "ended"
         /\ \/ exit' = "ok" /\ group' = FALSE /\ now <= RuntimeMax
            \/ exit' = "failed" /\ group' \in BOOLEAN
         /\ UNCHANGED <<client, mon, pipe, now, sup, overran>>

Reaped == /\ unit # "active" /\ group
          /\ group' = FALSE
          /\ UNCHANGED <<unit, exit, client, mon, pipe, now, sup, overran>>

Collected == /\ unit = "ended" /\ ~group
             /\ unit' = "collected"
             /\ UNCHANGED <<group, exit, client, mon, pipe, now, sup, overran>>

(* systemd-run --wait ends with the unit.  Assumed: nobody kills it alone.  The
   except branch stops a unit only while its client lives, and would leave one
   active whose client was killed. *)
ClientEnds == /\ client = "alive" /\ unit \in {"ended", "collected"}
              /\ client' = exit
              /\ UNCHANGED <<now, target, mon, pipe, sup, overran>>

(* An interval passes when nobody has anything to do but wait. *)
Waiting == /\ unit # "requested"
           /\ client = "alive" => unit = "active"
           /\ mon.at \in {"sleep", "ended", "dead"} \/ (mon.at = "print" /\ Full)
           /\ sup.at = "watch" /\ ~BothEnded /\ ~StopDue

Tick == /\ Waiting /\ now < GivesUp
        /\ now' = now + 1
        /\ overran' = (overran \/ (unit = "active" /\ now' > RuntimeMax))
        /\ mon' = IF mon.at = "sleep" THEN [mon EXCEPT !.at = "sample"] ELSE mon
        /\ UNCHANGED <<target, client, pipe, sup>>

SupervisorStep == \/ StartMonitor \/ StartTarget \/ StopTarget \/ GiveUp
                  \/ Read \/ Judge \/ Handle

MonitorStep == \/ AwaitTarget \/ Sample \/ ReadTerminal \/ Census
               \/ Report \/ Emit

Next == \/ SupervisorStep \/ Die
        \/ MonitorStep \/ MonitorDies
        \/ Started \/ Exits \/ Reaped \/ Collected \/ ClientEnds
        \/ Tick

Spec == Init /\ [][Next]_vars

(* The processes run, the clients hear of their units, time passes.  The
   evaluator owes nothing, and no unit is ever collected. *)
LiveSpec == /\ Spec
            /\ WF_vars(SupervisorStep) /\ WF_vars(MonitorStep)
            /\ WF_vars(Started) /\ WF_vars(ClientEnds) /\ WF_vars(Tick)

-----------------------------------------------------------------------------
(* Every variable holds values of its type; time ends with the budget, and
   the monitor takes no more samples than the runtime has intervals. *)
TypeOK == /\ now \in 0..GivesUp
          /\ unit \in {"none", "requested", "active", "ended", "collected"}
          /\ group \in BOOLEAN
          /\ exit \in {"none", "ok", "failed"}
          /\ client \in {"none", "alive", "ok", "failed"}
          /\ mon \in Monitor /\ mon.samples <= RuntimeMax + 1
          /\ pipe \in 0..PipeRoom
          /\ sup \in Supervisor
          /\ overran \in BOOLEAN

(* A published evaluation comes from an evaluator that exited well, within its
   limits, and left no process.  The monitor's evidence alone does not tell: a
   unit that was collected before its terminal properties were read shows those
   of one that never failed. *)
SuccessMeansGone == sup.at = "success" => exit = "ok" /\ ~group /\ ~overran

(* A failure that calls its cleanup complete leaves no evaluator unit active,
   now or later. *)
CompleteMeansInactive ==
  sup.at = "failure" /\ sup.complete => unit \notin {"requested", "active"}

(* What the outcome of an evaluation says of it is so. *)
OutcomeIsTrue == SuccessMeansGone /\ CompleteMeansInactive

(* The supervisor waits for the clients, the monitor for a reader of its pipe:
   the deadline ends it, and every supervision. *)
SupervisionEnds == <>(sup.at \in Closed)

(* "PASS requires target exit 0, no timeout or OOM, one sample or more, a known
   peak, ..., monitor exit 0 and complete cleanup" (the plan of r4, section
   11): an evaluation that has all of it is not given up for a timeout. *)
PassIsNoTimeout == sup.gaveUp => ~(client = "ok" /\ mon.pass)
=============================================================================
