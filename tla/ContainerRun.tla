---------------------------- MODULE ContainerRun ----------------------------
(***************************************************************************)
(* run_container of run_service_v1_b1_gbt_r4.py: one Docker container is   *)
(* created, started through an attached client, awaited for a limited      *)
(* time, stopped if it must be, removed, and judged.  Every call to the    *)
(* daemon has a timeout and may fail; what the daemon was asked may still  *)
(* happen afterwards.  The runner may die anywhere.                        *)
(*                                                                         *)
(* Runs are independent here; PhaseRun gives one to each attempt at a      *)
(* phase.                                                                  *)
(***************************************************************************)

CONSTANT Runs

VARIABLES run,           \* the locals of run_container
          cont           \* the container as the daemon has it

(* at: the next call.  made: created.  asked: the start request went out.
   seen: what the inspected state said of Running.  confirmed:
   cleanup.confirmedStopped.  failed: primary_error or log_error.  unclean:
   cleanup_errors. *)
Steps == {"create", "attach", "wait", "stop", "confirm", "inspect", "settle",
          "reinspect", "terminate", "reconfirm", "remove", "log"}

Run == [at : {"off", "over", "dead"} \union Steps, made : BOOLEAN, asked : BOOLEAN,
        seen : {"unknown", "running", "stopped"}, confirmed : BOOLEAN,
        failed : BOOLEAN, unclean : BOOLEAN]

NotBegun == [at |-> "off", made |-> FALSE, asked |-> FALSE, seen |-> "unknown",
             confirmed |-> FALSE, failed |-> FALSE, unclean |-> FALSE]

(* pending: the daemon works on a create request. *)
Container == {"none", "pending", "created", "running", "exited", "removed"}

(* docker ps --all shows it. *)
Listed(r) == cont[r] \in {"created", "running", "exited"}

Observed(r) == IF cont[r] = "running" THEN "running" ELSE "stopped"

Begin(r) == /\ run[r].at = "off"
            /\ run' = [run EXCEPT ![r].at = "create"]
            /\ UNCHANGED cont

(* docker create: done, refused, or not answered within a minute. *)
Create(r) ==
  /\ run[r].at = "create"
  /\ \/ /\ run' = [run EXCEPT ![r].at = "attach", ![r].made = TRUE]
        /\ cont' = [cont EXCEPT ![r] = "created"]
     \/ /\ run' = [run EXCEPT ![r].at = "settle", ![r].failed = TRUE]
        /\ \E c \in {"none", "pending"} : cont' = [cont EXCEPT ![r] = c]

(* docker start --attach in a child process, and the monitor thread. *)
Attach(r) ==
  /\ run[r].at = "attach"
  /\ \/ run' = [run EXCEPT ![r].at = "wait", ![r].asked = TRUE]
     \/ \E sent \in BOOLEAN :
          run' = [run EXCEPT ![r].at = "settle", ![r].failed = TRUE, ![r].asked = sent]
  /\ UNCHANGED cont

(* Fault: communicate has no timeout. *)
WaitUnbounded(r) == /\ run[r].at = "wait" /\ cont[r] = "exited"
                    /\ run' = [run EXCEPT ![r].at = "inspect"]
                    /\ UNCHANGED cont

(* communicate: the client ends, the time is over, or the monitor does not
   stop. *)
Wait(r) ==
  /\ run[r].at = "wait"
  /\ \/ run' = [run EXCEPT ![r].at = "inspect"]
     \/ run' = [run EXCEPT ![r].at = "stop", ![r].failed = TRUE]
     \/ run' = [run EXCEPT ![r].at = "settle", ![r].failed = TRUE]
  /\ UNCHANGED cont

(* terminate_exact_container: docker stop and docker kill, which may take
   effect or not, then an inspection that alone confirms the stop. *)
Terminate(r, here, next) ==
  /\ run[r].at = here
  /\ run' = [run EXCEPT ![r].at = next]
  /\ \/ UNCHANGED cont
     \/ cont[r] = "running" /\ cont' = [cont EXCEPT ![r] = "exited"]

Confirmation(r) == {FALSE} \union (IF cont[r] = "running" THEN {} ELSE {TRUE})

(* After the timeout: the inspection before the stop may fail, which is a
   cleanup error; the stop and its confirmation; then the client again. *)
StopTimedOut(r) == Terminate(r, "stop", "confirm")

ConfirmTimedOut(r) ==
  /\ run[r].at = "confirm"
  /\ \E stopped \in Confirmation(r), unclean \in BOOLEAN, next \in {"inspect", "settle"} :
       run' = [run EXCEPT ![r].at = next, ![r].confirmed = stopped,
                          ![r].unclean = @ \/ unclean]
  /\ UNCHANGED cont

(* The state after the client ended.  Only a container that has exited can
   pass: the worker's terminal result must be in the output. *)
Inspect(r) ==
  /\ run[r].at = "inspect"
  /\ \/ run' = [run EXCEPT ![r].at = "settle", ![r].failed = TRUE]
     \/ run' = [run EXCEPT ![r].at = "settle", ![r].failed = TRUE, ![r].seen = Observed(r)]
     \/ /\ cont[r] = "exited" /\ ~run[r].failed
        /\ run' = [run EXCEPT ![r].at = "settle", ![r].seen = "stopped",
                              ![r].confirmed = TRUE]
  /\ UNCHANGED cont

(* The finally block: the monitor and the client end, or do not; a container
   that was not created is taken for stopped. *)
Settle(r) ==
  /\ run[r].at = "settle"
  /\ \E unclean \in BOOLEAN :
       run' = [run EXCEPT ![r].at = IF run[r].made THEN "reinspect" ELSE "log",
                          ![r].confirmed = @ \/ ~run[r].made,
                          ![r].unclean = @ \/ unclean]
  /\ UNCHANGED cont

(* Fault: a container that cannot be inspected is none to clean up. *)
ReinspectTrusts(r) ==
  /\ run[r].at = "reinspect"
  /\ run' = [run EXCEPT ![r].at = IF run[r].confirmed THEN "remove" ELSE "log"]
  /\ UNCHANGED cont

(* What was seen before, or is seen now, decides. *)
Reinspect(r) ==
  /\ run[r].at = "reinspect"
  /\ \/ /\ run[r].seen = "unknown"
        /\ run' = [run EXCEPT ![r].unclean = TRUE,
                              ![r].at = IF run[r].confirmed THEN "remove" ELSE "log"]
     \/ \E seen \in {"running", "stopped"} :
          /\ seen = IF run[r].seen = "unknown" THEN Observed(r) ELSE run[r].seen
          /\ run' = [run EXCEPT ![r].seen = seen,
                                ![r].confirmed = @ \/ seen = "stopped",
                                ![r].at = IF seen = "running" THEN "terminate" ELSE "remove"]
  /\ UNCHANGED cont

StopRunning(r) == Terminate(r, "terminate", "reconfirm")

ConfirmRunning(r) ==
  /\ run[r].at = "reconfirm"
  /\ \E stopped \in Confirmation(r) :
       run' = [run EXCEPT ![r].confirmed = stopped, ![r].unclean = @ \/ ~stopped,
                          ![r].at = IF stopped THEN "remove" ELSE "log"]
  /\ UNCHANGED cont

(* remove_stopped_container: inspect, and docker rm, which refuses a running
   container and may be carried out without an answer. *)
Remove(r) ==
  /\ run[r].at = "remove"
  /\ \/ /\ cont[r] \in {"created", "exited"}
        /\ cont' = [cont EXCEPT ![r] = "removed"]
        /\ \E unclean \in BOOLEAN :
             run' = [run EXCEPT ![r].at = "log", ![r].unclean = @ \/ unclean]
     \/ /\ run' = [run EXCEPT ![r].at = "log", ![r].unclean = TRUE]
        /\ UNCHANGED cont

(* The run log; then the result, ContainerExecutionError (failed) or
   ContainerCleanupError (unclean). *)
Log(r) == /\ run[r].at = "log"
          /\ \E failed \in BOOLEAN :
               run' = [run EXCEPT ![r].at = "over", ![r].failed = @ \/ failed]
          /\ UNCHANGED cont

Die(r) == /\ run[r].at \in Steps
          /\ run' = [run EXCEPT ![r].at = "dead"]
          /\ UNCHANGED cont

(* The daemon: a late create, the start that was asked for, the exit. *)
CreatedLate(r) == /\ cont[r] = "pending"
                  /\ \E c \in {"created", "none"} : cont' = [cont EXCEPT ![r] = c]
                  /\ UNCHANGED run

Started(r) == /\ cont[r] = "created" /\ run[r].asked
              /\ cont' = [cont EXCEPT ![r] = "running"]
              /\ UNCHANGED run

Exits(r) == /\ cont[r] = "running"
            /\ cont' = [cont EXCEPT ![r] = "exited"]
            /\ UNCHANGED run

RunStep(r) ==
  \/ Create(r) \/ Attach(r) \/ Wait(r) \/ StopTimedOut(r) \/ ConfirmTimedOut(r)
  \/ Inspect(r) \/ Settle(r) \/ Reinspect(r) \/ StopRunning(r) \/ ConfirmRunning(r)
  \/ Remove(r) \/ Log(r)

Daemon(r) == CreatedLate(r) \/ Started(r) \/ Exits(r)

RunInit == /\ run = [r \in Runs |-> NotBegun]
           /\ cont = [r \in Runs |-> "none"]

RunNext == \E r \in Runs : Begin(r) \/ RunStep(r) \/ Die(r) \/ Daemon(r)

RunSpec == RunInit /\ [][RunNext]_<<run, cont>>

-----------------------------------------------------------------------------
RunTypeOK == run \in [Runs -> Run] /\ cont \in [Runs -> Container]

(* How the run ended for its caller. *)
Returned(r) == run[r].at = "over"

Passed(r) == Returned(r) /\ ~run[r].failed /\ ~run[r].unclean

(* A run that returns without a cleanup error leaves no running container,
   now or later: whatever was asked of the daemon has been undone. *)
CleanMeansStopped == \A r \in Runs : Returned(r) /\ ~run[r].unclean => cont[r] # "running"
=============================================================================
