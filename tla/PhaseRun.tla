------------------------------ MODULE PhaseRun ------------------------------
(***************************************************************************)
(* A producer of run B1 r4 at work: the publication protocol, and in its   *)
(* "work" the containers that compute the phase, two in a preflight, one   *)
(* in a fit or a score.  The lease is what keeps a second container from   *)
(* starting beside one that a dead or unclean attempt left; the failure    *)
(* artifact records whether the cleanup was complete.                      *)
(***************************************************************************)
EXTENDS PhasePublication

CONSTANT Containers      \* how many containers each phase runs, one by one

ASSUME ContainersAssumption == Containers \in [Phases -> Nat]

VARIABLES run, cont,     \* the current container of each attempt
          left,          \* containers it has yet to run
          complete       \* cleanup.complete in the failure it writes

INSTANCE ContainerRun WITH Runs <- Attempts

runVars == <<run, cont, left, complete>>
allVars == <<vars, runVars>>

SystemInit == /\ Init
              /\ RunInit
              /\ left = [a \in Attempts |-> Containers[phase[a]]]
              /\ complete = [a \in Attempts |-> FALSE]

-----------------------------------------------------------------------------
(* running_container_names: no container of the run, of any state. *)
NoContainers == \A b \in Attempts : ~Listed(b)

(* A producer starts only where no container is left. *)
Check(a) == /\ CheckPasses(a)
            /\ Review(a) \/ NoContainers
            /\ UNCHANGED runVars

(* The steps of the protocol that know nothing of containers. *)
Protocol(a) ==
  /\ \/ CheckFails(a) \/ PreExecutionFailure(a) \/ Scan(a) \/ Claim(a) \/ Probe(a)
     \/ Unprobe(a) \/ Rescan(a) \/ Stage(a) \/ CleanUp(a) \/ DiscardReview(a)
     \/ PublishAndRelease(a)
  /\ UNCHANGED runVars

(* Fault: the containers of a phase are not counted. *)
BeginAnother(a) == /\ pc[a] = "work"
                   /\ Begin(a)
                   /\ UNCHANGED <<vars, left, complete>>

BeginContainer(a) == /\ pc[a] = "work" /\ left[a] > 0
                     /\ Begin(a)
                     /\ UNCHANGED <<vars, left, complete>>

StepContainer(a) == RunStep(a) /\ UNCHANGED <<vars, left, complete>>

(* The container passed; the next one has another name. *)
NextContainer(a) == /\ pc[a] = "work" /\ Passed(a)
                    /\ run' = [run EXCEPT ![a] = NotBegun]
                    /\ cont' = [cont EXCEPT ![a] = "none"]
                    /\ left' = [left EXCEPT ![a] = @ - 1]
                    /\ UNCHANGED <<vars, complete>>

Compute(a) == /\ left[a] = 0
              /\ Work(a)
              /\ UNCHANGED runVars

(* run_container raises, or something else does outside of it. *)
Raise(a) == /\ run[a].at \in {"off", "over"}
            /\ WorkFails(a)
            /\ UNCHANGED runVars

CleanRun(a) == ~(Returned(a) /\ run[a].unclean)

(* Fault: the failure believes the run that failed and lists no containers. *)
RecordUncounted(a) == /\ WriteFailure(a)
                      /\ complete' = [complete EXCEPT ![a] = ~Review(a)]
                      /\ UNCHANGED <<run, cont, left>>

(* write_failure lists the containers; a list it cannot get is an incomplete
   cleanup.  A review's failure says nothing of them. *)
RecordFailure(a) ==
  /\ WriteFailure(a)
  /\ \E counted \in BOOLEAN :
       complete' = [complete EXCEPT ![a] = /\ ~Review(a) /\ CleanRun(a)
                                           /\ counted /\ NoContainers]
  /\ UNCHANGED <<run, cont, left>>

Crashes(a) == /\ Crash(a)
              /\ run' = IF run[a].at \in Steps THEN [run EXCEPT ![a].at = "dead"] ELSE run
              /\ UNCHANGED <<cont, left, complete>>

Dockerd(a) == Daemon(a) /\ UNCHANGED <<vars, left, complete>>

Proceed(a) == \/ Check(a) \/ Protocol(a) \/ BeginContainer(a) \/ StepContainer(a)
              \/ NextContainer(a) \/ Compute(a) \/ Raise(a) \/ RecordFailure(a)

SystemNext ==
  \/ \E a \in Attempts : \/ Start(a) /\ UNCHANGED runVars
                         \/ Proceed(a) \/ Crashes(a) \/ Dockerd(a)
  \/ Drift /\ UNCHANGED runVars

SystemSpec == SystemInit /\ [][SystemNext]_allVars

(* Every call of the runner has a timeout, so a live process goes on; the
   daemon owes nothing. *)
LiveSystem == SystemSpec /\ \A a \in Attempts : WF_allVars(Proceed(a))

-----------------------------------------------------------------------------
SystemTypeOK == /\ TypeOK /\ RunTypeOK
                /\ left \in [Attempts -> Nat]
                /\ complete \in [Attempts -> BOOLEAN]

(* Whatever crashed, drifted or could not be stopped, two containers of the
   run never compute at the same time. *)
OneContainer == \A a, b \in Attempts : cont[a] = "running" /\ cont[b] = "running" => a = b

(* A published success has no container running, now or later; and once a
   failure says that its cleanup was complete, nothing of the run computes. *)
CompleteMeansStopped ==
  \A e \in dir :
    /\ e.kind = "final" => cont[e.by] # "running"
    /\ e.kind = "failure" /\ complete[e.by] => \A b \in Attempts : cont[b] # "running"

=============================================================================
