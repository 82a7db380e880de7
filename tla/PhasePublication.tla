-------------------------- MODULE PhasePublication --------------------------
(***************************************************************************)
(* The publication protocol of run B1 r4 (service_v1_b1_r4_publication.py) *)
(* under the callers that drive it: a producer of a phase                  *)
(* (run_service_v1_b1_gbt_r4.py) or a reviewer of the phase before         *)
(* (audit_service_v1_b1_spark_outputs_r4.py).  They are processes with no  *)
(* lock but one directory of names: a claim file made with O_EXCL, a       *)
(* staging entry, and a final or failure entry put in place by a rename    *)
(* that replaces nothing.  A process may die at any step; nothing removes  *)
(* what it leaves.                                                         *)
(*                                                                         *)
(* Contents are abstracted to who wrote them (by), the hashed inputs to a  *)
(* version that may change, and change back, at any time.                  *)
(***************************************************************************)
EXTENDS Naturals

CONSTANTS Attempts,      \* invocations of a producer or a reviewer
          NumPhases,     \* phases, in the order of expected_namespace_before
          Reviews,       \* the phases that are reviews
          Versions,      \* contents of the hashed dependencies
          None           \* no snapshot taken

ASSUME PublicationAssumption == /\ NumPhases \in Nat
                                /\ Reviews \subseteq 1..NumPhases
                                /\ None \notin Versions

Phases == 1..NumPhases

VARIABLES dir,           \* the entries of the output directory
          deps,          \* the dependencies as they are now
          pc,            \* where each attempt is
          phase,         \* the phase it was invoked for
          fp,            \* dependencyFingerprint of its snapshot
          mode,          \* what it publishes
          verified       \* history: attempts whose publication was verified

vars == <<dir, deps, pc, phase, fp, mode, verified>>

(* claim and final are names of the phase; temp, scratch and probe carry the
   token of the attempt. *)
Entry == [kind : {"final", "failure", "claim", "temp", "scratch", "probe"},
          phase : Phases, by : Attempts]

Acquiring  == {"scan", "claim"}
Acquired   == {"probe", "unprobe", "rescan"}
Leased     == {"held", "work", "publish", "rehash", "seal", "rename", "raise",
               "write", "check-final", "post", "release", "unlink"}
Stopped    == {"done", "failed", "blocked", "crashed"}
Places     == {"idle", "check", "prefail", "closing"} \union Acquiring
                \union Acquired \union Leased \union Stopped

Init == /\ dir = {}
        /\ deps \in Versions
        /\ pc = [a \in Attempts |-> "idle"]
        /\ phase \in [Attempts -> Phases]
        /\ fp = [a \in Attempts |-> None]
        /\ mode = [a \in Attempts |-> "success"]
        /\ verified = {}

-----------------------------------------------------------------------------
Mine(a, kind) == [kind |-> kind, phase |-> phase[a], by |-> a]

Exists(kind, p) == \E e \in dir : e.kind = kind /\ e.phase = p

Terminal(a) == Mine(a, IF mode[a] = "success" THEN "final" ELSE "failure")

Review(a) == phase[a] \in Reviews

(* Fault: the final of the phase itself is not in the way. *)
ExactlyCompletedUpTo(p, own) ==
  /\ \A q \in 1..(p - 1) : Exists("final", q)
  /\ own \subseteq dir
  /\ \A e \in dir \ own : e.kind = "final" /\ e.phase <= p

(* _scan_namespace: the directory holds the finals of the phases before p and
   the caller's own entries, and no other. *)
ExactlyCompleted(p, own) ==
  /\ \A q \in 1..(p - 1) : Exists("final", q)
  /\ own \subseteq dir
  /\ \A e \in dir \ own : e.kind = "final" /\ e.phase < p

(* namespace_children looks only at names that begin with the run's id, which
   the probe files of an attempt do not. *)
ExactlyCompletedByPrefix(p, own) ==
  /\ \A q \in 1..(p - 1) : Exists("final", q)
  /\ own \subseteq dir
  /\ \A e \in dir \ own : e.kind = "probe" \/ (e.kind = "final" /\ e.phase < p)

Go(a, to) == pc' = [pc EXCEPT ![a] = to]

(* A requirement fails.  Before the lease and while a failure is written that
   ends the attempt; afterwards it is the except branch of the phase. *)
Refuse(a) == /\ Go(a, IF pc[a] \in Leased /\ mode[a] = "success"
                        THEN "raise" ELSE "blocked")
             /\ UNCHANGED <<dir, deps, phase, fp, mode, verified>>

(* A requirement of a process at "here": it holds and the process goes on, or
   it is refused. *)
Require(a, here, guard, next) ==
  /\ pc[a] = here
  /\ \/ /\ guard
        /\ Go(a, next)
        /\ UNCHANGED <<dir, deps, phase, fp, mode, verified>>
     \/ ~guard /\ Refuse(a)

-----------------------------------------------------------------------------
(* The command starts.  A reviewer that finds the namespace exact records its
   dependencies before the audit. *)
Start(a) ==
  /\ pc[a] = "idle"
  /\ fp' = [fp EXCEPT ![a] = IF Review(a) /\ ExactlyCompletedByPrefix(phase[a], {})
                                THEN deps ELSE None]
  /\ Go(a, "check")
  /\ UNCHANGED <<dir, deps, phase, mode, verified>>

(* The checks before acquisition pass: ensure_phase_clear, or the namespace of
   a review; the hashed inputs are the snapshot the lease will carry. *)
CheckPasses(a) ==
  /\ pc[a] = "check"
  /\ IF Review(a)
       THEN ExactlyCompletedByPrefix(phase[a], {}) /\ fp[a] = deps
       ELSE ~\E e \in dir : /\ e.kind \in {"final", "failure", "temp", "scratch"}
                            /\ e.phase = phase[a]
  /\ fp' = [fp EXCEPT ![a] = deps]
  /\ Go(a, "scan")
  /\ UNCHANGED <<dir, deps, phase, mode, verified>>

(* A check fails, for any reason the inputs give. *)
CheckFails(a) == /\ pc[a] = "check"
                 /\ Go(a, "prefail")
                 /\ UNCHANGED <<dir, deps, phase, fp, mode, verified>>

(* publish_pre_execution_failure, and a review's failure before its claim:
   only over an exact namespace, and a review only from the dependencies it
   recorded. *)
PreExecutionFailure(a) ==
  /\ pc[a] = "prefail"
  /\ LET stable == Review(a) /\ fp[a] # None => deps = fp[a] IN
     \/ /\ ExactlyCompletedByPrefix(phase[a], {}) /\ stable
        /\ fp' = [fp EXCEPT ![a] = deps]
        /\ mode' = [mode EXCEPT ![a] = "failure"]
        /\ Go(a, "scan")
        /\ UNCHANGED <<dir, deps, phase, verified>>
     \/ ~(ExactlyCompletedByPrefix(phase[a], {}) /\ stable) /\ Refuse(a)

(* acquire_publication: the scan, the claim, the probe and the second scan. *)
Scan(a) == Require(a, "scan", ExactlyCompleted(phase[a], {}), "claim")

Claim(a) == /\ pc[a] = "claim"
            /\ \/ /\ ~Exists("claim", phase[a])
                  /\ dir' = dir \union {Mine(a, "claim")}
                  /\ Go(a, "probe")
                  /\ UNCHANGED <<deps, phase, fp, mode, verified>>
               \/ Exists("claim", phase[a]) /\ Refuse(a)

Probe(a) == /\ pc[a] = "probe"
            /\ dir' = dir \union {Mine(a, "probe")}
            /\ Go(a, "unprobe")
            /\ UNCHANGED <<deps, phase, fp, mode, verified>>

Unprobe(a) == /\ pc[a] = "unprobe"
              /\ dir' = dir \ {Mine(a, "probe")}
              /\ Go(a, "rescan")
              /\ UNCHANGED <<deps, phase, fp, mode, verified>>

(* Fault: the namespace is not scanned again under the claim. *)
RescanSkipped(a) == Require(a, "rescan", TRUE, IF mode[a] = "success" THEN "held" ELSE "write")

Rescan(a) == Require(a, "rescan", ExactlyCompleted(phase[a], {Mine(a, "claim")}),
                     IF mode[a] = "success" THEN "held" ELSE "write")

-----------------------------------------------------------------------------
(* The owner makes its staging entry, a producer its scratch directory too. *)
Stage(a) ==
  /\ pc[a] = "held"
  /\ LET clear == IF Review(a)
                    THEN ExactlyCompletedByPrefix(phase[a], {Mine(a, "claim")})
                    ELSE ~Exists("final", phase[a]) /\ ~Exists("final", phase[a] + 1) IN
     \/ /\ clear
        /\ dir' = dir \union IF Review(a) THEN {Mine(a, "temp")}
                                        ELSE {Mine(a, "temp"), Mine(a, "scratch")}
        /\ Go(a, IF Review(a) THEN "publish" ELSE "work")
        /\ UNCHANGED <<deps, phase, fp, mode, verified>>
     \/ ~clear /\ Refuse(a)

(* The phase computes; the scratch directory goes, and the inputs are read
   again before the manifest is written. *)
Work(a) == /\ pc[a] = "work"
           /\ \/ /\ deps = fp[a]
                 /\ dir' = dir \ {Mine(a, "scratch")}
                 /\ Go(a, "publish")
                 /\ UNCHANGED <<deps, phase, fp, mode, verified>>
              \/ deps # fp[a] /\ Refuse(a)

WorkFails(a) == /\ pc[a] = "work"
                /\ Go(a, "raise")
                /\ UNCHANGED <<dir, deps, phase, fp, mode, verified>>

(* The except branch of a producer removes what it owns, as far as it can, and
   writes the failure whatever came of it. *)
CleanUp(a) ==
  /\ pc[a] = "raise" /\ ~Review(a)
  /\ \E removed \in SUBSET {Mine(a, "temp"), Mine(a, "scratch")} : dir' = dir \ removed
  /\ mode' = [mode EXCEPT ![a] = "failure"]
  /\ Go(a, "write")
  /\ UNCHANGED <<deps, phase, fp, verified>>

(* The except branch of a review: a drift or a terminal entry makes its
   outcome ambiguous and everything stays; otherwise the temp it owns goes. *)
DiscardReview(a) ==
  /\ pc[a] = "raise" /\ Review(a)
  /\ LET clear == /\ deps = fp[a]
                  /\ ~Exists("final", phase[a]) /\ ~Exists("failure", phase[a]) IN
     \/ /\ clear
        /\ dir' = dir \ {Mine(a, "temp")}
        /\ mode' = [mode EXCEPT ![a] = "failure"]
        /\ Go(a, "write")
        /\ UNCHANGED <<deps, phase, fp, verified>>
     \/ /\ ~clear
        /\ Go(a, "blocked")
        /\ UNCHANGED <<dir, deps, phase, fp, mode, verified>>

(* write_failure and the first half of publish_handled_failure: the failure is
   staged where the success would have been. *)
WriteFailure(a) ==
  /\ pc[a] = "write"
  /\ LET clear == deps = fp[a] /\ ExactlyCompleted(phase[a], {Mine(a, "claim")}) IN
     \/ /\ clear
        /\ dir' = dir \union {Mine(a, "temp")}
        /\ Go(a, "rehash")
        /\ UNCHANGED <<deps, phase, fp, mode, verified>>
     \/ ~clear /\ Refuse(a)

(* publish_success up to the callback.  The claim read back by inode and token
   (_validate_claim) is the entry of the caller in the scanned directory. *)
Staged(a) == {Mine(a, "claim"), Mine(a, "temp")}

Publish(a) == Require(a, "publish", ExactlyCompleted(phase[a], Staged(a)), "rehash")

(* The callback before the rename, then the second scan and the seal. *)
Rehash(a) == Require(a, "rehash", deps = fp[a], "seal")

Seal(a) == Require(a, "seal", ExactlyCompleted(phase[a], Staged(a)), "rename")

(* renameat2(RENAME_NOREPLACE). *)
Rename(a) ==
  /\ pc[a] = "rename"
  /\ \/ /\ ~Exists(Terminal(a).kind, phase[a])
        /\ dir' = (dir \ {Mine(a, "temp")}) \union {Terminal(a)}
        /\ Go(a, "check-final")
        /\ UNCHANGED <<deps, phase, fp, mode, verified>>
     \/ Exists(Terminal(a).kind, phase[a]) /\ Refuse(a)

Published(a) == {Mine(a, "claim"), Terminal(a)}

CheckFinal(a) == Require(a, "check-final", ExactlyCompleted(phase[a], Published(a)), "post")

(* The caller's rehash after the publication. *)
PostRehash(a) == Require(a, "post", deps = fp[a], "release")

(* Fault: the claim is unlinked before the publication is verified. *)
ReleaseEarly(a) == /\ pc[a] = "release"
                   /\ dir' = dir \ {Mine(a, "claim")}
                   /\ Go(a, "closing")
                   /\ UNCHANGED <<deps, phase, fp, mode, verified>>

(* release_verified_claim: exactly one terminal entry, its seal and the
   namespace; then the claim is read once more and unlinked; then a last scan. *)
Release(a) ==
  /\ pc[a] = "release"
  /\ LET exact == ExactlyCompleted(phase[a], Published(a)) IN
     \/ /\ exact
        /\ verified' = verified \union {a}
        /\ Go(a, "unlink")
        /\ UNCHANGED <<dir, deps, phase, fp, mode>>
     \/ ~exact /\ Refuse(a)

Unlink(a) == /\ pc[a] = "unlink"
             /\ Mine(a, "claim") \in dir
             /\ dir' = dir \ {Mine(a, "claim")}
             /\ Go(a, "closing")
             /\ UNCHANGED <<deps, phase, fp, mode, verified>>

(* When the last scan fails the caller's except branch finds the terminal
   entry and changes nothing. *)
Close(a) == Require(a, "closing", ExactlyCompleted(phase[a], {Terminal(a)}),
                    IF mode[a] = "success" THEN "done" ELSE "failed")

(* The process dies; what it wrote stays. *)
Crash(a) == /\ pc[a] \notin Stopped \union {"idle"}
            /\ Go(a, "crashed")
            /\ UNCHANGED <<dir, deps, phase, fp, mode, verified>>

Drift == /\ \E v \in Versions : v # deps /\ deps' = v
         /\ UNCHANGED <<dir, pc, phase, fp, mode, verified>>

Acquire(a) == \/ CheckPasses(a) \/ CheckFails(a) \/ PreExecutionFailure(a)
              \/ Scan(a) \/ Claim(a) \/ Probe(a) \/ Unprobe(a) \/ Rescan(a)

Execute(a) == Stage(a) \/ Work(a) \/ WorkFails(a)

Handle(a) == CleanUp(a) \/ DiscardReview(a) \/ WriteFailure(a)

PublishAndRelease(a) ==
  \/ Publish(a) \/ Rehash(a) \/ Seal(a) \/ Rename(a) \/ CheckFinal(a)
  \/ PostRehash(a) \/ Release(a) \/ Unlink(a) \/ Close(a)

Step(a) == Acquire(a) \/ Execute(a) \/ Handle(a) \/ PublishAndRelease(a)

Next == \/ \E a \in Attempts : Start(a) \/ Step(a) \/ Crash(a)
        \/ Drift

Spec == Init /\ [][Next]_vars

(* A running process takes its next step; nothing else is owed. *)
Fairness == \A a \in Attempts : WF_vars(Step(a))

LiveSpec == Spec /\ Fairness

-----------------------------------------------------------------------------
(* Every variable holds values of its type. *)
TypeOK == /\ dir \subseteq Entry
          /\ deps \in Versions
          /\ pc \in [Attempts -> Places]
          /\ phase \in [Attempts -> Phases]
          /\ fp \in [Attempts -> Versions \union {None}]
          /\ mode \in [Attempts -> {"success", "failure"}]
          /\ verified \subseteq Attempts

(* Any exception after the claim leaves it in place: a published final or
   failure whose publication was not verified, because of a drift, a stray
   entry or a crash, still has the claim of its publisher beside it. *)
UnverifiedKeepsClaim ==
  \A e \in dir : e.kind \in {"final", "failure"} /\ e.by \notin verified
                   => [e EXCEPT !.kind = "claim"] \in dir

(* At most one attempt, of any phase, holds a lease. *)
OneLease == \A a, b \in Attempts : pc[a] \in Leased /\ pc[b] \in Leased => a = b

(* The holder of a lease builds on finals whose publication was verified. *)
LeaseOverVerifiedChain ==
  \A a \in Attempts : pc[a] \in Leased =>
    \A q \in 1..(phase[a] - 1) :
      \E e \in dir : e.kind = "final" /\ e.phase = q /\ e.by \in verified

(* What the chain of phases looks like to its readers. *)
outcome == [p \in Phases |->
              CASE Exists("final", p) /\ Exists("failure", p) -> "both"
                [] Exists("final", p) /\ ~Exists("failure", p) -> "success"
                [] ~Exists("final", p) /\ Exists("failure", p) -> "failure"
                [] OTHER -> "none"]

Chain == INSTANCE PhaseChain

(* The directory implements the chain of phases: each is decided once, after
   the success of every earlier one. *)
ImplementsChain == Chain!Spec

(* Nothing disturbs attempt a: its inputs hold still, its process and its
   cleanup succeed, and no other attempt leaves anything but a final. *)
Undisturbed(a) ==
  /\ deps = fp[a] /\ pc[a] # "crashed"
  /\ \A e \in dir : e.by = a \/ e.kind = "final"
  /\ pc[a] = "write" => dir \intersect {Mine(a, "temp"), Mine(a, "scratch")} = {}

(* An undisturbed holder of a lease publishes, verifies and releases: every
   failing requirement of the run itself ends in a handled failure. *)
UndisturbedLeaseCloses ==
  \A a \in Attempts :
    [](pc[a] = "held" /\ []Undisturbed(a) => <>(pc[a] \in {"done", "failed"}))

(* A claim beside a success that its publisher has closed is that of an attempt
   which scanned before the publisher's claim and made its own after the
   unlink.  It never becomes a lease, and it blocks every later phase. *)
LateClaimIsRefused ==
  \A e, c \in dir :
    e.kind = "final" /\ pc[e.by] = "done" /\ c.kind = "claim" /\ c.phase = e.phase
      => pc[c.by] \in Acquired \union {"blocked", "crashed"}
=============================================================================
