----------------------- MODULE PhasePublicationProofs -----------------------
(***************************************************************************)
(* The safety of the publication protocol, for any attempts, phases and    *)
(* contents, and its refinement of the chain of phases.                    *)
(*                                                                         *)
(* Five steps matter: the claim, the second scan that turns it into a      *)
(* lease, the rename, the verification and the unlink.  Every other step   *)
(* is Quiet: it leaves claims and terminal entries as they are and gives   *)
(* its process nothing that it had not.                                    *)
(***************************************************************************)
EXTENDS PhasePublication, TLAPS

Terminals == {"final", "failure"}

Holding == Acquired \union Leased

(* The places of a lease before its rename. *)
Unpublished == {"held", "work", "publish", "rehash", "seal", "rename"}

Undecided(p) == \A e \in dir : ~(e.kind \in Terminals /\ e.phase = p)

EntriesBelong ==
  \A e \in dir : e.kind \in Terminals \union {"claim"} => e.phase = phase[e.by]

HolderHasClaim == \A a \in Attempts : pc[a] \in Holding => Mine(a, "claim") \in dir

ClaimHasHolder ==
  \A c \in dir : c.kind = "claim" => pc[c.by] \in Holding \union {"blocked", "crashed"}

UnlinkIsVerified == \A a \in Attempts : pc[a] = "unlink" => a \in verified

(* A terminal entry beside the lease of its phase is the lease holder's. *)
LeaseOwnsTerminals ==
  \A a \in Attempts : pc[a] \in Leased =>
    \A e \in dir : e.kind \in Terminals /\ e.phase = phase[a] => e.by = a

NotYetPublished == \A a \in Attempts : pc[a] \in Unpublished => Undecided(phase[a])

LeaseOverSuccesses ==
  \A a \in Attempts : pc[a] \in Leased =>
    \A q \in 1..(phase[a] - 1) : Exists("final", q) /\ ~Exists("failure", q)

Holds == HolderHasClaim /\ ClaimHasHolder /\ UnlinkIsVerified /\ UnverifiedKeepsClaim

Leases == /\ OneLease /\ LeaseOwnsTerminals /\ NotYetPublished
          /\ LeaseOverSuccesses /\ LeaseOverVerifiedChain

Inv == TypeOK /\ EntriesBelong /\ Holds /\ Leases

-----------------------------------------------------------------------------
(* What a quiet step of attempt a does. *)
KeepsNames == \A e \in Entry : e.kind \in Terminals \union {"claim"}
                                 => (e \in dir' <=> e \in dir)

Quiet(a) ==
  /\ phase' = phase /\ verified' = verified
  /\ KeepsNames
  /\ \E to \in Places :
       /\ pc' = [pc EXCEPT ![a] = to]
       /\ to \in Leased => pc[a] \in Leased
       /\ to \in Unpublished => pc[a] \in Unpublished \/ Undecided(phase[a])
       /\ to \in Holding => pc[a] \in Holding
       /\ pc[a] \in Holding \union {"blocked", "crashed"}
            => to \in Holding \union {"blocked", "crashed"}
       /\ to # "unlink"

Granted(a) == /\ pc[a] = "rescan"
              /\ ExactlyCompleted(phase[a], {Mine(a, "claim")})
              /\ \E to \in {"held", "write"} : pc' = [pc EXCEPT ![a] = to]
              /\ UNCHANGED <<dir, phase, verified>>

Claimed(a) == /\ pc[a] = "claim" /\ dir' = dir \union {Mine(a, "claim")}
              /\ pc' = [pc EXCEPT ![a] = "probe"]
              /\ UNCHANGED <<phase, verified>>

Renamed(a) == /\ pc[a] = "rename"
              /\ dir' = (dir \ {Mine(a, "temp")}) \union {Terminal(a)}
              /\ pc' = [pc EXCEPT ![a] = "check-final"]
              /\ UNCHANGED <<phase, mode, verified>>

Verifies(a) == /\ pc[a] = "release"
               /\ verified' = verified \union {a}
               /\ pc' = [pc EXCEPT ![a] = "unlink"]
               /\ UNCHANGED <<dir, phase>>

Effect(a) == Quiet(a) \/ Granted(a) \/ Claimed(a) \/ Renamed(a) \/ Verifies(a) \/ Unlink(a)

(* A step that only goes to a place. *)
LEMMA GoQuiet ==
  ASSUME TypeOK, NEW a \in Attempts, NEW to \in Places, Go(a, to),
         UNCHANGED <<dir, phase, verified>>,
         to \in Leased => pc[a] \in Leased,
         to \in Unpublished => pc[a] \in Unpublished \/ Undecided(phase[a]),
         to \in Holding => pc[a] \in Holding,
         pc[a] \in Holding \union {"blocked", "crashed"}
           => to \in Holding \union {"blocked", "crashed"},
         to # "unlink"
  PROVE  Quiet(a)
  BY DEF Quiet, KeepsNames, Go

(* A requirement that fails changes no name. *)
LEMMA RefuseQuiet == ASSUME TypeOK, NEW a \in Attempts, Refuse(a) PROVE Quiet(a)
<1> USE DEF Places, Acquiring, Acquired, Leased, Stopped, Holding, Unpublished
<1>1. CASE pc[a] \in Leased /\ mode[a] = "success"
  BY <1>1, GoQuiet DEF Refuse
<1>2. CASE ~(pc[a] \in Leased /\ mode[a] = "success")
  BY <1>2, GoQuiet DEF Refuse
<1> QED
  BY <1>1, <1>2

(* A scan that finds exactly what it should finds no outcome of the phase. *)
LEMMA ExactIsUndecided ==
  ASSUME NEW a \in Attempts, NEW own,
         ExactlyCompleted(phase[a], own), TypeOK,
         \A e \in own : e.kind \notin Terminals
  PROVE  Undecided(phase[a])
<1> SUFFICES ASSUME NEW e \in dir, e.kind \in Terminals, e.phase = phase[a] PROVE FALSE
  BY DEF Undecided
<1>1. e \in dir \ own
  OBVIOUS
<1>2. e.phase < phase[a]
  BY <1>1 DEF ExactlyCompleted
<1>3. phase[a] \in Nat
  BY DEF TypeOK, Phases
<1> QED
  BY <1>2, <1>3

(* Which of the effects the steps of acquire_publication have, ... *)
LEMMA AcquireEffect == ASSUME TypeOK, NEW a \in Attempts, Acquire(a) PROVE Effect(a)
<1> USE DEF Places, Acquiring, Acquired, Leased, Stopped, Holding, Unpublished
<1>1. CASE CheckPasses(a)
  BY <1>1, GoQuiet DEF CheckPasses, Effect
<1>2. CASE CheckFails(a)
  BY <1>2, GoQuiet DEF CheckFails, Effect
<1>3. CASE PreExecutionFailure(a)
  BY <1>3, GoQuiet, RefuseQuiet DEF PreExecutionFailure, Effect
<1>4. CASE Scan(a)
  BY <1>4, GoQuiet, RefuseQuiet DEF Scan, Require, Effect
<1>5. CASE Claim(a)
  BY <1>5, RefuseQuiet DEF Claim, Claimed, Effect, Go
<1>6. CASE Probe(a)
  BY <1>6 DEF Probe, Quiet, KeepsNames, Go, Mine, Terminals, Effect
<1>7. CASE Unprobe(a)
  BY <1>7 DEF Unprobe, Quiet, KeepsNames, Go, Mine, Terminals, Effect
<1>8. CASE Rescan(a)
  BY <1>8, RefuseQuiet DEF Rescan, Require, Granted, Effect, Go
<1> QED
  BY <1>1, <1>2, <1>3, <1>4, <1>5, <1>6, <1>7, <1>8 DEF Acquire

(* ... those of the work and of its except branch, ... *)
LEMMA ExecuteEffect ==
  ASSUME TypeOK, NEW a \in Attempts, Execute(a) \/ Handle(a) PROVE Effect(a)
<1> USE DEF Places, Acquiring, Acquired, Leased, Stopped, Holding, Unpublished
<1>1. CASE Stage(a)
  BY <1>1, RefuseQuiet DEF Stage, Quiet, KeepsNames, Go, Mine, Terminals, Effect
<1>2. CASE Work(a)
  BY <1>2, RefuseQuiet DEF Work, Quiet, KeepsNames, Go, Mine, Terminals, Effect
<1>3. CASE WorkFails(a)
  BY <1>3, GoQuiet DEF WorkFails, Effect
<1>4. CASE CleanUp(a)
  BY <1>4 DEF CleanUp, Quiet, KeepsNames, Go, Mine, Terminals, Effect
<1>5. CASE DiscardReview(a)
  BY <1>5, GoQuiet DEF DiscardReview, Quiet, KeepsNames, Go, Mine, Terminals, Effect
<1>6. CASE WriteFailure(a)
  BY <1>6, RefuseQuiet, ExactIsUndecided
  DEF WriteFailure, Quiet, KeepsNames, Go, Mine, Terminals, Effect
<1> QED
  BY <1>1, <1>2, <1>3, <1>4, <1>5, <1>6 DEF Execute, Handle

(* ... and those of the publication and the release. *)
LEMMA PublishEffect ==
  ASSUME TypeOK, NEW a \in Attempts, PublishAndRelease(a) PROVE Effect(a)
<1> USE DEF Places, Acquiring, Acquired, Leased, Stopped, Holding, Unpublished, Require
<1>1. CASE Publish(a)
  BY <1>1, GoQuiet, RefuseQuiet DEF Publish, Effect
<1>2. CASE Rehash(a)
  BY <1>2, GoQuiet, RefuseQuiet DEF Rehash, Effect
<1>3. CASE Seal(a)
  BY <1>3, GoQuiet, RefuseQuiet DEF Seal, Effect
<1>4. CASE Rename(a)
  BY <1>4, RefuseQuiet DEF Rename, Renamed, Go, Effect
<1>5. CASE CheckFinal(a)
  BY <1>5, GoQuiet, RefuseQuiet DEF CheckFinal, Effect
<1>6. CASE PostRehash(a)
  BY <1>6, GoQuiet, RefuseQuiet DEF PostRehash, Effect
<1>7. CASE Release(a)
  BY <1>7, RefuseQuiet DEF Release, Verifies, Go, Effect
<1>8. CASE Unlink(a)
  BY <1>8 DEF Effect
<1>9. CASE Close(a)
  BY <1>9, GoQuiet, RefuseQuiet DEF Close, Effect
<1> QED
  BY <1>1, <1>2, <1>3, <1>4, <1>5, <1>6, <1>7, <1>8, <1>9 DEF PublishAndRelease

(* Every step has one of the six effects, or changes the dependencies only. *)
LEMMA NextEffect ==
  ASSUME TypeOK, Next
  PROVE  (\E a \in Attempts : Effect(a)) \/ UNCHANGED <<dir, pc, phase, mode, verified>>
<1>1. ASSUME NEW a \in Attempts, Start(a) PROVE Effect(a)
  BY <1>1, GoQuiet DEF Start, Effect, Places, Acquiring, Acquired, Leased, Stopped,
                       Holding, Unpublished
<1>2. ASSUME NEW a \in Attempts, Crash(a) PROVE Effect(a)
  BY <1>2, GoQuiet DEF Crash, Effect, Places, Acquiring, Acquired, Leased, Stopped,
                       Holding, Unpublished
<1>3. ASSUME NEW a \in Attempts, Step(a) PROVE Effect(a)
  BY <1>3, AcquireEffect, ExecuteEffect, PublishEffect DEF Step
<1>4. CASE Drift
  BY <1>4 DEF Drift
<1> QED
  BY <1>1, <1>2, <1>3, <1>4 DEF Next

-----------------------------------------------------------------------------
(* An empty directory satisfies the invariant, ... *)
LEMMA InitInv == Init => Inv
<1> SUFFICES ASSUME Init PROVE Inv
  OBVIOUS
<1>1. TypeOK
  BY DEF Init, TypeOK, Entry, Places
<1> QED
  BY <1>1 DEF Init, Inv, EntriesBelong, Holds, HolderHasClaim, ClaimHasHolder,
              UnlinkIsVerified, UnverifiedKeepsClaim, Leases, OneLease,
              LeaseOwnsTerminals, NotYetPublished, LeaseOverSuccesses,
              LeaseOverVerifiedChain, Holding, Acquired, Leased, Unpublished

(* The entries of an attempt. *)
LEMMA MineTyped ==
  ASSUME TypeOK, NEW a \in Attempts,
         NEW k \in {"final", "failure", "claim", "temp", "scratch", "probe"}
  PROVE  Mine(a, k) \in Entry
  BY DEF TypeOK, Mine, Entry

(* ... every step keeps the types, ... *)
LEMMA TypeStep == ASSUME TypeOK, [Next]_vars PROVE TypeOK'
<1>1. ASSUME NEW a \in Attempts, Refuse(a) PROVE TypeOK'
  BY <1>1 DEF Refuse, Go, TypeOK, Places, Stopped, Leased
<1>2. ASSUME NEW a \in Attempts, Acquire(a) PROVE TypeOK'
  <2> USE DEF Go, TypeOK, Places, Acquiring, Acquired, Leased, Stopped
  <2>1. CASE CheckPasses(a)
    BY <2>1 DEF CheckPasses
  <2>2. CASE CheckFails(a)
    BY <2>2 DEF CheckFails
  <2>3. CASE PreExecutionFailure(a)
    BY <2>3, <1>1 DEF PreExecutionFailure
  <2>4. CASE Scan(a)
    BY <2>4, <1>1 DEF Scan, Require
  <2>5. CASE Claim(a)
    BY <2>5, <1>1, MineTyped DEF Claim
  <2>6. CASE Probe(a)
    BY <2>6, MineTyped DEF Probe
  <2>7. CASE Unprobe(a)
    BY <2>7 DEF Unprobe
  <2>8. CASE Rescan(a)
    BY <2>8, <1>1 DEF Rescan, Require
  <2> QED
    BY <1>2, <2>1, <2>2, <2>3, <2>4, <2>5, <2>6, <2>7, <2>8 DEF Acquire
<1>3. ASSUME NEW a \in Attempts, Execute(a) \/ Handle(a) PROVE TypeOK'
  <2> USE DEF Go, TypeOK, Places, Acquiring, Acquired, Leased, Stopped
  <2>1. CASE Stage(a)
    BY <2>1, <1>1, MineTyped DEF Stage
  <2>2. CASE Work(a)
    BY <2>2, <1>1 DEF Work
  <2>3. CASE WorkFails(a)
    BY <2>3 DEF WorkFails
  <2>4. CASE CleanUp(a)
    BY <2>4 DEF CleanUp
  <2>5. CASE DiscardReview(a)
    BY <2>5 DEF DiscardReview
  <2>6. CASE WriteFailure(a)
    BY <2>6, <1>1, MineTyped DEF WriteFailure
  <2> QED
    BY <1>3, <2>1, <2>2, <2>3, <2>4, <2>5, <2>6 DEF Execute, Handle
<1>4. ASSUME NEW a \in Attempts, PublishAndRelease(a) PROVE TypeOK'
  <2> USE DEF Go, TypeOK, Places, Acquiring, Acquired, Leased, Stopped, Require
  <2>1. CASE Publish(a)
    BY <2>1, <1>1 DEF Publish
  <2>2. CASE Rehash(a)
    BY <2>2, <1>1 DEF Rehash
  <2>3. CASE Seal(a)
    BY <2>3, <1>1 DEF Seal
  <2>4. CASE Rename(a)
    BY <2>4, <1>1, MineTyped DEF Rename, Terminal
  <2>5. CASE CheckFinal(a)
    BY <2>5, <1>1 DEF CheckFinal
  <2>6. CASE PostRehash(a)
    BY <2>6, <1>1 DEF PostRehash
  <2>7. CASE Release(a)
    BY <2>7, <1>1 DEF Release
  <2>8. CASE Unlink(a)
    BY <2>8 DEF Unlink
  <2>9. CASE Close(a)
    BY <2>9, <1>1 DEF Close
  <2> QED
    BY <1>4, <2>1, <2>2, <2>3, <2>4, <2>5, <2>6, <2>7, <2>8, <2>9 DEF PublishAndRelease
<1>5. ASSUME NEW a \in Attempts, Start(a) \/ Crash(a) PROVE TypeOK'
  BY <1>5 DEF Start, Crash, Go, TypeOK, Places, Stopped
<1>6. CASE Drift
  BY <1>6 DEF Drift, TypeOK
<1>7. CASE UNCHANGED vars
  BY <1>7 DEF vars, TypeOK
<1> QED
  BY <1>2, <1>3, <1>4, <1>5, <1>6, <1>7 DEF Next, Step

(* What a claimant, an unlink and the others do to the holders of claims. *)
LEMMA HoldsStep ==
  ASSUME Inv, TypeOK', NEW a \in Attempts, Effect(a)
  PROVE  EntriesBelong' /\ Holds'
<1> USE DEF Inv, EntriesBelong, Holds, HolderHasClaim, ClaimHasHolder, UnlinkIsVerified,
            UnverifiedKeepsClaim, Mine, Terminals, Holding
<1>1. CASE Quiet(a)
  <2>1. \A e \in dir' : e.kind \in Terminals \union {"claim"} => e \in dir
    BY <1>1 DEF Quiet, KeepsNames, TypeOK
  <2>2. \A e \in dir : e.kind \in Terminals \union {"claim"} => e \in dir'
    BY <1>1 DEF Quiet, KeepsNames, TypeOK
  <2>3. \A b \in Attempts : Mine(b, "claim")' = Mine(b, "claim")
    BY <1>1 DEF Quiet
  <2>4. EntriesBelong'
    BY <1>1, <2>1 DEF Quiet
  <2>5. HolderHasClaim'
    BY <1>1, <2>2, <2>3 DEF Quiet, TypeOK
  <2>6. ClaimHasHolder'
    BY <1>1, <2>1 DEF Quiet, TypeOK, Entry
  <2>7. UnlinkIsVerified'
    BY <1>1 DEF Quiet, TypeOK
  <2>8. UnverifiedKeepsClaim'
    <3> SUFFICES ASSUME NEW e \in dir', e.kind \in Terminals, e.by \notin verified'
                 PROVE  [e EXCEPT !.kind = "claim"] \in dir'
      OBVIOUS
    <3>1. e \in dir /\ e \in Entry /\ e.by \notin verified
      BY <1>1, <2>1 DEF Quiet, TypeOK
    <3>2. [e EXCEPT !.kind = "claim"] \in dir
      BY <3>1
    <3>3. [e EXCEPT !.kind = "claim"].kind = "claim"
      BY <3>1 DEF Entry
    <3> QED
      BY <2>2, <3>2, <3>3
  <2> QED
    BY <2>4, <2>5, <2>6, <2>7, <2>8
<1>2. CASE Granted(a)
  BY <1>2 DEF Granted, TypeOK, Acquired, Leased
<1>3. CASE Claimed(a)
  BY <1>3 DEF Claimed, TypeOK, Acquired, Leased
<1>4. CASE Renamed(a)
  BY <1>4 DEF Renamed, TypeOK, Acquired, Leased, Terminal
<1>5. CASE Verifies(a)
  BY <1>5 DEF Verifies, TypeOK, Acquired, Leased
<1>6. CASE Unlink(a)
  <2>1. /\ pc[a] = "unlink" /\ dir' = dir \ {Mine(a, "claim")}
        /\ pc' = [pc EXCEPT ![a] = "closing"] /\ UNCHANGED <<phase, verified>>
    BY <1>6 DEF Unlink, Go
  <2>2. EntriesBelong'
    BY <2>1
  <2>3. HolderHasClaim'
    BY <2>1 DEF TypeOK, Acquired, Leased
  <2>4. ClaimHasHolder'
    <3> SUFFICES ASSUME NEW c \in dir', c.kind = "claim"
                 PROVE  pc'[c.by] \in Holding \union {"blocked", "crashed"}
      OBVIOUS
    <3>1. c \in Entry /\ c.phase = phase[c.by]
      BY <2>1 DEF TypeOK
    <3>2. c = Mine(c.by, "claim")
      BY <3>1 DEF Entry
    <3>3. c.by # a
      BY <2>1, <3>2
    <3> QED
      BY <2>1, <3>1, <3>3 DEF TypeOK, Entry
  <2>5. UnlinkIsVerified'
    BY <2>1 DEF TypeOK
  <2>6. UnverifiedKeepsClaim'
    <3> SUFFICES ASSUME NEW e \in dir', e.kind \in Terminals, e.by \notin verified'
                 PROVE  [e EXCEPT !.kind = "claim"] \in dir'
      OBVIOUS
    <3>1. e \in dir /\ e \in Entry /\ e.by # a
      BY <2>1 DEF TypeOK
    <3>2. [e EXCEPT !.kind = "claim"] \in dir
      BY <2>1, <3>1
    <3>3. [e EXCEPT !.kind = "claim"].by # a
      BY <3>1 DEF Entry
    <3> QED
      BY <2>1, <3>2, <3>3
  <2> QED
    BY <2>2, <2>3, <2>4, <2>5, <2>6
<1> QED
  BY <1>1, <1>2, <1>3, <1>4, <1>5, <1>6 DEF Effect

(* Who scans the namespace exact under its claim is alone. *)
LEMMA GrantedAlone ==
  ASSUME Inv, NEW a \in Attempts, Granted(a), NEW b \in Attempts, pc[b] \in Leased
  PROVE  FALSE
<1>1. pc[a] \notin Leased
  BY DEF Granted, Leased
<1>2. Mine(b, "claim") \in dir
  BY DEF Inv, Holds, HolderHasClaim, Holding
<1>3. Mine(b, "claim") # Mine(a, "claim")
  BY <1>1 DEF Mine
<1> QED
  BY <1>2, <1>3 DEF Granted, ExactlyCompleted, Mine

(* What the rename and the grant do to leases. *)
LEMMA LeasesStep ==
  ASSUME Inv, TypeOK', NEW a \in Attempts, Effect(a)
  PROVE  Leases'
<1> USE DEF Inv, Leases
<1>1. CASE Granted(a)
  <2>1. \A b \in Attempts : pc'[b] \in Leased => b = a
    BY <1>1, GrantedAlone DEF Granted, TypeOK
  <2>2. dir' = dir /\ phase' = phase /\ verified' = verified
    BY <1>1 DEF Granted
  <2>3. Undecided(phase[a])
    BY <1>1, ExactIsUndecided DEF Granted, Mine, Terminals
  <2>4. \A q \in 1..(phase[a] - 1) : Exists("final", q) /\ ~Exists("failure", q)
    BY <1>1 DEF Granted, ExactlyCompleted, Exists, Mine
  <2>5. ASSUME NEW e \in dir, e.kind = "final", e.phase < phase[a] PROVE e.by \in verified
    <3> SUFFICES ASSUME e.by \notin verified PROVE FALSE
      OBVIOUS
    <3>1. [e EXCEPT !.kind = "claim"] \in dir
      BY <2>5 DEF Holds, UnverifiedKeepsClaim
    <3>2. e \in Entry
      BY DEF TypeOK
    <3>3. [e EXCEPT !.kind = "claim"] \in dir \ {Mine(a, "claim")}
      BY <2>5, <3>1, <3>2 DEF Entry, Mine, TypeOK, Phases
    <3>4. [e EXCEPT !.kind = "claim"].kind = "claim"
      BY <3>2 DEF Entry
    <3> QED
      BY <1>1, <3>3, <3>4 DEF Granted, ExactlyCompleted
  <2>6. \A q \in 1..(phase[a] - 1) :
          \E e \in dir : e.kind = "final" /\ e.phase = q /\ e.by \in verified
    BY <2>4, <2>5 DEF Exists, TypeOK, Phases
  <2>7. OneLease'
    BY <2>1 DEF OneLease
  <2>8. LeaseOwnsTerminals'
    BY <2>1, <2>2, <2>3 DEF LeaseOwnsTerminals, Undecided
  <2>9. NotYetPublished'
    BY <2>1, <2>2, <2>3 DEF NotYetPublished, Undecided, Unpublished, Leased
  <2>10. LeaseOverSuccesses'
    BY <2>1, <2>2, <2>4 DEF LeaseOverSuccesses, Exists
  <2>11. LeaseOverVerifiedChain'
    BY <2>1, <2>2, <2>6 DEF LeaseOverVerifiedChain
  <2> QED
    BY <2>7, <2>8, <2>9, <2>10, <2>11
<1>2. CASE Renamed(a)
  <2>1. \A b \in Attempts : pc'[b] \in Leased => b = a
    BY <1>2 DEF Renamed, TypeOK, OneLease, Leased
  <2>2. /\ phase' = phase /\ verified' = verified /\ pc[a] \in Leased
        /\ pc'[a] = "check-final" /\ Undecided(phase[a])
    BY <1>2 DEF Renamed, Leased, TypeOK, NotYetPublished, Unpublished
  <2>3. \A e \in dir' : e.kind \in Terminals => e \in dir \/ e = Terminal(a)
    BY <1>2 DEF Renamed
  <2>4. \A e \in dir : e.kind \in Terminals => e \in dir'
    BY <1>2 DEF Renamed, Mine, Terminals
  <2>5. Terminal(a).by = a /\ Terminal(a).phase = phase[a]
    BY DEF Terminal, Mine
  <2>6. OneLease'
    BY <2>1 DEF OneLease
  <2>7. LeaseOwnsTerminals'
    BY <2>1, <2>2, <2>3, <2>5 DEF LeaseOwnsTerminals
  <2>8. NotYetPublished'
    BY <2>1, <2>2 DEF NotYetPublished, Unpublished, Leased
  <2>9. \A q \in 1..(phase[a] - 1) : q # phase[a]
    BY DEF TypeOK, Phases
  <2>10. LeaseOverSuccesses'
    BY <2>1, <2>2, <2>3, <2>4, <2>5, <2>9 DEF LeaseOverSuccesses, Exists, Terminals
  <2>11. LeaseOverVerifiedChain'
    BY <2>1, <2>2, <2>4 DEF LeaseOverVerifiedChain, Terminals
  <2> QED
    BY <2>6, <2>7, <2>8, <2>10, <2>11
<1>3. CASE Quiet(a) \/ Claimed(a) \/ Verifies(a) \/ Unlink(a)
  <2>1. phase' = phase /\ verified \subseteq verified'
    BY <1>3 DEF Quiet, Claimed, Verifies, Unlink
  <2>2. \A e \in Entry : e.kind \in Terminals => (e \in dir' <=> e \in dir)
    BY <1>3 DEF Quiet, KeepsNames, Claimed, Verifies, Unlink, Mine, Terminals
  <2>3. \A e \in dir' : e.kind \in Terminals => e \in dir
    BY <2>2 DEF TypeOK
  <2>4. \A e \in dir : e.kind \in Terminals => e \in dir'
    BY <2>2 DEF TypeOK
  <2>5. \A b \in Attempts : pc'[b] \in Leased => pc[b] \in Leased
    BY <1>3 DEF Quiet, Claimed, Verifies, Unlink, Go, TypeOK, Leased
  <2>6. \A b \in Attempts : pc'[b] \in Unpublished => pc[b] \in Unpublished \/ Undecided(phase[b])
    BY <1>3 DEF Quiet, Claimed, Verifies, Unlink, Go, TypeOK, Unpublished
  <2>7. OneLease'
    BY <2>5 DEF OneLease
  <2>8. LeaseOwnsTerminals'
    BY <2>1, <2>3, <2>5 DEF LeaseOwnsTerminals
  <2>9. NotYetPublished'
    BY <2>1, <2>3, <2>6 DEF NotYetPublished, Undecided
  <2>10. LeaseOverSuccesses'
    BY <2>1, <2>3, <2>4, <2>5 DEF LeaseOverSuccesses, Exists, Terminals
  <2>11. LeaseOverVerifiedChain'
    BY <2>1, <2>4, <2>5 DEF LeaseOverVerifiedChain, Terminals
  <2> QED
    BY <2>7, <2>8, <2>9, <2>10, <2>11
<1> QED
  BY <1>1, <1>2, <1>3 DEF Effect

(* ... and every step keeps the invariant, by its effect. *)
LEMMA InvStep == Inv /\ [Next]_vars => Inv'
<1> SUFFICES ASSUME Inv, [Next]_vars PROVE Inv'
  OBVIOUS
<1>1. TypeOK'
  BY TypeStep DEF Inv
<1>2. ASSUME NEW a \in Attempts, Effect(a) PROVE Inv'
  BY <1>1, <1>2, HoldsStep, LeasesStep DEF Inv
<1>3. CASE UNCHANGED <<dir, pc, phase, mode, verified>>
  BY <1>1, <1>3
  DEF Inv, EntriesBelong, Holds, HolderHasClaim, ClaimHasHolder, UnlinkIsVerified,
      UnverifiedKeepsClaim, Leases, OneLease, LeaseOwnsTerminals, NotYetPublished,
      LeaseOverSuccesses, LeaseOverVerifiedChain, Mine, Undecided, Exists
<1>4. CASE UNCHANGED vars
  BY <1>3, <1>4 DEF vars
<1> QED
  BY <1>2, <1>3, <1>4, NextEffect DEF Inv

(* The invariant of the publication. *)
LEMMA InvHolds == Spec => []Inv
  BY InitInv, InvStep, PTL DEF Spec

(* Every variable keeps its type, whatever is published. *)
THEOREM TypeCorrect == Spec => []TypeOK
<1>1. Inv => TypeOK
  BY DEF Inv
<1> QED
  BY InvHolds, <1>1, PTL

(* An unverified publication keeps its claim beside it. *)
THEOREM UnverifiedIsClaimed == Spec => []UnverifiedKeepsClaim
<1>1. Inv => UnverifiedKeepsClaim
  BY DEF Inv, Holds
<1> QED
  BY InvHolds, <1>1, PTL

(* The second scan under the claim admits one attempt at a time, of all the
   phases. *)
THEOREM LeaseIsExclusive == Spec => []OneLease
<1>1. Inv => OneLease
  BY DEF Inv, Leases
<1> QED
  BY InvHolds, <1>1, PTL

(* The holder of a lease builds on verified publications. *)
THEOREM ChainIsVerified == Spec => []LeaseOverVerifiedChain
<1>1. Inv => LeaseOverVerifiedChain
  BY DEF Inv, Leases
<1> QED
  BY InvHolds, <1>1, PTL

(* A claim beside a closed success never becomes a lease. *)
LEMMA LateClaim == Inv => LateClaimIsRefused
<1> SUFFICES ASSUME Inv, NEW e \in dir, NEW c \in dir, e.kind = "final",
                    pc[e.by] = "done", c.kind = "claim", c.phase = e.phase
             PROVE  pc[c.by] \in Acquired \union {"blocked", "crashed"}
  BY DEF LateClaimIsRefused
<1>1. pc[c.by] \in Holding \union {"blocked", "crashed"} /\ c.phase = phase[c.by]
  BY DEF Inv, Holds, ClaimHasHolder, EntriesBelong
<1>2. c.by \in Attempts
  BY DEF Inv, TypeOK, Entry
<1>3. pc[c.by] \in Leased => e.by = c.by
  BY <1>1, <1>2 DEF Inv, Leases, LeaseOwnsTerminals, Terminals
<1> QED
  BY <1>1, <1>3 DEF Holding, Leased

(* LateClaimIsRefused: a claim beside a closed success is of an attempt that
   has not got past its second scan, and never does. *)
THEOREM LateClaimNeverLeases == Spec => []LateClaimIsRefused
  BY InvHolds, LateClaim, PTL

-----------------------------------------------------------------------------
(* The chain of phases. *)
LEMMA OutcomeOf ==
  ASSUME NEW p \in Phases
  PROVE  /\ Undecided(p) => outcome[p] = "none"
         /\ Exists("final", p) /\ ~Exists("failure", p) => outcome[p] = "success"
  BY DEF outcome, Undecided, Exists, Terminals

(* The directory starts as the chain does, ... *)
LEMMA RefinesInit == Init => Chain!Init
  BY DEF Init, Chain!Init, outcome, Exists, Chain!Undecided, Phases, Chain!Phases

(* ... and changes as the chain does: a rename decides a phase, all else
   stutters. *)
LEMMA RefinesStep == Inv /\ [Next]_vars => [Chain!Next]_outcome
<1> SUFFICES ASSUME Inv, [Next]_vars PROVE [Chain!Next]_outcome
  OBVIOUS
<1>1. TypeOK'
  BY TypeStep DEF Inv
<1>2. ASSUME \A e \in Entry : e.kind \in Terminals => (e \in dir' <=> e \in dir)
      PROVE  outcome' = outcome
  <2>1. \A kind \in Terminals, p \in Phases :
          (\E e \in dir' : e.kind = kind /\ e.phase = p)
            <=> (\E e \in dir : e.kind = kind /\ e.phase = p)
    <3>1. dir \subseteq Entry /\ dir' \subseteq Entry
      BY <1>1 DEF Inv, TypeOK
    <3> QED
      BY <1>2, <3>1
  <2> QED
    BY <2>1 DEF outcome, Exists, Terminals
<1>3. ASSUME NEW a \in Attempts, Renamed(a) PROVE Chain!Next
  <2> DEFINE p == phase[a]
             result == IF mode[a] = "success" THEN "success" ELSE "failure"
  <2>1. p \in Phases /\ pc[a] \in Leased /\ Undecided(p)
    BY <1>3 DEF Inv, TypeOK, Renamed, Leased, Leases, NotYetPublished, Unpublished
  <2>2. outcome[p] = "none"
    BY <2>1, OutcomeOf
  <2>3. \A q \in Phases : q < p => outcome[q] = "success"
    BY <2>1, OutcomeOf DEF Inv, Leases, LeaseOverSuccesses, Phases
  <2>4. \A q \in Phases \ {p}, kind \in Terminals :
          (\E e \in dir' : e.kind = kind /\ e.phase = q)
            <=> (\E e \in dir : e.kind = kind /\ e.phase = q)
    BY <1>3 DEF Renamed, Terminal, Mine, Terminals
  <2>5. /\ Terminal(a) \in dir' /\ Terminal(a).phase = p
        /\ Terminal(a).kind = IF mode[a] = "success" THEN "final" ELSE "failure"
    BY <1>3 DEF Renamed, Terminal, Mine
  <2>6. \A e \in dir' : e.kind \in Terminals /\ e.phase = p => e = Terminal(a)
    BY <1>3, <2>1 DEF Renamed, Undecided
  <2>7. outcome' = [outcome EXCEPT ![p] = result]
    <3>1. \A q \in Phases \ {p} : outcome'[q] = outcome[q]
      BY <2>4 DEF outcome, Exists, Terminals
    <3>2. outcome'[p] = result
      <4>1. CASE mode[a] = "success"
        <5>1. \E e \in dir' : e.kind = "final" /\ e.phase = p
          BY <2>5, <4>1
        <5>2. ~\E e \in dir' : e.kind = "failure" /\ e.phase = p
          BY <2>5, <2>6, <4>1 DEF Terminals
        <5> QED
          BY <2>1, <4>1, <5>1, <5>2 DEF outcome, Exists
      <4>2. CASE mode[a] # "success"
        <5>1. \E e \in dir' : e.kind = "failure" /\ e.phase = p
          BY <2>5, <4>2
        <5>2. ~\E e \in dir' : e.kind = "final" /\ e.phase = p
          BY <2>5, <2>6, <4>2 DEF Terminals
        <5> QED
          BY <2>1, <4>2, <5>1, <5>2 DEF outcome, Exists
      <4> QED
        BY <4>1, <4>2
    <3>3. outcome = [q \in Phases |-> outcome[q]] /\ outcome' = [q \in Phases |-> outcome'[q]]
      BY <1>3 DEF outcome
    <3> QED
      BY <2>1, <3>1, <3>2, <3>3
  <2>8. Chain!Decide(p, result)
    BY <2>2, <2>3, <2>7 DEF Chain!Decide, Chain!Undecided, Chain!Phases, Phases
  <2> QED
    BY <2>1, <2>8 DEF Chain!Next, Chain!Phases, Phases
<1>4. ASSUME NEW a \in Attempts, Effect(a), ~Renamed(a)
      PROVE  \A e \in Entry : e.kind \in Terminals => (e \in dir' <=> e \in dir)
  BY <1>4 DEF Effect, Quiet, KeepsNames, Granted, Claimed, Verifies, Unlink, Mine, Terminals
<1>5. CASE UNCHANGED <<dir, pc, phase, mode, verified>>
  BY <1>2, <1>5
<1>6. CASE UNCHANGED vars
  BY <1>2, <1>6 DEF vars
<1> QED
  BY <1>2, <1>3, <1>4, <1>5, <1>6, NextEffect DEF Inv

(* Each phase is decided once, after the success of all before it: the
   directory, with every crash, drift and race, implements the chain. *)
THEOREM PublicationImplementsChain == Spec => ImplementsChain
<1>1. Spec => Chain!Spec
  BY InvHolds, RefinesInit, RefinesStep, PTL DEF Spec, Chain!Spec
<1> QED
  BY <1>1 DEF ImplementsChain

(* Readers of the chain find a prefix of successes, at most the last phase that
   is decided a failure, and what they have read stays so. *)
Prefix == \A p, q \in Phases : q < p /\ outcome[p] # "none" => outcome[q] = "success"
Decided == \A p \in Phases : outcome[p] # "none" => outcome'[p] = outcome[p]

(* No phase is decided twice, nor after a failure: a consequence of the chain
   alone. *)
THEOREM SuccessesAreAPrefix == Spec => []Prefix /\ [][Decided]_outcome
<1> DEFINE ChainInv == outcome \in [Phases -> {"none", "success", "failure"}] /\ Prefix
<1>1. Chain!Init => ChainInv
  BY DEF Chain!Init, Chain!Undecided, Chain!Phases, Phases, Prefix
<1>2. ASSUME ChainInv, NEW p \in Phases, NEW result \in {"success", "failure"},
             Chain!Decide(p, result)
      PROVE  ChainInv' /\ Decided
  <2>1. /\ outcome' = [outcome EXCEPT ![p] = result] /\ outcome[p] = "none"
        /\ \A q \in Phases : q < p => outcome[q] = "success"
    BY <1>2 DEF Chain!Decide, Chain!Undecided, Chain!Phases, Phases
  <2> HIDE DEF outcome
  <2>2. ASSUME NEW r \in Phases, NEW q \in Phases, q < r, outcome'[r] # "none"
        PROVE  outcome'[q] = "success"
    <3>1. q # p
      BY <1>2, <2>1, <2>2 DEF Prefix, Phases
    <3> QED
      BY <1>2, <2>1, <2>2, <3>1 DEF Prefix
  <2> QED
    BY <1>2, <2>1, <2>2 DEF Prefix, Decided
<1>3. ChainInv /\ [Chain!Next]_outcome => ChainInv' /\ [Decided]_outcome
  <2>1. CASE outcome' = outcome
    BY <2>1 DEF Prefix
  <2> QED
    BY <2>1, <1>2 DEF Chain!Next, Chain!Phases, Phases
<1>4. ChainInv => Prefix
  OBVIOUS
<1> HIDE DEF ChainInv
<1> QED
  BY <1>1, <1>3, <1>4, PublicationImplementsChain, PTL DEF ImplementsChain, Chain!Spec

-----------------------------------------------------------------------------
(* An undisturbed lease.  The safety half of UndisturbedLeaseCloses: its     *)
(* holder is never refused, and each of its steps takes it nearer the end.   *)

Owned(a) == {e \in dir : e.by = a}

(* What an attempt has left in the directory before its lease. *)
Fresh(a) ==
  /\ pc[a] \in {"idle", "check", "prefail", "scan", "claim"} => Owned(a) = {}
  /\ pc[a] \in {"probe", "rescan", "held"} => Owned(a) = {Mine(a, "claim")}
  /\ pc[a] = "unprobe" => Owned(a) = {Mine(a, "claim"), Mine(a, "probe")}

FinalsBefore == \A e \in dir : e.kind \in Terminals =>
                  \A q \in 1..(e.phase - 1) : Exists("final", q)

TrackInv == FinalsBefore /\ \A a \in Attempts : Fresh(a)

(* The directory a lease should find: the finals of the phases before, and the
   holder's entries as far as it has come. *)
OnTrack(a) ==
  /\ \A q \in 1..(phase[a] - 1) : Exists("final", q)
  /\ \A e \in dir \ Owned(a) : e.kind = "final" /\ e.phase < phase[a]
  /\ \/ pc[a] = "held" /\ Owned(a) = {Mine(a, "claim")}
     \/ /\ pc[a] \in {"work", "raise"} /\ ~Review(a)
        /\ Owned(a) = {Mine(a, "claim"), Mine(a, "temp"), Mine(a, "scratch")}
     \/ /\ pc[a] = "write" /\ Mine(a, "claim") \in Owned(a)
        /\ Owned(a) \subseteq {Mine(a, "claim"), Mine(a, "temp"), Mine(a, "scratch")}
     \/ pc[a] \in {"publish", "rehash", "seal", "rename"} /\ Owned(a) = Staged(a)
     \/ pc[a] \in {"check-final", "post", "release", "unlink"} /\ Owned(a) = Published(a)
     \/ pc[a] \in {"closing", "done", "failed"} /\ Owned(a) = {Terminal(a)}

(* How far an attempt with a lease has come. *)
Rank == [p \in Places |->
  CASE p = "held" -> 0  [] p = "work" -> 1          [] p = "raise" -> 2
    [] p = "write" -> 3 [] p = "publish" -> 3       [] p = "rehash" -> 4
    [] p = "seal" -> 5  [] p = "rename" -> 6        [] p = "check-final" -> 7
    [] p = "post" -> 8  [] p = "release" -> 9       [] p = "unlink" -> 10
    [] p = "closing" -> 11 [] OTHER -> 12]

Forward(a) == pc'[a] # pc[a] => Rank[pc'[a]] > Rank[pc[a]]

Acts(a) == Start(a) \/ Step(a) \/ Crash(a)

(* The entries of an attempt are its own and of different names. *)
LEMMA MineIsOwn ==
  ASSUME NEW a \in Attempts, NEW k, NEW j, k # j
  PROVE  Mine(a, k).by = a /\ Mine(a, k).kind = k /\ Mine(a, k) # Mine(a, j)
  BY DEF Mine

(* A process writes and removes entries of its own only. *)
LEMMA OthersKeep ==
  ASSUME TypeOK, NEW a \in Attempts, Acts(a)
  PROVE  /\ UNCHANGED <<phase, deps>>
         /\ \A b \in Attempts \ {a} : pc'[b] = pc[b] /\ mode'[b] = mode[b] /\ fp'[b] = fp[b]
         /\ \A e \in Entry : e.by # a => (e \in dir' <=> e \in dir)
  <1> USE DEF TypeOK, Go, Refuse, Mine
  <1>1. CASE Start(a) \/ Crash(a)
    BY <1>1 DEF Start, Crash
  <1>2. CASE Acquire(a)
    <2>1. CASE CheckPasses(a) \/ CheckFails(a) \/ PreExecutionFailure(a) \/ Scan(a) \/ Rescan(a)
      BY <2>1 DEF CheckPasses, CheckFails, PreExecutionFailure, Scan, Rescan, Require
    <2>2. CASE Claim(a) \/ Probe(a) \/ Unprobe(a)
      BY <2>2 DEF Claim, Probe, Unprobe
    <2> QED
      BY <1>2, <2>1, <2>2 DEF Acquire
  <1>3. CASE Execute(a)
    BY <1>3 DEF Execute, Stage, Work, WorkFails
  <1>4. CASE Handle(a)
    BY <1>4 DEF Handle, CleanUp, DiscardReview, WriteFailure
  <1>5. CASE PublishAndRelease(a)
    <2>1. CASE Publish(a) \/ Rehash(a) \/ Seal(a) \/ CheckFinal(a) \/ PostRehash(a) \/ Close(a)
      BY <2>1 DEF Publish, Rehash, Seal, CheckFinal, PostRehash, Close, Require
    <2>2. CASE Rename(a) \/ Release(a) \/ Unlink(a)
      BY <2>2 DEF Rename, Release, Unlink, Terminal
    <2> QED
      BY <1>5, <2>1, <2>2 DEF PublishAndRelease
  <1> QED
    BY <1>1, <1>2, <1>3, <1>4, <1>5 DEF Acts, Step

(* A step of another process leaves an attempt's entries and place alone. *)
LEMMA OwnedKept ==
  ASSUME TypeOK, TypeOK', NEW a \in Attempts, NEW b \in Attempts \ {a}, Acts(a)
  PROVE  /\ Owned(b)' = Owned(b) /\ pc'[b] = pc[b]
         /\ \A k \in {"final", "failure", "claim", "temp", "scratch", "probe"} :
              Mine(b, k)' = Mine(b, k)
         /\ Terminal(b)' = Terminal(b) /\ Staged(b)' = Staged(b)
         /\ Published(b)' = Published(b) /\ phase'[b] = phase[b]
  <1>1. UNCHANGED phase /\ mode'[b] = mode[b] /\ pc'[b] = pc[b]
    BY OthersKeep
  <1>2. \A e \in Entry : e.by = b => (e \in dir' <=> e \in dir)
    BY OthersKeep
  <1>3. Owned(b)' = Owned(b)
    BY <1>2 DEF Owned, TypeOK
  <1>4. \A k \in {"final", "failure", "claim", "temp", "scratch", "probe"} :
          Mine(b, k)' = Mine(b, k)
    BY <1>1 DEF Mine
  <1> QED
    BY <1>1, <1>3, <1>4 DEF Terminal, Staged, Published, Mine

(* What an attempt adds and removes. *)
LEMMA OwnedMoves ==
  ASSUME NEW a \in Attempts, UNCHANGED phase, NEW S, \A e \in S : e.by = a
  PROVE  /\ dir' = dir \union S => Owned(a)' = Owned(a) \union S
         /\ dir' = dir \ S => Owned(a)' = Owned(a) \ S
         /\ dir' = dir => Owned(a)' = Owned(a)
  BY DEF Owned

(* Up to its lease an attempt has its claim, and the probe while it probes. *)
LEMMA FreshStep ==
  ASSUME TypeOK, NEW a \in Attempts, Fresh(a), Acts(a)
  PROVE  Fresh(a)'
  <1> USE DEF Fresh
  <1>0. UNCHANGED phase /\ pc \in [Attempts -> Places]
    BY OthersKeep DEF TypeOK
  <1>1. \A k \in {"claim", "probe"} : Mine(a, k)' = Mine(a, k) /\ Mine(a, k).by = a
    BY <1>0 DEF Mine
  <1>2. Mine(a, "claim") # Mine(a, "probe")
    BY DEF Mine
  <1>3. CASE Refuse(a)
    BY <1>0, <1>3 DEF Refuse, Go
  <1>4. CASE Start(a) \/ Crash(a)
    <2>1. pc'[a] = "crashed" \/ (pc[a] = "idle" /\ pc'[a] = "check" /\ dir' = dir)
      BY <1>0, <1>4 DEF Start, Crash, Go
    <2> QED
      BY <1>0, <2>1 DEF Owned
  <1>5. CASE Acquire(a)
    <2>1. CASE CheckPasses(a) \/ CheckFails(a) \/ PreExecutionFailure(a)
      <3>1. CASE /\ pc[a] \in {"check", "prefail"} /\ dir' = dir
                 /\ pc'[a] \in {"scan", "prefail"}
        BY <1>0, <3>1 DEF Owned
      <3> QED
        BY <1>0, <1>3, <2>1, <3>1 DEF CheckPasses, CheckFails, PreExecutionFailure, Go
    <2>2. CASE Scan(a)
      <3>1. CASE pc[a] = "scan" /\ dir' = dir /\ pc'[a] = "claim"
        BY <1>0, <3>1 DEF Owned
      <3> QED
        BY <1>0, <1>3, <2>2, <3>1 DEF Scan, Require, Go
    <2>3. CASE Claim(a)
      <3>1. CASE /\ pc[a] = "claim" /\ dir' = dir \union {Mine(a, "claim")}
                 /\ pc'[a] = "probe"
        BY <1>0, <1>1, <3>1 DEF Owned
      <3> QED
        BY <1>0, <1>3, <2>3, <3>1 DEF Claim, Go
    <2>4. CASE Probe(a)
      <3>1. pc[a] = "probe" /\ dir' = dir \union {Mine(a, "probe")} /\ pc'[a] = "unprobe"
        BY <1>0, <2>4 DEF Probe, Go
      <3>2. Owned(a)' = Owned(a) \union {Mine(a, "probe")}
        BY <1>0, <1>1, <3>1, OwnedMoves
      <3> QED
        BY <1>1, <3>1, <3>2
    <2>5. CASE Unprobe(a)
      <3>1. pc[a] = "unprobe" /\ dir' = dir \ {Mine(a, "probe")} /\ pc'[a] = "rescan"
        BY <1>0, <2>5 DEF Unprobe, Go
      <3>2. Owned(a)' = Owned(a) \ {Mine(a, "probe")}
        BY <1>0, <1>1, <3>1, OwnedMoves
      <3> QED
        BY <1>1, <1>2, <3>1, <3>2
    <2>6. CASE Rescan(a)
      <3>1. CASE pc[a] = "rescan" /\ dir' = dir /\ pc'[a] \in {"held", "write"}
        BY <1>0, <1>1, <3>1 DEF Owned
      <3> QED
        BY <1>0, <1>3, <2>6, <3>1 DEF Rescan, Require, Go
    <2> QED
      BY <1>5, <2>1, <2>2, <2>3, <2>4, <2>5, <2>6 DEF Acquire
  <1>6. CASE Execute(a) \/ Handle(a) \/ PublishAndRelease(a)
    <2>1. CASE pc'[a] \notin {"idle", "check", "prefail", "scan", "claim", "probe", "rescan",
                              "held", "unprobe"}
      BY <2>1
    <2>2. CASE Execute(a)
      BY <1>0, <1>3, <2>1, <2>2 DEF Execute, Stage, Work, WorkFails, Go
    <2>3. CASE Handle(a)
      BY <1>0, <1>3, <2>1, <2>3 DEF Handle, CleanUp, DiscardReview, WriteFailure, Go
    <2>4. CASE PublishAndRelease(a)
      BY <1>0, <1>3, <2>1, <2>4
      DEF PublishAndRelease, Publish, Rehash, Seal, Rename, CheckFinal, PostRehash, Release,
          Unlink, Close, Require, Go
    <2> QED
      BY <1>6, <2>2, <2>3, <2>4
  <1> QED
    BY <1>4, <1>5, <1>6 DEF Acts, Step

(* A terminal entry is over the finals of every phase before it. *)
LEMMA FinalsBeforeStep ==
  ASSUME Inv, FinalsBefore, TypeOK', NEW a \in Attempts, Effect(a)
  PROVE  FinalsBefore'
  <1> USE DEF FinalsBefore, Terminals, Exists
  <1>1. \A e \in dir : e.kind \in Terminals => e \in dir'
    BY DEF Effect, Quiet, KeepsNames, Granted, Claimed, Renamed, Verifies, Unlink, Mine,
           Inv, TypeOK
  <1>2. CASE Renamed(a)
    <2>1. \A e \in dir' : e \in dir \/ e = Terminal(a)
      BY <1>2 DEF Renamed
    <2>2. Terminal(a).phase = phase[a]
      BY DEF Terminal, Mine
    <2>3. \A q \in 1..(phase[a] - 1) : Exists("final", q)
      BY <1>2 DEF Renamed, Leased, Inv, Leases, LeaseOverSuccesses
    <2> QED
      BY <1>1, <2>1, <2>2, <2>3
  <1>3. CASE ~Renamed(a)
    <2>1. \A e \in dir' : e.kind \in Terminals => e \in dir
      BY <1>3 DEF Effect, Quiet, KeepsNames, Granted, Claimed, Verifies, Unlink, Mine, TypeOK
    <2> QED
      BY <1>1, <2>1
  <1> QED
    BY <1>2, <1>3

(* TrackInv is kept by every step. *)
LEMMA TrackInvStep == ASSUME Inv, TrackInv, [Next]_vars PROVE TrackInv'
  <1>1. TypeOK'
    BY TypeStep DEF Inv
  <1>2. FinalsBefore'
    <2>1. CASE UNCHANGED <<dir, pc, phase, mode, verified>> \/ UNCHANGED vars
      BY <2>1 DEF TrackInv, FinalsBefore, Exists, vars
    <2> QED
      BY <1>1, <2>1, NextEffect, FinalsBeforeStep DEF TrackInv, Inv
  <1>3. ASSUME NEW b \in Attempts PROVE Fresh(b)'
    <2>1. ASSUME NEW a \in Attempts, Acts(a) PROVE Fresh(b)'
      <3>1. CASE a = b
        BY <2>1, <3>1, FreshStep DEF TrackInv, Inv
      <3>2. CASE a # b
        BY <1>1, <2>1, <3>2, OwnedKept DEF TrackInv, Inv, Fresh
      <3> QED
        BY <3>1, <3>2
    <2>2. CASE Drift \/ UNCHANGED vars
      BY <2>2 DEF Drift, vars, TrackInv, Fresh, Owned, Mine
    <2> QED
      BY <2>1, <2>2 DEF Next, Acts
  <1> QED
    BY <1>2, <1>3 DEF TrackInv

(* A lease that starts undisturbed starts on its track. *)
LEMMA OnTrackStarts ==
  ASSUME Inv, TrackInv, NEW a \in Attempts, pc[a] = "held", Undisturbed(a)
  PROVE  OnTrack(a)
  <1> USE DEF Inv, Leases
  <1>1. Owned(a) = {Mine(a, "claim")}
    BY DEF TrackInv, Fresh
  <1>2. \A q \in 1..(phase[a] - 1) : Exists("final", q)
    BY DEF LeaseOverSuccesses, Leased
  <1>3. ASSUME NEW e \in dir \ Owned(a) PROVE e.kind = "final" /\ e.phase < phase[a]
    <2>1. e.kind = "final" /\ e.phase \in Nat /\ phase[a] \in Nat /\ phase[a] >= 1
      BY <1>3 DEF Undisturbed, Owned, TypeOK, Entry, Phases
    <2>2. Undecided(phase[a])
      BY DEF NotYetPublished, Unpublished
    <2>3. e.phase # phase[a]
      BY <1>3, <2>1, <2>2 DEF Undecided, Terminals
    <2>4. SUFFICES ASSUME e.phase > phase[a] PROVE FALSE
      BY <2>1, <2>3
    <2>5. Exists("final", phase[a])
      BY <1>3, <2>1, <2>4 DEF TrackInv, FinalsBefore, Terminals
    <2> QED
      BY <2>2, <2>5 DEF Exists, Undecided, Terminals
  <1> QED
    BY <1>1, <1>2, <1>3 DEF OnTrack

(* On its track an attempt finds the namespace exact over its own entries. *)
LEMMA TrackIsExact ==
  ASSUME NEW a \in Attempts, OnTrack(a)
  PROVE  /\ ExactlyCompleted(phase[a], Owned(a)) /\ ExactlyCompletedByPrefix(phase[a], Owned(a))
  BY DEF OnTrack, ExactlyCompleted, ExactlyCompletedByPrefix, Owned

(* ... and no terminal entry of its phase but its own, and of the next none. *)
LEMMA TrackIsClear ==
  ASSUME TypeOK, NEW a \in Attempts, OnTrack(a), NEW k \in Terminals,
         \A e \in Owned(a) : e.kind # k
  PROVE  ~Exists(k, phase[a]) /\ ~Exists(k, phase[a] + 1)
  <1> SUFFICES ASSUME NEW e \in dir, e.kind = k, e.phase \in {phase[a], phase[a] + 1}
               PROVE  FALSE
    BY DEF Exists
  <1>1. e \in dir \ Owned(a)
    OBVIOUS
  <1>2. e.phase < phase[a] /\ phase[a] \in Nat
    BY <1>1 DEF OnTrack, TypeOK, Phases
  <1> QED
    BY <1>2

(* While nothing disturbs it, no other attempt holds a claim, or makes one. *)
LEMMA AloneOnTrack ==
  ASSUME Inv, NEW a \in Attempts, Undisturbed(a), Undisturbed(a)',
         NEW b \in Attempts \ {a}, Acts(b)
  PROVE  dir' = dir
  <1> USE DEF Inv, Undisturbed
  <1>1. pc[b] \notin Holding
    <2> SUFFICES ASSUME pc[b] \in Holding PROVE FALSE
      OBVIOUS
    <2>1. Mine(b, "claim") \in dir
      BY DEF Holds, HolderHasClaim
    <2> QED
      BY <2>1 DEF Mine
  <1>2. Mine(b, "claim") \notin dir'
    BY DEF Mine
  <1>3. CASE Start(b) \/ Crash(b)
    BY <1>3 DEF Start, Crash
  <1>4. CASE Acquire(b)
    BY <1>1, <1>2, <1>4
    DEF Acquire, CheckPasses, CheckFails, PreExecutionFailure, Scan, Claim, Probe, Unprobe,
        Rescan, Require, Refuse, Holding, Acquired
  <1>5. CASE Execute(b) \/ Handle(b)
    BY <1>1, <1>5 DEF Execute, Stage, Work, WorkFails, Handle, CleanUp, DiscardReview,
                      WriteFailure, Holding, Leased
  <1>6. CASE PublishAndRelease(b)
    <2>1. CASE Close(b)
      BY <2>1 DEF Close, Require, Refuse
    <2> QED
      BY <1>1, <1>6, <2>1
      DEF PublishAndRelease, Publish, Rehash, Seal, Rename, CheckFinal, PostRehash, Release,
          Unlink, Require, Holding, Leased
  <1> QED
    BY <1>3, <1>4, <1>5, <1>6 DEF Acts, Step

(* ... and its steps leave the attempt on its track. *)
LEMMA OthersLeaveTrack ==
  ASSUME Inv, TypeOK', NEW a \in Attempts, OnTrack(a), Undisturbed(a), Undisturbed(a)',
         NEW b \in Attempts \ {a}, Acts(b)
  PROVE  OnTrack(a)' /\ pc'[a] = pc[a]
  <1>1. dir' = dir
    BY AloneOnTrack
  <1>2. UNCHANGED phase
    BY OthersKeep DEF Inv
  <1> QED
    BY <1>1, <1>2, OwnedKept DEF OnTrack, Exists, Review, Inv

(* The places of the track and its names do not move with a step of its own. *)
LEMMA TrackNames ==
  ASSUME TypeOK, NEW a \in Attempts, Acts(a), UNCHANGED mode
  PROVE  /\ Terminal(a)' = Terminal(a) /\ Staged(a)' = Staged(a) /\ Published(a)' = Published(a)
         /\ \A k \in {"final", "failure", "claim", "temp", "scratch", "probe"} :
              Mine(a, k)' = Mine(a, k)
         /\ Review(a)' = Review(a)
  BY OthersKeep DEF Terminal, Staged, Published, Mine, Review

(* The finals of the phases before stay, and nobody else's entry appears. *)
LEMMA TrackKept ==
  ASSUME Inv, TypeOK', NEW a \in Attempts, OnTrack(a), Acts(a)
  PROVE  /\ \A q \in 1..(phase'[a] - 1) : Exists("final", q)'
         /\ \A e \in dir' \ Owned(a)' : e.kind = "final" /\ e.phase < phase'[a]
  <1>1. UNCHANGED phase /\ \A e \in Entry : e.by # a => (e \in dir' <=> e \in dir)
    BY OthersKeep DEF Inv
  <1>2. dir \subseteq Entry /\ dir' \subseteq Entry /\ phase[a] \in Nat
    BY DEF Inv, TypeOK, Phases
  <1>3. ASSUME NEW q \in 1..(phase[a] - 1) PROVE Exists("final", q)'
    <2>1. PICK e \in dir : e.kind = "final" /\ e.phase = q
      BY <1>3 DEF OnTrack, Exists
    <2>2. e \in dir'
      <3>1. CASE e.by # a
        BY <1>1, <1>2, <3>1
      <3>2. CASE e.by = a
        <4>1. e.phase = phase[a]
          BY <2>1, <3>2 DEF Inv, EntriesBelong, Terminals
        <4> QED
          BY <1>2, <1>3, <2>1, <4>1
      <3> QED
        BY <3>1, <3>2
    <2> QED
      BY <2>1, <2>2 DEF Exists
  <1>4. ASSUME NEW e \in dir' \ Owned(a)' PROVE e.kind = "final" /\ e.phase < phase[a]
    BY <1>1, <1>2, <1>4 DEF OnTrack, Owned
  <1> QED
    BY <1>1, <1>3, <1>4

(* The values of Rank. *)
LEMMA Ranks ==
  /\ Rank["held"] = 0 /\ Rank["work"] = 1 /\ Rank["raise"] = 2 /\ Rank["write"] = 3
  /\ Rank["publish"] = 3 /\ Rank["rehash"] = 4 /\ Rank["seal"] = 5 /\ Rank["rename"] = 6
  /\ Rank["check-final"] = 7 /\ Rank["post"] = 8 /\ Rank["release"] = 9
  /\ Rank["unlink"] = 10 /\ Rank["closing"] = 11 /\ Rank["done"] = 12 /\ Rank["failed"] = 12
  BY DEF Rank, Places, Acquiring, Acquired, Leased, Stopped

(* The staging of a lease, its work and its except branch. *)
LEMMA WorkOnTrack ==
  ASSUME Inv, TypeOK', NEW a \in Attempts, OnTrack(a), Undisturbed(a), Undisturbed(a)',
         Execute(a) \/ Handle(a)
  PROVE  OnTrack(a)' /\ Forward(a)
  <1> DEFINE claim == Mine(a, "claim")
             temp == Mine(a, "temp")
             scratch == Mine(a, "scratch")
  <1>1. Acts(a) /\ UNCHANGED phase /\ pc \in [Attempts -> Places]
    BY OthersKeep DEF Acts, Step, Inv, TypeOK
  <1>2. /\ \A q \in 1..(phase'[a] - 1) : Exists("final", q)'
        /\ \A e \in dir' \ Owned(a)' : e.kind = "final" /\ e.phase < phase'[a]
    BY <1>1, TrackKept
  <1>3. /\ claim' = claim /\ temp' = temp /\ scratch' = scratch /\ Review(a)' = Review(a)
        /\ claim # temp /\ claim # scratch /\ temp # scratch
        /\ claim.by = a /\ temp.by = a /\ scratch.by = a
    BY <1>1 DEF Mine, Review
  <1>4. ExactlyCompletedByPrefix(phase[a], Owned(a)) /\ ExactlyCompleted(phase[a], Owned(a))
    BY TrackIsExact
  <1>5. ASSUME NEW S, S \subseteq {claim, temp, scratch}
        PROVE  /\ dir' = dir \union S => Owned(a)' = Owned(a) \union S
               /\ dir' = dir \ S => Owned(a)' = Owned(a) \ S
               /\ dir' = dir => Owned(a)' = Owned(a)
    BY <1>1, <1>3, <1>5, OwnedMoves
  <1>6. CASE Stage(a)
    <2>1. pc[a] = "held" /\ Owned(a) = {claim}
      BY <1>6 DEF Stage, OnTrack
    <2>2. ~Exists("final", phase[a]) /\ ~Exists("final", phase[a] + 1)
      BY <2>1, TrackIsClear DEF Inv, Terminals, Mine
    <2>3. CASE Review(a)
      <3>1. dir' = dir \union {temp} /\ pc'[a] = "publish"
        BY <1>1, <1>4, <1>6, <2>1, <2>3 DEF Stage, Go
      <3>2. Owned(a)' = {claim, temp}
        BY <1>5, <2>1, <3>1
      <3> QED
        BY <1>2, <1>3, <2>1, <3>1, <3>2, Ranks DEF OnTrack, Staged, Forward
    <2>4. CASE ~Review(a)
      <3>1. dir' = dir \union {temp, scratch} /\ pc'[a] = "work"
        BY <1>1, <1>6, <2>1, <2>2, <2>4 DEF Stage, Go
      <3>2. Owned(a)' = {claim, temp, scratch}
        BY <1>5, <2>1, <3>1
      <3> QED
        BY <1>2, <1>3, <2>1, <2>4, <3>1, <3>2, Ranks DEF OnTrack, Forward
    <2> QED
      BY <2>3, <2>4
  <1>7. CASE Work(a)
    <2>1. pc[a] = "work" /\ Owned(a) = {claim, temp, scratch}
      BY <1>7 DEF Work, OnTrack
    <2>2. dir' = dir \ {scratch} /\ pc'[a] = "publish"
      BY <1>1, <1>7 DEF Work, Go, Undisturbed
    <2>3. Owned(a)' = {claim, temp}
      BY <1>3, <1>5, <2>1, <2>2
    <2> QED
      BY <1>2, <1>3, <2>1, <2>2, <2>3, Ranks DEF OnTrack, Staged, Forward
  <1>8. CASE WorkFails(a)
    <2>1. pc[a] = "work" /\ pc'[a] = "raise" /\ dir' = dir
      BY <1>1, <1>8 DEF WorkFails, Go
    <2>2. ~Review(a) /\ Owned(a)' = {claim, temp, scratch}
      BY <1>5, <2>1 DEF OnTrack
    <2> QED
      BY <1>2, <1>3, <2>1, <2>2, Ranks DEF OnTrack, Forward
  <1>9. CASE CleanUp(a)
    <2>1. PICK removed \in SUBSET {temp, scratch} : dir' = dir \ removed
      BY <1>9 DEF CleanUp
    <2>2. pc[a] = "raise" /\ pc'[a] = "write" /\ Owned(a) = {claim, temp, scratch}
      BY <1>1, <1>9 DEF CleanUp, Go, OnTrack
    <2>3. Owned(a)' = Owned(a) \ removed
      BY <1>5, <2>1
    <2> QED
      BY <1>2, <1>3, <2>1, <2>2, <2>3, Ranks DEF OnTrack, Forward
  <1>10. CASE DiscardReview(a)
    BY <1>10 DEF DiscardReview, OnTrack
  <1>11. CASE WriteFailure(a)
    <2>1. pc[a] = "write" /\ Owned(a) = {claim}
      BY <1>11 DEF WriteFailure, OnTrack, Undisturbed, Owned
    <2>2. dir' = dir \union {temp} /\ pc'[a] = "rehash"
      BY <1>1, <1>4, <1>11, <2>1 DEF WriteFailure, Go, Undisturbed
    <2>3. Owned(a)' = {claim, temp}
      BY <1>5, <2>1, <2>2
    <2> QED
      BY <1>2, <1>3, <2>1, <2>2, <2>3, Ranks DEF OnTrack, Staged, Forward
  <1> QED
    BY <1>6, <1>7, <1>8, <1>9, <1>10, <1>11 DEF Execute, Handle

(* The publication of what is staged, and the release of the claim. *)
LEMMA PublicationOnTrack ==
  ASSUME Inv, TypeOK', NEW a \in Attempts, OnTrack(a), Undisturbed(a), PublishAndRelease(a)
  PROVE  OnTrack(a)' /\ Forward(a)
  <1>1. Acts(a) /\ UNCHANGED phase /\ pc \in [Attempts -> Places]
    BY OthersKeep DEF Acts, Step, Inv, TypeOK
  <1>2. /\ \A q \in 1..(phase'[a] - 1) : Exists("final", q)'
        /\ \A e \in dir' \ Owned(a)' : e.kind = "final" /\ e.phase < phase'[a]
    BY <1>1, TrackKept
  <1>3. ExactlyCompleted(phase[a], Owned(a))
    BY TrackIsExact
  <1>4. ASSUME UNCHANGED <<dir, mode>>
        PROVE  Owned(a)' = Owned(a) /\ Staged(a)' = Staged(a) /\ Published(a)' = Published(a)
               /\ Terminal(a)' = Terminal(a)
    BY <1>1, <1>4, TrackNames DEF Inv, Owned
  <1>5. CASE Publish(a) \/ Rehash(a) \/ Seal(a)
    <2>1. pc[a] \in {"publish", "rehash", "seal"} /\ Owned(a) = Staged(a)
      BY <1>5 DEF Publish, Rehash, Seal, Require, OnTrack
    <2>2. /\ UNCHANGED <<dir, mode>>
          /\ \/ pc[a] = "publish" /\ pc'[a] = "rehash"
             \/ pc[a] = "rehash" /\ pc'[a] = "seal"
             \/ pc[a] = "seal" /\ pc'[a] = "rename"
      BY <1>1, <1>3, <1>5, <2>1 DEF Publish, Rehash, Seal, Require, Go, Undisturbed
    <2> QED
      BY <1>2, <1>4, <2>1, <2>2, Ranks DEF OnTrack, Forward
  <1>6. CASE Rename(a)
    <2> DEFINE claim == Mine(a, "claim")
               temp == Mine(a, "temp")
    <2>1. pc[a] = "rename" /\ Owned(a) = {claim, temp}
      BY <1>6 DEF Rename, OnTrack, Staged
    <2>2. Terminal(a).kind \in Terminals /\ Terminal(a).by = a
      BY DEF Terminal, Mine, Terminals
    <2>3. ~Exists(Terminal(a).kind, phase[a])
      BY <2>1, <2>2, TrackIsClear DEF Inv, Mine, Terminals
    <2>4. /\ dir' = (dir \ {temp}) \union {Terminal(a)} /\ UNCHANGED mode
          /\ pc'[a] = "check-final"
      BY <1>1, <1>6, <2>3 DEF Rename, Go
    <2>5. claim # temp /\ claim.by = a
      BY DEF Mine
    <2>6. Owned(a)' = {claim, Terminal(a)}
      BY <2>1, <2>2, <2>4, <2>5 DEF Owned
    <2>7. Published(a)' = {claim, Terminal(a)}
      BY <1>1, <2>4, TrackNames DEF Inv, Published
    <2> QED
      BY <1>2, <2>1, <2>4, <2>6, <2>7, Ranks DEF OnTrack, Forward
  <1>7. CASE CheckFinal(a) \/ PostRehash(a) \/ Release(a)
    <2>1. pc[a] \in {"check-final", "post", "release"} /\ Owned(a) = Published(a)
      BY <1>7 DEF CheckFinal, PostRehash, Release, Require, OnTrack
    <2>2. /\ UNCHANGED <<dir, mode>>
          /\ \/ pc[a] = "check-final" /\ pc'[a] = "post"
             \/ pc[a] = "post" /\ pc'[a] = "release"
             \/ pc[a] = "release" /\ pc'[a] = "unlink"
      BY <1>1, <1>3, <1>7, <2>1 DEF CheckFinal, PostRehash, Release, Require, Go, Undisturbed
    <2> QED
      BY <1>2, <1>4, <2>1, <2>2, Ranks DEF OnTrack, Forward
  <1>8. CASE Unlink(a)
    <2>1. pc[a] = "unlink" /\ Owned(a) = {Mine(a, "claim"), Terminal(a)}
      BY <1>8 DEF Unlink, OnTrack, Published
    <2>2. dir' = dir \ {Mine(a, "claim")} /\ UNCHANGED mode /\ pc'[a] = "closing"
      BY <1>1, <1>8 DEF Unlink, Go
    <2>3. Mine(a, "claim") # Terminal(a)
      BY DEF Mine, Terminal
    <2>4. Owned(a)' = {Terminal(a)} /\ Terminal(a)' = Terminal(a)
      BY <1>1, <2>1, <2>2, <2>3, TrackNames DEF Inv, Owned
    <2> QED
      BY <1>2, <2>1, <2>2, <2>4, Ranks DEF OnTrack, Forward
  <1>9. CASE Close(a)
    <2>1. pc[a] = "closing" /\ Owned(a) = {Terminal(a)}
      BY <1>9 DEF Close, Require, OnTrack
    <2>2. UNCHANGED <<dir, mode>> /\ pc'[a] \in {"done", "failed"}
      BY <1>1, <1>3, <1>9, <2>1 DEF Close, Require, Go
    <2> QED
      BY <1>2, <1>4, <2>1, <2>2, Ranks DEF OnTrack, Forward
  <1> QED
    BY <1>5, <1>6, <1>7, <1>8, <1>9 DEF PublishAndRelease

(* Whoever moves, an undisturbed attempt stays on its track and goes forward. *)
LEMMA TrackStep ==
  ASSUME Inv, NEW a \in Attempts, OnTrack(a), Undisturbed(a), Undisturbed(a)', [Next]_vars
  PROVE  OnTrack(a)' /\ Forward(a)
  <1>1. TypeOK'
    BY TypeStep DEF Inv
  <1>2. pc[a] \notin {"idle", "check", "prefail"} \union Acquiring \union Acquired
    BY DEF OnTrack, Acquiring, Acquired
  <1>3. CASE Acts(a)
    <2>1. ~Start(a) /\ ~Crash(a)
      BY <1>2 DEF Start, Crash, Go, Undisturbed, Inv, TypeOK
    <2>2. ~Acquire(a)
      BY <1>2 DEF Acquire, CheckPasses, CheckFails, PreExecutionFailure, Scan, Claim, Probe,
                  Unprobe, Rescan, Require, Acquiring, Acquired
    <2> QED
      BY <1>1, <1>3, <2>1, <2>2, WorkOnTrack, PublicationOnTrack DEF Acts, Step
  <1>4. ASSUME NEW b \in Attempts \ {a}, Acts(b) PROVE OnTrack(a)' /\ Forward(a)
    BY <1>1, <1>4, OthersLeaveTrack DEF Forward
  <1>5. CASE Drift \/ UNCHANGED vars
    BY <1>5 DEF Drift, vars, OnTrack, Forward, Owned, Exists, Staged, Published, Terminal,
                Mine, Review
  <1> QED
    BY <1>3, <1>4, <1>5 DEF Next, Acts

(* The places of an attempt that nothing has refused. *)
OnItsWay == {"held", "work", "raise", "write", "publish", "rehash", "seal", "rename",
             "check-final", "post", "release", "unlink", "closing", "done", "failed"}

NeverRefused(a) == [](pc[a] = "held" /\ []Undisturbed(a)
                        => [](pc[a] \in OnItsWay) /\ [][Forward(a)]_vars)

(* What UndisturbedLeaseCloses asks for but the fairness: as long as nothing
   disturbs the holder of a lease, no requirement refuses it, and each of its
   steps takes it nearer to the verified and closed outcome. *)
THEOREM UndisturbedIsNeverRefused ==
  ASSUME NEW a \in Attempts
  PROVE  Spec => NeverRefused(a)
  <1> DEFINE D == Undisturbed(a)
             J == OnTrack(a)
             H == pc[a] = "held"
             W == pc[a] \in OnItsWay
             F == Forward(a)
  <1>1. Init => TrackInv
    BY DEF Init, TrackInv, FinalsBefore, Fresh, Owned
  <1>2. Inv /\ TrackInv /\ [Next]_vars => TrackInv'
    BY TrackInvStep
  <1>3. Spec => []TrackInv
    BY <1>1, <1>2, InvHolds, PTL DEF Spec
  <1>4. Inv /\ TrackInv /\ H /\ D => J
    BY OnTrackStarts
  <1>5. Inv /\ J /\ D /\ D' /\ [Next]_vars => J' /\ [F]_vars
    BY TrackStep
  <1>6. J => W
    BY DEF OnTrack, OnItsWay
  <1> HIDE DEF D, J, H, W, F
  <1>7. Spec => [](H /\ []D => []W /\ [][F]_vars)
    BY <1>3, <1>4, <1>5, <1>6, InvHolds, PTL DEF Spec
  <1> QED
    BY <1>7 DEF D, H, W, F, NeverRefused
=============================================================================
