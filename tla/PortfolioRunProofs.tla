-------------------------- MODULE PortfolioRunProofs --------------------------
(***************************************************************************)
(* Whatever the runs and recoverers of PortfolioRun do, and whatever       *)
(* fails: the settings a live run installed, and the operation it started  *)
(* and has not abandoned, are in the tester only under its lease, and      *)
(* nobody replaces settings under a running operation that was not         *)
(* abandoned.  A run that is the only one of its tester has what a         *)
(* recovery needs whenever its settings are there.                         *)
(***************************************************************************)
EXTENDS PortfolioRun, FiniteSetTheorems, WellFoundedInduction, TLAPS

\* Points at which a run, or a recoverer, has the lease.
Holding == {"owned", "created", "stopped", "snapped", "saved", "prepared", "installing",
    "placed", "installed", "running", "operating", "answered", "collect", "validated",
    "restored", "publish", "ready", "undo", "close"}
Recovering == {"stop", "restore", "restored", "release"}

Holders ==
    /\ \A r \in Runs \cap alive : pc[r] \in Holding => lease = r
    /\ \A v \in Recoverers \cap alive : pc[v] \in Recovering => lease = v

\* Points before a run's settings are first installed; at which it has its snapshot, and a
\* saved one; at which its settings are out of the tester; and at which the tester is idle.
Before == {"idle", "owned", "created", "stopped", "snapped", "saved", "prepared", "installing"}
WithSnapshot == {"snapped", "saved", "prepared", "installing", "placed", "installed",
    "running", "operating", "answered", "collect", "validated", "undo"}
WithSaved == (WithSnapshot \ {"snapped", "undo"}) \cup
    {"restored", "publish", "ready", "released", "completed", "deleting"}
Clean == {"restored", "publish", "ready", "released", "completed", "deleting", "close"}
Quiet == {"stopped", "snapped", "saved", "prepared", "installing", "placed", "installed",
    "running", "collect", "validated"}

\* No snapshot holds the settings of a run that lives or has not installed them.
Foreign ==
    /\ \A r \in Runs \cap alive, q \in Runs : snap[q] # r /\ saved[q] # r
    /\ \A r \in Runs : pc[r] \in Before =>
            settings # r /\ \A q \in Runs : snap[q] # r /\ saved[q] # r

RunFacts ==
    \A r \in Runs \cap alive :
        /\ pc[r] \in {"idle", "owned", "created", "stopped"} => snap[r] = NoRun
        /\ pc[r] \in {"idle", "owned"} => status[r] = "absent"
        /\ pc[r] = "created" => status[r] = "bare"
        /\ pc[r] \in WithSnapshot => snap[r] # NoRun
        /\ pc[r] \in WithSaved => saved[r] # NoRun
        /\ pc[r] \in Clean => settings # r
        /\ pc[r] \notin {"operating", "answered", "ended"} => testing # r \/ r \in abandoned
        /\ pc[r] \in Quiet => testing = NoRun
        /\ pc[r] \in {"operating", "undo"} => testing \in {NoRun, r}

\* A manifest with a status has a saved snapshot, and a recoverer that restores has
\* stopped the tester.
Stamped(r) == status[r] \notin {"absent", "bare"}

RecovererFacts ==
    /\ \A r \in Runs : Stamped(r) => saved[r] # NoRun
    /\ \A v \in Recoverers \cap alive : pc[v] = "restore" => testing = NoRun

Core == TypeOK /\ Holders /\ Foreign /\ RunFacts /\ RecovererFacts /\ TesterUnderLease

\* A recoverer at a manifest is at one that has a status.
AtManifest(v) ==
    v \in alive /\ pc[v] \in RecoverPoints \ {"idle", "next", "ended"} =>
        todo[v] # {} /\ Stamped(Current(v))

IInv == Core /\ \A v \in Recoverers : AtManifest(v)

USE ConstantsAssumption

-----------------------------------------------------------------------------
\* The manifest a recoverer is at is that of a run.
LEMMA CurrentIsARun ==
    ASSUME TypeOK, NEW v \in Recoverers, todo[v] # {}
    PROVE  Current(v) \in Runs /\ Min(todo[v]) \in todo[v]
<1>1. todo[v] \subseteq Nat /\ todo[v] \subseteq DOMAIN Order
  BY DEF TypeOK
<1>2. \E i \in todo[v] : \A j \in todo[v] : i <= j
  <2> DEFINE less == {pair \in Nat \X Nat : pair[1] < pair[2]}
             places == todo[v]
  <2>1. IsWellFoundedOn(less, Nat)
    BY NatLessThanWellFounded DEF OpToRel
  <2>2. \E i \in places : \A j \in places : <<j, i>> \notin less
    <3>1. places \subseteq Nat /\ places # {}
      BY <1>1
    <3> HIDE DEF places, less
    <3> QED BY <3>1, <2>1, WFMin
  <2>3. PICK i \in places : \A j \in places : <<j, i>> \notin less
    BY <2>2
  <2>4. ASSUME NEW j \in places PROVE i <= j
    <3>1. i \in Nat /\ j \in Nat
      BY <1>1
    <3>2. ~(j < i)
      BY Zenon, <2>3, <3>1
    <3> QED BY <3>1, <3>2
  <2> QED BY <2>4
<1>3. Min(todo[v]) \in todo[v]
  BY <1>2 DEF Min
<1> QED BY <1>1, <1>3 DEF Current

\* A step of a run keeps the invariant.
LEMMA RunStepKeeps == ASSUME Core, NEW r \in Runs, RunStep(r) PROVE Core'
<1> USE DEF Core, Stamped, TypeOK, Holders, Foreign, RunFacts, RecovererFacts, TesterUnderLease,
            Holding, Recovering, Before, WithSnapshot, WithSaved, Clean, Quiet, Actors, Values,
            RunPoints, RecoverPoints, Statuses, NoManifest, Final, tester, history, At, Goto, Fine,
            Fault
<1>1. CASE Acquire(r)
  BY <1>1, SMTT(30) DEF Acquire, Advance, Free, disk
<1>2. CASE CreateWorkspace(r)
  BY <1>2, SMTT(30) DEF CreateWorkspace, Transition, Advance, Write
<1>3. CASE StopBefore(r)
  BY <1>3, SMTT(30) DEF StopBefore, Quiesce, FailUnconfirmed, Unconfirmed, Advance, disk
<1>4. CASE TakeSnapshot(r)
  BY <1>4, SMTT(30) DEF TakeSnapshot, Advance, disk, Versions
<1>5. CASE SaveSnapshot(r)
  BY <1>5, SMTT(30) DEF SaveSnapshot, Advance
<1>6. CASE Prepared(r)
  BY <1>6, SMTT(30) DEF Prepared, Transition, Advance, Write
<1>7. CASE Installing(r)
  BY <1>7, SMTT(30) DEF Installing, Transition, Advance, Write
<1>8. CASE Install(r)
  <2>1. CASE settings' = r /\ Goto(r, "placed") /\ UNCHANGED <<status, faults>>
    BY <1>8, <2>1, SMTT(30) DEF Install
  <2>2. CASE settings' \in {settings, r} /\ Fault /\ Raise(r)
    BY <1>8, <2>2, SMTT(30) DEF Install, Raise
  <2> QED BY <1>8, <2>1, <2>2 DEF Install
<1>9. CASE Installed(r)
  BY <1>9, SMTT(30) DEF Installed, Transition, Advance, Write
<1>10. CASE Running(r)
  BY <1>10, SMTT(30) DEF Running, Transition, Advance, Write
<1>11. CASE StartOperation(r)
  BY <1>11, SMTT(30) DEF StartOperation, Advance, disk
<1>12. CASE AwaitOperation(r)
  <2>1. CASE Advance(r, "operating", "answered") /\ Fine
             /\ UNCHANGED <<tester, lease, snap, disk, history>>
    BY <2>1, SMTT(30) DEF Advance, disk
  <2>2. CASE FailUnconfirmed(r, "operating")
    BY <2>2, SMTT(30) DEF FailUnconfirmed, Unconfirmed
  <2>3. CASE At(r, "operating") /\ Fault /\ testing' = NoRun /\ Raise(r)
             /\ UNCHANGED <<settings, edits, lease, alive, snap, saved, listed, history, todo>>
    BY <2>3, SMTT(30) DEF Raise
  <2>4. CASE At(r, "operating") /\ Fault /\ Raise(r) /\ abandoned' = abandoned \cup {r}
             /\ UNCHANGED <<tester, lease, alive, snap, saved, listed, handedBack, todo>>
    BY <2>4, SMTT(30) DEF Raise
  <2> QED BY <1>12, <2>1, <2>2, <2>3, <2>4 DEF AwaitOperation
<1>13. CASE StopAfter(r)
  <2>1. CASE FailUnconfirmed(r, "answered")
    BY <2>1, SMTT(30) DEF FailUnconfirmed, Unconfirmed
  <2>2. CASE Advance(r, "answered", "collect") /\ testing' = NoRun /\ Fine
             /\ UNCHANGED <<settings, edits, lease, snap, disk, history>>
    BY <2>2, SMTT(30) DEF Advance, disk
  <2> QED BY <1>13, <2>1, <2>2 DEF StopAfter, Quiesce
<1>14. CASE Validate(r)
  BY <1>14, SMTT(30) DEF Validate, Transition, Advance, Write
<1>15. CASE Restore(r)
  <2>1. snap[r] \in Values /\ snap[r] # r /\ \A q \in Runs \cap alive : snap[r] # q
    BY <1>15, SMTT(30) DEF Restore
  <2>2. CASE settings' = snap[r] /\ Goto(r, "restored") /\ UNCHANGED <<status, faults>>
    BY <1>15, <2>1, <2>2, SMTT(30) DEF Restore
  <2>3. CASE /\ Fault /\ settings' \in {settings, snap[r]}
             /\ Write(r, "RESTORE_FAILED") /\ Goto(r, "ended")
    BY <1>15, <2>1, <2>3, SMTT(30) DEF Restore, Write
  <2> QED BY <1>15, <2>2, <2>3 DEF Restore
<1>16. CASE Restored(r)
  BY <1>16, SMTT(30) DEF Restored, Advance, Write
<1>17. CASE Ready(r)
  BY <1>17, SMTT(30) DEF Ready, Transition, Advance, Write
<1>18. CASE Release(r)
  <2>1. CASE Fail(r, "ready")
    BY <2>1, SMTT(30) DEF Fail, Raise
  <2>2. CASE ~Fail(r, "ready")
    <3>1. /\ r \in alive /\ pc[r] = "ready" /\ lease' = Nobody
          /\ pc' = [pc EXCEPT ![r] = "released"] /\ handedBack' = handedBack \cup {r}
          /\ UNCHANGED <<settings, edits, testing, faults, alive, snap, status, saved, listed,
                         todo, abandoned>>
      BY <1>18, <2>2 DEF Release, Advance, disk
    <3> QED BY <3>1, SMTT(30)
  <2> QED BY <2>1, <2>2
<1>19. CASE Complete(r)
  BY <1>19, SMTT(30) DEF Complete, Transition, Advance, Write
<1>20. CASE Cleanup(r) \/ Delete(r)
  BY <1>20, SMTT(30) DEF Cleanup, Delete, Transition, Advance, Write, disk
<1>21. CASE Undo(r)
  <2>1. r \in Runs \cap alive /\ snap[r] \in Values
    BY <1>21 DEF Undo
  <2>2. CASE settings' = snap[r] /\ Goto(r, "close") /\ Fine /\ UNCHANGED status
    BY <1>21, <2>1, <2>2, SMTT(30) DEF Undo
  <2>3. CASE Fault /\ Goto(r, "ended") /\ UNCHANGED settings
    <3>1. status' = [status EXCEPT ![r] = status'[r]]
          /\ status'[r] \in {status[r], "RESTORE_FAILED"}
          /\ (status[r] \in NoManifest => status'[r] = status[r])
          /\ (status[r] \notin NoManifest => status'[r] = "RESTORE_FAILED")
      BY <1>21, <2>3 DEF Undo
    <3>2. UNCHANGED <<edits, testing, lease, alive, snap, saved, listed, handedBack, abandoned,
                      todo>>
      BY <1>21 DEF Undo
    <3> QED BY <2>1, <2>3, <3>1, <3>2, SMTT(30)
  <2> QED BY <1>21, <2>2, <2>3 DEF Undo
<1>22. CASE Close(r)
  <2>1. CASE lease' = Nobody
    BY <1>22, <2>1, SMTT(30) DEF Close, Advance, disk
  <2>2. CASE UNCHANGED <<lease, handedBack>>
    BY <1>22, <2>2, SMTT(30) DEF Close, Advance, disk
  <2> QED BY <1>22, <2>1, <2>2 DEF Close
<1>23. CASE Fails(r)
  <2>1. PICK from \in {"owned", "stopped", "snapped", "prepared", "running", "collect",
                      "publish"} : Fail(r, from)
    BY <1>23, SMTT(30) DEF Fails
  <2> QED BY <2>1 DEF Fail, Raise
<1> QED
  BY Zenon, <1>1, <1>2, <1>3, <1>4, <1>5, <1>6, <1>7, <1>8, <1>9, <1>10, <1>11, <1>12, <1>13, <1>14,
     <1>15, <1>16, <1>17, <1>18, <1>19, <1>20, <1>21, <1>22, <1>23 DEF RunStep

\* So does a step of a recoverer.
LEMMA RecoverStepKeeps ==
    ASSUME IInv, NEW v \in Recoverers, RecoverStep(v) \/ StartRecoverer(v) PROVE Core'
<1>a. Core
  BY DEF IInv
<1>b. pc[v] \in RecoverPoints \ {"idle", "next", "ended"} /\ v \in alive =>
            Current(v) \in Runs /\ Stamped(Current(v))
  BY CurrentIsARun DEF IInv, Core, AtManifest
<1> USE DEF Core, Stamped, TypeOK, Holders, Foreign, RunFacts, RecovererFacts, TesterUnderLease,
            Holding, Recovering, Before, WithSnapshot, WithSaved, Clean, Quiet, Actors, Values,
            RunPoints, RecoverPoints, Statuses, NoManifest, Unreadable, Done, tester, At, Goto, Fine,
            Fault, RecoverFrame
<1>1. CASE Discover(v)
  BY <1>a, <1>b, <1>1, SMTT(30) DEF Discover, Incomplete
<1>2. CASE Load(v)
  BY <1>a, <1>b, <1>2, SMTT(30) DEF Load, Incomplete
<1>3. CASE Finish(v)
  BY <1>a, <1>b, <1>3, SMTT(30) DEF Finish, Free
\* What a recoverer writes into the manifest it is at is a status, and stays one.
<1>c. ASSUME NEW s \in Statuses \ {"absent", "bare"}, v \in alive,
             pc[v] \in RecoverPoints \ {"idle", "next", "ended"},
             \/ Mark(v, s) \/ Replace(v, "stop") \/ Replace(v, "restore")
             \/ Write(Current(v), s) \/ UNCHANGED status
      PROVE  /\ status' \in [Runs -> Statuses]
             /\ \A q \in Runs : status'[q] = status[q] \/ (Stamped(q) /\ Stamped(q)')
  BY <1>a, <1>b, <1>c DEF Mark, Replace, Write
<1>4. CASE Interrupt(v)
  <2>1. /\ status' \in [Runs -> Statuses]
        /\ \A q \in Runs : status'[q] = status[q] \/ (Stamped(q) /\ Stamped(q)')
    BY <1>c, <1>4 DEF Interrupt
  <2>2. /\ \E to \in {"ended", "acquire"} : pc' = [pc EXCEPT ![v] = to]
        /\ UNCHANGED <<settings, edits, testing, lease, faults, alive, snap, saved, listed,
                       handedBack, abandoned, todo>>
    BY <1>4 DEF Interrupt
  <2> QED BY <1>a, <2>1, <2>2, SMTT(30)
<1>5. CASE AcquireToRecover(v)
  BY <1>a, <1>b, <1>5, SMTT(30) DEF AcquireToRecover, Free, RecoveryFails, Mark
<1>6. CASE StopToRecover(v)
  BY <1>a, <1>b, <1>6, SMTT(30) DEF StopToRecover, RecoveryFails, Replace, Mark
<1>7. CASE RestoreSaved(v)
  <2>1. /\ status' \in [Runs -> Statuses]
        /\ \A q \in Runs : status'[q] = status[q] \/ (Stamped(q) /\ Stamped(q)')
    <3>1. \/ Mark(v, "RECOVERY_FAILED") \/ Replace(v, "restore")
          \/ Write(Current(v), "RECOVERY_FAILED")
      BY <1>7, Zenon DEF RestoreSaved, RecoveryFails
    <3> QED BY <1>c, <1>7, <3>1 DEF RestoreSaved
  <2>2. /\ \E to \in {"ended", "restored"} : pc' = [pc EXCEPT ![v] = to]
        /\ settings' = settings \/ settings' = saved[Current(v)]
        /\ listed' \in [Runs -> SUBSET {"stop", "restore"}]
        /\ faults' \in 0..MaxFaults
        /\ v \in alive /\ pc[v] = "restore"
        /\ UNCHANGED <<edits, testing, lease, alive, snap, saved, handedBack, abandoned, todo>>
    BY <1>a, <1>b, <1>7, SMTT(30) DEF RestoreSaved, RecoveryFails
  <2>3. /\ saved[Current(v)] \in Values
        /\ \A q \in Runs \cap alive : saved[Current(v)] # q
        /\ \A q \in Runs : pc[q] \in Before => saved[Current(v)] # q
    BY <1>a, <1>b, <2>2
  <2> HIDE DEF Current
  <2>4. TypeOK'
    BY <1>a, <2>1, <2>2, <2>3
  <2>5. Holders' /\ Foreign' /\ TesterUnderLease'
    BY <1>a, <2>2, <2>3, SMTT(30)
  <2>6. RunFacts' /\ RecovererFacts'
    BY <1>a, <2>1, <2>2, <2>3, SMTT(30)
  <2> QED BY <2>4, <2>5, <2>6
<1>8. CASE ReadyToRelease(v)
  <2>1. /\ status' \in [Runs -> Statuses]
        /\ \A q \in Runs : status'[q] = status[q] \/ (Stamped(q) /\ Stamped(q)')
    BY <1>a, <1>b, <1>8, SMTT(30) DEF ReadyToRelease, RecoveryFails, Mark
  <2>2. /\ \E to \in {"ended", "release"} : pc' = [pc EXCEPT ![v] = to]
        /\ listed' \in [Runs -> SUBSET {"stop", "restore"}]
        /\ v \in alive /\ pc[v] = "restored"
        /\ UNCHANGED <<settings, edits, testing, lease, faults, alive, snap, saved, handedBack,
                       abandoned, todo>>
    BY <1>a, <1>b, <1>8, SMTT(30) DEF ReadyToRelease, RecoveryFails
  <2> QED BY <1>a, <2>1, <2>2, SMTT(30)
<1>9. CASE ReleaseRecovered(v)
  <2>1. /\ \E to \in {"settle", "ended"} : pc' = [pc EXCEPT ![v] = to]
        /\ v \in alive /\ pc[v] = "release"
        /\ lease' \in {lease, Nobody} /\ (lease' = lease => pc'[v] = "ended")
        /\ faults' \in 0..MaxFaults /\ handedBack' \subseteq Runs
        /\ UNCHANGED <<settings, edits, testing, alive, snap, status, saved, listed, todo,
                       abandoned>>
    BY <1>a, <1>b, <1>9, SMTT(30) DEF ReleaseRecovered
  <2> QED BY <1>a, <2>1, SMTT(30)
<1>10. CASE Settle(v)
  BY <1>a, <1>b, <1>10, SMTT(30) DEF Settle, Mark
<1>11. CASE StartRecoverer(v)
  BY <1>a, <1>b, <1>11, SMTT(30) DEF StartRecoverer, disk, history
<1> QED BY <1>1, <1>2, <1>3, <1>4, <1>5, <1>6, <1>7, <1>8, <1>9, <1>10, <1>11 DEF RecoverStep

\* So do the end and the death of a process.
LEMMA ProcessStepKeeps == ASSUME Core, NEW a \in Actors, Exit(a) \/ Crash(a) PROVE Core'
<1> USE DEF Core, Stamped, TypeOK, Holders, Foreign, RunFacts, RecovererFacts, TesterUnderLease,
            Holding, Recovering, Before, WithSnapshot, WithSaved, Clean, Quiet, Actors, Values,
            RunPoints, RecoverPoints, tester, disk, history, At, Fault, Die, Current
<1>1. CASE Exit(a)
  BY <1>1, SMTT(30) DEF Exit
<1>2. CASE Crash(a)
  BY <1>2, SMTT(30) DEF Crash
<1> QED BY <1>1, <1>2

\* So do the end of an operation and another user's edit.
LEMMA OutsideStepKeeps == ASSUME Core, TesterEnds \/ EditSettings PROVE Core'
<1> USE DEF Core, Stamped, TypeOK, Holders, Foreign, RunFacts, RecovererFacts, TesterUnderLease,
            Holding, Recovering, Before, WithSnapshot, WithSaved, Clean, Quiet, Actors, Values,
            Versions, RunPoints, RecoverPoints, disk, history, Current
<1>1. CASE TesterEnds
  BY <1>1, SMTT(30) DEF TesterEnds
<1>2. CASE EditSettings
  BY <1>2, SMTT(30) DEF EditSettings, Free
<1> QED BY <1>1, <1>2

-----------------------------------------------------------------------------
(* A recoverer that is at a manifest stays at one that has a status.         *)

LEMMA StampsStay == ASSUME Core, NEW r \in Runs, RunStep(r)
                    PROVE  \A q \in Runs : Stamped(q) => Stamped(q)'
<1> USE DEF Core, TypeOK, RunFacts, Stamped, At, Statuses, NoManifest, Final
<1>1. CASE CreateWorkspace(r)
  BY <1>1 DEF CreateWorkspace, Transition, Advance, Write
<1>2. CASE ~CreateWorkspace(r)
  BY <1>2 DEF RunStep, Acquire, StopBefore, TakeSnapshot, SaveSnapshot, Prepared, Installing,
              Install, Installed, Running, StartOperation, AwaitOperation, StopAfter, Validate,
              Restore, Restored, Ready, Release, Complete, Cleanup, Delete, Undo, Close, Fails, Fail,
              Quiesce, FailUnconfirmed, Unconfirmed, Raise, Transition, Advance, Write, disk
<1> QED BY <1>1, <1>2

LEMMA RunsLeaveRecoverers == ASSUME NEW r \in Runs, RunStep(r), TypeOK
                             PROVE  /\ todo' = todo /\ alive' = alive
                                    /\ \A v \in Recoverers : pc'[v] = pc[v]
BY DEF TypeOK, RunStep, Acquire, CreateWorkspace, StopBefore, TakeSnapshot, SaveSnapshot, Prepared,
       Installing, Install, Installed, Running, StartOperation, AwaitOperation, StopAfter,
       Validate, Restore, Restored, Ready, Release, Complete, Cleanup, Delete, Undo, Close, Fails, Fail,
       Quiesce, FailUnconfirmed, Unconfirmed, Raise, Transition, Advance, Actors, Goto

\* What a recoverer is at depends on its own list alone.
LEMMA SameList == ASSUME NEW v \in Recoverers, todo'[v] = todo[v] PROVE Current(v)' = Current(v)
BY DEF Current

LEMMA RecoverersStay == ASSUME IInv, NEW v \in Recoverers, RecoverStep(v) \/ StartRecoverer(v)
                        PROVE  \A w \in Recoverers : AtManifest(w)'
<1>1. Core
  BY DEF IInv
<1>2. \A q \in Runs : Stamped(q) => Stamped(q)'
  <2>1. \A q \in Runs : status'[q] = status[q] \/ status'[q] \notin {"absent", "bare"}
    BY <1>1 DEF RecoverStep, StartRecoverer, Discover, Load, Finish, Interrupt, AcquireToRecover,
              StopToRecover, RestoreSaved, ReadyToRelease, ReleaseRecovered, Settle,
              RecoveryFails, Mark, Replace, Write, Core, TypeOK, disk
  <2> QED BY <2>1 DEF Stamped
<1>3. ASSUME NEW w \in Recoverers, w # v PROVE AtManifest(w)'
  <2>1. pc'[w] = pc[w] /\ todo'[w] = todo[w] /\ (w \in alive' => w \in alive)
    BY <1>1, <1>3 DEF RecoverStep, StartRecoverer, Discover, Load, Finish, Interrupt,
              AcquireToRecover, StopToRecover, RestoreSaved, ReadyToRelease, ReleaseRecovered,
              Settle, RecoveryFails, Goto, RecoverFrame, Core, TypeOK, Actors
  <2> QED BY <1>1, <1>2, <2>1, SameList, CurrentIsARun DEF AtManifest, IInv, Core
<1>4. AtManifest(v)'
  <2>1. CASE \/ Discover(v) \/ Settle(v) \/ StartRecoverer(v)
    <3>1. pc'[v] \in {"idle", "next", "ended"}
      BY <1>1, <2>1 DEF Discover, Settle, StartRecoverer, Goto, Core, TypeOK, Actors
    <3> QED BY <3>1 DEF AtManifest
  <2>2. CASE Load(v)
    <3>1. todo'[v] = todo[v] /\ status' = status /\ v \in alive
      BY <2>2 DEF Load, At
    <3>2. pc'[v] = "ended" \/ (todo[v] # {} /\ Incomplete(Current(v)))
      BY <1>1, <2>2 DEF Load, Goto, Core, TypeOK, Actors
    <3> QED BY <3>1, <3>2, SameList DEF AtManifest, Stamped, Incomplete, NoManifest
  <2>3. CASE ~(Discover(v) \/ Settle(v) \/ StartRecoverer(v) \/ Load(v))
    <3>1. pc[v] \in RecoverPoints \ {"idle", "next", "ended"} /\ todo'[v] = todo[v] /\ v \in alive
      BY <1>1, <2>3 DEF RecoverStep, Finish, Interrupt, AcquireToRecover, StopToRecover,
              RestoreSaved, ReadyToRelease, ReleaseRecovered, At, RecoverPoints
    <3> QED BY <1>1, <1>2, <3>1, SameList, CurrentIsARun DEF AtManifest, IInv, Core
  <2> QED BY <2>1, <2>2, <2>3
<1> QED BY <1>3, <1>4

-----------------------------------------------------------------------------
LEMMA InitIInv == Init => IInv
BY DEF Init, IInv, Core, AtManifest, Stamped, TypeOK, Holders, Foreign, RunFacts,
       RecovererFacts, TesterUnderLease, Holding, Recovering, Before, WithSnapshot, WithSaved,
       Clean, Quiet, Actors, Values, Versions, RunPoints, RecoverPoints, Statuses

LEMMA NextIInv == IInv /\ [Next]_vars => IInv'
<1> SUFFICES ASSUME IInv, [Next]_vars PROVE IInv'
  OBVIOUS
<1>1. Core /\ \A v \in Recoverers : AtManifest(v)
  BY DEF IInv
<1>2. CASE \E r \in Runs : RunStep(r)
  <2>1. PICK r \in Runs : RunStep(r)
    BY <1>2
  <2>2. ASSUME NEW v \in Recoverers PROVE AtManifest(v)'
    <3>1. todo'[v] = todo[v] /\ alive' = alive /\ pc'[v] = pc[v]
      BY <1>1, <2>1, RunsLeaveRecoverers DEF Core
    <3> QED BY <1>1, <2>1, <3>1, SameList, StampsStay, CurrentIsARun DEF AtManifest, Core
  <2> QED BY <1>1, <2>1, <2>2, RunStepKeeps DEF IInv
<1>3. CASE \E v \in Recoverers : RecoverStep(v) \/ StartRecoverer(v)
  BY <1>3, RecoverStepKeeps, RecoverersStay DEF IInv
<1>4. ASSUME \/ \E a \in Actors : Exit(a) \/ Crash(a)
             \/ TesterEnds \/ EditSettings \/ UNCHANGED vars
      PROVE  IInv'
  <2>1. Core'
    <3>1. CASE UNCHANGED vars
      BY <1>1, <3>1 DEF vars, Core, TypeOK, Holders, Foreign, RunFacts, RecovererFacts, Stamped,
                        TesterUnderLease
    <3> QED BY <1>1, <1>4, <3>1, ProcessStepKeeps, OutsideStepKeeps
  <2>2. todo' = todo /\ alive' \subseteq alive /\ pc' = pc /\ status' = status
    BY <1>4 DEF Exit, Crash, TesterEnds, EditSettings, vars, Die, disk
  <2> QED BY <1>1, <2>1, <2>2, SameList DEF IInv, AtManifest, Stamped
<1> QED BY <1>2, <1>3, <1>4 DEF Next

LEMMA Invariance == Spec => []IInv
<1>1. IInv /\ [Next]_vars => IInv'
  BY NextIInv
<1> QED BY <1>1, InitIInv, PTL DEF Spec

\* The variables hold what the manifest, the lock file and the tester can hold.
THEOREM TypeCorrect == Spec => []TypeOK
<1>1. IInv => TypeOK
  BY DEF IInv, Core
<1> QED BY <1>1, Invariance, PTL

\* A live run's settings, and its operation unless it was abandoned, are in the tester only
\* under its lease, in any number of runs and recoverers that interleave, fail and die.
THEOREM LeaseCovers == Spec => []TesterUnderLease
<1>1. IInv => TesterUnderLease
  BY DEF IInv, Core
<1> QED BY <1>1, Invariance, PTL

\* Nobody replaces the settings of a tester that executes an operation which was not
\* abandoned: every other path to an install or a restore has attested it stopped.
THEOREM SwapsAreQuiet == Spec => NoSwapUnderTest
<1>1. IInv /\ [Next]_vars => [settings' # settings => testing \in {NoRun} \cup abandoned]_vars
  <2> SUFFICES ASSUME IInv, Next, settings' # settings PROVE testing \in {NoRun} \cup abandoned
    BY DEF vars
  <2> USE DEF IInv, Core, RunFacts, RecovererFacts, Quiet, At
  <2>1. CASE \E r \in Runs : RunStep(r)
    <3>1. PICK r \in Runs : Install(r) \/ Undo(r) \/ Restore(r)
      BY <2>1 DEF RunStep, Acquire, CreateWorkspace, StopBefore, TakeSnapshot, SaveSnapshot,
                  Prepared, Installing, Installed, Running, StartOperation, AwaitOperation,
                  StopAfter, Validate, Restored, Ready, Release, Complete, Cleanup, Delete, Close, Fails,
                  Fail, Quiesce, FailUnconfirmed, Transition, tester
    <3> QED BY <3>1 DEF Install, Undo, Restore
  <2>2. CASE \E v \in Recoverers : RecoverStep(v) \/ StartRecoverer(v)
    <3>1. PICK v \in Recoverers : RestoreSaved(v)
      BY <2>2 DEF RecoverStep, StartRecoverer, Discover, Load, Finish, Interrupt,
                  AcquireToRecover, StopToRecover, ReadyToRelease, ReleaseRecovered, Settle, tester
    <3> QED BY <3>1 DEF RestoreSaved
  <2>3. CASE \/ \E a \in Actors : Exit(a) \/ Crash(a)
             \/ TesterEnds \/ EditSettings
    BY <2>3 DEF Exit, Crash, TesterEnds, EditSettings, tester
  <2> QED BY <2>1, <2>2, <2>3 DEF Next
<1> QED BY <1>1, Invariance, PTL DEF Spec, NoSwapUnderTest

-----------------------------------------------------------------------------
(* A single run, beside any number of recoverers.                            *)

OnlyOneRun == \A p, q \in Runs : p = q

\* The run does not install again, and its settings are out of the tester; the points of a
\* recoverer at which this is so, until it has settled the run.
Past(r) ==
    /\ settings # r
    /\ r \in alive => pc[r] \in {"publish", "ready", "released", "completed", "deleting", "close", "ended"}
Settling == {"finish", "restored", "release", "settle"}
BeingSettled == \E v \in Recoverers \cap alive : pc[v] \in Settling

\* Its manifest is one that recover takes up, or would but for a replaced evidence file.
Recoverable(r) == Incomplete(r) \/ status[r] = "stale"

Alone(r) ==
    /\ pc[r] \in RunPoints
    /\ snap[r] # r /\ saved[r] # r
    /\ At(r, "prepared") \/ At(r, "installing") \/ settings = r => Recoverable(r)
    /\ status[r] = "READY_TO_RELEASE" \/ BeingSettled => Past(r)

LEMMA AloneInRun ==
    ASSUME Core, NEW r \in Runs, Alone(r), RunStep(r) PROVE Alone(r)'
<1>1. BeingSettled' <=> BeingSettled
  BY RunsLeaveRecoverers DEF BeingSettled, Core
<1>2. /\ r \in Actors /\ pc \in [Actors -> RunPoints \cup RecoverPoints]
      /\ status \in [Runs -> Statuses] /\ snap \in [Runs -> Values \cup {NoRun}]
      /\ saved \in [Runs -> Values \cup {NoRun}] /\ r # NoRun
      /\ pc[r] \in Before => settings # r
      /\ r \in alive /\ pc[r] \in Clean => settings # r
      /\ r \in alive /\ pc[r] \in {"idle", "owned"} => status[r] = "absent"
  BY DEF Core, TypeOK, Actors, Foreign, RunFacts
<1> HIDE DEF BeingSettled
<1> USE <1>1, <1>2 DEF Alone, Past, Recoverable, Incomplete, RunPoints, Before, Clean, NoManifest,
                       Unreadable, Done, Final, tester, disk, history, At, Goto, Fine, Advance,
                       Transition, Write
<1>3. CASE Acquire(r) \/ CreateWorkspace(r)
  BY <1>3 DEF Acquire, CreateWorkspace
<1>4. CASE StopBefore(r) \/ StopAfter(r)
  BY <1>4 DEF StopBefore, StopAfter, Quiesce, FailUnconfirmed, Unconfirmed
<1>5. CASE TakeSnapshot(r) \/ SaveSnapshot(r)
  BY <1>5 DEF TakeSnapshot, SaveSnapshot
<1>6. CASE Prepared(r) \/ Installing(r)
  BY <1>6 DEF Prepared, Installing
<1>7. CASE Install(r)
  BY <1>7 DEF Install, Raise
<1>8. CASE Installed(r) \/ Running(r) \/ StartOperation(r)
  BY <1>8 DEF Installed, Running, StartOperation
<1>9. CASE AwaitOperation(r)
  BY <1>9 DEF AwaitOperation, FailUnconfirmed, Unconfirmed, Raise
<1>10. CASE Validate(r) \/ Restored(r) \/ Ready(r)
  BY <1>10 DEF Validate, Restored, Ready
<1>11. CASE Restore(r)
  BY <1>11 DEF Restore
<1>12. CASE Release(r)
  BY <1>12 DEF Release, Fail, Raise
<1>13. CASE Complete(r) \/ Cleanup(r) \/ Delete(r)
  BY <1>13 DEF Complete, Cleanup, Delete
<1>14. CASE Undo(r)
  BY <1>14 DEF Undo
<1>15. CASE Close(r)
  BY <1>15 DEF Close
<1>16. CASE Fails(r)
  BY <1>16 DEF Fails, Fail, Raise
<1> QED
  BY Zenon, <1>3, <1>4, <1>5, <1>6, <1>7, <1>8, <1>9, <1>10, <1>11, <1>12, <1>13, <1>14, <1>15,
     <1>16 DEF RunStep

LEMMA AloneInRecovery ==
    ASSUME OnlyOneRun, IInv, NEW r \in Runs, Alone(r),
           NEW v \in Recoverers, RecoverStep(v) \/ StartRecoverer(v)
    PROVE  Alone(r)'
<1> USE DEF At, Goto, RecoverFrame, tester, disk
<1>1. /\ r # v /\ r \in Actors /\ v \in Actors /\ pc \in [Actors -> RunPoints \cup RecoverPoints]
      /\ status \in [Runs -> Statuses]
      /\ v \in alive /\ pc[v] \in Recovering => lease = v
      /\ r \in alive /\ pc[r] \in Holding => lease = r
      /\ r \in alive /\ pc[r] = "idle" => status[r] = "absent"
  BY DEF IInv, Core, TypeOK, Actors, Holders, RunFacts
<1>2. v \in alive /\ pc[v] \in RecoverPoints \ {"idle", "next", "ended"}
        => Current(v) = r /\ Stamped(r)
  BY CurrentIsARun DEF IInv, Core, AtManifest, OnlyOneRun
<1>3. /\ snap' = snap /\ saved' = saved /\ pc'[r] = pc[r] /\ (r \in alive' <=> r \in alive)
      /\ \A w \in Recoverers : w # v => pc'[w] = pc[w] /\ (w \in alive' <=> w \in alive)
  BY <1>1, Zenon DEF RecoverStep, StartRecoverer, Discover, Load, Finish, Interrupt, AcquireToRecover,
             StopToRecover, RestoreSaved, ReadyToRelease, ReleaseRecovered, Settle, RecoveryFails,
             Actors
<1>4. settings' = settings \/ (RestoreSaved(v) /\ settings' # r)
  <2>1. CASE RestoreSaved(v)
    BY <1>1, <1>2, <2>1 DEF RestoreSaved, RecoverPoints, Alone
  <2>2. CASE ~RestoreSaved(v)
    BY <2>2 DEF RecoverStep, StartRecoverer, Discover, Load, Finish, Interrupt, AcquireToRecover,
                StopToRecover, ReadyToRelease, ReleaseRecovered, Settle
  <2> QED BY <2>1, <2>2
<1>5. Past(r) => Past(r)'
  BY <1>3, <1>4 DEF Past
\* A recoverer that restores has the lease, so the run has given it up or is dead.
<1>6. ASSUME v \in alive, pc[v] \in Recovering, settings' # r PROVE Past(r)'
  <2>1. r \in alive => pc[r] \notin Holding
    BY <1>1, <1>6
  <2>2. r \in alive => pc[r] # "idle"
    BY <1>1, <1>2, <1>6 DEF Recovering, RecoverPoints, Stamped
  <2> QED BY <1>3, <1>6, <2>1, <2>2 DEF Past, Alone, RunPoints, Holding
<1>7. BeingSettled' => BeingSettled \/ (v \in alive' /\ pc'[v] \in Settling)
  BY <1>3 DEF BeingSettled
<1>8. v \in alive' /\ pc'[v] \in Settling => Past(r)'
  <2>1. CASE v \in alive /\ pc[v] \in Settling
    BY <1>5, <2>1 DEF Alone, BeingSettled
  <2>2. CASE Load(v)
    <3>1. todo[v] # {} => Current(v) = r
      BY CurrentIsARun DEF IInv, Core, OnlyOneRun
    <3>2. pc'[v] \in Settling => status[r] = "READY_TO_RELEASE"
      BY <1>1, <2>2, <3>1 DEF Load, Settling
    <3> QED BY <1>5, <2>2, <3>2 DEF Alone
  <2>3. CASE RestoreSaved(v)
    <3>1. v \in alive /\ pc[v] = "restore" /\ pc'[v] \in {"restored", "ended"}
          /\ (pc'[v] = "restored" => settings' = saved[Current(v)])
      BY <1>1, <2>3 DEF RestoreSaved, RecoveryFails
    <3> QED BY <1>2, <1>6, <3>1 DEF Alone, Settling, Recovering, RecoverPoints
  <2>4. CASE ~(v \in alive /\ pc[v] \in Settling) /\ ~Load(v) /\ ~RestoreSaved(v)
    BY <1>1, <2>4 DEF RecoverStep, StartRecoverer, Discover, Finish, Interrupt, AcquireToRecover,
                      StopToRecover, ReadyToRelease, ReleaseRecovered, Settle, RecoveryFails,
                      Settling
  <2> QED BY <2>1, <2>2, <2>3, <2>4
<1>9. status'[r] = "READY_TO_RELEASE" => Past(r)'
  <2>1. CASE ReadyToRelease(v)
    BY <1>5, <2>1 DEF ReadyToRelease, Alone, BeingSettled, Settling
  <2>2. CASE ~ReadyToRelease(v)
    <3>1. status'[r] = "READY_TO_RELEASE" => status[r] = "READY_TO_RELEASE"
      BY <1>1, <2>2 DEF RecoverStep, StartRecoverer, Discover, Load, Finish, Interrupt,
                AcquireToRecover, StopToRecover, RestoreSaved, ReleaseRecovered, Settle,
                RecoveryFails, Mark, Replace, Write
    <3> QED BY <1>5, <3>1 DEF Alone
  <2> QED BY <2>1, <2>2
\* Only the last step of a recovery completes the manifest.
<1>10. At(r, "prepared") \/ At(r, "installing") \/ settings' = r => Recoverable(r)'
  <2>1. CASE Settle(v)
    <3>1. Past(r)
      BY <2>1 DEF Settle, Alone, BeingSettled, Settling
    <3> QED BY <1>4, <2>1, <3>1 DEF Past, Settle
  <2>2. CASE ~Settle(v)
    <3>1. Recoverable(r) => Recoverable(r)'
      BY <1>1, <2>2 DEF RecoverStep, StartRecoverer, Discover, Load, Finish, Interrupt,
                AcquireToRecover, StopToRecover, RestoreSaved, ReadyToRelease, ReleaseRecovered,
                RecoveryFails, Mark, Replace, Write, Recoverable, Incomplete, Done, NoManifest,
                Unreadable
    <3> QED BY <1>4, <3>1 DEF Alone
  <2> QED BY <2>1, <2>2
<1> QED BY <1>3, <1>5, <1>7, <1>8, <1>9, <1>10 DEF Alone

LEMMA AloneElsewhere ==
    ASSUME Core, NEW r \in Runs, Alone(r),
           \/ \E a \in Actors : Exit(a) \/ Crash(a)
           \/ TesterEnds \/ EditSettings \/ UNCHANGED vars
    PROVE  Alone(r)'
<1>1. /\ snap' = snap /\ saved' = saved /\ status' = status /\ pc' = pc /\ alive' \subseteq alive
      /\ settings' # settings => settings' # r
  BY DEF Exit, Crash, TesterEnds, EditSettings, Die, vars, tester, disk, Core, TypeOK, Versions
<1>2. Past(r) => Past(r)'
  BY <1>1 DEF Past
<1>3. BeingSettled' => BeingSettled
  BY <1>1 DEF BeingSettled
<1> QED BY <1>1, <1>2, <1>3 DEF Alone, At, Recoverable, Incomplete

\* With a single run, whatever recoverers are started beside it and whatever fails: its
\* settings are in the tester only with a saved snapshot of other settings and a manifest that
\* discover_incomplete takes up, or would but for an evidence file replaced since.
THEOREM InstalledRecoverable == ASSUME OnlyOneRun PROVE Spec => []InstalledIsRecoverable
<1> DEFINE J == IInv /\ \A r \in Runs : Alone(r)
<1>1. Init => J
  <2> SUFFICES ASSUME Init, NEW r \in Runs PROVE Alone(r)
    BY InitIInv
  <2> QED
    BY DEF Init, Alone, RunPoints, At, Actors, BeingSettled, Settling, Versions
<1>2. J /\ [Next]_vars => J'
  <2> SUFFICES ASSUME J, [Next]_vars, NEW r \in Runs PROVE Alone(r)'
    BY NextIInv
  <2>1. Core
    BY DEF IInv
  <2>2. CASE \E q \in Runs : RunStep(q)
    BY <2>1, <2>2, AloneInRun DEF OnlyOneRun
  <2>3. CASE \E v \in Recoverers : RecoverStep(v) \/ StartRecoverer(v)
    BY <2>3, AloneInRecovery
  <2>4. CASE \/ \E a \in Actors : Exit(a) \/ Crash(a)
             \/ TesterEnds \/ EditSettings \/ UNCHANGED vars
    BY <2>1, <2>4, AloneElsewhere
  <2> QED BY <2>2, <2>3, <2>4 DEF Next
<1>3. J => InstalledIsRecoverable
  BY DEF IInv, Core, RecovererFacts, Stamped, Alone, Recoverable, Incomplete, NoManifest,
         InstalledIsRecoverable
<1> QED BY <1>1, <1>2, <1>3, PTL DEF Spec
=============================================================================
