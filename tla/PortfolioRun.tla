---------------------------- MODULE PortfolioRun ----------------------------
(***************************************************************************)
(* PortfolioTesterRunner of src/src/mrs3/portfolio/runner.py: a run swaps  *)
(* the tester's settings for its own under the target lease, keeps a       *)
(* durable manifest of how far it got, and restores the settings; recover  *)
(* does it for the runs that a crash or a failure left incomplete.         *)
(*                                                                         *)
(* A run is one attempt, in a process of its own, and so is a recoverer,   *)
(* which is started again whenever its process ends.  A live process keeps *)
(* the lease it did not release; the lease of a dead one counts as free    *)
(* (module TesterTargetLock).  Writes of the manifest itself do not fail.  *)
(***************************************************************************)
EXTENDS Naturals, Sequences, FiniteSetsExt

CONSTANTS
    Runs, Recoverers,
    Order,          \* the runs in the order of their manifests' paths
    Nobody, NoRun,
    OnlyAfterRestart, \* TRUE: nobody starts a recovery while a run is under way
    MaxEdits,       \* bound: versions of the user's settings
    MaxFaults       \* bound: failed transport calls and crashes

Versions == 0..MaxEdits
Actors == Runs \cup Recoverers

ASSUME ConstantsAssumption ==
    /\ Order \in Seq(Runs)
    /\ Nobody \notin Actors /\ NoRun \notin Runs \cup Nat
    /\ Runs \cap Recoverers = {} /\ Runs \cap Nat = {}
    /\ OnlyAfterRestart \in BOOLEAN
    /\ MaxEdits \in Nat /\ MaxFaults \in Nat

VARIABLES
    settings,   \* the tester's settings: a version of the user's, or a run's
    edits,      \* the user's newest version
    testing,    \* the run whose operation the tester is executing
    lease,      \* the live actor the lock file names
    alive,      \* processes that exist
    pc,         \* program point of each actor
    faults,     \* faults so far
    snap,       \* memory: the snapshot a run took, NoRun before
    status,     \* disk: the status in the manifest, "absent" or "bare" without one
    saved,      \* disk: settings_snapshot.json
    listed,     \* disk: the evidence of stop and restore whose hashes the manifest has
    todo,       \* memory: the places in Order of the manifests a recoverer has left
    handedBack, \* history: runs that restored their snapshot, then gave back the lease
    abandoned   \* history: runs that stopped waiting for an operation nobody confirmed ended

tester == <<settings, edits, testing>>
disk == <<status, saved, listed>>
history == <<handedBack, abandoned>>
vars == <<settings, edits, testing, lease, alive, pc, faults, snap, status, saved, listed,
          todo, handedBack, abandoned>>

Done == {"COMPLETED", "RECOVERED"}
\* Where a run's own record of its status is RESTORED or READY_TO_RELEASE: from there the
\* error path neither marks it FAILED nor restores.
Final == {"publish", "ready"}
NoManifest == {"absent", "bare", "gone"}
\* A manifest whose files are not what it says: deleted in part, or an evidence file
\* replaced since.  RunWorkspace.load raises.
Unreadable == {"torn", "stale"}

\* A workspace that makes discover_incomplete raise.
Blocked == \E r \in Runs : status[r] \in {"bare"} \cup Unreadable

\* Mutant: only what a run or a recovery has marked as failed is taken up again.
IncompleteFailed(r) ==
    status[r] \in {"FAILED", "RESTORE_FAILED", "OPERATION_UNCONFIRMED", "RECOVERY_FAILED"}

\* What discover_incomplete finds.
Incomplete(r) == status[r] \notin Done \cup NoManifest \cup Unreadable

Init ==
    /\ settings = 0 /\ edits = 0
    /\ testing = NoRun /\ lease = Nobody
    /\ alive = Actors
    /\ pc = [a \in Actors |-> "idle"]
    /\ faults = 0
    /\ snap = [r \in Runs |-> NoRun] /\ saved = snap
    /\ status = [r \in Runs |-> "absent"]
    /\ listed = [r \in Runs |-> {}]
    /\ todo = [v \in Recoverers |-> {}]
    /\ handedBack = {} /\ abandoned = {}

At(a, point) == a \in alive /\ pc[a] = point
Goto(a, point) == pc' = [pc EXCEPT ![a] = point]
Write(r, s) == status' = [status EXCEPT ![r] = s]
Free == lease = Nobody
Fault == faults < MaxFaults /\ faults' = faults + 1
Fine == UNCHANGED faults

\* A step of run r from one program point to the next that leaves the rest alone but
\* for what its own conjuncts say.
Advance(r, from, to) == At(r, from) /\ Goto(r, to) /\ UNCHANGED <<alive, todo>>

\* _transition: the status is written, atomically.
Transition(r, from, to, s) ==
    /\ Advance(r, from, to) /\ Write(r, s) /\ Fine
    /\ UNCHANGED <<tester, lease, snap, saved, listed, history>>

-----------------------------------------------------------------------------
(* The errors of run.                                                      *)

\* Mutant: an operation nobody confirmed ended releases the lease.
UnconfirmedReleases(r) ==
    /\ Goto(r, "ended")
    /\ lease' = Nobody
    /\ status' = [status EXCEPT ![r] = IF @ = "bare" THEN @ ELSE "OPERATION_UNCONFIRMED"]

\* OperationUnconfirmedError: the lease is kept and nothing is restored.
Unconfirmed(r) ==
    /\ Goto(r, "ended")
    /\ status' = [status EXCEPT ![r] = IF @ = "bare" THEN @ ELSE "OPERATION_UNCONFIRMED"]
    /\ UNCHANGED lease

\* Any other error: marked FAILED if there is a manifest that is not final.
Raise(r) ==
    /\ Goto(r, IF snap[r] # NoRun /\ pc[r] \notin Final THEN "undo" ELSE "close")
    /\ status' = [status EXCEPT
            ![r] = IF pc[r] \in Final \/ @ \in NoManifest THEN @ ELSE "FAILED"]

\* A call fails at a point with an error of that kind.
Fail(r, from) ==
    /\ At(r, from) /\ Fault /\ Raise(r)
    /\ UNCHANGED <<tester, lease, alive, snap, saved, listed, history, todo>>

FailUnconfirmed(r, from) ==
    /\ At(r, from) /\ Fault /\ Unconfirmed(r)
    /\ UNCHANGED <<tester, alive, snap, saved, listed, history, todo>>

\* The finally clause restores the snapshot; when that fails the lease is kept.
Undo(r) ==
    /\ At(r, "undo")
    /\ \/ /\ settings' = snap[r] /\ Goto(r, "close") /\ Fine
          /\ UNCHANGED status
       \/ /\ Fault /\ Goto(r, "ended")
          /\ status' = [status EXCEPT
                ![r] = IF @ \in NoManifest THEN @ ELSE "RESTORE_FAILED"]
          /\ UNCHANGED settings
    /\ UNCHANGED <<edits, testing, lease, alive, snap, saved, listed, history, todo>>

\* The outer finally clause releases the lease, or fails and leaves it.
Close(r) ==
    /\ Advance(r, "close", "ended")
    /\ \/ lease' = Nobody /\ Fine
          /\ handedBack' = IF settings = snap[r] THEN handedBack \cup {r} ELSE handedBack
       \/ Fault /\ UNCHANGED <<lease, handedBack>>
    /\ UNCHANGED <<tester, snap, disk, abandoned>>

-----------------------------------------------------------------------------
(* run                                                                     *)

\* The lease, if it is free, is acquired before anything is written.
Acquire(r) ==
    /\ Advance(r, "idle", IF Free THEN "owned" ELSE "ended")
    /\ lease' = IF Free THEN r ELSE lease
    /\ UNCHANGED <<tester, faults, snap, disk, history>>

\* Attempt id, capabilities, identities and the cancel check; then the directory.
CreateWorkspace(r) == Transition(r, "owned", "created", "bare")

\* _quiesce: the tester is attested stopped, or the error is OperationUnconfirmedError.
Quiesce(r, from, to) ==
    \/ /\ Advance(r, from, to)
       /\ testing' = NoRun /\ Fine
       /\ UNCHANGED <<settings, edits, lease, snap, disk, history>>
    \/ FailUnconfirmed(r, from)

StopBefore(r) == Quiesce(r, "created", "stopped")

TakeSnapshot(r) ==
    /\ Advance(r, "stopped", "snapped")
    /\ snap' = [snap EXCEPT ![r] = settings] /\ Fine
    /\ UNCHANGED <<tester, lease, disk, history>>

\* The strategy files are copied and settings_snapshot.json is written.
SaveSnapshot(r) ==
    /\ Advance(r, "snapped", "saved") /\ Fine
    /\ saved' = [saved EXCEPT ![r] = snap[r]]
    /\ UNCHANGED <<tester, lease, snap, status, listed, history>>

Prepared(r)   == Transition(r, "saved", "prepared", "PREPARED")
Installing(r) == Transition(r, "prepared", "installing", "INSTALLING")

\* The transport replaces the settings; a failed install may have replaced them too.
Install(r) ==
    /\ At(r, "installing")
    /\ \/ settings' = r /\ Goto(r, "placed") /\ UNCHANGED <<status, faults>>
       \/ settings' \in {settings, r} /\ Fault /\ Raise(r)
    /\ UNCHANGED <<edits, testing, lease, alive, snap, saved, listed, history, todo>>

Installed(r) == Transition(r, "placed", "installed", "INSTALLED")
Running(r)   == Transition(r, "installed", "running", "RUNNING")

\* The operation runs on a worker thread.
StartOperation(r) ==
    /\ Advance(r, "running", "operating")
    /\ testing' = r /\ Fine
    /\ UNCHANGED <<settings, edits, lease, snap, disk, history>>

\* It answers; or it fails or ignores its cancellation, and is unconfirmed; or it is
\* cancelled or times out, its worker has ended, and the tester is stopped; or the wait
\* itself is broken off by another error (of cancel_check, of the transport's contract, a
\* KeyboardInterrupt), which is handled as if the operation had ended.
AwaitOperation(r) ==
    \/ /\ Advance(r, "operating", "answered") /\ Fine
       /\ UNCHANGED <<tester, lease, snap, disk, history>>
    \/ FailUnconfirmed(r, "operating")
    \/ /\ At(r, "operating") /\ Fault
       /\ testing' = NoRun /\ Raise(r)
       /\ UNCHANGED <<settings, edits, lease, alive, snap, saved, listed, history, todo>>
    \/ /\ At(r, "operating") /\ Fault /\ Raise(r)
       /\ abandoned' = abandoned \cup {r}
       /\ UNCHANGED <<tester, lease, alive, snap, saved, listed, handedBack, todo>>

StopAfter(r) == Quiesce(r, "answered", "collect")

\* The reports are copied and validated.
Validate(r) == Transition(r, "collect", "validated", "REPORTS_VALIDATED")

\* Restore and its evidence; a failure keeps the lease.
Restore(r) ==
    /\ At(r, "validated")
    /\ \/ settings' = snap[r] /\ Goto(r, "restored") /\ UNCHANGED <<status, faults>>
       \/ Fault /\ settings' \in {settings, snap[r]}
          /\ Write(r, "RESTORE_FAILED") /\ Goto(r, "ended")
    /\ UNCHANGED <<edits, testing, lease, alive, snap, saved, listed, history, todo>>

\* RESTORED, in a manifest that has the hash of the evidence.
Restored(r) ==
    /\ Advance(r, "restored", "publish") /\ Write(r, "RESTORED") /\ Fine
    /\ listed' = [listed EXCEPT ![r] = @ \cup {"restore"}]
    /\ UNCHANGED <<tester, lease, snap, saved, history>>

\* The M6 publication, when there is one, precedes READY_TO_RELEASE.
Ready(r) == Transition(r, "publish", "ready", "READY_TO_RELEASE")

\* lock.release(); when it raises the outer finally clause tries again.
Release(r) ==
    \/ /\ Advance(r, "ready", "released")
       /\ lease' = Nobody /\ handedBack' = handedBack \cup {r} /\ Fine
       /\ UNCHANGED <<tester, snap, disk, abandoned>>
    \/ Fail(r, "ready")

Complete(r) == Transition(r, "released", "completed", "COMPLETED")

\* The workspace is kept without an M6 proof; with one its files are deleted, in any order.
Cleanup(r) ==
    \/ Transition(r, "completed", "ended", "COMPLETED")
    \/ Transition(r, "completed", "deleting", "torn")

\* rmtree ends, or fails and leaves the rest, which is no error.
Delete(r) ==
    \/ Transition(r, "deleting", "ended", "gone")
    \/ /\ Advance(r, "deleting", "ended") /\ Fault
       /\ UNCHANGED <<tester, lease, snap, disk, history>>

Fails(r) ==
    \E from \in {"owned", "stopped", "snapped", "prepared", "running", "collect", "publish"} :
        Fail(r, from)

RunStep(r) ==
    \/ Acquire(r) \/ CreateWorkspace(r) \/ StopBefore(r) \/ TakeSnapshot(r)
    \/ SaveSnapshot(r) \/ Prepared(r) \/ Installing(r) \/ Install(r) \/ Installed(r)
    \/ Running(r) \/ StartOperation(r) \/ AwaitOperation(r) \/ StopAfter(r) \/ Validate(r)
    \/ Restore(r) \/ Restored(r) \/ Ready(r) \/ Release(r) \/ Complete(r) \/ Cleanup(r)
    \/ Delete(r) \/ Undo(r) \/ Close(r) \/ Fails(r)

-----------------------------------------------------------------------------
(* recover_incomplete                                                      *)

\* The manifest a recoverer is at.
Current(v) == Order[Min(todo[v])]

\* What most steps of a recoverer leave alone.
RecoverFrame == UNCHANGED <<alive, snap, saved, edits, abandoned>>

\* A recoverer writes a status into a workspace that is there: the files that are missing,
\* or that another recoverer has replaced, do not come back with it.
Mark(v, s) ==
    status' = [status EXCEPT ![Current(v)] = IF @ \in {"gone", "torn", "stale"} THEN @ ELSE s]

\* An evidence file is replaced while the manifest has the hash of the old one, which may
\* be the same.
Replace(v, file) ==
    \/ UNCHANGED status
    \/ file \in listed[Current(v)] /\ Mark(v, "stale")

\* The workspace was deleted since the recoverer read it: its next write raises.
Gone(v) == status[Current(v)] = "gone"

\* The recovery of the current run fails: marked, and the lease it may hold is kept.
RecoveryFails(v) == Mark(v, "RECOVERY_FAILED") /\ Goto(v, "ended")

\* discover_incomplete: every workspace must have a manifest, and be what it says.
Discover(v) ==
    /\ At(v, "idle")
    /\ OnlyAfterRestart => \A r \in Runs \cap alive : pc[r] = "idle"
    /\ IF Blocked
         THEN Goto(v, "ended") /\ UNCHANGED todo
         ELSE Goto(v, "next") /\ todo' = [todo EXCEPT ![v] = {i \in DOMAIN Order : Incomplete(Order[i])}]
    /\ UNCHANGED <<settings, testing, lease, faults, status, listed, handedBack>> /\ RecoverFrame

\* The next manifest is read: nothing holds the lease yet.
Load(v) ==
    /\ At(v, "next")
    /\ Goto(v, IF todo[v] = {} \/ ~Incomplete(Current(v)) THEN "ended"
               ELSE IF status[Current(v)] = "READY_TO_RELEASE" THEN "finish"
               ELSE "interrupt")
    /\ UNCHANGED <<settings, testing, lease, faults, status, listed, handedBack, todo>> /\ RecoverFrame

\* A run that is ready to release only has its lock file removed.
Finish(v) ==
    /\ At(v, "finish")
    /\ IF Free /\ ~Gone(v) THEN lease' = Nobody /\ Goto(v, "settle")
                           ELSE UNCHANGED lease /\ Goto(v, "ended")
    /\ UNCHANGED <<settings, testing, faults, status, listed, handedBack, todo>> /\ RecoverFrame

\* INTERRUPTED is written before the lease is acquired.
Interrupt(v) ==
    /\ At(v, "interrupt")
    /\ Mark(v, "INTERRUPTED") /\ Goto(v, IF Gone(v) THEN "ended" ELSE "acquire")
    /\ UNCHANGED <<settings, testing, lease, faults, listed, handedBack, todo>> /\ RecoverFrame

AcquireToRecover(v) ==
    /\ At(v, "acquire")
    /\ IF Free THEN lease' = v /\ Goto(v, "stop") /\ UNCHANGED status
               ELSE RecoveryFails(v) /\ UNCHANGED lease
    /\ UNCHANGED <<settings, testing, faults, listed, handedBack, todo>> /\ RecoverFrame

\* Mutant: the settings are restored without stopping the tester.
StopNothing(v) ==
    /\ At(v, "stop") /\ Goto(v, "restore")
    /\ UNCHANGED <<settings, testing, lease, faults, status, listed, handedBack, todo>> /\ RecoverFrame

\* The tester is attested stopped and recovery_stopped.json is written.
StopToRecover(v) ==
    /\ At(v, "stop")
    /\ \/ testing' = NoRun /\ ~Gone(v) /\ Goto(v, "restore") /\ Replace(v, "stop") /\ Fine
       \/ testing' = NoRun /\ Gone(v) /\ RecoveryFails(v) /\ Fine
       \/ Fault /\ RecoveryFails(v) /\ UNCHANGED testing
    /\ UNCHANGED <<settings, lease, listed, handedBack, todo>> /\ RecoverFrame

\* The settings are restored and restore_evidence.json is written.  After a failure
\* the manifest has the new hash of recovery_stopped.json.
RestoreSaved(v) ==
    /\ At(v, "restore")
    /\ \/ settings' = saved[Current(v)] /\ ~Gone(v) /\ Goto(v, "restored")
          /\ Replace(v, "restore") /\ UNCHANGED <<faults, listed>>
       \/ settings' = saved[Current(v)] /\ Gone(v) /\ RecoveryFails(v)
          /\ UNCHANGED <<faults, listed>>
       \/ Fault /\ settings' \in {settings, saved[Current(v)]} /\ Goto(v, "ended")
          /\ listed' = [listed EXCEPT ![Current(v)] = @ \cup {"stop"}]
          /\ \/ Mark(v, "RECOVERY_FAILED")
             \/ status[Current(v)] = "stale" /\ Write(Current(v), "RECOVERY_FAILED")
    /\ UNCHANGED <<testing, lease, handedBack, todo>> /\ RecoverFrame

\* The manifest now has the hashes of both files.
ReadyToRelease(v) ==
    /\ At(v, "restored")
    /\ IF Gone(v) THEN RecoveryFails(v)
       ELSE /\ Goto(v, "release")
            /\ status' = [status EXCEPT
                    ![Current(v)] = IF @ = "torn" THEN @ ELSE "READY_TO_RELEASE"]
    /\ listed' = [listed EXCEPT ![Current(v)] = {"stop", "restore"}]
    /\ UNCHANGED <<settings, testing, lease, faults, handedBack, todo>> /\ RecoverFrame

\* A failed release leaves the status and the lease.
ReleaseRecovered(v) ==
    /\ At(v, "release")
    /\ \/ lease' = Nobody /\ Goto(v, "settle") /\ Fine
          /\ handedBack' = handedBack \cup {Current(v)}
       \/ Fault /\ Goto(v, "ended") /\ UNCHANGED <<lease, handedBack>>
    /\ UNCHANGED <<settings, testing, status, listed, todo>> /\ RecoverFrame

\* RECOVERED; a run that had been ready without a recovery is marked COMPLETED instead,
\* which no later step tells apart.
Settle(v) ==
    /\ At(v, "settle")
    /\ Mark(v, "RECOVERED") /\ Goto(v, IF Gone(v) THEN "ended" ELSE "next")
    /\ todo' = [todo EXCEPT ![v] = @ \ {Min(@)}]
    /\ UNCHANGED <<settings, testing, lease, faults, listed, handedBack>> /\ RecoverFrame

RecoverStep(v) ==
    \/ Discover(v) \/ Load(v) \/ Finish(v) \/ Interrupt(v) \/ AcquireToRecover(v)
    \/ StopToRecover(v) \/ RestoreSaved(v) \/ ReadyToRelease(v) \/ ReleaseRecovered(v)
    \/ Settle(v)

-----------------------------------------------------------------------------
(* The processes, the tester and the other users of the target.            *)

Die(a) ==
    /\ alive' = alive \ {a}
    /\ lease' = IF lease = a THEN Nobody ELSE lease

Exit(a) ==
    /\ At(a, "ended") /\ Die(a)
    /\ UNCHANGED <<tester, pc, faults, snap, disk, history, todo>>

Crash(a) ==
    /\ a \in alive /\ pc[a] \notin {"idle", "ended"} /\ Fault /\ Die(a)
    /\ UNCHANGED <<tester, pc, snap, disk, history, todo>>

StartRecoverer(v) ==
    /\ v \notin alive
    /\ alive' = alive \cup {v}
    /\ Goto(v, "idle") /\ todo' = [todo EXCEPT ![v] = {}]
    /\ UNCHANGED <<tester, lease, faults, snap, disk, history>>

TesterEnds ==
    /\ testing # NoRun /\ testing' = NoRun
    /\ UNCHANGED <<settings, edits, lease, alive, pc, faults, snap, disk, history, todo>>

\* Another user of the target takes the lease, changes the settings and releases it.
EditSettings ==
    /\ Free /\ testing = NoRun /\ edits < MaxEdits
    /\ edits' = edits + 1 /\ settings' = edits'
    /\ UNCHANGED <<testing, lease, alive, pc, faults, snap, disk, history, todo>>

Next ==
    \/ \E r \in Runs : RunStep(r)
    \/ \E v \in Recoverers : RecoverStep(v) \/ StartRecoverer(v)
    \/ \E a \in Actors : Exit(a) \/ Crash(a)
    \/ TesterEnds \/ EditSettings

Spec == Init /\ [][Next]_vars

\* A process that is not killed goes on, an ended call's process exits, and recovery is
\* started again after it ended.
Fairness ==
    /\ \A r \in Runs : WF_vars(RunStep(r) \/ Exit(r))
    /\ \A v \in Recoverers : WF_vars(RecoverStep(v) \/ Exit(v) \/ StartRecoverer(v))

FairSpec == Spec /\ Fairness

-----------------------------------------------------------------------------
RunPoints == {"idle", "owned", "created", "stopped", "snapped", "saved", "prepared",
    "installing", "placed", "installed", "running", "operating", "answered", "collect",
    "validated", "restored", "publish", "ready", "released", "completed", "deleting", "undo",
    "close", "ended"}
RecoverPoints == {"idle", "next", "finish", "interrupt", "acquire", "stop", "restore",
    "restored", "release", "settle", "ended"}
Statuses == {"absent", "bare", "PREPARED", "INSTALLING", "INSTALLED", "RUNNING",
    "REPORTS_VALIDATED", "RESTORED", "READY_TO_RELEASE", "COMPLETED", "RECOVERED",
    "FAILED", "RESTORE_FAILED", "OPERATION_UNCONFIRMED", "INTERRUPTED",
    "RECOVERY_FAILED", "gone", "torn", "stale"}
Values == Versions \cup Runs

TypeOK ==
    /\ settings \in Values /\ edits \in Versions
    /\ testing \in Runs \cup {NoRun}
    /\ lease \in Actors \cup {Nobody}
    /\ alive \subseteq Actors
    /\ pc \in [Actors -> RunPoints \cup RecoverPoints]
    /\ faults \in 0..MaxFaults
    /\ snap \in [Runs -> Values \cup {NoRun}]
    /\ saved \in [Runs -> Values \cup {NoRun}]
    /\ status \in [Runs -> Statuses]
    /\ listed \in [Runs -> SUBSET {"stop", "restore"}]
    /\ todo \in [Recoverers -> SUBSET DOMAIN Order]
    /\ handedBack \subseteq Runs /\ abandoned \subseteq Runs

\* While a run's process lives, its settings are in the tester only under the run's lease,
\* and so is its operation: an unconfirmed operation and a failed restore keep the lease,
\* so that no other user meets a half-restored or a running tester.  An operation whose
\* wait was broken off is excepted: run takes it for ended (runner.py:785).
TesterUnderLease ==
    \A r \in Runs \cap alive :
        /\ settings = r => lease = r
        /\ testing = r => lease = r \/ r \in abandoned

\* The same without the exception: "an unconfirmed operation ... retains the owner
\* evidence" (m5-evidence.md:25).
UnconfirmedKeepsLease == \A r \in Runs \cap alive : testing = r => lease = r

\* Nobody changes the settings of a tester that is executing an operation, not even after
\* a crash left it running: every path to an install or a restore has it stopped first,
\* but for the restore after an abandoned wait.
NoSwapUnderTest == [][settings' # settings => testing \in {NoRun} \cup abandoned]_vars

\* The settings a run installed are never in the tester without an incomplete manifest
\* and a saved snapshot of other settings from which recover can restore them; or the
\* manifest is there and an evidence file was replaced by a recovery killed since.
InstalledIsRecoverable ==
    \A r \in Runs :
        settings = r => /\ Incomplete(r) \/ status[r] = "stale"
                        /\ saved[r] # NoRun /\ saved[r] # r

\* A run that is ready to release, or has ended well, stays so: its manifest never
\* becomes one that recover would restore from again.
Settled(r) == status[r] \in Done \cup {"READY_TO_RELEASE", "gone", "torn"}
SettledStays == [][\A r \in Runs : Settled(r) => Settled(r)']_vars

\* Installed settings are removed in the end, whatever crashed, as long as recovery is
\* started again and faults are finitely many.  Two things stand in its way and are named:
\* a workspace that makes discover_incomplete raise for ever (without a manifest, deleted
\* in part, or with an evidence file its manifest does not have), and a second run that
\* took the installed settings for the user's.
RecoveredInTheEnd ==
    <>[]Blocked \/ \A r \in Runs : settings = r ~> settings # r \/ \E q \in Runs : saved[q] = r

\* The same without the exceptions: "incomplete manifests can restore settings after
\* restart under the same target owner" (m5-evidence.md:27).
RecoveredWhateverHappened == \A r \in Runs : settings = r ~> settings # r

\* A snapshot is never re-applied once it was restored and the lease given back: the
\* release boundary of m5-evidence.md:61.
NeverReapplied ==
    [][\A v \in Recoverers :
        At(v, "restore") /\ settings' # settings => Current(v) \notin handedBack]_vars

\* When every manifest is terminal the tester has settings of the user's.
RecoveredMeansRestored ==
    (\A r \in Runs : status[r] \in Done) => settings \in Versions
=============================================================================
