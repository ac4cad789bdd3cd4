----------------------------- MODULE TesterJobs -----------------------------
(***************************************************************************)
(* The tester job executor of src/src/mrs3/tester_jobs.py: it moves the    *)
(* bot's own files into a backup, runs a job's files in their place,       *)
(* restores the backup whatever happens, and converts the reports.         *)
(*                                                                         *)
(* An executor is a process that runs run_queue: recover first, then the   *)
(* queued jobs one by one.  It may be killed at any point and started      *)
(* again.  Between executors there are two locks: the store's lock file,   *)
(* created and written in two steps, and the bot's target lease (module    *)
(* TesterTargetLock), which a dead process no longer holds.                *)
(*                                                                         *)
(* A move that fails may have copied the file and left the original.       *)
(* Writes of the catalog do not fail.                                      *)
(***************************************************************************)
EXTENDS Naturals, FiniteSets

CONSTANTS
    Executors, Jobs,
    Config,             \* config_tester.json
    Strategies,         \* names in tester/settings_strategy
    JobStrategy,        \* the strategy file name each job installs
    UserFiles,          \* the bot's own files
    User, Absent,       \* contents of a file, beside the jobs
    Nobody, Stale,
    Interrupts,         \* whether a KeyboardInterrupt is possible
    RemovalAtomic,      \* TRUE: rmtree of a backup is not cut short
    MaxFaults           \* bound: kills, interrupts and failed steps

Names == {Config} \cup Strategies
Contents == {User, Absent} \cup Jobs

ASSUME ConstantsAssumption ==
    /\ Config \notin Strategies
    /\ JobStrategy \in [Jobs -> Strategies]
    /\ UserFiles \subseteq Names
    /\ User # Absent /\ {User, Absent} \cap Jobs = {}
    /\ Nobody \notin Executors /\ Stale \notin Executors /\ Nobody # Stale
    /\ Interrupts \in BOOLEAN /\ RemovalAtomic \in BOOLEAN /\ MaxFaults \in Nat

VARIABLES
    bot,        \* the content of each file of the bot
    dir,        \* backup directory of each job: "none", "open" or, with its manifest, "sealed"
    copy,       \* the files in each backup
    manifest,   \* what the manifest of each backup says the bot had
    state, result,      \* catalog: state of each job; whether its result tables exist
    lock, named,        \* whose lock file exists, and whether it is written already
    lease,      \* the target lease
    pc, job, err,       \* each executor's point, job, and error so far
    todo,       \* the folders to restore, the jobs to mark, or the jobs to run
    restored,   \* folders recover has restored
    faults,
    left,       \* history: jobs that ended with their backup not undone, the queue going on
    overrun     \* history: another job's backup was begun over such a one

history == <<left, overrun>>
botFiles == <<bot, dir, copy, manifest, left, overrun>>
catalog == <<state, result>>
locks == <<lock, named, lease>>
local == <<job, err, todo, restored>>
vars == <<bot, dir, copy, manifest, state, result, lock, named, lease,
          pc, job, err, todo, restored, faults, left, overrun>>

Nothing == [n \in Names |-> Absent]
Own == [n \in Names |-> IF n \in UserFiles THEN User ELSE Absent]

Init ==
    /\ bot = Own
    /\ dir = [j \in Jobs |-> "none"]
    /\ copy = [j \in Jobs |-> Nothing] /\ manifest = copy
    /\ state = [j \in Jobs |-> "queued"] /\ result = [j \in Jobs |-> FALSE]
    /\ lock = Nobody /\ named = FALSE /\ lease = Nobody
    /\ pc = [e \in Executors |-> "off"]
    /\ job = [e \in Executors |-> Absent]
    /\ err = [e \in Executors |-> "none"]
    /\ todo = [e \in Executors |-> {}] /\ restored = todo
    /\ faults = 0
    /\ left = {} /\ overrun = FALSE

At(e, point) == pc[e] = point
Goto(e, point) == pc' = [pc EXCEPT ![e] = point]
Fault == faults < MaxFaults /\ faults' = faults + 1
Fine == UNCHANGED faults
SetState(j, s) == state' = [state EXCEPT ![j] = s]
Recovering(e) == job[e] \in restored[e]     \* the backup at hand is recover's

-----------------------------------------------------------------------------
(* recover                                                                 *)

Start(e) ==
    /\ At(e, "off") /\ Goto(e, "check")
    /\ job' = [job EXCEPT ![e] = Absent] /\ err' = [err EXCEPT ![e] = "none"]
    /\ todo' = [todo EXCEPT ![e] = {}] /\ restored' = [restored EXCEPT ![e] = {}]
    /\ UNCHANGED <<botFiles, catalog, locks, faults>>

\* The pid and process start in the lock are those of a live process.
OwnerAlive == lock \in Executors /\ named

\* Refuses beside a live executor; otherwise lists the backups.
CheckLock(e) ==
    /\ At(e, "check")
    /\ LET folders == {j \in Jobs : dir[j] # "none"}
       IN  /\ Goto(e, IF OwnerAlive THEN "off" ELSE IF folders = {} THEN "mark" ELSE "lease")
           /\ todo' = [todo EXCEPT ![e] = folders]
    /\ UNCHANGED <<botFiles, catalog, locks, job, err, restored, faults>>

\* The target lease is taken to restore; when it is busy recover fails.
LeaseToRecover(e) ==
    /\ At(e, "lease")
    /\ IF lease = Nobody THEN lease' = e /\ Goto(e, "folder")
                         ELSE UNCHANGED lease /\ Goto(e, "off")
    /\ UNCHANGED <<botFiles, catalog, lock, named, local, faults>>

\* The next backup is restored from its manifest, or undone when it has none.
NextFolder(e) ==
    /\ At(e, "folder")
    /\ IF todo[e] = {}
         THEN Goto(e, "mark") /\ lease' = Nobody /\ UNCHANGED <<job, todo, restored>>
         ELSE /\ \E j \in todo[e] :
                    /\ job' = [job EXCEPT ![e] = j]
                    /\ todo' = [todo EXCEPT ![e] = @ \ {j}]
                    /\ restored' = [restored EXCEPT ![e] = @ \cup {j}]
                    /\ Goto(e, IF dir[j] = "sealed" THEN "clear" ELSE "undo")
              /\ UNCHANGED lease
    /\ UNCHANGED <<botFiles, catalog, lock, named, err, faults>>

\* Mutant: only the jobs whose backup was restored are marked.
ReadRestored(e) ==
    /\ At(e, "mark") /\ Goto(e, "marking")
    /\ todo' = [todo EXCEPT ![e] = restored[e]]
    /\ UNCHANGED <<botFiles, catalog, locks, job, err, restored, faults>>

\* The running jobs are read, then marked failed one by one with the restored ones.
ReadRunning(e) ==
    /\ At(e, "mark") /\ Goto(e, "marking")
    /\ todo' = [todo EXCEPT ![e] = {j \in Jobs : state[j] = "running"} \cup restored[e]]
    /\ UNCHANGED <<botFiles, catalog, locks, job, err, restored, faults>>

MarkInterrupted(e) ==
    /\ At(e, "marking")
    /\ \E j \in todo[e] :
        SetState(j, "failed") /\ todo' = [todo EXCEPT ![e] = @ \ {j}]
    /\ UNCHANGED <<botFiles, result, locks, pc, job, err, restored, faults>>

\* lock.unlink: whosever lock it is by now, unless its creator has it open (Windows).
Unlinkable == \A e \in Executors : At(e, "write") => lock # e

RemoveLock(e) ==
    /\ At(e, "marking") /\ todo[e] = {}
    /\ IF Unlinkable THEN lock' = Nobody /\ named' = FALSE /\ Goto(e, "list")
                     ELSE UNCHANGED <<lock, named>> /\ Goto(e, "off")
    /\ UNCHANGED <<botFiles, catalog, lease, local, faults>>

-----------------------------------------------------------------------------
(* run_queue and run_job                                                   *)

ListQueued(e) ==
    /\ At(e, "list") /\ Goto(e, "pick")
    /\ todo' = [todo EXCEPT ![e] = {j \in Jobs : state[j] = "queued"}]
    /\ UNCHANGED <<botFiles, catalog, locks, job, err, restored, faults>>

\* The next listed job; prepare may refuse it.  The queue ends when it is empty, stopped
\* by .stop, or at its limit.
Pick(e) ==
    /\ At(e, "pick")
    /\ \/ Goto(e, "off") /\ UNCHANGED <<job, err, todo, restored, state>> /\ Fine
       \/ \E j \in todo[e] :
            /\ todo' = [todo EXCEPT ![e] = @ \ {j}]
            /\ \/ /\ job' = [job EXCEPT ![e] = j] /\ err' = [err EXCEPT ![e] = "none"]
                  /\ restored' = [restored EXCEPT ![e] = {}]
                  /\ Goto(e, "claim") /\ UNCHANGED state /\ Fine
               \/ Fault /\ SetState(j, "failed") /\ UNCHANGED <<pc, job, err, restored>>
    /\ UNCHANGED <<botFiles, result, locks>>

\* _claim: exclusive creation; an existing lock ends the executor.
Claim(e) ==
    /\ At(e, "claim")
    /\ IF lock = Nobody THEN lock' = e /\ named' = FALSE /\ Goto(e, "write")
                        ELSE UNCHANGED <<lock, named>> /\ Goto(e, "off")
    /\ UNCHANGED <<botFiles, catalog, lease, local, faults>>

WriteLock(e) ==
    /\ At(e, "write") /\ Goto(e, "acquire")
    /\ named' = (lock = e \/ named)
    /\ UNCHANGED <<botFiles, catalog, lock, lease, local, faults>>

\* A busy target ends the executor, the job still queued.
AcquireTarget(e) ==
    /\ At(e, "acquire")
    /\ IF lease = Nobody
         THEN lease' = e /\ Goto(e, "begin") /\ UNCHANGED err
         ELSE UNCHANGED lease /\ err' = [err EXCEPT ![e] = "stop"] /\ Goto(e, "unlock")
    /\ UNCHANGED <<botFiles, catalog, lock, named, job, todo, restored, faults>>

SetRunning(e) ==
    /\ At(e, "begin") /\ SetState(job[e], "running") /\ Goto(e, "backup")
    /\ UNCHANGED <<botFiles, result, locks, local, faults>>

\* An error of the job's own try block, and where its handling goes on.
Caught(e, kind, point) == err' = [err EXCEPT ![e] = kind] /\ Goto(e, point)

\* A backup of this job that is still there stops the executor.
BeginBackup(e) ==
    /\ At(e, "backup")
    /\ IF dir[job[e]] # "none"
         THEN Caught(e, "stop", "report") /\ UNCHANGED <<dir, copy, overrun>>
         ELSE /\ dir' = [dir EXCEPT ![job[e]] = "open"]
              /\ copy' = [copy EXCEPT ![job[e]] = Nothing]
              /\ overrun' = (overrun \/ left # {})
              /\ Goto(e, "copying") /\ UNCHANGED err
    /\ UNCHANGED <<bot, manifest, left, catalog, locks, job, todo, restored, faults>>

\* The config is copied; a failure here leaves the backup as it is, and the queue goes on.
CopyConfig(e) ==
    /\ At(e, "copying")
    /\ \/ copy' = [copy EXCEPT ![job[e]] = [Nothing EXCEPT ![Config] = bot[Config]]]
          /\ Goto(e, "move") /\ UNCHANGED err /\ Fine
       \/ Fault /\ Caught(e, "failed", "report") /\ UNCHANGED copy
    /\ UNCHANGED <<bot, dir, manifest, history, catalog, locks, job, todo, restored>>

Present(n) == n \in Strategies /\ bot[n] # Absent

\* Every strategy file of the bot is moved; a failure undoes what was moved.
MoveAside(e) ==
    /\ At(e, "move")
    /\ \/ \E n \in Names :
            /\ Present(n)
            /\ copy' = [copy EXCEPT ![job[e]][n] = bot[n]]
            /\ bot' = [bot EXCEPT ![n] = Absent]
            /\ UNCHANGED <<pc, err>> /\ Fine
       \/ /\ Fault /\ Caught(e, "failed", "undo") /\ UNCHANGED bot
          /\ \/ UNCHANGED copy
             \/ \E n \in Names : Present(n) /\ copy' = [copy EXCEPT ![job[e]][n] = bot[n]]
    /\ UNCHANGED <<dir, manifest, history, catalog, locks, job, todo, restored>>

\* Mutant: the manifest is not written, as if the backup needed none.
SealWithout(e) ==
    /\ At(e, "move") /\ Goto(e, "place")
    /\ \A n \in Names : ~Present(n)
    /\ manifest' = [manifest EXCEPT ![job[e]] = copy[job[e]]]
    /\ UNCHANGED <<bot, dir, copy, history, catalog, locks, local, faults>>

Seal(e) ==
    /\ At(e, "move") /\ Goto(e, "place")
    /\ \A n \in Names : ~Present(n)
    /\ manifest' = [manifest EXCEPT ![job[e]] = copy[job[e]]]
    /\ dir' = [dir EXCEPT ![job[e]] = "sealed"]
    /\ UNCHANGED <<bot, copy, history, catalog, locks, local, faults>>

\* The job's config and strategy are put in place.
Place(e) ==
    /\ At(e, "place")
    /\ \/ /\ bot' = [bot EXCEPT ![Config] = job[e], ![JobStrategy[job[e]]] = job[e]]
          /\ Goto(e, "test") /\ UNCHANGED err /\ Fine
       \/ /\ Fault /\ Caught(e, "failed", "clear")
          /\ bot' \in {bot, [bot EXCEPT ![Config] = job[e]]}
    /\ UNCHANGED <<dir, copy, manifest, history, catalog, locks, job, todo, restored>>

\* run_tester ends, exits with an error or times out: the restore comes first.
RunTester(e) ==
    /\ At(e, "test")
    /\ \/ Goto(e, "clear") /\ UNCHANGED err /\ Fine
       \/ Fault /\ Caught(e, "failed", "clear")
    /\ UNCHANGED <<botFiles, catalog, locks, job, todo, restored>>

-----------------------------------------------------------------------------
(* _undo_backup and _restore, for run_job and for recover alike            *)

\* RestoreError: recover just ends; run_job marks the job and ends after the unlink.
RestoreFails(e) ==
    /\ lease' = IF lease = e THEN Nobody ELSE lease
    /\ IF Recovering(e)
         THEN Goto(e, "off") /\ UNCHANGED <<err, state>>
         ELSE Caught(e, "stop", "unlock") /\ SetState(job[e], "failed")

\* Where the caller goes on once the backup is gone.
BackupGone(e) == Goto(e, IF Recovering(e) THEN "folder" ELSE "report")

\* What _undo_backup can put back, or drop because the bot has the same.
Undoable(e) == {n \in Strategies :
    copy[job[e]][n] # Absent /\ bot[n] \in {Absent, copy[job[e]][n]}}

\* A file goes back if the bot has none; a copy of what the bot still has is dropped.
UndoFile(e) ==
    /\ At(e, "undo")
    /\ \E n \in Undoable(e) :
        /\ bot' = [bot EXCEPT ![n] = copy[job[e]][n]]
        /\ copy' = [copy EXCEPT ![job[e]][n] = Absent]
    /\ UNCHANGED <<dir, manifest, history, catalog, locks, pc, local, faults>>

\* A move back fails: recover ends, but for run_job it is an error like any other, and the
\* queue goes on over the rest of the backup.
UndoFails(e) ==
    /\ At(e, "undo") /\ Fault
    /\ \E n \in Undoable(e) : bot' \in {bot, [bot EXCEPT ![n] = copy[job[e]][n]]}
    /\ IF Recovering(e)
         THEN /\ Goto(e, "off") /\ lease' = (IF lease = e THEN Nobody ELSE lease)
              /\ UNCHANGED <<err, left>>
         ELSE /\ Caught(e, "failed", "report") /\ UNCHANGED lease
              /\ left' = left \cup {job[e]}
    /\ UNCHANGED <<dir, copy, manifest, overrun, catalog, lock, named, job, todo, restored>>

\* Mutant: the backup is deleted with what is still in it.
UndoneUnchecked(e) ==
    /\ At(e, "undo")
    /\ dir' = [dir EXCEPT ![job[e]] = "none"]
    /\ copy' = [copy EXCEPT ![job[e]] = Nothing]
    /\ left' = left \ {job[e]}
    /\ BackupGone(e)
    /\ UNCHANGED <<bot, manifest, overrun, catalog, locks, local, faults>>

\* The emptied backup is deleted, where a failure is ignored; a file left in it is a
\* RestoreError.
Undone(e) ==
    /\ At(e, "undo") /\ Undoable(e) = {}
    /\ IF \A n \in Strategies : copy[job[e]][n] = Absent
         THEN /\ \/ dir' = [dir EXCEPT ![job[e]] = "none"] /\ Fine
                    /\ copy' = [copy EXCEPT ![job[e]] = Nothing]
                 \/ Fault /\ UNCHANGED <<dir, copy>>
              /\ left' = left \ {job[e]}
              /\ BackupGone(e) /\ UNCHANGED <<lease, state, err>>
         ELSE RestoreFails(e) /\ Fine /\ UNCHANGED <<dir, copy, left>>
    /\ UNCHANGED <<bot, manifest, overrun, result, lock, named, job, todo, restored>>

\* Strategy files that are not in the manifest are deleted.
ClearExtras(e) ==
    /\ At(e, "clear") /\ Goto(e, "config")
    /\ bot' = [n \in Names |->
        IF n \in Strategies /\ manifest[job[e]][n] = Absent THEN Absent ELSE bot[n]]
    /\ UNCHANGED <<dir, copy, manifest, history, catalog, locks, local, faults>>

\* The config is copied back; without its copy in the backup that fails.
RestoreConfig(e) ==
    /\ At(e, "config")
    /\ IF manifest[job[e]][Config] # Absent /\ copy[job[e]][Config] = Absent
         THEN RestoreFails(e) /\ UNCHANGED bot
         ELSE /\ bot' = [bot EXCEPT ![Config] =
                    IF manifest[job[e]][Config] = Absent THEN Absent
                                                         ELSE copy[job[e]][Config]]
              /\ Goto(e, "files") /\ UNCHANGED <<lease, state, err>>
    /\ UNCHANGED <<dir, copy, manifest, history, result, lock, named, job, todo, restored, faults>>

Missing(e) == {n \in Strategies : manifest[job[e]][n] # Absent /\ copy[job[e]][n] # Absent}

RestoreFile(e) ==
    /\ At(e, "files")
    /\ \E n \in Missing(e) :
        /\ bot' = [bot EXCEPT ![n] = copy[job[e]][n]]
        /\ copy' = [copy EXCEPT ![job[e]][n] = Absent]
    /\ UNCHANGED <<dir, manifest, history, catalog, locks, pc, local, faults>>

\* Mutant: the backup is deleted without comparing the hashes.
VerifyNothing(e) ==
    /\ At(e, "files") /\ Goto(e, "remove")
    /\ UNCHANGED <<botFiles, catalog, locks, local, faults>>

\* The hashes are compared.
Verify(e) ==
    /\ At(e, "files") /\ Missing(e) = {}
    /\ IF bot = manifest[job[e]]
         THEN Goto(e, "remove") /\ UNCHANGED <<lease, state, err>>
         ELSE RestoreFails(e)
    /\ UNCHANGED <<botFiles, result, lock, named, job, todo, restored, faults>>

\* A file cannot be deleted, copied or moved, or the backup not deleted.
RestoreBreaks(e) ==
    /\ pc[e] \in {"clear", "config", "files", "remove"} /\ Fault
    /\ RestoreFails(e)
    /\ \/ UNCHANGED bot
       \/ /\ At(e, "files")
          /\ \E n \in Missing(e) : bot' = [bot EXCEPT ![n] = copy[job[e]][n]]
    /\ UNCHANGED <<dir, copy, manifest, history, result, lock, named, job, todo, restored>>

\* rmtree deletes the entries of the backup in any order.
RemovePart(e) ==
    /\ At(e, "remove") /\ ~RemovalAtomic
    /\ \/ copy' = [copy EXCEPT ![job[e]] = Nothing] /\ UNCHANGED dir
       \/ dir' = [dir EXCEPT ![job[e]] = "open"] /\ UNCHANGED copy
    /\ UNCHANGED <<bot, manifest, history, catalog, locks, pc, local, faults>>

RemoveBackup(e) ==
    /\ At(e, "remove")
    /\ dir' = [dir EXCEPT ![job[e]] = "none"]
    /\ copy' = [copy EXCEPT ![job[e]] = Nothing]
    /\ left' = left \ {job[e]}
    /\ BackupGone(e)
    /\ UNCHANGED <<bot, manifest, overrun, catalog, locks, local, faults>>

-----------------------------------------------------------------------------
(* The end of run_job                                                      *)

\* The lease is released; a failed job is marked, and a RestoreError or an interrupt ends
\* the executor.
Report(e) ==
    /\ At(e, "report") /\ lease' = Nobody
    /\ IF err[e] = "none" THEN Goto(e, "convert") /\ UNCHANGED state
                          ELSE Goto(e, "unlock") /\ SetState(job[e], "failed")
    /\ UNCHANGED <<botFiles, result, lock, named, local, faults>>

\* Every point of the block needs exactly one report; then the tables are written.
Convert(e) ==
    /\ At(e, "convert")
    /\ \/ result' = [result EXCEPT ![job[e]] = TRUE] /\ Goto(e, "done")
          /\ UNCHANGED state /\ Fine
       \/ Fault /\ SetState(job[e], "failed") /\ Goto(e, "unlock") /\ UNCHANGED result
    /\ UNCHANGED <<botFiles, locks, local>>

SetDone(e) ==
    /\ At(e, "done") /\ SetState(job[e], "done") /\ Goto(e, "unlock")
    /\ UNCHANGED <<botFiles, result, locks, local, faults>>

\* The finally clause unlinks the lock, whosever it is by now.
Unlock(e) ==
    /\ At(e, "unlock")
    /\ IF Unlinkable THEN lock' = Nobody /\ named' = FALSE ELSE UNCHANGED <<lock, named>>
    /\ Goto(e, IF err[e] = "stop" \/ ~Unlinkable THEN "off" ELSE "pick")
    /\ UNCHANGED <<botFiles, catalog, lease, local, faults>>

-----------------------------------------------------------------------------
\* KeyboardInterrupt: caught in the job's try block, where what was backed up is put back
\* first; elsewhere it ends the executor, run_job unlinking its lock.
TryBlock == {"begin", "backup", "copying", "move", "undo", "place", "test"}
InRunJob == {"acquire", "clear", "config", "files", "remove", "report", "convert",
             "done"}

Interrupt(e) ==
    /\ Interrupts /\ Fault
    /\ \/ /\ pc[e] \in TryBlock /\ ~Recovering(e) /\ UNCHANGED lease
          /\ Caught(e, "stop", CASE pc[e] = "move"               -> "undo"
                                 [] pc[e] \in {"place", "test"} -> "clear"
                                 [] OTHER                       -> "report")
       \/ /\ pc[e] \in InRunJob /\ ~Recovering(e)
          /\ lease' = IF lease = e THEN Nobody ELSE lease
          /\ Caught(e, "stop", "unlock")
    /\ UNCHANGED <<botFiles, catalog, lock, named, job, todo, restored>>

\* The process is killed: its lock file stays, its lease is dead.
Kill(e) ==
    /\ ~At(e, "off") /\ Fault
    /\ Goto(e, "off")
    /\ lock' = IF lock = e THEN Stale ELSE lock
    /\ lease' = IF lease = e THEN Nobody ELSE lease
    /\ UNCHANGED <<botFiles, catalog, named, local>>

\* retry_failed: reads the failed jobs, then sets them queued.
Retry(j) ==
    /\ state[j] = "failed" /\ SetState(j, "queued")
    /\ UNCHANGED <<botFiles, result, locks, pc, local, faults>>

Step(e) ==
    \/ Start(e) \/ CheckLock(e) \/ LeaseToRecover(e) \/ NextFolder(e) \/ ReadRunning(e)
    \/ MarkInterrupted(e) \/ RemoveLock(e) \/ ListQueued(e) \/ Pick(e) \/ Claim(e)
    \/ WriteLock(e) \/ AcquireTarget(e) \/ SetRunning(e) \/ BeginBackup(e) \/ CopyConfig(e)
    \/ MoveAside(e) \/ Seal(e) \/ Place(e) \/ RunTester(e) \/ UndoFile(e) \/ UndoFails(e)
    \/ Undone(e) \/ ClearExtras(e) \/ RestoreConfig(e) \/ RestoreFile(e) \/ Verify(e)
    \/ RestoreBreaks(e) \/ RemovePart(e) \/ RemoveBackup(e)
    \/ Report(e) \/ Convert(e) \/ SetDone(e) \/ Unlock(e)

Next ==
    \/ \E e \in Executors : Step(e) \/ Interrupt(e) \/ Kill(e)
    \/ \E j \in Jobs : Retry(j)

Spec == Init /\ [][Next]_vars

\* An executor that is not killed goes on, and one that ended is started again.
Fairness == \A e \in Executors : WF_vars(Step(e))
FairSpec == Spec /\ Fairness

-----------------------------------------------------------------------------
Points == {"off", "check", "lease", "folder", "mark", "marking", "list", "pick", "claim",
    "write", "unlock"} \cup TryBlock \cup InRunJob

TypeOK ==
    /\ bot \in [Names -> Contents]
    /\ dir \in [Jobs -> {"none", "open", "sealed"}]
    /\ copy \in [Jobs -> [Names -> Contents]] /\ manifest \in [Jobs -> [Names -> Contents]]
    /\ state \in [Jobs -> {"queued", "running", "done", "failed"}]
    /\ result \in [Jobs -> BOOLEAN]
    /\ lock \in Executors \cup {Nobody, Stale} /\ named \in BOOLEAN
    /\ lease \in Executors \cup {Nobody}
    /\ pc \in [Executors -> Points]
    /\ job \in [Executors -> Jobs \cup {Absent}]
    /\ err \in [Executors -> {"none", "failed", "stop"}]
    /\ todo \in [Executors -> SUBSET Jobs] /\ restored \in [Executors -> SUBSET Jobs]
    /\ faults \in 0..MaxFaults
    /\ left \subseteq Jobs /\ overrun \in BOOLEAN

\* No file of the bot's own is ever lost: it is in place or in a backup, whatever was
\* killed, interrupted or failed, and whoever restores.
NothingLost ==
    \A n \in UserFiles : bot[n] = User \/ \E j \in Jobs : dir[j] # "none" /\ copy[j][n] = User

\* The same, until a job is begun over a backup that an earlier one could not undo: its
\* backup then says that what is still in the other was never the bot's.
LostOnlyByOverrun == overrun \/ NothingLost

\* When the target lease is free the bot has exactly its own files, unless a backup is
\* there to say what it lacks: no caller of the tester meets a job's files unawares.
CleanOrBackedUp ==
    lease = Nobody => overrun \/ bot = Own \/ \E j \in Jobs : dir[j] # "none"

\* A deletion of a backup that was cut short after its config copy went and before its
\* manifest did: restoring it fails, and with it every later recover.
Cut(j) == dir[j] = "sealed" /\ copy[j][Config] = Absent /\ manifest[j][Config] = User

\* What makes a recover fail for ever.
Stuck == overrun \/ \E j \in Jobs : Cut(j)

\* Every backup is restored in the end if executors are started again and again, unless
\* one was cut short or overrun.
BackupsRestored == \A j \in Jobs : dir[j] # "none" ~> dir[j] = "none" \/ Stuck

\* Every exit path marks the job in the end: none stays "running" for ever, whatever was
\* killed or interrupted, unless a backup was cut short or overrun.
Marked == \A j \in Jobs : state[j] = "running" ~> state[j] # "running" \/ Stuck
=============================================================================
