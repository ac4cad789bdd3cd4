------------------------------ MODULE RunBatch ------------------------------
(***************************************************************************)
(* run_batch of src/src/mrs3/runner/workflow.py and the Panel's job around *)
(* it (src/src/mrs3/panel_strategy_batch.py): under the lease of the       *)
(* tester a run stops the bot, remembers the settings it found, and tests  *)
(* its strategies chunk by chunk - install, start, monitor, keep the       *)
(* results, stop - restarting the bot after a recoverable failure; then it *)
(* publishes the CSV and the inbox, and puts the settings back.            *)
(*                                                                         *)
(* A run is one output CSV, called again and again from a process of its   *)
(* own until it is completed.  The lease and the run lock of a dead process*)
(* count as free (modules TesterTargetLock and CsvRunLock).  What the      *)
(* monitor does is one step here: which strategies finished, and how the   *)
(* attempt ended.                                                          *)
(***************************************************************************)
EXTENDS Naturals, FiniteSets

CONSTANTS
    Runs,
    FromPanel,      \* the runs started by a Panel job, the others by the command line
    StrategiesOf,   \* the strategies of each run, numbered in the order of their names
    Size,           \* config.strategy_batch_size
    MaxRestarts,    \* config.max_bot_restarts
    Nobody,
    MaxFaults,      \* bound: failed steps, and reports that are lost or were not copied
    MaxKills        \* bound: killed processes

Strategies == UNION {StrategiesOf[r] : r \in Runs}

ASSUME ConstantsAssumption ==
    /\ FromPanel \subseteq Runs /\ Runs \cap {Nobody, "user", "partial", "nothing"} = {}
    /\ StrategiesOf \in [Runs -> SUBSET Nat]
    /\ \A r \in Runs : StrategiesOf[r] # {} /\ IsFiniteSet(StrategiesOf[r])
    /\ Size \in Nat \ {0} /\ MaxRestarts \in Nat
    /\ MaxFaults \in Nat /\ MaxKills \in Nat

VARIABLES
    settings,   \* what is installed in the tester
    backup,     \* the backup directory of an installation under way
    bot,        \* what the running tester has loaded, Nothing when it is stopped
    log,        \* wizard_result.json: whose strategy the entry of a name belongs to
    lease,      \* the run the tester's lease names
    holderUp,   \* whether the process that took the lease exists
    locked,     \* the run locks held by live processes
    pc, mem,    \* program point of each call and its local variables
    saved,      \* disk: the saved results of each run
    unbacked,   \* disk: its strategies with a result whose report is not known, or gone
    inbox,      \* disk: the inbox of each run
    done,       \* the runs that returned COMPLETED
    faults, kills,
    found       \* history: settings and bot when the lease was granted

files == <<saved, unbacked, inbox, done>>
tester == <<settings, backup, bot, log>>
locks == <<lease, holderUp, locked>>
counts == <<faults, kills>>
vars == <<tester, locks, pc, mem, files, counts, found>>

\* A content of the settings directory: a chunk of a run, or what the user left there.
Content(r, chunk) == [of |-> r, names |-> chunk]
Users == Content("user", {})
Partial == Content("partial", {})
Nothing == Content("nothing", {})
Contents == [of : Runs \cup {"user", "partial", "nothing"}, names : SUBSET Strategies]

NoResults == [n \in Strategies |-> Nobody]
Have(results) == {n \in Strategies : results[n] # Nobody}
Take(results, S) == [n \in Strategies |-> IF n \in S THEN log[n] ELSE results[n]]

\* _write_saved_results and _validated_saved_results leave out a result without its report.
Without(results, gone) == [n \in Strategies |-> IF n \in gone THEN Nobody ELSE results[n]]

Blank == [snap |-> Nothing, outer |-> Nothing, inside |-> FALSE, started |-> FALSE,
          quiesced |-> TRUE, restarts |-> 0, todo |-> {}, got |-> NoResults,
          forced |-> {}, moved |-> FALSE]

Init ==
    /\ settings = Users /\ backup = Nothing /\ bot = Nothing /\ log = NoResults
    /\ lease = Nobody /\ holderUp = FALSE /\ locked = {}
    /\ pc = [r \in Runs |-> "idle"]
    /\ mem = [r \in Runs |-> Blank]
    /\ saved = [r \in Runs |-> NoResults] /\ unbacked = [r \in Runs |-> {}]
    /\ inbox = [r \in Runs |-> "none"]
    /\ done = {} /\ faults = 0 /\ kills = 0
    /\ found = [settings |-> Users, bot |-> Nothing]

At(r, point) == pc[r] = point
Goto(r, point) == pc' = [pc EXCEPT ![r] = point]
Fault == faults < MaxFaults /\ faults' = faults + 1 /\ UNCHANGED kills
Fine == UNCHANGED counts

-----------------------------------------------------------------------------
\* Stopping the bot, the lease, and the ways a call ends.

\* Mutant: a lease is taken over from a live owner.
AlwaysFree == lease = lease

Free == lease = Nobody \/ ~holderUp

TakeLease(r) ==
    /\ lease' = r /\ holderUp' = TRUE
    /\ found' = [settings |-> settings, bot |-> bot]
    /\ UNCHANGED locked

StopBot == bot' = Nothing

\* The call returns or raises to its caller: the Panel's job, or nobody.
Leave(r) ==
    IF r \in FromPanel
      THEN Goto(r, "jobstop") /\ mem' = [mem EXCEPT ![r].inside = FALSE]
      ELSE Goto(r, "idle") /\ mem' = [mem EXCEPT ![r] = Blank]

\* The Panel's job ends, without giving back a lease it could not clean up under.
EndJob(r) == Goto(r, "idle") /\ mem' = [mem EXCEPT ![r] = Blank]

GiveBack == lease' = Nobody /\ holderUp' = FALSE /\ UNCHANGED locked

-----------------------------------------------------------------------------
\* The Panel's job around run_batch.

\* The user, or the Panel after a restart, calls a run that is not completed.
Start(r) ==
    /\ At(r, "idle") /\ r \notin done
    /\ Goto(r, IF r \in FromPanel THEN "claim" ELSE "lock")
    /\ Fine /\ UNCHANGED <<tester, locks, mem, files, found>>

Claim(r) ==
    /\ At(r, "claim")
    /\ IF Free
         THEN TakeLease(r) /\ Goto(r, "jobcapture")
         ELSE Goto(r, "idle") /\ UNCHANGED <<locks, found>>
    /\ Fine /\ UNCHANGED <<tester, mem, files>>

\* Without a snapshot the job ends at once, and keeps the lease.
JobCapture(r) ==
    /\ At(r, "jobcapture")
    /\ \/ /\ mem' = [mem EXCEPT ![r].outer = settings]
          /\ Goto(r, "jobprepare") /\ Fine
       \/ Fault /\ EndJob(r)
    /\ UNCHANGED <<tester, locks, files, found>>

\* A job that was given dates installs the whole batch before it calls run_batch.
JobPrepare(r) ==
    /\ At(r, "jobprepare")
    /\ \/ StopBot /\ Fine /\ (Goto(r, "install") \/ Goto(r, "lock"))
       \/ Fault /\ UNCHANGED bot /\ Goto(r, "jobstop")
    /\ UNCHANGED <<settings, backup, log, locks, mem, files, found>>

JobStop(r) ==
    /\ At(r, "jobstop")
    /\ \/ StopBot /\ Fine /\ Goto(r, "jobrestore") /\ UNCHANGED mem
       \/ Fault /\ UNCHANGED bot /\ EndJob(r)
    /\ UNCHANGED <<settings, backup, log, locks, files, found>>

-----------------------------------------------------------------------------
\* run_batch up to its first installation.

\* A lock that an earlier call of this process leaked refuses the call.
Lock(r) ==
    /\ At(r, "lock")
    /\ IF r \in locked
         THEN Leave(r) /\ UNCHANGED locked
         ELSE /\ locked' = locked \cup {r}
              /\ mem' = [mem EXCEPT ![r].inside = TRUE]
              /\ Goto(r, "acquire")
    /\ Fine /\ UNCHANGED <<tester, lease, holderUp, files, found>>

\* A Panel job has the lease already.  A plan that fails gives back the run lock.
Acquire(r) ==
    /\ At(r, "acquire")
    /\ \/ Fine /\ Goto(r, "baseline") /\ UNCHANGED mem
          /\ IF r \in FromPanel THEN UNCHANGED <<locks, found>> ELSE Free /\ TakeLease(r)
       \/ /\ IF r \notin FromPanel /\ ~Free THEN Fine ELSE Fault
          /\ locked' = locked \ {r}
          /\ Leave(r) /\ UNCHANGED <<lease, holderUp, found>>
    /\ UNCHANGED <<tester, files>>

\* A failure before the try block gives nothing back.
Baseline(r) ==
    /\ At(r, "baseline")
    /\ \/ Goto(r, "firststop") /\ Fine /\ UNCHANGED mem
       \/ Fault /\ Leave(r)
    /\ UNCHANGED <<tester, locks, files, found>>

\* Only a failed stop, not a failure before it, leaves the tester in an unknown state.
FirstStop(r) ==
    /\ At(r, "firststop")
    /\ \/ StopBot /\ Fine /\ Goto(r, "capture") /\ UNCHANGED mem
       \/ /\ Fault /\ UNCHANGED bot
          /\ Goto(r, "handler")
          /\ \E q \in BOOLEAN : mem' = [mem EXCEPT ![r].quiesced = q]
    /\ UNCHANGED <<settings, backup, log, locks, files, found>>

Capture(r) ==
    /\ At(r, "capture")
    /\ \/ /\ mem' = [mem EXCEPT ![r].snap = settings]
          /\ Goto(r, "hydrate") /\ Fine
       \/ Fault /\ Goto(r, "handler") /\ UNCHANGED mem
    /\ UNCHANGED <<tester, locks, files, found>>

\* The second plan resumes from the saved results that their reports still back; with all of
\* them there is no test left.
Hydrate(r) ==
    /\ At(r, "hydrate")
    /\ \/ /\ mem' = [mem EXCEPT ![r].got = Without(saved[r], unbacked[r])]
          /\ Goto(r, IF StrategiesOf[r] \subseteq Have(mem'[r].got) THEN "resumed" ELSE "install")
          /\ Fine
       \/ Fault /\ Goto(r, "handler") /\ UNCHANGED mem
    /\ UNCHANGED <<tester, locks, files, found>>

-----------------------------------------------------------------------------
\* prepare_batch_files, for a chunk of run_batch or for the whole batch of a Panel job.

Missing(r) == StrategiesOf[r] \ Have(mem[r].got)
Chunk(r) ==
    IF mem[r].inside
      THEN {n \in Missing(r) : Cardinality({m \in Missing(r) : m < n}) < Size}
      ELSE StrategiesOf[r]

Failed(r) == Goto(r, IF mem[r].inside THEN "handler" ELSE "jobstop")

\* A backup that an installation cut short has left "requires recovery".
Install(r) ==
    /\ At(r, "install")
    /\ IF backup = Nothing
         THEN backup' = settings /\ settings' = Partial /\ Goto(r, "copy")
         ELSE Failed(r) /\ UNCHANGED <<settings, backup>>
    /\ Fine /\ UNCHANGED <<bot, log, locks, mem, files, found>>

\* Either the backup goes back to its place, or the rollback fails as well.
RollBack ==
    \/ settings' = backup /\ backup' = Nothing
    \/ settings' = Partial /\ UNCHANGED backup

Copy(r) ==
    /\ At(r, "copy")
    /\ \/ /\ settings' = Content(r, Chunk(r))
          /\ Goto(r, "dropbackup") /\ Fine /\ UNCHANGED backup
       \/ Fault /\ RollBack /\ Failed(r)
    /\ UNCHANGED <<bot, log, locks, mem, files, found>>

DropBackup(r) ==
    /\ At(r, "dropbackup")
    /\ \/ /\ backup' = Nothing
          /\ IF mem[r].inside
               THEN mem' = [mem EXCEPT ![r].todo = Chunk(r)] /\ Goto(r, "start")
               ELSE Goto(r, "lock") /\ UNCHANGED mem
          /\ Fine /\ UNCHANGED settings
       \/ Fault /\ RollBack /\ Failed(r) /\ UNCHANGED mem
    /\ UNCHANGED <<bot, log, locks, files, found>>

-----------------------------------------------------------------------------
\* The attempts of one chunk.

\* Mutant: the bot counts as started only once it has.
StartBotLate(r) ==
    /\ At(r, "start")
    /\ \/ /\ bot' = settings /\ Goto(r, "test") /\ Fine
          /\ mem' = [mem EXCEPT ![r].started = TRUE]
       \/ /\ Fault /\ bot' \in {Nothing, settings}
          /\ Goto(r, "recover") \/ Goto(r, "handler")
          /\ UNCHANGED mem
    /\ UNCHANGED <<settings, backup, log, locks, files, found>>

\* A start that fails may leave the bot running.
StartBot(r) ==
    /\ At(r, "start")
    /\ mem' = [mem EXCEPT ![r].started = TRUE]
    /\ \/ bot' = settings /\ Goto(r, "test") /\ Fine
       \/ /\ Fault /\ bot' \in {Nothing, settings}
          /\ Goto(r, "recover") \/ Goto(r, "handler")
    /\ UNCHANGED <<settings, backup, log, locks, files, found>>

\* monitor_controlled_batch: strategies finish, and the attempt succeeds, fails recoverably,
\* or fails.
Monitor(r) ==
    /\ At(r, "test")
    /\ \E finished \in SUBSET mem[r].todo :
         /\ log' = [n \in Strategies |-> IF n \in finished THEN bot.of ELSE log[n]]
         /\ mem' = [mem EXCEPT ![r].moved = (finished # {})]
         /\ \/ finished = mem[r].todo /\ Goto(r, "verify") /\ Fine
            \/ Goto(r, "recover") /\ Fine
            \/ Goto(r, "handler") /\ Fault
    /\ UNCHANGED <<settings, backup, bot, locks, files, found>>

\* The results of the chunk are read and kept; two strategies in one HTML file collide.
Verify(r) ==
    /\ At(r, "verify")
    /\ \/ LET kept == Take(mem[r].got, mem[r].todo)
                 gone == unbacked[r] \ mem[r].todo
          IN /\ saved' = [saved EXCEPT ![r] = Without(kept, gone)]
             /\ unbacked' = [unbacked EXCEPT ![r] = gone]
             /\ mem' = [mem EXCEPT ![r].got = kept, ![r].forced = @ \ mem[r].todo]
             /\ Goto(r, "close") /\ Fine
       \/ /\ \E collided \in SUBSET mem[r].todo :
               mem' = [mem EXCEPT ![r].forced = @ \cup collided]
          /\ Goto(r, "recover") /\ Fine /\ UNCHANGED <<saved, unbacked>>
       \/ Fault /\ Goto(r, "handler") /\ UNCHANGED <<saved, unbacked, mem>>
    /\ UNCHANGED <<tester, locks, inbox, done, found>>

Close(r) ==
    /\ At(r, "close")
    /\ \/ /\ StopBot /\ Fine /\ Goto(r, "next")
          /\ mem' = [mem EXCEPT ![r].started = FALSE]
       \/ Fault /\ Goto(r, "handler") /\ UNCHANGED <<bot, mem>>
    /\ UNCHANGED <<settings, backup, log, locks, files, found>>

\* After a recoverable failure the bot is stopped, at the second try if need be.
Recover(r) ==
    /\ At(r, "recover")
    /\ \/ /\ StopBot /\ Fine /\ Goto(r, "salvage")
          /\ mem' = [mem EXCEPT ![r].started = FALSE]
       \/ Fault /\ Goto(r, "handler") /\ UNCHANGED <<bot, mem>>
    /\ UNCHANGED <<settings, backup, log, locks, files, found>>

\* The entries of a log that has changed which a report with that strategy's name backs: a
\* snapshot of this or an earlier call, or a file in the tester's report directory.
Validated(r) == SUBSET {n \in mem[r].todo : mem[r].moved /\ log[n] # Nobody}

\* Mutant: only the results validated now are written.
SalvageForgets(r) ==
    /\ At(r, "salvage")
    /\ \E V \in Validated(r) :
         LET kept == Take(NoResults, V \ mem[r].forced)
             todo == {n \in mem[r].todo : n \notin Have(kept) \/ n \in mem[r].forced}
         IN /\ saved' = [saved EXCEPT ![r] = kept]
            /\ mem' = [mem EXCEPT ![r].got = kept, ![r].todo = todo,
                          ![r].restarts = IF todo # {} /\ @ < MaxRestarts THEN @ + 1 ELSE @]
            /\ Goto(r, IF todo = {} THEN "next"
                       ELSE IF mem[r].restarts < MaxRestarts THEN "start" ELSE "handler")
    /\ Fine /\ UNCHANGED <<tester, locks, unbacked, inbox, done, found>>

\* Mutant: a restart is not counted.
SalvageUncounted(r) ==
    /\ At(r, "salvage")
    /\ \E V \in Validated(r) :
         LET kept == [n \in Strategies |->
                        IF n \in mem[r].forced THEN Nobody
                        ELSE IF n \in V THEN log[n] ELSE mem[r].got[n]]
             todo == {n \in mem[r].todo : n \notin Have(kept) \/ n \in mem[r].forced}
         IN /\ saved' = [saved EXCEPT ![r] = kept]
            /\ mem' = [mem EXCEPT ![r].got = kept, ![r].todo = todo]
            /\ Goto(r, IF todo = {} THEN "next" ELSE "start")
    /\ Fine /\ UNCHANGED <<tester, locks, unbacked, inbox, done, found>>

\* What is validated is kept, collided strategies excepted, and written where the path of its
\* report is known; the rest is attempted again while restarts are left.
Salvage(r) ==
    /\ At(r, "salvage")
    /\ \/ /\ \E V \in Validated(r) : \E unknown \in SUBSET V :
               LET kept == [n \in Strategies |->
                              IF n \in mem[r].forced THEN Nobody
                              ELSE IF n \in V THEN log[n] ELSE mem[r].got[n]]
                   gone == (unbacked[r] \ V) \cup unknown
                   todo == {n \in mem[r].todo : n \notin Have(kept) \/ n \in mem[r].forced}
                   again == todo # {} /\ mem[r].restarts < MaxRestarts
               IN /\ saved' = [saved EXCEPT ![r] = Without(kept, gone)]
                  /\ unbacked' = [unbacked EXCEPT ![r] = gone]
                  /\ mem' = [mem EXCEPT ![r].got = kept, ![r].todo = todo,
                                ![r].restarts = IF again THEN @ + 1 ELSE @]
                  /\ Goto(r, IF todo = {} THEN "next" ELSE IF again THEN "start" ELSE "handler")
                  /\ IF unknown = {} THEN Fine ELSE Fault
       \/ Fault /\ Goto(r, "handler") /\ UNCHANGED <<mem, saved, unbacked>>
    /\ UNCHANGED <<tester, locks, inbox, done, found>>

NextChunk(r) ==
    /\ At(r, "next")
    /\ \/ Goto(r, IF Missing(r) = {} THEN "publish" ELSE "install") /\ Fine
       \/ Fault /\ Goto(r, "handler")
    /\ UNCHANGED <<tester, locks, mem, files, found>>

-----------------------------------------------------------------------------
\* The end of run_batch: the CSV, the inbox, and the way back.

\* The CSV needs a result of every strategy and its report, if only in the tester's report
\* directory; the bot is stopped once more if tests were run.
Publish(r) ==
    /\ At(r, "publish") \/ At(r, "resumed")
    /\ \/ Fine /\ Goto(r, IF At(r, "publish") THEN "laststop" ELSE "inbox")
       \/ Goto(r, "handler") /\ IF unbacked[r] # {} THEN Fine ELSE Fault
    /\ UNCHANGED <<tester, locks, mem, files, found>>

LastStop(r) ==
    /\ At(r, "laststop")
    /\ \/ StopBot /\ Fine /\ Goto(r, "inbox")
       \/ Fault /\ UNCHANGED bot /\ Goto(r, "handler")
    /\ UNCHANGED <<settings, backup, log, locks, mem, files, found>>

\* capture_verified_inbox needs every report, refuses an inbox that exists, and writes its
\* manifest last.
CaptureInbox(r) ==
    /\ At(r, "inbox")
    /\ IF inbox[r] = "none" /\ unbacked[r] = {}
         THEN inbox' = [inbox EXCEPT ![r] = "partial"] /\ Goto(r, "manifest")
         ELSE Goto(r, "handler") /\ UNCHANGED inbox
    /\ Fine /\ UNCHANGED <<tester, locks, mem, saved, unbacked, done, found>>

WriteManifest(r) ==
    /\ At(r, "manifest")
    /\ \/ inbox' = [inbox EXCEPT ![r] = "whole"] /\ Goto(r, "complete") /\ Fine
       \/ inbox' = [inbox EXCEPT ![r] = "none"] /\ Goto(r, "handler") /\ Fault
    /\ UNCHANGED <<tester, locks, mem, saved, unbacked, done, found>>

Complete(r) ==
    /\ At(r, "complete")
    /\ \/ done' = done \cup {r} /\ Goto(r, "finally") /\ Fine
       \/ Fault /\ Goto(r, "handler") /\ UNCHANGED done
    /\ UNCHANGED <<tester, locks, mem, saved, unbacked, inbox, found>>

\* except BaseException: a bot that was started is stopped before anything is put back.
Handler(r) ==
    /\ At(r, "handler") /\ Goto(r, "finally")
    /\ \/ /\ Fine
          /\ IF mem[r].started THEN StopBot ELSE UNCHANGED bot
          /\ mem' = [mem EXCEPT ![r].started = FALSE]
       \/ /\ mem[r].started /\ Fault
          /\ UNCHANGED bot
          /\ mem' = [mem EXCEPT ![r].quiesced = FALSE]
    /\ UNCHANGED <<settings, backup, log, locks, files, found>>

\* finally: the run lock first; after a stop that failed the lease is kept, the settings too.
Finally(r) ==
    /\ At(r, "finally")
    /\ locked' = locked \ {r}
    /\ IF mem[r].quiesced
         THEN Goto(r, IF mem[r].snap # Nothing THEN "restore" ELSE "release") /\ UNCHANGED mem
         ELSE Leave(r)
    /\ Fine /\ UNCHANGED <<tester, lease, holderUp, files, found>>

\* restore_tester_settings removes the installed files, then puts the others in place.
\* The lease is kept when that fails.
Restore(r) ==
    /\ At(r, "restore") \/ At(r, "jobrestore")
    /\ settings' = Partial
    /\ Goto(r, IF At(r, "restore") THEN "restoring" ELSE "jobrestoring")
    /\ Fine /\ UNCHANGED <<backup, bot, log, locks, mem, files, found>>

\* Mutant: the snapshot of the Panel's job is not put back after that of run_batch.
RestoredOnce(r) ==
    /\ At(r, "restoring") \/ At(r, "jobrestoring")
    /\ settings' = IF At(r, "restoring") THEN mem[r].snap ELSE settings
    /\ Goto(r, IF At(r, "restoring") THEN "release" ELSE "jobrelease")
    /\ Fine /\ UNCHANGED <<backup, bot, log, locks, mem, files, found>>

Restored(r) ==
    /\ At(r, "restoring") \/ At(r, "jobrestoring")
    /\ \/ /\ settings' = IF At(r, "restoring") THEN mem[r].snap ELSE mem[r].outer
          /\ Goto(r, IF At(r, "restoring") THEN "release" ELSE "jobrelease")
          /\ Fine /\ UNCHANGED mem
       \/ Fault /\ UNCHANGED settings /\ IF At(r, "restoring") THEN Leave(r) ELSE EndJob(r)
    /\ UNCHANGED <<backup, bot, log, locks, files, found>>

\* A lease that the Panel's job took is not run_batch's to release.
Release(r) ==
    /\ At(r, "release") \/ At(r, "jobrelease")
    /\ IF At(r, "release") THEN Leave(r) ELSE EndJob(r)
    /\ IF At(r, "release") /\ r \in FromPanel THEN UNCHANGED locks ELSE GiveBack
    /\ Fine /\ UNCHANGED <<tester, files, found>>

-----------------------------------------------------------------------------
\* The process of a run that is not in a call ends, or is killed in one.
Forget(r) ==
    /\ locked' = locked \ {r}
    /\ holderUp' = (holderUp /\ lease # r)
    /\ UNCHANGED lease

Exit(r) ==
    /\ At(r, "idle") /\ (r \in locked \/ (lease = r /\ holderUp))
    /\ Forget(r)
    /\ Fine /\ UNCHANGED <<tester, pc, mem, files, found>>

Kill(r) ==
    /\ kills < MaxKills /\ kills' = kills + 1 /\ UNCHANGED faults
    /\ ~At(r, "idle") /\ EndJob(r) /\ Forget(r)
    /\ UNCHANGED <<tester, files, found>>

\* The report of a saved result disappears, or changes, before the run is completed.
LoseReport(r) ==
    /\ r \notin done /\ Fault
    /\ \E n \in Have(saved[r]) \ unbacked[r] : unbacked' = [unbacked EXCEPT ![r] = @ \cup {n}]
    /\ UNCHANGED <<tester, locks, pc, mem, saved, inbox, done, found>>

Step(r) ==
    \/ Claim(r) \/ JobCapture(r) \/ JobPrepare(r) \/ JobStop(r)
    \/ Lock(r) \/ Acquire(r) \/ Baseline(r) \/ FirstStop(r) \/ Capture(r) \/ Hydrate(r)
    \/ Install(r) \/ Copy(r) \/ DropBackup(r)
    \/ StartBot(r) \/ Monitor(r) \/ Verify(r) \/ Close(r) \/ Recover(r) \/ Salvage(r)
    \/ NextChunk(r) \/ Publish(r) \/ LastStop(r) \/ CaptureInbox(r) \/ WriteManifest(r)
    \/ Complete(r) \/ Handler(r) \/ Finally(r)
    \/ Restore(r) \/ Restored(r) \/ Release(r)

Next == \E r \in Runs : Start(r) \/ Step(r) \/ Exit(r) \/ Kill(r) \/ LoseReport(r)

Spec == Init /\ [][Next]_vars

\* A call under way goes on: every wait in it, for the bot or for a test, has a timeout.
Fairness == \A r \in Runs : WF_vars(Step(r))
FairSpec == Spec /\ Fairness

-----------------------------------------------------------------------------
Points ==
    {"idle", "claim", "jobcapture", "jobprepare", "jobstop", "jobrestore", "jobrestoring",
     "jobrelease", "lock", "acquire", "baseline", "firststop", "capture", "hydrate", "install",
     "copy", "dropbackup", "start", "test", "verify", "close", "recover", "salvage", "next",
     "resumed", "publish", "laststop", "inbox", "manifest", "complete", "handler", "finally",
     "restore", "restoring", "release"}

Results == [Strategies -> Runs \cup {Nobody}]

TypeOK ==
    /\ {settings, backup, bot} \subseteq Contents
    /\ log \in Results
    /\ lease \in Runs \cup {Nobody} /\ holderUp \in BOOLEAN
    /\ locked \subseteq Runs /\ done \subseteq Runs
    /\ pc \in [Runs -> Points]
    /\ \A r \in Runs :
         /\ {mem[r].snap, mem[r].outer} \subseteq Contents
         /\ mem[r].restarts \in 0..MaxRestarts
         /\ mem[r].todo \cup mem[r].forced \subseteq StrategiesOf[r]
         /\ mem[r].got \in Results /\ saved[r] \in Results
         /\ unbacked[r] \subseteq Strategies
         /\ inbox[r] \in {"none", "partial", "whole"}
    /\ faults \in 0..MaxFaults /\ kills \in 0..MaxKills

\* The strategies a run is testing are its own, and the ones installed: no other run
\* reaches the tester between its installation and the end of its test.
TestsItsOwn ==
    \A r \in Runs : At(r, "test") \/ At(r, "verify") =>
        bot = settings /\ bot.of = r /\ mem[r].todo \subseteq bot.names

\* Nobody replaces the installed settings, in either direction, under a running tester.
NoSwapUnderTest == [][settings' # settings => bot = Nothing]_vars

\* A lease that is given back leaves the tester as it was when the lease was granted:
\* the same settings, and no bot running that was not running then.
LeftAsFound ==
    [][lease # Nobody /\ lease' = Nobody =>
         settings' = found.settings /\ bot' \in {Nothing, found.bot}]_vars

\* A result that was saved is lost to no later failure, kill or restart, unless its
\* strategy collided with another one in an HTML report, or its report is gone.
SavedKept ==
    [][\A r \in Runs :
         Have(saved[r]) \ (mem[r].forced \cup unbacked[r]) \subseteq Have(saved'[r])]_vars

\* Every call ends: restarts of the bot are bounded, and each chunk makes progress.
CallsEnd == \A r \in Runs : ~At(r, "idle") ~> At(r, "idle")

\* What a run keeps for a strategy was measured on this run's strategy of that name.
KeepsItsOwn ==
    \A r \in Runs : \A n \in Strategies : saved[r][n] \in {r, Nobody}
=============================================================================
