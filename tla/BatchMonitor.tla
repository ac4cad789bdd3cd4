---------------------------- MODULE BatchMonitor ----------------------------
(***************************************************************************)
(* monitor_controlled_batch of src/src/mrs3/runner/monitor.py: a batch of  *)
(* strategies is submitted to the tester a few at a time, and the tester's *)
(* table, its result log and its report files are polled until each of     *)
(* them has a report.  What comes back without one is submitted again, up  *)
(* to a number of attempts that outlives a restart of the bot.  A thread,  *)
(* the report collector, copies each report before the next run that uses  *)
(* the same file name overwrites it; the monitor reads only those copies   *)
(* (both callers pass a snapshot directory and keep the sources).          *)
(*                                                                         *)
(* The tester is external: it starts what it was given in order, and ends  *)
(* each run with a result in the table and the log and, before or after    *)
(* that, a report file named for the strategy's Path.  Its faults are the  *)
(* ones the monitor has a branch for.  A run is numbered by its strategy's *)
(* submissions, a run of before the runner by 0, and its runId is that     *)
(* number unless the tester uses the one of an old result again.  The      *)
(* collector looks every 50 ms and the monitor once a second, but a poll   *)
(* waits for no copy: it may overtake the thread by any number of steps.   *)
(***************************************************************************)
EXTENDS Naturals, FiniteSets, FiniteSetsExt

CONSTANTS
    Names,          \* expected_names
    Path,           \* the report file of each strategy
    Key,            \* collision_keys of a call that has them
    Keyed,          \* whether the calls have them: after a collision was seen, else not
    Window,         \* config.max_parallel_submissions
    MaxAttempts,    \* config.max_strategy_attempts
    Used,           \* initial_attempt_counts of the first call
    Stale,          \* names whose row and log entry hold a result of before the runner
    Left,           \* those whose report of then is still there
    Partial,        \* the values of allow_partial
    StablePolls,    \* config.report_stability_polls
    MaxRestarts,    \* config.max_bot_restarts
    Faults,         \* kinds of faults that happen
    MaxFaults       \* bound: mishaps at which no more faults happen, without keys and with

Kinds == {"lost", "lostresult", "dropped", "noreport", "slow", "http", "reused", "nocopy", "ended"}
Paths == {Path[n] : n \in Names}

ASSUME ConstantsAssumption ==
    /\ IsFiniteSet(Names) /\ Names # {} /\ Stale \subseteq Names /\ Left \subseteq Stale
    /\ Used \in [Names -> Nat]
    /\ Partial \subseteq BOOLEAN /\ Keyed \subseteq BOOLEAN
    /\ {Window, MaxAttempts} \subseteq Nat \ {0} /\ StablePolls \in Nat \ {0, 1}
    /\ MaxRestarts \in Nat /\ MaxFaults \in [BOOLEAN -> Nat] /\ Faults \subseteq Kinds

None == [of |-> "none"]
Report(n, k) == [of |-> "strategy", name |-> n, run |-> k]
Ended == [of |-> "ended"]       \* in hand of a collector whose thread has ended

VARIABLES
    row,        \* the tester's table: state of each strategy, and the runId of a RESULT
    queue,      \* submissions the tester took and has not started
    running,    \* the submission whose run is under way, None without one
    owed,       \* runs started whose report is not written
    log,        \* wizard_result.json: name, runId and run of each entry
    file,       \* the report in each report file
    tr,         \* the trackers
    pending, launched, base,    \* pending, launched_names, baseline_run_ids
    names,      \* expected_names of this call
    partial,    \* allow_partial
    keyed,      \* whether this call has collision_keys
    counts,     \* the caller's attempt counts, kept by attempts_callback
    pc, rows, todo, outcome,    \* the monitor's place, its last reading of the table, and its end
    inspected,  \* reports the collector is done with
    inHand,     \* the report whose name the collector has read, before it copied it
    snap,       \* _snapshots
    restarts,
    subs, from,     \* history: submissions sent, and those before this call
    blame,      \* history: mishaps of each strategy
    crashed     \* history: a collector's thread has ended with an exception

table == <<row, queue, running, owed, log>>
collector == <<inspected, inHand, crashed>>
call == <<names, partial, keyed, restarts, from>>
vars == <<table, file, tr, pending, launched, base, call, counts, pc, rows, todo, outcome,
          collector, snap, subs, blame>>

NoStamp == "none"       \* a time stamp: unset, set, or older than result_report_grace_seconds
Tracker(k) == [attempts |-> k, state |-> "NONE", id |-> None, report |-> None, polls |-> 0,
               launchedAt |-> NoStamp, missingSince |-> NoStamp, seen |-> FALSE,
               done |-> FALSE, failed |-> FALSE]

Settled(n) == tr[n].done \/ tr[n].failed
Active == {n \in launched : ~Settled(n)}
Id(k) == [of |-> "run", k |-> k]
Row(s, i) == [state |-> s, id |-> i]

\* The lane of a strategy: its own unless the call has keys.
Lane(n) == IF keyed THEN Key[n] ELSE n

\* Mutant: the reports that are there when a call begins are not set aside.
NothingSeeded == {}

\* _seed_existing_reports.
Seeded == {file[p] : p \in Paths} \ {None}

\* The runIds that are evidence from before this call.
Baseline == [n \in Names |-> {e.id : e \in {f \in log : f.name = n}} \cup ({row[n].id} \ {None})]

Init ==
    /\ row = [n \in Names |-> IF n \in Stale THEN Row("RESULT", Id(0)) ELSE Row("TEST", None)]
    /\ queue = [n \in Names |-> {}] /\ running = [n \in Names |-> None]
    /\ owed = [n \in Names |-> {}]
    /\ log = {[name |-> n, id |-> Id(0), run |-> 0] : n \in Stale}
    /\ file \in [Paths -> {None} \cup {Report(n, 0) : n \in Left}]
    /\ \A p \in Paths : file[p] # None <=> \E n \in Left : Path[n] = p
    /\ \A p \in Paths : file[p] # None => Path[file[p].name] = p
    /\ tr = [n \in Names |-> Tracker(Used[n])]
    /\ pending = Names /\ launched = {} /\ base = Baseline
    /\ names = Names /\ partial \in Partial /\ keyed \in Keyed /\ (partial => ~keyed) /\ counts = Used
    /\ pc = "submit" /\ rows = row /\ todo = {} /\ outcome = "none"
    /\ inspected = Seeded /\ crashed = FALSE
    /\ inHand = None /\ snap = [n \in Names |-> None]
    /\ restarts = 0
    /\ subs = [n \in Names |-> 0] /\ from = subs /\ blame = [n \in Names |-> 0]

Blame(n, kind) ==
    /\ kind \in Faults /\ MapThenSumSet(LAMBDA m : blame[m], Names) < MaxFaults[keyed]
    /\ blame' = [blame EXCEPT ![n] = @ + 1]

-----------------------------------------------------------------------------
(* The tester.                                                             *)

\* A run starts: the row shows its progress, and no runId.
Start(n) ==
    /\ queue[n] # {} /\ running[n] = None
    /\ LET k == Min(queue[n]) IN
        /\ queue' = [queue EXCEPT ![n] = @ \ {k}]
        /\ running' = [running EXCEPT ![n] = Id(k)]
        /\ owed' = [owed EXCEPT ![n] = @ \cup {k}]
    /\ row' = [row EXCEPT ![n] = Row("RUNNING", None)]
    /\ UNCHANGED <<log, file, tr, pending, launched, base, call, counts, pc, rows, todo,
                   outcome, collector, snap, subs, blame>>

\* A report of this call that the collector has not copied, and still would.
Uncopied(r) ==
    /\ r # None /\ r.run = subs[r.name] /\ r.run > from[r.name]
    /\ r \notin inspected \/ r = inHand

\* The report of a run is written, over the one that had its name: if that is of another
\* strategy and has no copy yet, it is lost.
WriteReport(n) ==
    /\ owed[n] # {}
    /\ LET old == file[Path[n]] IN
        blame' = IF Uncopied(old) /\ old.name # n THEN [blame EXCEPT ![old.name] = @ + 1] ELSE blame
    /\ file' = [file EXCEPT ![Path[n]] = Report(n, Min(owed[n]))]
    /\ owed' = [owed EXCEPT ![n] = @ \ {Min(@)}]
    /\ UNCHANGED <<row, queue, running, log, tr, pending, launched, base, call, counts, pc,
                   rows, todo, outcome, collector, snap, subs>>

\* The entries of a result, one where the tester uses each runId once.
Entries(n, i) == {e \in log : e.name = n /\ e.id = i}

\* A run ends with a result; under a runId that the log already has, its entry takes the place
\* of the old one or is a second one.
Finish(n) ==
    /\ running[n] # None
    /\ \E i \in {running[n]} \cup (IF "reused" \in Faults /\ n \in Stale THEN {Id(0)} ELSE {}) :
        /\ row' = [row EXCEPT ![n] = Row("RESULT", i)]
        /\ \E kept \in {log, log \ Entries(n, i)} :
            log' = kept \cup {[name |-> n, id |-> i, run |-> running[n].k]}
    /\ running' = [running EXCEPT ![n] = None]
    /\ UNCHANGED <<queue, owed, file, tr, pending, launched, base, call, counts, pc, rows,
                   todo, outcome, collector, snap, subs, blame>>

\* A run comes back to TEST without a result.
Drop(n) ==
    /\ running[n] # None /\ Blame(n, "dropped")
    /\ row' = [row EXCEPT ![n] = Row("TEST", None)]
    /\ owed' = [owed EXCEPT ![n] = @ \ {running[n].k}]
    /\ running' = [running EXCEPT ![n] = None]
    /\ UNCHANGED <<queue, log, file, tr, pending, launched, base, call, counts, pc, rows,
                   todo, outcome, collector, snap, subs>>

\* The report of a run is never written.
LoseReport(n) ==
    /\ running[n] = None /\ owed[n] # {} /\ Blame(n, "noreport")
    /\ owed' = [owed EXCEPT ![n] = @ \ {Min(@)}]
    /\ UNCHANGED <<row, queue, running, log, file, tr, pending, launched, base, call, counts,
                   pc, rows, todo, outcome, collector, snap, subs>>

-----------------------------------------------------------------------------
(* The report collector.                                                   *)

\* capture_once: a revision of a report is stable, and its name is read.
Inspect(p) ==
    /\ outcome = "none" /\ inHand = None
    /\ file[p] # None /\ file[p] \notin inspected
    /\ inspected' = inspected \cup {file[p]}
    /\ IF file[p].name \in names
       THEN inHand' = file[p]
       ELSE UNCHANGED inHand
    /\ UNCHANGED <<table, file, tr, pending, launched, base, call, counts, pc, rows, todo,
                   outcome, snap, subs, blame, crashed>>

\* The copy becomes the snapshot if it still is of the strategy whose name was read.  A copy
\* that fails is not made again; a mkdir or unlink that fails ends the thread.
Copy ==
    /\ inHand \notin {None, Ended}
    /\ LET n == inHand.name
           copied == file[Path[n]]
       IN  \/ /\ snap' = IF copied.name = n THEN [snap EXCEPT ![n] = copied] ELSE snap
              /\ inHand' = None /\ UNCHANGED <<blame, crashed>>
           \/ /\ Blame(n, "nocopy")
              /\ inHand' = None /\ UNCHANGED <<snap, crashed>>
           \/ /\ Blame(n, "ended")
              /\ inHand' = Ended /\ crashed' = TRUE /\ UNCHANGED snap
    /\ UNCHANGED <<table, file, tr, pending, launched, base, call, counts, pc, rows, todo,
                   outcome, inspected, subs>>

-----------------------------------------------------------------------------
(* The monitor.                                                            *)

\* Mutant: a launch is not timed.
LaunchedUntimed(n) ==
    [tr[n] EXCEPT !.attempts = @ + 1, !.id = None, !.report = None, !.polls = 0, !.done = FALSE]

\* What launch forgets and notes about a strategy, before the tester is called.
Launched(n) ==
    [tr[n] EXCEPT !.attempts = @ + 1, !.id = None, !.report = None, !.polls = 0,
                  !.done = FALSE, !.launchedAt = "set"]

Forget(n) ==
    /\ base' = [base EXCEPT ![n] = @ \cup ({tr[n].id} \ {None})]
    /\ snap' = [snap EXCEPT ![n] = None]

\* client.launch_strategy: taken by the tester, lost by it, or failed with or without effect.
Send(n, next) ==
    /\ subs' = [subs EXCEPT ![n] = @ + 1]
    /\ \/ /\ queue' = [queue EXCEPT ![n] = @ \cup {subs'[n]}]
          /\ pc' = next /\ launched' = launched \cup {n}
          /\ UNCHANGED <<outcome, blame>>
       \/ /\ Blame(n, IF row[n].state = "RESULT" THEN "lostresult" ELSE "lost")
          /\ pc' = next /\ launched' = launched \cup {n}
          /\ UNCHANGED <<queue, outcome>>
       \/ /\ Blame(n, "http")
          /\ queue' = [queue EXCEPT ![n] = @ \cup {subs'[n]}]
          /\ pc' = "end" /\ outcome' = "broken"
          /\ UNCHANGED launched

\* Mutant: the attempt is reported when the request has succeeded.
LaunchReported(n, tracker, next) ==
    /\ Forget(n)
    /\ tr' = [tr EXCEPT ![n] = tracker]
    /\ Send(n, next)
    /\ counts' = IF pc' = "end" THEN counts ELSE [counts EXCEPT ![n] = tracker.attempts]

\* launch, with attempts_callback before the request.
Launch(n, tracker, next) ==
    /\ Forget(n)
    /\ tr' = [tr EXCEPT ![n] = tracker]
    /\ counts' = [counts EXCEPT ![n] = tracker.attempts]
    /\ Send(n, next)

\* Mutant: only the strategy itself keeps its lane.
FreeByName == {n \in pending : n \notin Active}

Free == {n \in pending : \A m \in Active : Lane(m) # Lane(n)}

Submit(n) ==
    /\ pc = "submit" /\ Cardinality(Active) < Window /\ n \in Free
    /\ pending' = pending \ {n}
    /\ IF tr[n].attempts >= MaxAttempts
       THEN /\ pc' = "end" /\ outcome' = "exhausted"
            /\ UNCHANGED <<tr, base, snap, counts, subs, queue, launched, blame>>
       ELSE Launch(n, Launched(n), "submit")
    /\ UNCHANGED <<row, running, owed, log, file, call, rows, todo, collector>>

\* The poll reads the tester's table.
Look ==
    /\ pc = "submit" /\ (Cardinality(Active) >= Window \/ Free = {})
    /\ rows' = row /\ pc' = "examine"
    /\ UNCHANGED <<table, file, tr, pending, launched, base, call, counts, todo, outcome,
                   collector, snap, subs, blame>>

\* _matching_entry: the log has exactly one entry of the name and the runId.
Matched(n, i) == \E e \in Entries(n, i) : Entries(n, i) = {e}

\* The tracker after a poll that has read its row, the log and the collector's snapshot.
Observed(n) ==
    LET r == rows[n]
        t == [tr[n] EXCEPT !.state = r.state,
                           !.seen = @ \/ r.state = "RUNNING",
                           !.launchedAt = IF r.state = "RUNNING" THEN NoStamp ELSE @,
                           !.id = IF r.id = None THEN @ ELSE r.id]
    IN  CASE r.state # "RESULT" -> [t EXCEPT !.missingSince = NoStamp]
          [] r.state = "RESULT" /\ ~Matched(n, r.id) -> t
          [] r.state = "RESULT" /\ Matched(n, r.id) /\ snap[n] = None ->
                IF r.id \in base[n] THEN t
                ELSE [t EXCEPT !.missingSince = IF @ = NoStamp THEN "set" ELSE @]
          [] OTHER ->
                LET polls == IF t.report = snap[n] THEN t.polls + 1 ELSE 1
                IN  [t EXCEPT !.missingSince = NoStamp, !.report = snap[n],
                              !.polls = polls, !.done = polls >= StablePolls]

Examine ==
    /\ pc = "examine"
    /\ tr' = [n \in Names |->
                IF n \in names /\ tr[n].attempts > 0 /\ ~Settled(n) THEN Observed(n) ELSE tr[n]]
    /\ todo' = names /\ pc' = "retry"
    /\ UNCHANGED <<table, file, pending, launched, base, call, counts, rows, outcome,
                   collector, snap, subs, blame>>

\* The reasons to submit again, in the loop over all trackers.
ReturnedToTest(n) == tr[n].seen /\ tr[n].state = "TEST"
MissingReport(n) == tr[n].state = "RESULT" /\ tr[n].missingSince = "old"
NeverStarted(n) == tr[n].state = "TEST" /\ tr[n].launchedAt = "old"
Again(n) == ~tr[n].done /\ (ReturnedToTest(n) \/ MissingReport(n) \/ NeverStarted(n))
Exhausted == {n \in names : Again(n) /\ tr[n].attempts >= MaxAttempts}

\* Mutant: a retry does not forget that its strategy was seen running.
ResetTimes(n) == [Launched(n) EXCEPT !.missingSince = NoStamp]

\* What the loop resets before it calls launch.
Reset(n) == [Launched(n) EXCEPT !.seen = FALSE, !.missingSince = NoStamp]

Retry(n) ==
    /\ pc = "retry" /\ n \in todo /\ todo' = todo \ {n}
    /\ IF Again(n) /\ tr[n].attempts < MaxAttempts
       THEN Launch(n, Reset(n), "retry")
       ELSE UNCHANGED <<tr, base, snap, counts, subs, queue, launched, pc, outcome, blame>>
    /\ UNCHANGED <<row, running, owed, log, file, pending, call, rows, collector>>

\* The end of the poll: exhausted strategies, the end of the batch, or the next poll.
Judge ==
    /\ pc = "retry" /\ todo = {}
    /\ IF Exhausted # {} /\ ~partial
       THEN /\ outcome' = "exhausted" /\ pc' = "end" /\ UNCHANGED tr
       ELSE /\ tr' = [n \in Names |-> [tr[n] EXCEPT !.failed = @ \/ n \in Exhausted]]
            /\ IF \A n \in names : tr'[n].done \/ tr'[n].failed
               THEN outcome' = "returned" /\ pc' = "end"
               ELSE pc' = "submit" /\ UNCHANGED outcome
    /\ UNCHANGED <<table, file, pending, launched, base, call, counts, rows, todo, collector,
                   snap, subs, blame>>

\* The collector has dealt with every report there is, if it still runs.
CaughtUp == inHand = Ended \/ (inHand = None /\ \A p \in Paths : file[p] \in inspected \cup {None})

\* Whether something of a strategy is still to come: from the tester, from the collector, or
\* from a poll that sees what they did.
Coming(n) ==
    \/ rows[n] # row[n] \/ Observed(n) # tr[n]
    \/ queue[n] # {} \/ running[n] # None \/ owed[n] # {}
    \/ ~CaughtUp

\* result_report_grace_seconds pass: with nothing under way, or before the tester is ready.
GracePasses(n) ==
    /\ outcome = "none" /\ n \in Active
    /\ \/ tr[n].launchedAt = "set" /\ tr' = [tr EXCEPT ![n].launchedAt = "old"]
       \/ tr[n].missingSince = "set" /\ tr' = [tr EXCEPT ![n].missingSince = "old"]
    /\ IF Coming(n) THEN Blame(n, "slow") ELSE UNCHANGED blame
    /\ UNCHANGED <<table, file, pending, launched, base, call, counts, pc, rows, todo, outcome,
                   collector, snap, subs>>

\* stall_timeout_seconds pass: no row, report or stamp can change any more.
Stall ==
    /\ pc = "submit" /\ Active # {}
    /\ \A n \in Active :
        ~Coming(n) /\ ~Again(n) /\ "set" \notin {tr[n].missingSince, tr[n].launchedAt}
    /\ outcome' = "stalled" /\ pc' = "end"
    /\ UNCHANGED <<table, file, tr, pending, launched, base, call, counts, rows, todo,
                   collector, snap, subs, blame>>

-----------------------------------------------------------------------------
(* The caller restarts the bot and calls again for what has no report.     *)

Restart ==
    /\ outcome \in {"broken", "stalled"} /\ ~partial /\ restarts < MaxRestarts
    /\ restarts' = restarts + 1 /\ outcome' = "none" /\ pc' = "submit"
    /\ names' = {n \in names : ~tr[n].done} /\ keyed' \in Keyed
    /\ tr' = [n \in Names |-> IF n \in names' THEN Tracker(counts[n]) ELSE tr[n]]
    /\ pending' = names' /\ launched' = {} /\ todo' = {} /\ from' = subs
    /\ queue' = [n \in Names |-> {}] /\ running' = [n \in Names |-> None]
    /\ owed' = [n \in Names |-> {}]
    /\ row' = [n \in Names |-> IF row[n].state = "RESULT" THEN row[n] ELSE Row("TEST", None)]
    /\ rows' = row'
    /\ base' = Baseline
    /\ inspected' = Seeded
    /\ inHand' = None /\ snap' = [n \in Names |-> None]
    /\ UNCHANGED <<log, file, partial, counts, subs, blame, crashed>>

Done ==
    /\ pc = "end" /\ (outcome \in {"returned", "exhausted"} \/ partial \/ restarts = MaxRestarts)
    /\ UNCHANGED vars

Tester(n) == Start(n) \/ WriteReport(n) \/ Finish(n)
Collector == Copy \/ \E p \in Paths : Inspect(p)
Monitor == Look \/ Examine \/ Judge \/ (\E n \in Names : Submit(n) \/ Retry(n))

Next ==
    \/ \E n \in Names : Tester(n) \/ Drop(n) \/ LoseReport(n) \/ GracePasses(n)
    \/ Collector \/ Monitor \/ Stall \/ Restart \/ Done

Spec == Init /\ [][Next]_vars

FairSpec ==
    /\ Spec /\ WF_vars(Monitor) /\ WF_vars(Collector) /\ SF_vars(Stall) /\ WF_vars(Restart)
    /\ \A n \in Names : WF_vars(Tester(n)) /\ WF_vars(GracePasses(n))

-----------------------------------------------------------------------------
(* Properties.                                                             *)

TypeOK ==
    /\ \A n \in Names : tr[n].attempts \in 0 .. MaxAttempts + Used[n]
    /\ names \subseteq Names /\ pending \subseteq names /\ launched \subseteq names
    /\ outcome \in {"none", "returned", "exhausted", "broken", "stalled"}

\* A completed strategy has a report of its own, of a run of this call: neither the report of
\* another strategy with the same file, nor one of before the call (_ReportSnapshotCollector,
\* _seed_existing_reports).  It need not be of the last run: see LastEvidence.
FreshEvidence ==
    \A n \in names : tr[n].done =>
        \E k \in from[n] + 1 .. subs[n] : tr[n].report = Report(n, k)

\* A strategy is submitted to the tester at most max_strategy_attempts times, over all the
\* restarts of the bot and also where a request fails after the tester took it.
AttemptsBounded == \A n \in Names : Used[n] + subs[n] <= MaxAttempts \/ Used[n] >= MaxAttempts

\* A strategy is given up only after as many mishaps or restarts of the bot as it had attempts
\* left: one mishap never costs it two (the resets before a retry).  A mishap is a fault of the
\* tester, a copy that failed, or a report that another strategy overwrote before it was
\* copied; a collector that has ended loses all that follow.
GivenUpJustly ==
    crashed \/ \A n \in Names :
        (tr[n].failed \/ (outcome = "exhausted" /\ n \in Exhausted))
            => Used[n] + blame[n] + restarts >= MaxAttempts

\* Two strategies that share a report file are never under way in the tester together, through
\* retries and restarts, in a call that has keys (collision_keys).
LaneKept ==
    \A m, n \in Names :
        m # n /\ Lane(m) = Lane(n) => running[m] = None \/ running[n] = None

\* Every call ends, and the stall timeout is not what ends it, except where the row of a lost
\* submission still shows a result of before it: every other loss is seen and retried.
Settles ==
    /\ <>[](pc = "end")
    /\ ~<>(/\ outcome = "stalled"
           /\ \A n \in Active : row[n].state # "RESULT" \/ row[n].id \notin base[n])

\* The report that completes a strategy is of the run of its last submission: launch discards
\* the snapshot of an attempt that is given up (monitor.py:450).
LastEvidence == \A n \in names : tr[n].done => tr[n].report = Report(n, subs[n])

\* A runId from before the submission does not complete it
\* (src/docs/specs/2026-08-10-v06-runner-safe-root-json-smoke.md:107).
FreshRunId == \A n \in names : tr[n].done => tr[n].id \notin base[n]
=============================================================================
