-------------------------- MODULE BulkRetestImport --------------------------
(***************************************************************************)
(* "IMPORT & REPLACE" of a bulk finalist RETEST: the import requests, the  *)
(* status requests of the page, the import workers and the job registry    *)
(* they share (src/src/mrs3/panel.py and panel_jobs.py).                   *)
(*                                                                         *)
(* The parent job is committed and its inbox verified; of its runtime only *)
(* the marker of the import job and the recorded outcomes are kept.  Each  *)
(* call of the registry is one step under its lock; a request reads the    *)
(* whole runtime in one call and writes its copy back in a later one.      *)
(* Import requests are serialized by _bulk_retest_import_lock, status      *)
(* requests are not.  The journal file is replaced whole (see JobJournal). *)
(***************************************************************************)
EXTENDS Naturals, FiniteSets

CONSTANTS
    Polls,          \* the threads that serve status requests
    MaxImports,     \* bound: import requests that reserve a child job
    MaxFaults       \* bound: kills, failed saves and refused children

ASSUME ImportAssumption == MaxImports \in Nat /\ MaxFaults \in Nat

Children == 1..MaxImports
JobStates == {"absent", "queued", "running", "committed", "failed"}
Terminal == {"committed", "failed"}
Markers == [child : 0..MaxImports, pending : BOOLEAN]
NoMarker == [child |-> 0, pending |-> FALSE]
Link(c) == [child |-> c, pending |-> FALSE]
Pending(c) == [child |-> c, pending |-> TRUE]

\* The parent's runtime, and the registry: that runtime and the state of every child job.
Runtimes == [marker : Markers, out : 0..MaxImports]
Registries == [marker : Markers, out : 0..MaxImports, jobs : [Children -> JobStates]]

VARIABLES
    up,         \* whether the Panel runs
    mem, disk,  \* the registry in memory and in the journal
    tester,     \* whether the tester service still knows the parent job
    worker,     \* the import workers
    next,       \* the next child id
    pc, copy, retry,    \* the import request: its point, its copy of the runtime, and
                        \* whether it replaces a failed import
    at, seen,   \* each status request: its point and its copy of the runtime
    stale,      \* history: a copy was written that was no longer the runtime
    faults

vars == <<up, mem, disk, tester, worker, next, pc, copy, retry, at, seen, stale, faults>>
click == <<pc, copy, retry>>
polls == <<at, seen>>
registry == <<mem, disk>>

NoRuntime == [marker |-> NoMarker, out |-> 0]

Init ==
    /\ up = TRUE
    /\ mem = [marker |-> NoMarker, out |-> 0, jobs |-> [c \in Children |-> "absent"]]
    /\ disk = mem
    /\ tester = TRUE
    /\ worker = [c \in Children |-> "idle"]
    /\ next = 1
    /\ pc = "idle" /\ copy = NoRuntime /\ retry = FALSE
    /\ at = [p \in Polls |-> "idle"] /\ seen = [p \in Polls |-> NoRuntime]
    /\ stale = FALSE /\ faults = 0

Fault == faults < MaxFaults /\ faults' = faults + 1
Runtime == [marker |-> mem.marker, out |-> mem.out]
Goto(point) == pc' = point
\* The child the import request has reserved.
Mine == next - 1

\* _save after a change in memory: when it fails the change stays in memory and the error
\* is raised, which takes the import request to onError.
Saves(new, ok, onError) ==
    /\ mem' = new
    /\ \/ disk' = new /\ Goto(ok) /\ UNCHANGED faults
       \/ Fault /\ Goto(onError) /\ UNCHANGED disk

\* sync(..., runtime=value): the copy replaces the whole runtime.
Written(value) == [mem EXCEPT !.marker = value.marker, !.out = value.out]
\* base is what the copy was when it was read
NotesStale(base) == stale' = (stale \/ base # Runtime)

-----------------------------------------------------------------------------
(* strategies_performance_v2_finalist_retest_import                        *)

ClickRead ==
    /\ up /\ pc = "idle" /\ next \in Children
    /\ copy' = Runtime /\ retry' = FALSE
    /\ Goto(CASE mem.marker.child = 0 -> "reserve"
              [] mem.marker.pending -> "reconcile"
              [] OTHER -> "previous")
    /\ UNCHANGED <<up, registry, tester, worker, next, polls, stale, faults>>

\* _reconcile_bulk_retest_import: RUNTIME_BUSY while the pending child does not exist.
ClickReconcile ==
    /\ up /\ pc = "reconcile"
    /\ LET c == copy.marker.child IN
         IF mem.jobs[c] = "absent"
           THEN Goto("idle") /\ UNCHANGED <<registry, copy, stale, faults>>
           ELSE /\ copy' = [copy EXCEPT !.marker = Link(c)]
                /\ NotesStale(copy)
                /\ Saves(Written(copy'), "previous", "idle")
    /\ UNCHANGED <<up, tester, worker, next, retry, polls>>

\* Mutant: every import that has ended is retried.
PreviousEnded ==
    /\ up /\ pc = "previous"
    /\ Goto(IF mem.jobs[copy.marker.child] \in Terminal THEN "clear" ELSE "idle")
    /\ UNCHANGED <<up, registry, tester, worker, next, copy, retry, polls, stale, faults>>

\* A previous import that has not failed is returned; one that has is retried.
ClickPrevious ==
    /\ up /\ pc = "previous"
    /\ Goto(CASE mem.jobs[copy.marker.child] = "failed" -> "clear"
              [] mem.jobs[copy.marker.child] = "absent" -> "reserve"
              [] OTHER -> "idle")
    /\ UNCHANGED <<up, registry, tester, worker, next, copy, retry, polls, stale, faults>>

\* clear_runtime: nothing is saved when the marker is another one by now.
ClickClear ==
    /\ up /\ pc = "clear"
    /\ retry' = TRUE
    /\ IF mem.marker = Link(copy.marker.child)
         THEN Saves([mem EXCEPT !.marker = NoMarker], "reserve", "idle")
         ELSE Goto("reserve") /\ UNCHANGED <<registry, faults>>
    /\ UNCHANGED <<up, tester, worker, next, copy, polls, stale>>

\* reserve_runtime: RUNTIME_BUSY when any marker is there.
ClickReserve ==
    /\ up /\ pc = "reserve" /\ next \in Children
    /\ IF mem.marker.child # 0
         THEN Goto("idle") /\ UNCHANGED <<registry, next, faults>>
         ELSE /\ next' = next + 1
              /\ Saves([mem EXCEPT !.marker = Pending(next)],
                       IF retry THEN "reset" ELSE "submit", "undo")
    /\ UNCHANGED <<up, tester, worker, copy, retry, polls, stale>>

\* A retry takes back the outcomes of the import before: read, then written.
ClickResetRead ==
    /\ up /\ pc = "reset"
    /\ copy' = Runtime
    /\ Goto("forget")
    /\ UNCHANGED <<up, registry, tester, worker, next, retry, polls, stale, faults>>

ClickResetWrite ==
    /\ up /\ pc = "forget"
    /\ copy' = [copy EXCEPT !.out = 0]
    /\ NotesStale(copy)
    /\ Saves(Written(copy'), "submit", "undo")
    /\ UNCHANGED <<up, tester, worker, next, retry, polls>>

\* Jobs that hold the resource keys of an import.
Active == {c \in Children : mem.jobs[c] \in {"queued", "running"}}

\* submit: RESOURCE_BUSY; no room for a job, another importer or a failed save, which takes
\* the job back; or a new job.
ClickSubmit ==
    /\ up /\ pc = "submit"
    /\ \/ Active # {} /\ Goto("undo") /\ UNCHANGED <<registry, faults>>
       \/ Active = {} /\ Fault /\ Goto("undo") /\ UNCHANGED registry
       \/ /\ Active = {}
          /\ mem' = [mem EXCEPT !.jobs[Mine] = "queued"] /\ disk' = mem'
          /\ Goto("run") /\ UNCHANGED faults
    /\ UNCHANGED <<up, tester, worker, next, copy, retry, polls, stale>>

\* transition(RUNNING) is outside the try of _start_tracked_panel_job.
ClickRun ==
    /\ up /\ pc = "run"
    /\ Saves([mem EXCEPT !.jobs[Mine] = "running"], "launch", "undo")
    /\ UNCHANGED <<up, tester, worker, next, copy, retry, polls, stale>>

\* The service starts one worker thread at a time; the document of a new one says RUNNING.
Importing == \E c \in Children : worker[c] = "running"

ClickLaunch ==
    /\ up /\ pc = "launch" /\ ~Importing
    /\ worker' = [worker EXCEPT ![Mine] = "running"]
    /\ Goto("linkread")
    /\ UNCHANGED <<up, registry, tester, next, copy, retry, polls, stale, faults>>

\* The service refuses the import: transition(FAILED), whatever its save does.
ClickLaunchFails ==
    /\ up /\ pc = "launch"
    /\ IF Importing THEN UNCHANGED faults ELSE Fault
    /\ mem' = [mem EXCEPT !.jobs[Mine] = "failed"]
    /\ disk' \in {disk, mem'}
    /\ Goto("undo")
    /\ UNCHANGED <<up, tester, worker, next, copy, retry, polls, stale>>

ClickLinkRead ==
    /\ up /\ pc = "linkread"
    /\ copy' = Runtime
    /\ Goto("link")
    /\ UNCHANGED <<up, registry, tester, worker, next, retry, polls, stale, faults>>

ClickLinkWrite ==
    /\ up /\ pc = "link"
    /\ copy' = [copy EXCEPT !.marker = Link(Mine)]
    /\ NotesStale(copy)
    /\ Saves(Written(copy'), "idle", "undo")
    /\ UNCHANGED <<up, tester, worker, next, retry, polls>>

\* Mutant: the child of a request that failed is failed.
UndoFailsChild ==
    /\ up /\ pc = "undo"
    /\ Saves([mem EXCEPT !.jobs[Mine] = "failed"], "idle", "idle")
    /\ UNCHANGED <<up, tester, worker, next, copy, retry, polls, stale>>

\* except BaseException: the reservation is taken back unless the child exists.
ClickUndo ==
    /\ up /\ pc = "undo"
    /\ IF mem.jobs[Mine] = "absent" /\ mem.marker = Pending(Mine)
         THEN Saves([mem EXCEPT !.marker = NoMarker], "idle", "idle")
         ELSE Goto("idle") /\ UNCHANGED <<registry, faults>>
    /\ UNCHANGED <<up, tester, worker, next, copy, retry, polls, stale>>

Click ==
    \/ ClickReconcile \/ ClickPrevious \/ ClickClear \/ ClickReserve \/ ClickResetRead
    \/ ClickResetWrite \/ ClickSubmit \/ ClickRun \/ ClickLaunch \/ ClickLaunchFails
    \/ ClickLinkRead \/ ClickLinkWrite \/ ClickUndo

-----------------------------------------------------------------------------
(* _bulk_retest_status_document                                            *)

Step(p, from, to) == up /\ at[p] = from /\ at' = [at EXCEPT ![p] = to]

PollReads(p, from, to) ==
    /\ Step(p, from, to)
    /\ seen' = [seen EXCEPT ![p] = Runtime]
    /\ UNCHANGED <<up, registry, tester, worker, next, click, stale, faults>>

\* A failed save ends the request with an error; the change stays in memory.
PollWrites(p, value, from, to) ==
    /\ mem' = Written(value)
    /\ NotesStale(seen[p])
    /\ \/ disk' = mem' /\ Step(p, from, to) /\ UNCHANGED faults
       \/ Fault /\ Step(p, from, "idle") /\ UNCHANGED disk
    /\ UNCHANGED <<up, tester, worker, next, click, seen>>

PollSkips(p, from, to) ==
    /\ Step(p, from, to)
    /\ UNCHANGED <<up, registry, tester, worker, next, click, seen, stale, faults>>

\* The tester service's document of the parent, recorded by _record_special_job: it adds
\* the inbox path to the runtime, read and written back.
PollStatus(p) == tester /\ PollReads(p, "idle", "record")
PollForgotten(p) == ~tester /\ PollSkips(p, "idle", "inspect")
PollRecord(p) == PollWrites(p, seen[p], "record", "inspect")

PollInspect(p) == PollReads(p, "inspect", "reconcile")

PollReconcile(p) ==
    LET m == seen[p].marker IN
    IF m.pending /\ mem.jobs[m.child] # "absent"
      THEN PollWrites(p, [seen[p] EXCEPT !.marker = Link(m.child)], "reconcile", "outcomes")
      ELSE PollSkips(p, "reconcile", "outcomes")

PollOutcomes(p) == PollReads(p, "outcomes", "finalize")

\* Mutant: only the outcomes of a committed child are recorded.
FinalizeCommitted(p) ==
    LET m == seen[p].marker IN
    IF m.child # 0 /\ ~m.pending /\ seen[p].out = 0 /\ mem.jobs[m.child] = "committed"
      THEN PollWrites(p, [seen[p] EXCEPT !.out = m.child], "finalize", "idle")
      ELSE PollSkips(p, "finalize", "idle")

\* _refresh_bulk_retest_outcomes: the outcomes of an ended child are recorded once.
PollFinalize(p) ==
    LET m == seen[p].marker IN
    IF m.child # 0 /\ ~m.pending /\ seen[p].out = 0 /\ mem.jobs[m.child] \in Terminal
      THEN PollWrites(p, [seen[p] EXCEPT !.out = m.child], "finalize", "idle")
      ELSE PollSkips(p, "finalize", "idle")

Poll(p) ==
    \/ PollStatus(p) \/ PollForgotten(p) \/ PollRecord(p) \/ PollInspect(p)
    \/ PollReconcile(p) \/ PollOutcomes(p) \/ PollFinalize(p)

-----------------------------------------------------------------------------
(* LocalPerformanceV2Jobs._worker                                          *)

\* The import ends: the database holds its replacements, or it was rejected.
Work(c) ==
    /\ up /\ worker[c] = "running"
    /\ \E end \in Terminal : worker' = [worker EXCEPT ![c] = end]
    /\ UNCHANGED <<up, registry, tester, next, click, polls, stale, faults>>

\* _record_special_job for the ended import, by the worker's callback or by a request for
\* its status.  A failed save is swallowed, and tried again by the next request.
Record(c) ==
    /\ up /\ worker[c] \in Terminal
    /\ mem' = [mem EXCEPT !.jobs[c] = worker[c]]
    /\ \/ disk' = mem' /\ worker' = [worker EXCEPT ![c] = "idle"] /\ UNCHANGED faults
       \/ Fault /\ UNCHANGED <<disk, worker>>
    /\ UNCHANGED <<up, tester, next, click, polls, stale>>

-----------------------------------------------------------------------------
\* The Panel is killed, and its threads with it.
Kill ==
    /\ up /\ Fault
    /\ up' = FALSE /\ tester' = FALSE
    /\ worker' = [c \in Children |-> "idle"]
    /\ Goto("idle") /\ at' = [p \in Polls |-> "idle"]
    /\ UNCHANGED <<registry, next, copy, retry, seen, stale>>

\* Mutant: reservations are kept over a restart.
RecoveredMarkerKept(r) ==
    [r EXCEPT !.jobs = [c \in Children |-> IF r.jobs[c] \in {"queued", "running"}
                                             THEN "failed" ELSE r.jobs[c]]]

\* recover_interrupted: jobs that were not terminal have failed; a reservation whose child
\* was never submitted is taken back.
Recovered(r) ==
    [r EXCEPT
        !.jobs = [c \in Children |-> IF r.jobs[c] \in {"queued", "running"}
                                       THEN "failed" ELSE r.jobs[c]],
        !.marker = IF r.marker.pending /\ r.jobs[r.marker.child] = "absent"
                     THEN NoMarker ELSE r.marker]

\* A start.  When its recovery cannot be saved, startup_recover goes on with the jobs as
\* they were loaded.
Boot ==
    /\ ~up /\ up' = TRUE
    /\ \/ mem' = Recovered(disk) /\ disk' = mem' /\ UNCHANGED faults
       \/ disk # Recovered(disk) /\ Fault /\ mem' = disk /\ UNCHANGED disk
    /\ UNCHANGED <<tester, worker, next, click, polls, stale>>

Next ==
    \/ ClickRead \/ Click
    \/ \E p \in Polls : Poll(p)
    \/ \E c \in Children : Work(c) \/ Record(c)
    \/ Kill \/ Boot

Spec == Init /\ [][Next]_vars

\* Threads of a running Panel go on, and the page polls once a second.
Fairness ==
    /\ WF_vars(Click)
    /\ \A p \in Polls : WF_vars(Poll(p))
    /\ \A c \in Children : WF_vars(Work(c)) /\ SF_vars(Record(c) /\ disk' = mem')

FairSpec == Spec /\ Fairness

-----------------------------------------------------------------------------
TypeOK ==
    /\ up \in BOOLEAN /\ tester \in BOOLEAN /\ retry \in BOOLEAN /\ stale \in BOOLEAN
    /\ mem \in Registries /\ disk \in Registries
    /\ worker \in [Children -> {"idle", "running"} \cup Terminal]
    /\ next \in 1..(MaxImports + 1)
    /\ pc \in {"idle", "reconcile", "previous", "clear", "reserve", "reset", "forget",
               "submit", "run", "launch", "linkread", "link", "undo"}
    /\ copy \in Runtimes /\ seen \in [Polls -> Runtimes]
    /\ at \in [Polls -> {"idle", "record", "inspect", "reconcile", "outcomes", "finalize"}]
    /\ faults \in 0..MaxFaults

\* At most one import works on the performance database, and it does so under its resource
\* keys: its job is running in the registry until the worker has ended.
OneImport ==
    \A c \in Children : worker[c] = "running" =>
        /\ mem.jobs[c] = "running"
        /\ \A d \in Children \ {c} : worker[d] # "running"

\* Whatever a kill left in the journal, a start that can save its recovery leaves a marker
\* that the next import request can act on: no lasting RUNTIME_BUSY.
Reopened ==
    [][~up /\ up' /\ faults' = faults =>
        mem'.marker.child = 0 \/ mem'.jobs[mem'.marker.child] \in Terminal]_vars

\* A repeated request never imports a second time what a recorded import has committed,
\* unless a stale copy was written over the runtime.
CommittedNotRepeated ==
    [][\A c \in Children :
        worker[c] = "idle" /\ worker'[c] = "running" /\ ~stale =>
            \A d \in Children : mem.jobs[d] # "committed"]_vars

\* An import that started with no outcomes on record gets its own recorded in the end,
\* unless the Panel is killed, it failed and is being retried, or a stale copy was written.
Reported ==
    \A c \in Children :
        worker[c] = "running" /\ mem.out = 0 ~>
            mem.out = c \/ ~up \/ (mem.jobs[c] = "failed" /\ retry) \/ stale

\* The page shows the replacements of a committed import (the control specification,
\* "число успешно заменённых"): once it shows outcomes, not those of an earlier failure;
\* that races of status requests aside.
CommittedShown ==
    \A c \in Children :
        ~stale /\ mem.jobs[c] = "committed" /\ mem.out # 0 => mem.jobs[mem.out] = "committed"

\* A status request never takes back or replaces a marker an import request has set: it
\* may only resolve a pending one ("must not erase controller-owned RETEST handoff
\* metadata", panel.py:852).
MarkerKept ==
    [][(\E p \in Polls : at'[p] # at[p]) =>
        \/ mem'.marker = mem.marker
        \/ mem.marker.pending /\ mem'.marker = Link(mem.marker.child)]_vars
=============================================================================
