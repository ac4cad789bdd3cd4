# MRS3 analyzer: TLA+ models, model checks and proofs

Formal models of the MRS3 strategy analyzer (`src/`): a Python program that collects test reports of
trading strategies, selects strategies and portfolios from them, and drives an external tester (the Hamster
bot) to produce new reports. A local web Panel, command-line programs and scripts run on the same files,
often at the same time, and are killed, restarted and interrupted. Most lines of the program are sequential
calculations; what is hard to test in it are its protocols over shared files and a shared tester. Those are
modelled here.

Contents: [the system](#1-the-system) · [the plan](#2-the-plan) · [the modules](#3-the-modules) ·
[the runs](#4-the-runs) · [further configurations](#5-further-configurations) ·
[fairness](#6-fairness) · [the proofs](#7-the-proofs) · [limits](#8-what-is-not-modelled-and-why)

Paths are relative to `src/src/mrs3/` unless they start with `docs/` (`src/docs/`). `PROJECT.json` lists the
components, runs, mutants, hazards and theorems, and maps each definition to the lines it translates.

## 1. The system

### Components with protocols

| Component (files) | State it keeps | Operations | What is hard | What makes it correct |
|---|---|---|---|---|
| Tester target lease (`locking.py`) | one owner file per tester directory, a gate file held by an advisory lock, an audit directory | acquire, reclaim of a dead owner, release, manual clear | crash between any two file steps, pid reuse, reboot, containers, two reclaimers | one owner; nobody removes a successor's lease |
| Per-CSV run lock (`runner/workflow.py`) | a file with a pid, created and written in two steps | acquire, clear a stale one, release | crash between the two steps, unlink of an open file on Windows | a stale file does not block for ever; one runner per CSV |
| CSV batch runner (`runner/workflow.py`, `runner/files.py`, `runner/inbox.py`) | installed settings, their backup, saved results, inbox; in memory the snapshot of the user's settings | run_batch: install, start, monitor, keep, stop, restart, publish, restore | failures of a stop, kills in an installation, shared log, restarts | tests its own strategies, never swaps under a running tester, loses no saved result |
| Batch monitor (`runner/monitor.py`, `runner/http.py`) | attempts and run ids per strategy, a thread that snapshots reports | poll, accept, submit again, give up | late or duplicated rows, a snapshot that arrives after a relaunch | a report counts for its own run only; a strategy loses no attempt it did not use |
| Tester process (`runner/process.py`) | the bot's process | resolve, stop in three stages, start | the process ends, hangs or is replaced | after a stop nothing runs |
| Panel strategy batch (`panel_strategy_batch.py`) | a job and its thread, the lease, an outer snapshot | start, cancel, status | the leases and snapshots of two layers | leaves the tester as found |
| Tester jobs (`tester_jobs.py`) | a catalog of job states, the backup of the bot's files, a lock file | plan, run, recover, retry, import | kills at every file, two executors | the user's files are never lost |
| Portfolio tester runner (`portfolio/runner.py`) | a manifest per run, the saved settings snapshot, the lease | run, discover, recover | unconfirmed operations, crash at any step, recovery beside a run | installed settings are recoverable and recovered |
| Panel job journal (`panel_jobs.py`) | `jobs.json` and a recovery sidecar; the registry in memory | submit, update, finish, load, recover | a locked file on Windows, kills in a write | no acknowledged job is lost |
| Bulk RETEST import (`panel.py`, `panel_performance_v2.py`) | runtime of the parent job: marker of the import, outcomes | import, status, retry, recover | unserialized read and write-back, kills, failed saves | one import, never repeated, its outcomes shown |
| Panel task runner (`panel_tasks.py`) | the current task, its process tree, a stop file | start, stop, status | stop against a task that ends, orphans that keep the output pipe | one task at a time; a stop ends the whole tree |
| SINGLE_MODE tester jobs (`panel_fast_strategy_test.py`) | jobs, their workers, a cleanup-pending flag | start, stop, relaunch | stop while a relaunch waits, restart of the Panel | a relaunch never meets an uncleaned tester |
| Run snapshots (`tester_run_files.py`, `panel_tester_runs.py`) | published run directories, jobs | publish, execute, cancel | partial publication | only whole snapshots run |
| Trade store (`trade_store.py`, `trade_history.py`) | immutable Parquet segments, a DuckDB catalog | write, replace, import a window | crash between segment and catalog row | a catalog row has its segment |
| Report collections (`panel_report_collection.py`) | a collection (open, verified, imported, cleared) in the job journal | create, add, verify, import, clear | repeated requests, restarts | what is imported is what was verified |
| Pair registry sync (`pair_registry/sync.py`, `cli.py`, `panel_main.py`) | rows in DuckDB, one JSONL file per table and machine in a git repository | pull, import, compute, export, push; an export after each write of the Panel | two machines, background threads with older snapshots, rejected pushes, kills between files and commit | nothing published is lost; every machine gets every row and the newest pipeline row |
| Order-book feed (`bybit_collector/websocket.py`, `core.py`, `runtime.py`, `cli.py`) | books, subscription list, reconnect request | connect, subscribe, apply frames, sample, reload the list | two threads that share books without a lock, frames before the acknowledgement, clock jumps | a valid book has missed nothing; the configured books are subscribed |
| Minute archive (`bybit_collector/runtime.py`, `aggregation.py`, `storage.py`, `archive.py`) | aggregates in memory, a spool (SQLite), hourly Parquet files, a reader index | finalize, write, export, adopt, recover, stop | kills and failed writes between spool, file and index; clocks set back; late rows | an hour's file never changes and is complete, or its late rows are recorded |
| Performance v2 store (`performance_v2_*.py`) | DuckDB results, writer lock, publication journal | import, publish, delete after preview, retest | stale previews, repeated publications | idempotent publication |
| Source v6 store (`source_v6_*.py`) | sealed fragments, merged databases, surfaces | import, merge, publish | cancelled imports | a published file is whole |
| Live monitor (`portfolio/live_*.py`) | append-only facts, read models | reconcile, apply, watch | snapshot and stream that overlap | no fact applied twice |
| Portfolio store (`portfolio/store.py`) | DuckDB, a lease of its own | lease, write, manual clear | as the target lease | one writer |

### Components that are calculations

Selection and filters (`selection.py`, `pipeline.py`, `plateau.py`, `analysis_*`, `fresh_*`), the trade-store
simulator and sampling (`mrs2_simulator.py`, `tester_sampling.py`, `ready_store.py`), portfolio search, sizing,
margin and evidence (`portfolio/weighted_search.py`, `adapter.py`, `margin.py`, ...), equity facts and windows
(`performance_v2_equity_*`, `performance_v2_windows.py`), report parsing (`runner/results.py`,
`performance_v2_html.py`, `duckdb_*`), HTTP routing and rendering (`panel.py`, `panel_main.py`, `panel_web/`),
the command line and the scripts. `PROJECT.json` lists them all, with the reason each is not modelled.

### How they interact

```
 page ── HTTP ── Panel threads ── job registry ── journal
                     │
     strategy batch · SINGLE_MODE · run snapshots · portfolio service        command line · scripts
                     │                                                              │
                     └───────────── tester target lease (one per tester) ───────────┘
                                             │
                          run_batch · job executor · portfolio runner
                                             │
                     settings files of the bot ── bot process ── reports, log
                                             │
                              inbox ── import ── Performance database
```

- Everything that touches a tester takes its target lease first, from processes that know nothing of each
  other but the lock file. What they share is the tester: its settings files, its process and its log.
- Each of them replaces the user's settings by its own and must put them back, whatever fails. Where the
  copy is kept differs: in memory (`run_batch`), in a backup directory (`tester_jobs.py`), beside a durable
  manifest (`portfolio/runner.py`). The hazards differ accordingly.
- Panel requests run on one thread each; what lasts goes through the job registry, whose calls are atomic
  under its lock, and whose saves are files. A request that reads, decides and writes back makes several calls.

## 2. The plan

Order: what protects the user's files and the tester first, then what keeps the program's own records.

1. **Done.** The target lease and its abstract specification (`TesterTargetLock`, `TargetLease`) with proofs;
   the run lock (`CsvRunLock`).
2. **Done.** The three users of the lease: `PortfolioRun`, `TesterJobs`, `RunBatch`, with proofs. They take the
   proved contract of the lease (exclusive; a dead owner's lease is free) instead of its files.
3. **Done.** The Panel's records: `JobJournal` with `DurableCell`; `BulkRetestImport` on top of it (a save of the
   registry is one step, as `DurableCell` allows); proofs of both.
4. **Done.** `BatchMonitor`: attempts, submission window, report snapshots, with proofs. `RunBatch` takes it as one
   step.
5. **Done.** The collector: `BookFeed`, then `MinuteArchive` with its abstract specification `HourlyArchive`; proofs of both.
6. **Done.** `RegistrySync`: the registry on several machines, with proofs.
7. Next: `SingleModeJobs` (stop, cleanup pending, relaunch, restart), `TaskRunner`, `RunSnapshots`.
8. `TradeStoreWindow` (plan, import, catalog against segments), composed with `TesterJobs` through the job
   states; `Publication` of Performance v2 with its previews; the cache of verified minute days.
9. Bounded checks of pure algorithms against definitions: `cover_blocks` (exact cover), ownership of
   overlapping intervals (`source_v6_stitch.py`), plateau components.

Every safety property, action property and refinement that a run checks is also proved (section 7). Theorems to come are those of
the modules still to be written. No module declares a recursive operator, so all can be proved about.

## 3. The modules

Every module keeps the program's program points: an actor's `pc` names the place in the code between two
steps that others can interleave with, or a kill can separate. A step that can fail has its failing outcome as
a disjunct, paid from the bound `MaxFaults`.

| Module | Models | Lines |
|---|---|---|
| `TesterTargetLock` | `TesterTargetLock` and `manual_clear_tester_target_lock` of `locking.py` | 384 |
| `TargetLease` | the abstract lease: granted only when every lease still held was voided by an attestation | 38 |
| `TesterTargetLockProofs` | theorems of the two | 675 |
| `CsvRunLock` | `_acquire_run_lock`, `_pid_is_running`, `_release_run_lock` of `runner/workflow.py` | 146 |
| `PortfolioRun` | `PortfolioTesterRunner.run`, `discover_incomplete`, `recover_incomplete` of `portfolio/runner.py` | 516 |
| `PortfolioRunProofs` | its theorems | 657 |
| `TesterJobs` | the executor of `tester_jobs.py` | 516 |
| `TesterJobsProofs` | its theorems | 1096 |
| `JobJournal` | `_save`, `_load`, `_recover_in_place_backup` of `panel_jobs.py` | 232 |
| `DurableCell` | the abstract journal: a start finds all jobs of the last save that returned | 41 |
| `BulkRetestImport` | the hand-over from a bulk RETEST to its import, in `panel.py` and `panel_performance_v2.py` | 396 |
| `PanelJobsProofs` | theorems of the journal and the import | 1375 |
| `RunBatch` | `run_batch` and the Panel's job around it | 552 |
| `RunBatchProofs` | its theorems | 1173 |
| `BatchMonitor` | `monitor_controlled_batch` and its report collector, `runner/monitor.py` | 451 |
| `BatchMonitorProofs` | its theorems | 2465 |
| `BookFeed` | the collector's WebSocket thread, order books and main loop | 353 |
| `MinuteArchive` | aggregation, spool and exporter of the collector | 345 |
| `HourlyArchive` | the abstract archive: an hour's file is the hour as recorded at one moment, and never changes | 47 |
| `CollectorProofs` | theorems of `BookFeed`, `MinuteArchive` and `HourlyArchive` | 1775 |
| `RegistrySync` | `pair_registry/sync.py` and its two users, the `sync` command and the Panel's exports | 262 |
| `RegistrySyncProofs` | its theorems | 686 |
| `MC_*` | constants for TLC: placements of callers on machines, the jobs' strategy names, and so on | |

Composition is by contract. The lease is modelled file by file once, and proved to implement `TargetLease`; its
users (`PortfolioRun`, `TesterJobs`, `RunBatch`) hold a variable `lease` that is free when nobody or a dead
process has it, which is what reclaim of a dead owner gives them. `BulkRetestImport` takes a save of the registry
as one step that replaces the journal or leaves it, which is what `JobJournal` is checked and proved to implement.
`RunBatch` takes the monitor as one step, which `BatchMonitor` walks through; `BookFeed` ends where a sample is taken
and `MinuteArchive` begins with the minute it belongs to. These two share no names, so that one module can extend both and
prove about both; hence the `Feed` in many of `BookFeed`'s.

### `TesterTargetLock`

| State | Code |
|---|---|
| `file` | the owner file: `NoLease` or the evidence in it |
| `gate` | who holds the advisory lock on the gate file; the system frees it when its process dies |
| `audit` | published attestations |
| `proc`, `starts`, `boot` | the world: live processes with pid and start time, boots of a machine |
| `pc`, `attempts` | the point of each caller; its acquisitions so far |
| `mine`, `owner`, `raw` | evidence staged, evidence held after `acquire` returned, bytes read by a clear or a compare |

`Stage`, `Link`, `EnterGate`, `JudgeDead`/`JudgeRefuse`, `Compare`, `ReclaimUnlink`, `Relink` and
`TakeOwnership` are the steps of `acquire`; `ReleaseEnter`, `Compare`, `ReleaseUnlink` those of `release`;
`ClearRead`, `Attest`, `Compare`, `ClearUnlink` those of the manual clear. Evidence carries machine, pid
namespace, pid, process start, boot (with its drift of a second) and a token. `StartProc` may reuse a pid;
`Crash` and `Reboot` may come between any two steps.

### `CsvRunLock`

The file is created exclusively (`Create`) and its pid written in a second step (`WritePid`). A contender reads it
(`ReadOwner`) and unlinks one that names no running process (`UnlinkStale`); on Windows an open file cannot be
unlinked. A file keeps its identity after it is unlinked. `Again` is the user's next click.

### `PortfolioRun`

`status[r]` is the manifest, `saved[r]` the snapshot beside it, both on disk; `snap[r]` is the snapshot in memory.
`settings` is what the tester has: a version of the user's settings or a run's. Each `_transition` is a step, and
so is each transport call; a failed install or restore may have happened. `Unconfirmed` is
`OperationUnconfirmedError`: the lease is kept and nothing is restored. The wait for an operation ends in four ways
(`AwaitOperation`): an answer; an operation nobody confirmed ended; one that was cancelled or timed out and has ended; or
the wait itself is broken off by an error of `cancel_check`, of the transport's contract or a KeyboardInterrupt
(`portfolio/runner.py:598-605`, `:621`), which `run` takes for the end of the operation although its worker may still run. The
history variable `abandoned` names the runs to which that happened, and the properties of the lease except them.

Recoverers discover, load, and settle run after run: `todo` is the set of places in `Order`, that of the paths, still to
do, and the smallest is next. Besides the statuses the code writes, `status[r]` says when a workspace cannot be read: "bare"
has no manifest yet, "torn" was deleted in part (`Cleanup`, `Delete`: `rmtree` may fail or be killed half-way), and "stale" has an
evidence file its manifest does not have the hash of, which a recovery leaves when it dies between replacing the file and the
next `_transition`; `listed[r]` are the evidence files that are in the manifest. `discover_incomplete` raises on any of these
(`Blocked`), for all runs. `EditSettings` is any other user of the tester, who needs the lease.

### `TesterJobs`

`bot[n]` is the content of each file of the bot (the user's, a job's, or absent), `copy[j]`, `manifest[j]`,
`dir[j]` the backup of a job, `state`, `result` the catalog, `lock`/`named` the store's lock file. The actions are
the file operations of `_backup`, the installation, the run, `_restore`, the removal of the backup (which may be cut
short) and the conversion; `recover` is walked through before the queue. `Interrupt` is a KeyboardInterrupt, which
takes the exception's way through the code, `Kill` the process's end.

A move that fails may have happened in part: the file is in both places (`CopyConfig`, `MoveAside`; `_undo_backup` does not
move such a file back, `Undoable`). A move back that fails (`UndoFails`, `tester_jobs.py:303`) is no `RestoreError`: the job is marked
failed and the queue goes on, with the user's file only in a backup without a manifest. The history variable `left` has the jobs that
ended so, and `overrun` says that another job was begun over such a backup; a restore that breaks (`RestoreBreaks`) ends the
queue instead.

### `JobJournal` and `DurableCell`

Two files: `journal` (a set of jobs, `Absent`, or `Torn`) and `sidecar` (previous and intended bytes). A save first
reconciles (`NothingToRecover`, `Reconcile`, `RestorePrevious`, `RecoverFails`), then replaces atomically
(`Replace`, `ReplaceFails`), or after ten denials (`Denied`) reads the journal, publishes the sidecar, overwrites in
place and verifies. The refinement maps the cell's value to `Found`, what a start would find.

### `BulkRetestImport`

The registry is one record: the parent's runtime (marker of the import job, outcomes) and the states of the import
jobs, once in memory and once in the journal. An import request is a sequence of registry calls with its own copy of
the runtime (`pc`, `copy`, `retry`); requests are serialized by `_bulk_retest_import_lock`. A status request (`at`,
`seen`) reads and writes back without it, in up to three pairs of calls. `Work` and `Record` are the import worker.
A failed save leaves memory ahead of the journal, except in `submit`, which takes the job back. `Boot` loads the
journal and runs `recover_interrupted`. The history variable `stale` notes that a request wrote a copy back which was
no longer the runtime: several properties are stated for the behaviours without such a race, which has a configuration
of its own (section 5).

### `RunBatch`

| State | Code |
|---|---|
| `settings`, `backup` | the settings directory of the tester and the backup of an installation under way |
| `bot`, `log` | what the running tester has loaded; whose strategy each name's entry in `wizard_result.json` is |
| `lease`, `holderUp`, `locked` | target lease, whether its process exists, run locks of live processes |
| `pc`, `mem` | program point and local variables of each call (snapshots, `started`, `quiesced`, restarts, chunk, results) |
| `saved`, `inbox`, `done` | the saved results, the inbox and the completion of each run, on disk |
| `found` | history: settings and bot when the lease was granted |

A run is one output CSV, called again until it is completed, by a process of its own. A run of the Panel is wrapped
in the job's own claim, capture, installation, stop, restore and release; a run of the command line takes the lease
itself. `Fail…` outcomes lead to `handler`, which stops a bot that was started, and `finally`, which restores and
releases only when the tester is known to be stopped. The test log keeps its entries from run to run. `Monitor` is one
step: any subset of the chunk finishes, and the attempt succeeds, fails recoverably, or fails. `Salvage` validates any
subset of the log's entries for the chunk, collided strategies excepted, and restarts while restarts are left.
`unbacked[r]` has the strategies whose saved result has no report that could be read: it was lost after it was
saved (`LoseReport`), or its path was not known when it was validated. `_write_saved_results` leaves such a result out of
the file (`Without`), `Hydrate` does not take it over, and neither the publication nor the inbox can do without it.

### `BatchMonitor`

| State | Code |
|---|---|
| `row`, `queue`, `running`, `owed`, `log`, `file` | the tester: its table, submissions it took, the run under way, reports not yet written, `wizard_result.json`, the report files |
| `tr`, `pending`, `launched`, `base` | trackers of the strategies, `pending`, `launched_names`, `baseline_run_ids` |
| `pc`, `rows`, `todo`, `outcome` | the place in a poll, the last reading of the table, strategies still to examine or retry, how the call ended |
| `inspected`, `inHand`, `snap` | the report collector's thread: what it is done with, what it has read and not copied (or `Ended`), its copies |
| `keyed` | whether the call has collision keys: the runner passes none until it has seen a collision (`runner/workflow.py:1068`) |
| `counts`, `restarts`, `from` | what the caller keeps over a restart of the bot |
| `subs`, `blame`, `crashed` | history: submissions of each strategy, mishaps that hit it, whether a collector's thread has ended |

A poll is `Submit` (while the window and the report lanes allow), `Look` (one reading of the table), `Examine` (all
strategies of that reading, with the log and the snapshots), `Retry` and `Judge`. The tester (`Start`, `WriteReport`,
`Finish`) runs in between, with its faults: a lost submission, a dropped run, no report, a failed request, a run that takes
longer than the grace period. Two strategies may write the same report file; `Lane(n)` is the key of a strategy where the
call has keys, and its own otherwise. `Inspect` and `Copy` are the collector's two halves: a copy that fails is not tried again,
since the report is in `_inspected` by then (`runner/monitor.py:252`), and an error outside the `try` ends the thread. A poll
waits for neither. A report that is overwritten before it was copied is a mishap of the strategy it was of (`Uncopied`). A time
stamp is unset, set, or older than the grace period (`GracePasses`); the stall timeout (`Stall`) passes when nothing
can change any more.

### `BookFeed`

| State | Code |
|---|---|
| `exchange`, `link` | the exchange's version of each book; the connection with its subscriptions and frames under way |
| `ws`, `hand` | the WebSocket thread: its point in `run_once`, the frame being applied field by field |
| `wanted`, `requested`, `connected` | the session's list and reconnect request; `CollectorRuntime`'s view of the connection |
| `books` | per symbol: bids, asks, last update, valid, cause of the invalidation, and which object it is (`gen`) |
| `named`, `config`, `main` | the configuration file, the accepted one, the main loop's point |

Levels are versions: a delta that does not follow gives `Mixed`. `Open`, `OnConnect`, `Subscribe`, `Ack`, `StartFrame`,
`WriteBids`/`WriteAsks`/`WriteValid` and `Leave` are the WebSocket thread; `ReadBids`, `ReadAsks`, `ReadValid` a sample;
`ClockJump`, `Reload`, `ReloadFails`, `UpdateSymbols` and `RequestReconnect` the rest of the main loop. A symbol that is
removed and added again has a new object; a frame in hand may still write to the old one. A frame that does not apply ("bad")
invalidates its book; one that cannot be decoded ("garbled") is dropped by the loop that reads (`websocket.py:118`) and ends
`run_once` before the acknowledgement (`:104`).

### `MinuteArchive` and `HourlyArchive`

`now`, `jumped` are the wall clock; `anchored`, `next`, `agg`, `done` the scheduler and the aggregates in memory;
`rows`, `late`, `marked` the spool's tables; `file[h]` the published file of an hour; `pc`, `todo`, `hour` the main loop
and the exporter. `Poll` samples, finalizes what is over (writes may fail) and lets the exporter run at most once a minute.
The exporter is split where a kill separates what is durable: `Clear` (a mark whose file is gone), `Adopt` (a valid file that
is there without a mark), `Refuse` (one that does not validate: the hour waits for an operator), `WriteTmp`, `Publish`, `Mark`. An
export that fails before it has a file (`Fails`) leaves its hour, or all that are left, to the next recovery. `Damage` spoils
a published file, `Delete` removes one. `seen` has the minutes the process has aggregated. `Stop` is the orderly end, `Kill` the other one. The refinement maps
the rows of the spool, the files and the reader index to what `HourlyArchive` says of recorded minutes, sealed files and
announced hours. An hour has 2 minutes in the instance and its delay is 1.

### `RegistrySync`

| State | Code |
|---|---|
| `rows`, `rank`, `last` | each machine's registry: append-only rows, who computed the pipeline row of the day and when, its own last computation |
| `own`, `log`, `head`, `remote` | its files in the working tree, in each of its commits; its branch and the remote's |
| `lock`, `at`, `queue` | `repo_lock`, the points of the command line and of the Panel's thread, snapshots of threads that wait |

A machine commits its own files only, so a history is the vector of how many commits of each machine it includes:
an ancestor is a vector that is nowhere greater, a merge the maximum and one commit more. `Sync` is the command up to its
export (pull, import, compute: one step, the registry and the lock are held); `Export`, `ExportSnapshot` write the files and
commit; `Push`, `Rejected` (one merge, one retry) look at the remote again, between which the other machine may push.
`Record` is a write on the Panel with the snapshot it leaves for a thread. Faults: `CutShort` between files and commit, `PushFails`
(the push may have arrived), `NoExport`, `NoSnapshots`, and a pull that fails.

## 4. The runs

| Run | Instance | What it shows |
|---|---|---|
| `target_lock_one_host` | 2 lock objects in 2 processes of one host, 2 pids, 3 process starts, 2 boots, 2 acquisitions each | the lease is exclusive (`OneOwner`), stays on file (`HolderOnFile`), a clear of a local owner clears a dead one, and the protocol implements `TargetLease` |
| `run_lock_stale` | 3 runners in 2 processes, crashes, 3 files, Windows | a stale lock file is got out of the way (`StaleLockCleared`) |
| `portfolio_pair` | 2 runs, 1 recoverer, 1 edit, 2 faults, with fairness | the tester is used under the lease only and settings are not swapped under a test, but after a wait that was broken off; installed settings leave the tester in the end, unless a workspace blocks the discovery for ever or the second run took them for the user's |
| `jobs_crash` | 1 executor, 2 jobs with the same strategy name, the user's config and one strategy, 3 faults | the user's files are never lost, every backup is restored, every job marked, unless the queue went on over a backup that could not be undone (`LostOnlyByOverrun`; below) or one was deleted in part |
| `jobs_two_executors` | 2 executors, 2 kills | **violation** of `NothingLost` (below) |
| `journal_save` | 3 saves, 3 faults | the journal implements `DurableCell` and a start is not refused for ever |
| `retest_import` | 2 imports, 1 status thread, 3 faults | one import at a time, none repeated, a restart can import again, outcomes are recorded |
| `batch_tester` | a Panel job of 2 strategies and a command-line run of 1, chunks of 2, 1 restart, 1 fault (a failed step, or a report that is lost or unknown), 1 kill | each run tests its own strategies, nobody swaps settings under a test, a tester is given back as it was found, saved results whose reports are there are kept, calls end |
| `monitor_batch` | 2 strategies that share a report file, one with an old result, its report and one attempt used, 2 attempts, 1 restart of the bot; calls with collision keys and 2 faults, or without keys and 1 | a completed strategy has a report of its own from a run of this call (`FreshEvidence`), attempts are bounded over restarts, a strategy is given up only after as many mishaps that hit it, or restarts of the bot, as it had attempts left (`GivenUpJustly`: a restart that another strategy caused costs a running one its attempt; a collector's thread that has ended excuses everything), runs of one lane exclude each other where there are keys, every call ends, and by the stall timeout only where `Settles` says |
| `feed_stream` | 2 symbols, 2 edits of the list, 1 fault: a break, a clock jump, a failed reload or a frame that does not apply | a valid book has missed nothing of its stream, the configured symbols are subscribed in the end, a book is synchronized again unless it was rejected |
| `archive_export` | 3 hours of 2 minutes, 2 faults of any kind | rows are in their hour's file or recorded as late, every minute aggregated is written in the end (`WrittenInTheEnd`), every hour is published in the end unless its file was damaged before its mark, and the archive implements `HourlyArchive` |
| `registry_sync` | 2 machines, 2 writes, 1 computation each, 1 fault | nothing published is lost (`PublishedStays`), every row reaches both machines, both end with the newest pipeline row |

Bounds. Every protocol here is among two parties (holder and contender, run and recovery, executor and restart,
request and status request), so two of each kind give every pair of interleavings, and a third process start, file or
save gives the case of a second crash while the first is cleaned up. Two faults cover a failure and the failure of its
cleanup, three a further one in the recovery; what section 5 lists needs one or two. `batch_tester` has one fault and one
kill, which together still cover a failing handler after a kill; chunks larger than the batch do not change the
steps, and `CallsEnd` does not depend on the number of restarts but on its being counted. What the bounds limit
is named in each module (`MaxFaults`, `MaxFeedFaults`, `MaxKills`, `MaxStarts`, `MaxBoots`, `MaxAttempts`, `MaxEdits`, `MaxFiles`,
`MaxImports`, `MaxUpdates`, `Horizon`, `MaxRestarts`, `MaxActs`); the proofs of section 7 hold for all values. Of the newer models: two updates
of a book give a delta before and after a snapshot; six minutes give an hour that is published, one that fills and one
that is still open when a clock jumps; one computation per machine is enough for an older row to meet a newer one, in
either order of their times. Deadlock is checked in `monitor_batch` only (a call that has ended stutters): every other one of
these systems may stop (all runs done, all processes dead, all bounds spent).

Each property of a passing run has a mutant in `PROJECT.json`: a plausible bug in the code (a lease reclaimed without
a probe, a snapshot kept in memory, a restart not counted) under which TLC finds that property violated.

### What the violation says

`jobs_two_executors` (`tester_jobs.py:397`): `recover` checks the store's lock file once and removes it at the end
whosever it is by then. Two executors started together get past each other; after two kills the restore takes a file of
the user's for one the bot never had, and deletes it. `docs/specs/2026-10-17-mrs2-history-store-and-tester-sampling.md:404`
says one executor runs at a time. The other disagreements met are in the next section.

## 5. Further configurations

These are kept beside the runs and can be checked with `tlc -config <cfg> <module>`. The first holds; the others
show where the code and a document, or a reader's expectation, disagree, and their counterexamples can be read with the
lines given. Where a row names another property or fault than the file, a copy of the file with that line changed shows it.

| Configuration | Module | Result |
|---|---|---|
| `TargetLock_two_hosts.cfg` | `MC_TesterTargetLock` | two hosts with one shared directory: `OneOwner`, `HolderOnFile` hold |
| `Portfolio_recovery.cfg` | `MC_PortfolioRun` | one run, 3 faults: `InstalledIsRecoverable` holds, `RecoveredWhateverHappened` fails: after a crash and a recovery that failed, a second recovery is killed when it has replaced `recovery_stopped.json`, whose old hash is in the manifest; every later discovery raises (`portfolio/runner.py:860`, against `docs/superpowers/plans/2026-09-06-portfolio-optimizer-m5-evidence.md:27`). With `MaxFaults = 2` both hold |
| `TargetLock_containers.cfg` | `MC_TesterTargetLock` | `ClearedLocalOwnerIsDead` fails for two containers with one host name: an owner in another pid namespace is not probed (`locking.py:640`, against the comment at `:642`) |
| `RunLock_clicks.cfg` | `MC_CsvRunLock` | `OneRunner` fails: a second click in the same instant finds an empty lock file, takes it for a stale one and unlinks it (`runner/workflow.py:705`, against the docstring at `:684`) |
| `Portfolio_boundary.cfg` | `MC_PortfolioRun` | `NeverReapplied` fails: a kill between the release and the last manifest write (`portfolio/runner.py:822`, against `docs/superpowers/plans/2026-09-06-portfolio-optimizer-m5-evidence.md:60`) |
| the same, with `INVARIANT UnconfirmedKeepsLease` | `MC_PortfolioRun` | fails: an error that breaks off the wait for an operation (of `cancel_check`, of the transport's contract, a KeyboardInterrupt) is no `OperationUnconfirmedError`; the settings are restored and the lease released while the operation may run (`:785`, against `:25` of the same plan) |
| `Portfolio_race.cfg` | `MC_PortfolioRun` | `SettledStays` fails when a recovery is started beside a live run: INTERRUPTED is written before the lease is taken (`:855`, against the comment at `:834`) |
| `Portfolio_blocked.cfg` | `MC_PortfolioRun` | `RecoveredWhateverHappened` fails with two runs: a workspace without a manifest refuses every recovery (`:463`, against `:27` of the same plan) |
| `Portfolio_order.cfg` | `MC_PortfolioRun` | `RecoveredMeansRestored` fails: two incomplete runs are recovered in the order of their paths, the second restores what the first had installed (`:824`); so does `InstalledIsRecoverable` with this configuration's constants |
| `TesterJobs_crash.cfg`, with `INVARIANT NothingLost` | `MC_TesterJobs` | fails with one executor and 3 faults: a move fails in the backup, the move back fails too (`tester_jobs.py:303`), which is no `RestoreError`, so the queue goes on; the next job's manifest says the bot never had the file, and when that job is killed the restore deletes what the other backup has put back. The docstring at `:405` promises the files back "whatever happens"; `LostOnlyByOverrun` excepts it |
| `JobJournal_leftover.cfg` | `JobJournal` | `Kept` fails when the sidecar cannot be deleted: the next save replaces the journal beside it, and the start after that restores the old bytes over the new journal (`panel_jobs.py:268`, against `docs/decisions/0074-panel-journal-in-place-recovery.md:11`) |
| `BulkRetest_outcomes.cfg` | `BulkRetestImport` | `CommittedShown` fails: a retry clears the marker before the outcomes; when a save fails between the two, the next import is no retry and its outcomes are never recorded (`panel.py:3740`) |
| `RunBatch_stale.cfg` | `MC_RunBatch` | `KeepsItsOwn` fails without a fault: after a recoverable failure, entries that were in the log before the run count as its results, if a strategy of the same name had been tested before (`runner/workflow.py:1145`) |
| `BookFeed_clock.cfg` | `BookFeed` | `Resynchronized` fails after one clock jump: the books stay invalid while the connection lives; `request_reconnect` has one caller (`cli.py:148`), and a book that is invalid drops its deltas (`core.py:212`), against `docs/specs/2026-09-05-bybit-market-data-collector.md:48`. With `INVARIANT SampleOfOneBook` in its place, that fails too: bids, asks and the valid flag are copied one by one while the other thread replaces them (`core.py:111`); no document promises more |
| `BookFeed_clock.cfg`, with `FeedFaults = {"garbled"}` and `INVARIANT ValidFollowsTheStream` or `PROPERTY SynchronizedUnlessRejected` | `BookFeed` | both fail: a frame that cannot be decoded is dropped (`websocket.py:118`) and its book stays valid without it; the next delta is then rejected or, having a greater id, applied over the gap. The specification at `:48` counts a malformed update among the invalidations. `feed_stream` and the proof leave such frames out |
| `BookFeed_revert.cfg` | `BookFeed` | `BooksInTheEnd` fails: a reload that fails part-way keeps the books it removed or added, and a file that is then set back to the accepted list is no change (`cli.py:153`) |
| `MinuteArchive_silent.cfg` | `MinuteArchive` | `NothingSilent` fails: a clock set back lets a row arrive between a file and its mark; a file taken over from an earlier attempt is not compared with the spool (`archive.py`, `MarkedAccounted` makes this exception) |
| the same, with `Faults = {"write"}` and `INVARIANT FatalWrite` | `MinuteArchive` | fails: a minute whose write failed stays in memory and the collector goes on (`runtime.py:343`), against `docs/specs/2026-09-05-bybit-market-data-collector.md:101`, where an exhausted write error is fatal and ends `run`. What the code does instead is `WrittenInTheEnd` |
| `BatchMonitor_late.cfg` | `MC_BatchMonitor` | `FreshRunId` fails when a run takes longer than the grace period: its report completes the next attempt (`docs/specs/2026-08-10-v06-runner-safe-root-json-smoke.md:107` against the test at `tests/runner/test_monitor.py:473`); with `INVARIANT LaneKept` in its place, that fails too: the tester still runs what the monitor has given up |
| `BatchMonitor_lag.cfg` | `MC_BatchMonitor` | `LastEvidence` fails when a run was dropped and submitted again: `launch` discards the snapshot of the attempt it gives up (`monitor.py:450`), but the collector's thread may copy that attempt's report after, and it completes the next one. `FreshEvidence` only says that the report is of some run of this call |
| `BulkRetest_polls.cfg` | `BulkRetestImport` | `MarkerKept` fails: a status request writes its copy back over a marker set since (`panel.py:861`, against the comment at `:854`) |

Seen while reading and not modelled further: a KeyboardInterrupt in `_restore` or in the conversion leaves a job
"running" until the next recover (`tester_jobs.py:429`); a deletion of a backup that is cut short makes every later
recover fail (`tester_jobs.py:338`; the exception in `BackupsRestored` and `Marked`); an inbox captured before a kill
makes every later call of its run fail (`runner/inbox.py:152`); Ctrl-C in the stop of `run_batch`'s handler
(`runner/workflow.py:1286`) is not caught, so settings go back under a running bot; `startup_recover` of the portfolio
service goes on with jobs marked running when its own save fails (`panel_portfolio.py:1425`); an hourly file that does not validate is
looked at again every minute, not once per process (`archive.py:124`).

## 6. Fairness

Liveness is checked under weak fairness of the steps of live actors, and nothing is assumed of kills, faults, clicks
or other users, which may always fail to come.

| Specification | Assumed | Why the code justifies it |
|---|---|---|
| `CsvRunLock!FairSpec` | a runner of a live process goes on; its user tries again | no step of the lock waits for another runner; a refused call returns and can be repeated |
| `PortfolioRun!FairSpec` | a run or recovery that is not killed goes on; the process of an ended call exits; recovery is started again | an operation given `timeout_seconds` ends by it (`_operation`, `:602`), without one it is the transport that has to answer or the user who cancels; everything else is file operations; that recovery is called again is the contract of `recover_incomplete`'s caller |
| `TesterJobs!FairSpec` | an executor goes on, and is started again after it ended | the tester's run has a timeout (`run_hb_tester`, six hours); the queue is run again by the user or the Panel's task |
| `JobJournal!FairSpec` | a call goes on; a write in place that is tried for ever is at some time not cut short; a Panel is started again | strong fairness only of the completing write and of the restoring one: each may be torn finitely often |
| `BulkRetestImport!FairSpec` | threads of a running Panel go on; the page polls; a failed record is repeated and saved at some time | `panel_web/app.js:1506` polls every second; `inspect` records terminal states again on each poll |
| `BookFeed!FairFeed` | the WebSocket thread runs, a sample ends; strongly, a changed list is picked up | the main loop looks at the file every 30 seconds, between samples it takes all the time; nothing is assumed of updates, breaks or edits |
| `MinuteArchive!FairSpec` | time passes, the loop polls and exports, the collector is started again, a symbol removed is listed again | one loop with a poll every few seconds, the scheduled task restarts it; each fault is bounded, none is assumed to end otherwise |
| `BatchMonitor!FairSpec` | the monitor polls, the collector's thread runs, the tester goes on with what it took, timers pass; strongly, the stall timeout; the caller restarts the bot | `Stall` is strong because a poll goes on around it; the tester's faults are the ones the monitor has a branch for |
| `RegistrySync!FairSpec` | on each machine, what is not killed goes on, and the user runs `sync` again and again | a git call has a timeout of 120 s, a wait for the lock one of 300 s; the docstring of `_export_after_write` leaves a failed export to the next write or sync |
| `RunBatch!FairSpec` | a call under way goes on | every wait for the bot or the monitor has a timeout in `RunnerConfig` |

## 7. The proofs

`tlapm` proves every obligation of eight modules: `TesterTargetLockProofs` (565), `PortfolioRunProofs` (659),
`TesterJobsProofs` (1396), `RunBatchProofs` (1214), `BatchMonitorProofs` (2670), `PanelJobsProofs` (1556),
`CollectorProofs` (1706) and `RegistrySyncProofs` (689). The theorems hold for every value of the constants, those with a
named hypothesis (`OneNamespace`, `OneExecutor`, `Timely`, `Decodable`, ...) for every value that satisfies it. Each such hypothesis has a
configuration in section 4 or 5 in which the property fails without it, or a reason given below.

**`TesterTargetLockProofs`**, from `ConstantsAssumption` (which only types the constants):

| Theorem | Statement |
|---|---|
| `TypeCorrect` | `Spec => []TypeOK` |
| `MutualExclusion` | `Spec => []OneOwner`: two callers hold a lease at once only after an operator attested the clearing of one |
| `HolderStaysOnFile` | `Spec => []HolderOnFile` |
| `Refinement` | `Spec => ImplementsLease` |
| `ClearedOwnersAreDead` | `OneNamespace` implies `Spec => []ClearedLocalOwnerIsDead` |

`OneOwner` is not inductive: it says nothing of a caller that has linked its evidence and not yet returned, nor of one
that has judged an owner dead and not yet removed it. `IInv` adds: `Memory` (evidence in a caller's memory is genuine:
of its own process, with a token no other has, so equal evidence means the same caller), `GateDiscipline` (at a gated
point a caller has the gate, so at most one is at such a point), `PointFacts` (what each program point has established,
above all that the file still has the bytes that were compared) and `HolderOnFile`. The argument: a holder's evidence
can leave the file only by an unlink; unlinks happen at gated points after a compare; the compared evidence was judged
dead, by `ProbeSound` so that no live holder has it, or its clearing was attested. Ownership is taken only with one's own
evidence on file, hence (`TakeOwnershipGrants`) when every other lease was attested. One lemma per group of steps
shows each conjunct preserved.

`OneNamespace` says that the processes of one machine share a pid namespace, as they do where no two containers have one
host name; without it `TargetLock_containers.cfg` refutes the property. The property relates an attestation to all later
states, so the proof has to exclude that a cleared owner's evidence comes back. `AllStaged`: whatever evidence is in the file,
in a caller's memory or in the audit was staged by an earlier acquisition, and no later one stages it again (its token is new).
`Cleared`: from the moment a clear has read and probed an owner of its own machine, nobody has that evidence or is
about to have it, which `ClearProbes` establishes and every other step keeps (`ClearSteps`, `ClearedStays`).

**`PortfolioRunProofs`**, from `ConstantsAssumption` (which types the constants; `Order` is the order of the paths of runs):

| Theorem | Statement |
|---|---|
| `TypeCorrect` | `Spec => []TypeOK` |
| `LeaseCovers` | `Spec => []TesterUnderLease`: a live run's settings are in the tester only under its lease, and so is its operation unless its wait was broken off |
| `SwapsAreQuiet` | `Spec => NoSwapUnderTest`: no settings are replaced under an operation, but one whose wait was broken off |
| `InstalledRecoverable` | `OnlyOneRun` implies `Spec => []InstalledIsRecoverable`, for any number of recoverers |

That settings in the tester are under their run's lease must survive a restore, and a restore writes what a snapshot holds.
So `IInv` has, beside `Holders` (who is at a point of the lease has it), `Foreign`: no snapshot, in memory or on disk, holds the
settings of a run that lives or has not yet installed. It is kept because a snapshot is taken under the lease from a
tester whose settings are of no other live run. `RunFacts` and `RecovererFacts` say what each point has established: from
`stopped` to `installing` the tester is idle, a manifest with a status has a saved snapshot, and a recoverer that restores has
stopped the tester, or its operation is one of those `abandoned`. `AtManifest`, that a recoverer at a manifest is at one with a status, rests on a set of naturals having
a smallest element (the library's well-foundedness).

`OnlyOneRun` (no two runs on one tester) is needed for `InstalledRecoverable`: with two, a run may take the settings that a dead one
left for the user's, and its recovery puts them back after the other has been settled (`Portfolio_order.cfg`). With one, a recovery may
still be started at any time beside the live run and write INTERRUPTED, RECOVERY_FAILED or RECOVERED over what the run has
written. `Alone(r)` says why this does no harm: a recovery completes a manifest only when the run is `Past` installing and its
settings are out of the tester. It knows that from the lease, where it restores (the run has released it or is dead), and
from READY_TO_RELEASE, where it only finishes: whoever wrote that had restored before.

**`TesterJobsProofs`**, from `ConstantsAssumption`:

| Theorem | Statement |
|---|---|
| `TypeCorrect` | `Spec => []TypeOK`, for any number of executors |
| `FilesKept` | `OneExecutor` implies `Spec => []LostOnlyByOverrun`: until a job is begun over a backup that could not be undone, each of the user's files is in the bot or in a backup |
| `CleanWithoutBackup` | `OneExecutor` implies `Spec => []CleanOrBackedUp` |

`OneExecutor` (at most one executor, which is started again as often as it ends) is what the document quoted in section 4 says;
with two, `jobs_two_executors` refutes `NothingLost`. A backup without a manifest may be empty (`Bare`: the next step failed, or an
undo went through and its directory stayed); the others are `Kept`, and `BackupFacts`, the heart of the invariant, says
that there is at most one: without it the bot has the user's files and nothing else; while it is open each strategy
file is in the bot or in the copy, or in both; once it is sealed its manifest is the user's files, and what the bot lacks of them
is in the copy. `PointFacts` ties the points of the executor to it: `recover` has settled every backup before the queue is run,
a job in hand is the one that has the backup, and a backup is removed only over a bot that is the user's again and a copy
that is empty. A failed undo leaves its backup `Kept` while the queue goes on; then that backup is in `left`, and the step that
begins the next one sets `overrun`. So the invariant is `TInv /\ (overrun \/ FInv)`, and `overrun` is exactly what
section 5 refutes `NothingLost` by. The proof takes the steps of a backup, an installation and a restore one file at a
time, as the code does, and a kill or a failed move at each.

**`RunBatchProofs`**, from `ConstantsAssumption` (which types the constants and keeps names of runs apart from the
values that stand for nobody, the user and a partial installation):

| Theorem | Statement |
|---|---|
| `TypeCorrect` | `Spec => []TypeOK` |
| `OwnChunkTested` | `Spec => []TestsItsOwn` |
| `SwapsAreQuiet` | `Spec => NoSwapUnderTest` |
| `GivenBackAsFound` | `Spec => LeftAsFound` |
| `ResultsKept` | `Spec => SavedKept` |

`Facts(r)` collects what a call knows at its points: the lease is its own wherever it may touch the tester (`Place`), its snapshot
and the job's outer one are what was found (`Snapshots`, `OfPanel`, `OfCommandLine`), the bot is stopped, and the flags
`started` and `quiesced` tell the handler and the `finally` block so (`BotFacts`), the installed chunk is its own
(`ChunkFacts`), and the results at hand are the saved ones where a report backs them, while what is being tested has none (`KeptFacts`). The lease does the rest: by `LeaseExcludes` no other call
changes tester or lease meanwhile, so a step of one call keeps the facts of all others (`OthersKeepFacts`), and each action
is looked at for its own call only. The delicate part is the failing way back, where a Panel job's snapshot encloses that of
`run_batch`: `OfCommandLine` and `OfPanel` differ in which of the two must be what was found. The recovery after a
failure (`Salvage`) changes most at once; lemmas (`SalvageFrame`, `Written`, `Gone`, ...) say what it does for a given set of
validated entries, and `LostReport` that a report that disappears takes no saved result with it. That a run keeps
results of its own only (`KeepsItsOwn`) is not proved: `RunBatch_stale.cfg` refutes it.

**`BatchMonitorProofs`**, from `ConstantsAssumption`:

| Theorem | Statement |
|---|---|
| `AttemptsKept` | `Spec => []AttemptsBounded`, with every fault of the tester |
| `EvidenceIsFresh` | `Spec => []FreshEvidence`, with every fault, however late a run, a report or a copy is |
| `LanesKept` | `Timely` implies `Spec => []LaneKept` |
| `GivenUpForCause` | `Timely` and no reused run ids imply `Spec => []GivenUpJustly` |

`Timely` excludes one fault, a run or report that comes later than the grace period, and `BatchMonitor_late.cfg` refutes
`LaneKept` with it. A poll may overtake the collector's thread anywhere, a copy may fail, and the thread may end. The two
hypotheses of `GivenUpForCause` are the proof's: its account needs one attempt under way and one log entry with a run id. TLC
finds no counterexample to `GivenUpJustly` without them (`Faults = {"slow", "dropped", "reused"}` in the instance of
`BatchMonitor_late.cfg`, with keys and without): a late run counts as a mishap itself, and a call in which the tester uses a run
id again, so that `_matching_entry` takes neither of the two entries, ends by the stall timeout.

The invariant is built up in layers. `Counted` (each submission was counted before it was sent, `attempts_callback`)
gives the bound on attempts. `EInv` follows reports: a report file is of a strategy with that path (`FilesOwned`), what the
collector has not yet looked at is of a run of this call (`FilesNew`, which `_seed_existing_reports` establishes), and so are
snapshots and accepted reports (`Recent`). `IInv` adds what `Timely` gives: at most the last submission of a strategy is
queued, running or owed a report (`TesterFacts`); the reasons for another attempt, a time stamp that is old or a row that fell
back, hold only of a strategy of which nothing is under way (`AgainFacts`), so a second attempt does not meet the first one
in the tester, and lanes stay apart through retries (`Lanes`). `JInv` keeps an account (`Justified`, `Account`): each attempt is
answered for by a mishap or a restart, or it is under way with its report. Without keys, a report that another strategy overwrites
before it was copied is such a mishap (`Uncopied`).

**`PanelJobsProofs`**, on the import from `ImportAssumption` (which types the bounds), on the journal from `Sound` (the sidecar can be
deleted, the journal can be read, and the values that stand for no file, a torn one and no sidecar are no contents of one):

| Theorem | Statement |
|---|---|
| `OneImportAtATime` | `Spec => []OneImport`: at most one import works on the database, and its job is running in the registry until its worker has ended |
| `RestartReopens` | `Spec => Reopened`: a start that can save its recovery leaves a marker the next import request can act on |
| `NotRepeated` | `Spec => CommittedNotRepeated`: no import begins after one has committed, unless a status request wrote a stale copy back |
| `JournalKept` | `J!Spec => [](J!TypeOK /\ J!Kept)`: what was acknowledged is found by a start |
| `JournalImplementsCell` | `J!Spec => J!ImplementsCell` |

An import request decides in one registry call and acts in later ones, so each of its decisions must still hold several steps
later, across a worker that ends, a poll, a failed save and a kill. `Numbered` says that job numbers are not used again and what job
the request has in hand; `Workers` that at most one job is queued or running, in memory and in the journal, and that a worker's job is
running or has the end of its worker; `Markings` that memory and journal know the same jobs, and that a marker, also one in a copy some
thread holds, names a job that exists or is pending. `Marked` is the heart: unless a stale copy was written, the marker names the job
that has committed or works, so the next request finds it and attaches to it or shows its outcome.

The journal is reached through an instance, `J == INSTANCE JobJournal`, since both models have a `pc` and a `Spec`; an instance does
not bring the assumption of its module, so `Values` states it as a hypothesis. `Kept` needs to know what a kill at each point leaves
behind: `PointFacts` (no sidecar while the atomic way is tried, the sidecar's intended bytes are those being saved while the
other is), `TornHasSidecar` (a torn journal can be restored) and `HasJob`. `Sound` is needed: without its first part
`JobJournal_leftover.cfg` has the counterexample, without the second a failed read at a start loses the journal (`panel_jobs.py:201`).

**`CollectorProofs`**, on the archive from `ArchiveAssumption` (positive lengths of the hour and the delay; naturals for the rest), on the
feed from `FeedAssumption` (finitely many symbols, and the types of the bounds):

| Theorem | Statement |
|---|---|
| `NothingMissing` | `Spec => []MarkedAccounted`: a row missing from the file of a marked hour was recorded as late, or the file was taken over from an earlier attempt |
| `ArchiveImplemented` | `Spec => ImplementsArchive`: a file is its hour as recorded at one moment, and does not change while it is there |
| `FollowsTheStream` | `Decodable` implies `FeedSpec => []ValidFollowsTheStream`: a valid book belongs to the present connection, its levels are of one version, and with the frames under way it makes up the exchange's book |

`MarkedAccounted` speaks of marked hours; that it holds when an hour is marked depends on what the exporter established
several steps before. `HourFacts` carries it: an hour written to its temporary file has neither file nor marker, one about
to be marked has its file, which lacks nothing unless it was taken over, and an hour is in hand only while the main loop
does not poll, so no row arrives meanwhile. A row that arrives later finds the marker and is recorded. For the refinement,
the step that renames the temporary file is the abstract archive's `Seal`, a row written to the spool its `Record`, marks and
recoveries its `Announce` and `Withdraw`.

The feed has to account for frames that are under way, and for a thread that applies one field by field while the other thread
invalidates, removes and adds books. `Stream` counts: each frame's update id plus the frames of its symbol behind it is the exchange's
version (`Left` counts them; lemmas say what an `Append` and a `Tail` do to the count). `Snapshots`: a connection sends one snapshot
per symbol, and until it is applied the symbol's book is not valid. `Generations`: the frame in hand of a symbol that was removed
and added again belongs to an older object, so what it still writes does not reach the new book. `Applying` says how far the frame in
hand has been written, `Following` that a valid book plus the frame in hand plus the frames under way is the exchange's
version. Then a delta that is applied to a valid book is the next one, whichever thread came first. `Decodable` (no frame is
garbled on its way) is needed: section 5 has the counterexample.

**`RegistrySyncProofs`**, from `RegistryAssumption` (finitely many machines, whose computations have different times):

| Theorem | Statement |
|---|---|
| `HistoriesHold` | `Spec => [](TypeOK /\ Histories)` |
| `PublishedKept` | `Spec => PublishedStays` |

`Histories` says what the vectors mean: a machine has all of its own commits, nobody has one that does not exist, and the
rows of a machine's files grow along its commits up to its working tree. Every step adds commits and changes none
(`Extended`), and the remote branch only moves forward (`Forward`), because a push needs the remote as an ancestor; with
`Histories` before and after, what was published of a machine is contained in what is. A fast-forward deserves a thought:
it may not take commits from a machine, and cannot, since the remote has no commit of a machine that the machine has not
(`head[m][m] = Len(log[m])`). The type of an imported pipeline row rests on `Largest`, that among finitely many
rows one has the latest time; it is proved from the library's well-foundedness of `<` on the naturals.

Only model-checked: every liveness property (`StaleLockCleared`, `RecoveredInTheEnd`, `BackupsRestored`, `Marked`, `ComesUp`,
`Reported`, `CallsEnd`, `Settles`, `SubscribedInTheEnd`, `SynchronizedUnlessRejected`, `WrittenInTheEnd`, `PublishedInTheEnd`,
`RowsReachAll`, `NewestRowWins`), since the prover has no rules for fairness
that these backends could use. All invariants, action properties and refinements of the passing runs have a theorem.

## 8. What is not modelled, and why

- `TesterTargetLock`: that `psutil` reports the same start time for a process each time, and that the gate's advisory
  lock works on the file system in use, are assumptions; both are the operating system's.
- `CsvRunLock`: pids are not reused (the code could not tell).
- `PortfolioRun`: writes of the manifest do not fail; the contents of reports and the publication are left out; a run
  id is not retried. When a recovery runs beside a live run, or two recoverers race, the manifests that both write are not
  compared with the files beside them, so a workspace they make unreadable for each other stays readable in the model.
- `TesterJobs`: a tester orphaned by a killed executor goes on running (`tester_jobs.py:253`, a listed hazard: no
  step of the code stops it); planning and import are left out, so a job's state is the whole catalog. Writes of the
  catalog do not fail, and a file operation that fails has happened wholly or not at all, but for a move, which may have copied.
- `JobJournal`: the order in which a disk makes synced files durable at a power loss; progress checkpoints, which are
  saved less often on purpose.
- `BulkRetestImport`: the start of the RETEST and its tester run, the inbox capture, the equity filter child and single
  imports. A replacement keeps the identity of a result, so repeating one changes nothing and is not told apart. The
  properties of `retest_import` make an exception where a status request wrote a stale copy back (`BulkRetest_polls.cfg`), and none
  of them forbids what the code does after a failed save of `transition(RUNNING)` (`panel.py:798`: the job stays running, without
  a worker, until a restart) or of an import's end (`panel_performance_v2.py:442`: a restart takes it for an interrupted one).
- `RunBatch`: attempt counters and the submission window (`BatchMonitor` has them), edits of the source files between
  two calls, contents of CSV and reports (a report "validates" any entry of the log that has its strategy's name),
  Ctrl-C, and cancellation of the Panel's job, which only changes its last state. The file of saved results can always be
  read, and the files of a run's strategies do not change between its calls, so that `Hydrate` drops a result only for its
  report (`runner/workflow.py:147` compares both).
- `BatchMonitor`: the deadlines of single requests and the contents of reports; with a lost submission over an old result a call
  ends only by the stall timeout of half an hour, which `Settles` excepts. Run ids the tester uses again are in the
  proofs, and in no run: a call then also ends by that timeout only.
- `BookFeed`: one subscription batch; ping and back-off times (only pings are sent, an idle connection is not timed out);
  `WriteValid` takes the last four fields of `apply_snapshot` (`core.py:189-196`) together: the other thread may invalidate
  between them, which changes only the recorded cause. `set_connected` is one step, although the flag is set before the books are
  invalidated (`runtime.py:117-128`): for that moment a book may still be valid beside a connection that is gone.
- `MinuteArchive`: the retries of a busy database (a write fails or does not), and one symbol, whose row of a minute is only its minute; numbers that overflow a SMALLINT column make the
  export of their hour fail for ever (`archive.py:287`), which only a failing `WriteTmp` for ever could show.
- `RegistrySync`: every machine has synced once (`init_repo` and unrelated first histories are left out); a git command is
  atomic (a kill inside one can leave `index.lock`; one between `git add` and `git commit` makes the next merge fail until
  an export has committed); tests are rows that only the command line exports; one pair and one day of the pipeline, and
  times of computations that differ (with equal ones machines would keep different rows). `_compute` deletes the row of the day and
  inserts the new one in two commits (`pair_registry/pipeline.py:129-140`): a kill between them leaves no row until the next
  computation, and `Sync` takes them as one. A row computed under another name (`--machine`, `cli.py:271`) is never exported,
  since a machine exports the rows of its own name; the model has one name per machine. Two machines with one name end
  in an error that says so. `record_finalist` skips a mark whose status is in force in the local registry, so a mark given on
  a machine that is behind can be lost to an older one after the sync; the models do not tell marks apart.
- Components that are calculations (section 1): their results are numbers and documents that TLC would have to compute
  as the code does. Where an exact definition exists beside the algorithm, a bounded check is planned.
- External: the Hamster bot is whatever answers the code waits for; DuckDB transactions and `os.replace` are atomic.
