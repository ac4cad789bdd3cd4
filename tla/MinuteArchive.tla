---------------------------- MODULE MinuteArchive ----------------------------
(***************************************************************************)
(* From samples to files: the minute aggregates of the Bybit collector in  *)
(* memory, their durable spool, and the hourly files and reader index made *)
(* from it (src/src/mrs3/bybit_collector/runtime.py, aggregation.py,       *)
(* storage.py, archive.py).                                                *)
(*                                                                         *)
(* One symbol is modelled, and of a row only its minute: the first row of  *)
(* a minute stays, so a minute aggregated again changes nothing.  The main *)
(* loop does everything in one thread; a poll samples, writes the minutes  *)
(* that are over and, at most once a minute, lets the exporter catch up.   *)
(* Time is the minute of the wall clock; a jump is a suspended machine or  *)
(* a clock that was set, which the scheduler sees as a discontinuity.  The *)
(* process may be killed or stopped between any two steps and is started   *)
(* again.  MinutesPerHour and Delay stand for 60 and 2.                    *)
(***************************************************************************)
EXTENDS Naturals, FiniteSetsExt

CONSTANTS
    MinutesPerHour, \* the minutes of an hour
    Delay,          \* minutes after its end before an hour is exported
    Horizon,        \* bound: the last minute of the wall clock
    MaxFaults,      \* bound: faults
    Faults          \* the kinds of fault that may happen, a subset of Kinds

Kinds == {"jump", "kill", "stop", "write", "begin", "publish", "mark", "delete", "damage", "list"}

ASSUME ArchiveAssumption ==
    /\ MinutesPerHour \in Nat \ {0} /\ Delay \in Nat /\ Horizon \in Nat /\ MaxFaults \in Nat
    /\ Faults \subseteq Kinds

Minutes == 0..Horizon
Hours == 0..(Horizon \div MinutesPerHour)
HourOf(m) == m \div MinutesPerHour
MinutesOf(h) == {m \in Minutes : HourOf(m) = h}
Eligible(h, t) == t >= (h + 1) * MinutesPerHour + Delay
NoFile == [exists |-> FALSE, minutes |-> {}]
File(minutes) == [exists |-> TRUE, minutes |-> minutes]

VARIABLES
    now,        \* the wall clock
    jumped,     \* whether it jumped since the last poll
    up,         \* whether the collector runs
    listed,     \* whether the symbol is in the configuration
    anchored, next, \* the scheduler: whether it has an anchor, and the next label
    agg,        \* the minutes aggregated in memory
    done,       \* the last minute finalized, plus one
    rows, late, \* the spool: the minutes written, and those recorded as late
    marked,     \* the reader index: the hours published
    file,       \* the file of each hour, with the minutes it was made of
    damaged,    \* the hours whose file no longer validates
    pc,         \* the main loop: polling, exporting, or stopping
    todo, hour, \* the exporter: the hours left, and the one whose rows it has read
    adopted,    \* history: hours marked with a file an earlier attempt had published
    seen,       \* history: the minutes this process has aggregated
    faults

vars == <<now, jumped, up, listed, anchored, next, agg, done, rows, late, marked, file, damaged,
          pc, todo, hour, adopted, seen, faults>>
clock == <<now, jumped>>
memory == <<anchored, next, agg, done, seen>>
spool == <<rows, late>>
published == <<marked, file, damaged, adopted>>
exporter == <<pc, todo, hour>>

Nobody == [h |-> 0, at |-> "none"]
Exports == [h : Hours, at : {"tmp", "mark"}]

Init ==
    /\ now = 0 /\ jumped = FALSE
    /\ up = TRUE /\ listed = TRUE
    /\ anchored = FALSE /\ next = 0 /\ agg = {} /\ done = 0 /\ seen = {}
    /\ rows = {} /\ late = {}
    /\ marked = {} /\ file = [h \in Hours |-> NoFile] /\ damaged = {} /\ adopted = {}
    /\ pc = "poll" /\ todo = {} /\ hour = Nobody
    /\ faults = 0

Fault(kind) == kind \in Faults /\ faults < MaxFaults /\ faults' = faults + 1
NoFault == UNCHANGED faults

-----------------------------------------------------------------------------
(* The clock.                                                              *)

Tick ==
    /\ now < Horizon /\ now' = now + 1
    /\ UNCHANGED <<jumped, up, listed, memory, spool, published, exporter, faults>>

Jump ==
    /\ Fault("jump")
    /\ now' \in Minutes \ {now} /\ jumped' = TRUE
    /\ UNCHANGED <<up, listed, memory, spool, published, exporter>>

-----------------------------------------------------------------------------
(* The main loop: samples and rows.                                        *)

\* Mutant: late rows are not recorded.
InsertUnrecorded(new) == rows' = rows \cup new /\ UNCHANGED late

\* SQLiteSpool.write_minute: the first row of a minute is kept, and one inserted for an
\* hour that is already published is recorded as late in the same transaction.
Insert(new) ==
    /\ rows' = rows \cup new
    /\ late' = late \cup {m \in new \ rows : HourOf(m) \in marked}

\* Mutant: a minute is dropped from memory whether or not its row was written.
FinalizeDrops(over, open) ==
    \/ NoFault /\ Insert(over) /\ agg' = open \ over /\ UNCHANGED done
    \/ \E m \in over : Fault("write") /\ Insert(over \ {m}) /\ agg' = open \ over /\ UNCHANGED done

\* _finalize_before: the rows of the minutes in over are written; one that cannot be
\* written stays aggregated for the next attempt.
Finalize(over, open) ==
    \/ /\ NoFault
       /\ Insert(over) /\ agg' = open \ over
       /\ done' = Max({done} \cup {m + 1 : m \in over})
    \/ \E m \in over :
        /\ Fault("write")
        /\ Insert(over \ {m}) /\ agg' = (open \ over) \cup {m}
        /\ UNCHANGED done

\* After a poll the exporter runs, unless it did within the last minute.
ThenExport == pc' \in {"poll", "export"}

\* A poll with boundaries due: the newest is sampled, the minutes skipped get aggregates
\* of missed boundaries, and everything before the label is written.  Behind a clock
\* that was set back the labels go on from the last one.
Poll ==
    /\ up /\ pc = "poll" /\ anchored /\ ~jumped
    /\ \E label \in IF now >= next THEN {now} ELSE {next, next + 1} \cap Minutes :
        LET open == IF listed THEN agg \cup next..label ELSE agg
        IN  /\ Finalize({m \in open : m < label}, open)
            /\ next' = label /\ seen' = seen \cup open
    /\ ThenExport
    /\ UNCHANGED <<clock, up, listed, anchored, published, todo, hour>>

\* A poll that sees a discontinuity (or is the first) only takes a new anchor; boundaries
\* missed meanwhile are counted in the minute it is now.
Anchor ==
    /\ up /\ pc = "poll" /\ (~anchored \/ jumped)
    /\ anchored' = TRUE /\ jumped' = FALSE
    /\ next' = IF anchored THEN Max({now, next}) ELSE now
    /\ agg' \in IF anchored /\ listed /\ done <= now THEN {agg, agg \cup {now}} ELSE {agg}
    /\ seen' = seen \cup agg'
    /\ ThenExport
    /\ UNCHANGED <<now, up, listed, done, spool, published, todo, hour, faults>>

\* A reload removes the symbol once all its minutes, the present one included, are
\* written, or adds it again.
Unlist ==
    /\ up /\ pc = "poll" /\ listed /\ "list" \in Faults
    /\ Finalize(agg, agg)
    /\ listed' = (agg' # {})
    /\ UNCHANGED <<clock, up, anchored, next, seen, published, exporter>>

List ==
    /\ up /\ pc = "poll" /\ ~listed
    /\ listed' = TRUE
    /\ UNCHANGED <<clock, up, memory, spool, published, exporter, faults>>

-----------------------------------------------------------------------------
(* HourlyExporter.recover and export_hour.                                 *)

\* Mutant: only hours without a marker are looked at.
DueUnmarked == {h \in Hours : Eligible(h, now) /\ h \notin marked /\ rows \cap MinutesOf(h) # {}}

\* The hours to export: marked without a file, or with rows and no marker.
Due == {h \in Hours : Eligible(h, now) /\ IF h \in marked THEN ~file[h].exists
                                           ELSE rows \cap MinutesOf(h) # {}}

Recover ==
    /\ up /\ pc = "export"
    /\ todo' = Due /\ pc' = "hours"
    /\ UNCHANGED <<clock, up, listed, memory, spool, published, hour, faults>>

\* The next hour whose export begins.
Begins(h) == up /\ pc \in {"hours", "stopping"} /\ hour = Nobody /\ h \in todo

\* An export fails before it has a file of its own: this hour waits for the next recovery or,
\* where the exception is not one that export_hour catches, so do all that are left.
Fails(h) == Fault("begin") /\ todo' \in {todo \ {h}, {}} /\ UNCHANGED hour

\* The marker of an hour without a file is cleared first.
Clear(h) ==
    /\ Begins(h) /\ h \in marked /\ ~file[h].exists
    /\ \/ NoFault /\ marked' = marked \ {h} /\ UNCHANGED <<todo, hour>>
       \/ Fails(h) /\ UNCHANGED marked
    /\ UNCHANGED <<clock, up, listed, memory, spool, file, damaged, adopted, pc>>

\* A valid file without a marker is taken as it is.
Adopt(h) ==
    /\ Begins(h) /\ h \notin marked /\ file[h].exists /\ h \notin damaged
    /\ \/ /\ NoFault /\ hour' = [h |-> h, at |-> "mark"]
          /\ adopted' = adopted \cup {h} /\ UNCHANGED todo
       \/ Fails(h) /\ UNCHANGED adopted
    /\ UNCHANGED <<clock, up, listed, memory, spool, marked, file, damaged, pc>>

\* One that does not validate stays for the operator, and the hour without a marker.
Refuse(h) ==
    /\ Begins(h) /\ h \notin marked /\ h \in damaged
    /\ todo' = todo \ {h}
    /\ UNCHANGED <<clock, up, listed, memory, spool, published, pc, hour, faults>>

\* Mutant: the hour is written again over a file without a marker.
WriteTmpOver(h) ==
    /\ Begins(h) /\ h \notin marked
    /\ \/ NoFault /\ hour' = [h |-> h, at |-> "tmp"] /\ UNCHANGED todo
       \/ Fails(h)
    /\ UNCHANGED <<clock, up, listed, memory, spool, published, pc>>

\* The rows of the hour are read, and written to a temporary file that is validated.
WriteTmp(h) ==
    /\ Begins(h) /\ h \notin marked /\ ~file[h].exists
    /\ \/ NoFault /\ hour' = [h |-> h, at |-> "tmp"] /\ UNCHANGED todo
       \/ Fails(h)
    /\ UNCHANGED <<clock, up, listed, memory, spool, published, pc>>

\* The temporary file takes its final name; unlinking the temporary one or syncing the
\* directory may still fail, and then the hour is left without a marker.
Publish ==
    /\ up /\ hour.at = "tmp"
    /\ file' = [file EXCEPT ![hour.h] = File(rows \cap MinutesOf(hour.h))]
    /\ \/ NoFault /\ hour' = [hour EXCEPT !.at = "mark"] /\ UNCHANGED todo
       \/ Fault("publish") /\ hour' = Nobody /\ todo' = todo \ {hour.h}
    /\ adopted' = adopted \ {hour.h}
    /\ UNCHANGED <<clock, up, listed, memory, spool, marked, damaged, pc>>

\* The marker is committed, or fails to be.
Mark ==
    /\ up /\ hour.at = "mark"
    /\ \/ NoFault /\ marked' = marked \cup {hour.h}
       \/ Fault("mark") /\ UNCHANGED marked
    /\ todo' = todo \ {hour.h} /\ hour' = Nobody
    /\ UNCHANGED <<clock, up, listed, memory, spool, file, damaged, adopted, pc>>

-----------------------------------------------------------------------------
(* Ends and starts of the process; the world.                              *)

Gone ==
    /\ up' = FALSE
    /\ anchored' = FALSE /\ next' = 0 /\ agg' = {} /\ done' = 0 /\ seen' = {}
    /\ pc' = "poll" /\ todo' = {} /\ hour' = Nobody /\ jumped' = FALSE
    /\ UNCHANGED <<now, listed, published>>

Kill == up /\ Fault("kill") /\ Gone /\ UNCHANGED spool

\* The exporter is through: back to polling, or the process ends.
Recovered ==
    /\ up /\ hour = Nobody /\ todo = {} /\ UNCHANGED <<spool, faults>>
    /\ \/ pc = "hours" /\ pc' = "poll"
          /\ UNCHANGED <<clock, up, listed, memory, published, todo, hour>>
       \/ pc = "stopping" /\ Gone

\* An orderly stop writes every minute, the present one included, and lets the exporter
\* catch up; when a row cannot be written the process ends at once.
Stop ==
    /\ up /\ pc = "poll"
    /\ \/ /\ Fault("stop") /\ Insert(agg) /\ agg' = {}
          /\ pc' = "stopping" /\ todo' = Due
          /\ UNCHANGED <<clock, up, listed, anchored, next, done, seen, published, hour>>
       \/ /\ {"stop", "write"} \subseteq Faults /\ Fault("write")
          /\ \E lost \in SUBSET agg \ {{}} : Insert(agg \ lost)
          /\ Gone

Start ==
    /\ ~up /\ up' = TRUE
    /\ UNCHANGED <<clock, listed, memory, spool, published, exporter, faults>>

\* Somebody removes a published file while the exporter is not at work on the hour.
Delete(h) ==
    /\ file[h].exists /\ hour \in {Nobody} \cup {e \in Exports : e.h # h} /\ Fault("delete")
    /\ file' = [file EXCEPT ![h] = NoFile] /\ damaged' = damaged \ {h}
    /\ UNCHANGED <<clock, up, listed, memory, spool, marked, adopted, exporter>>

\* A published file is damaged: its bytes no longer validate.
Damage(h) ==
    /\ file[h].exists /\ h \notin damaged /\ Fault("damage")
    /\ damaged' = damaged \cup {h}
    /\ UNCHANGED <<clock, up, listed, memory, spool, marked, file, adopted, exporter>>

-----------------------------------------------------------------------------
Exporting ==
    \/ Recover \/ Publish \/ Mark \/ Recovered
    \/ \E h \in Hours : Clear(h) \/ Adopt(h) \/ Refuse(h) \/ WriteTmp(h)

Next ==
    \/ Tick \/ Jump
    \/ Poll \/ Anchor \/ Unlist \/ List
    \/ Exporting
    \/ Kill \/ Stop \/ Start
    \/ \E h \in Hours : Delete(h) \/ Damage(h)

Spec == Init /\ [][Next]_vars

\* Time passes, the loop polls and lets the exporter finish, and the scheduled task
\* starts the collector again.  A poll more than a minute after the last export exports.
FairSpec ==
    /\ Spec
    /\ WF_vars(Tick) /\ WF_vars(Start) /\ WF_vars(List)
    /\ WF_vars(Exporting)
    /\ WF_vars(Anchor)
    /\ WF_vars(Poll /\ pc' = "export")
-----------------------------------------------------------------------------
(* Properties.                                                             *)

TypeOK ==
    /\ now \in Minutes /\ next \in 0..Horizon + 1 /\ done \in 0..Horizon + 1
    /\ {jumped, up, listed, anchored} \subseteq BOOLEAN
    /\ agg \subseteq seen /\ seen \subseteq Minutes /\ rows \subseteq Minutes /\ late \subseteq Minutes
    /\ marked \subseteq Hours /\ adopted \subseteq Hours /\ todo \subseteq Hours /\ damaged \subseteq Hours
    /\ file \in [Hours -> [exists : BOOLEAN, minutes : SUBSET Minutes]]
    /\ pc \in {"poll", "export", "hours", "stopping"}
    /\ hour = Nobody \/ hour \in Exports
    /\ faults \in 0..MaxFaults

\* Every row of a published hour is in its file or recorded as late, so that nothing is
\* missing from what readers see without the collector's health saying so; of a file taken
\* over from an earlier attempt, or damaged since, this is not said (storage.py
\* write_minute, archive.py export_hour).
Missing(h) == (rows \cap MinutesOf(h)) \ (file[h].minutes \cup late)
MarkedAccounted == \A h \in marked \ (adopted \cup damaged) : file[h].exists => Missing(h) = {}

\* The same of every published hour.
NothingSilent == \A h \in marked \ damaged : file[h].exists => Missing(h) = {}

\* Every minute that a process aggregates is in the spool in the end, unless the process ends
\* first: over failed writes, jumps of the clock and a removal of the symbol (runtime.py
\* _finalize_before, update_config).  The last minute of the model never is over.
WrittenInTheEnd == <>[](seen \ {Horizon} \subseteq rows)

\* Where writes are all that fails: no minute that is over stays in the memory of a running
\* collector, as a write that fails for good ends run
\* (src/docs/specs/2026-09-05-bybit-market-data-collector.md:101).
FatalWrite == up => agg \cap 0 .. next - 1 = {}

\* What readers are promised: see HourlyArchive.
Archive == INSTANCE HourlyArchive WITH recorded <- rows, sealed <- file, announced <- marked
ImplementsArchive == Archive!Spec

\* In the end every hour that is over and has rows is published, with its file in place,
\* whatever fails and even when somebody removed the file.  Only an hour whose file was
\* damaged before its marker was made waits for an operator.
PublishedInTheEnd ==
    <>[](\A h \in Hours : Eligible(h, Horizon) /\ rows \cap MinutesOf(h) # {}
                            => file[h].exists /\ h \in marked \cup damaged)
=============================================================================
