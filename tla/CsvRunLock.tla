----------------------------- MODULE CsvRunLock -----------------------------
(***************************************************************************)
(* The per-output run lock of src/src/mrs3/runner/workflow.py: a file made *)
(* by exclusive creation whose pid is written in a second step, and which  *)
(* a contender unlinks when it cannot name a running pid in it.            *)
(*                                                                         *)
(* A runner is one call of run_batch, on a thread of some process.  A file *)
(* keeps its identity (inode) after it is unlinked, so a late write goes   *)
(* to the file that was created, not to the one of that name.  The pid of  *)
(* a crashed process is not reused here.                                   *)
(***************************************************************************)
EXTENDS Naturals

CONSTANTS
    Runners, Procs,
    ProcOf,             \* the process each runner lives in
    UnlinksOpenFiles,   \* TRUE on POSIX; on Windows unlinking an open file fails
    Crashes,            \* whether processes may crash
    MaxFiles            \* bound: lock files created

ASSUME ConstantsAssumption ==
    /\ ProcOf \in [Runners -> Procs]
    /\ UnlinksOpenFiles \in BOOLEAN /\ Crashes \in BOOLEAN
    /\ MaxFiles \in Nat

VARIABLES
    alive,      \* running processes
    name,       \* the file under the lock's name, 0 when there is none
    content,    \* what each file created holds: a process, or "empty"
    created,    \* files created so far
    pc, fd      \* program point of each runner and the file it has open or read

vars == <<alive, name, content, created, pc, fd>>

Init ==
    /\ alive = Procs
    /\ name = 0 /\ created = 0
    /\ content = [f \in 1..MaxFiles |-> "empty"]
    /\ pc = [r \in Runners |-> "start"]
    /\ fd = [r \in Runners |-> 0]

At(r, point) == ProcOf[r] \in alive /\ pc[r] = point
Goto(r, point) == pc' = [pc EXCEPT ![r] = point]
\* On Windows, a file another runner has open cannot be unlinked (an OSError).
Undeletable(r) ==
    /\ ~UnlinksOpenFiles
    /\ \E s \in Runners \ {r} : At(s, "write") /\ fd[s] = name

\* os.open(O_CREAT | O_EXCL)
Create(r) ==
    /\ At(r, "start")
    /\ IF name = 0
         THEN /\ created < MaxFiles
              /\ created' = created + 1
              /\ name' = created'
              /\ fd' = [fd EXCEPT ![r] = created']
              /\ Goto(r, "write")
         ELSE /\ Goto(r, "exists")
              /\ UNCHANGED <<created, name, fd>>
    /\ UNCHANGED <<alive, content>>

\* os.write and os.close on the file created
WritePid(r) ==
    /\ At(r, "write")
    /\ content' = [content EXCEPT ![fd[r]] = ProcOf[r]]
    /\ Goto(r, "holding")
    /\ UNCHANGED <<alive, name, created, fd>>

\* Mutant: a file without a readable pid counts as a running owner.
EmptyIsRunning(f) == f # 0 /\ (content[f] = "empty" \/ content[f] \in alive)

\* The pid a contender reads; a missing or unreadable file names no running process.
NamesRunning(f) == f # 0 /\ content[f] \in alive

ReadOwner(r) ==
    /\ At(r, "exists")
    /\ Goto(r, IF NamesRunning(name) THEN "refused" ELSE "unlink")
    /\ UNCHANGED <<alive, name, content, created, fd>>

\* lock.unlink(missing_ok=True): whatever file has the name by now
UnlinkStale(r) ==
    /\ At(r, "unlink")
    /\ IF Undeletable(r)
         THEN Goto(r, "refused") /\ UNCHANGED name
         ELSE Goto(r, "start") /\ name' = 0
    /\ UNCHANGED <<alive, content, created, fd>>

\* _release_run_lock: the pid is read, then the name is unlinked.
ReleaseRead(r) ==
    /\ At(r, "holding")
    /\ Goto(r, IF name # 0 /\ content[name] = ProcOf[r] THEN "release" ELSE "done")
    /\ UNCHANGED <<alive, name, content, created, fd>>

ReleaseUnlink(r) ==
    /\ At(r, "release")
    /\ name' = IF Undeletable(r) THEN name ELSE 0
    /\ Goto(r, "done")
    /\ UNCHANGED <<alive, content, created, fd>>

\* A runner that was refused or has ended may be started again.
Again(r) ==
    /\ At(r, "done") \/ At(r, "refused")
    /\ Goto(r, "start")
    /\ fd' = [fd EXCEPT ![r] = 0]
    /\ UNCHANGED <<alive, name, content, created>>

Crash(p) ==
    /\ Crashes /\ p \in alive
    /\ alive' = alive \ {p}
    /\ UNCHANGED <<name, content, created, pc, fd>>

Step(r) ==
    \/ Create(r) \/ WritePid(r) \/ ReadOwner(r) \/ UnlinkStale(r)
    \/ ReleaseRead(r) \/ ReleaseUnlink(r) \/ Again(r)

Next == (\E r \in Runners : Step(r)) \/ (\E p \in Procs : Crash(p))

Spec == Init /\ [][Next]_vars

\* A runner of a live process keeps running, and its user retries it.
Fairness == \A r \in Runners : WF_vars(Step(r))
FairSpec == Spec /\ Fairness

-----------------------------------------------------------------------------
TypeOK ==
    /\ alive \subseteq Procs
    /\ name \in 0..MaxFiles /\ created \in 0..MaxFiles
    /\ content \in [1..MaxFiles -> Procs \cup {"empty"}]
    /\ fd \in [Runners -> 0..MaxFiles]
    /\ pc \in [Runners ->
        {"start", "write", "holding", "exists", "unlink", "refused", "release", "done"}]

Running(r) == At(r, "holding")

\* Duplicate clicks never start two runners for one output CSV (workflow.py:684).
OneRunner == \A r, s \in Runners : Running(r) /\ Running(s) => r = s

\* A lock file that names no running process, left by a crash after or even before its
\* pid was written, does not block the output for good: retries get it out of the way,
\* unless no process is left to retry.
Stale(f) ==
    content[f] \notin alive /\ ~\E r \in Runners : At(r, "write") /\ fd[r] = f

StaleLockCleared ==
    \A f \in 1..MaxFiles : (name = f /\ Stale(f)) ~> (name # f \/ alive = {})
=============================================================================
