---------------------------- MODULE RegistrySync ----------------------------
(***************************************************************************)
(* The pair registry on several machines, kept together by a git           *)
(* repository (src/src/mrs3/pair_registry/sync.py), with its two users on  *)
(* each machine: the command line's sync (pair_registry/cli.py) and the    *)
(* Panel's writes, each exported by a background thread (panel_main.py).   *)
(*                                                                         *)
(* A machine commits changes of its own files only and its commits are     *)
(* linear, so a commit is told from the others by how many commits of each *)
(* machine it includes: a history is a vector, one is an ancestor of       *)
(* another when it is not greater anywhere, and a merge takes each file    *)
(* from whoever is ahead for it.  The files are two tables: append-only    *)
(* rows (decisions, settings, marks), and the pipeline row of one pair on  *)
(* one day.  Tests are rows that only the command line exports.            *)
(*                                                                         *)
(* The registry of a machine is held by one process at a time (DuckDB) and *)
(* its repository by one (repo_lock), so what happens under them is one    *)
(* step up to the next look at the remote; where such a step can be cut    *)
(* short, what is left of it is a fault.                                   *)
(***************************************************************************)
EXTENDS Naturals, Sequences, FiniteSets, FiniteSetsExt

CONSTANTS
    Machines,
    Clock,          \* the times at which each machine can compute its pipeline row
    MaxActs,        \* bound: decisions, settings and marks given on all machines
    MaxFaults       \* bound: kills, timeouts and failures

ASSUME RegistryAssumption ==
    /\ IsFiniteSet(Machines) /\ Machines # {}
    /\ MaxActs \in Nat /\ MaxFaults \in Nat
    /\ Clock \in [Machines -> SUBSET (Nat \ {0})]
    /\ \A m, n \in Machines : m # n => Clock[m] \cap Clock[n] = {}

Rows == [by : Machines, at : 1..MaxActs]    \* of the append-only tables
NoRank == 0     \* no pipeline row of one's own
Contents == [rows : SUBSET Rows, rank : {NoRank} \cup UNION {Clock[m] : m \in Machines}]
Empty == [rows |-> {}, rank |-> NoRank]
Actors == {"cli", "panel"}
Points == {"idle", "export", "push", "again"}

VARIABLES
    rows,       \* the append-only rows in each machine's registry
    rank,       \* its pipeline row of the day: who computed it and when
    last,       \* the time of its last computation
    own,        \* its own files in the working tree
    log,        \* its own files in each of its commits
    head,       \* its branch
    remote,     \* the branch of the remote repository
    lock,       \* who has the lock of its sync repository
    at,         \* the points of its command line and of the Panel thread that has the lock
    queue,      \* snapshots of the Panel's threads that wait for the lock
    acts, faults

vars == <<rows, rank, last, own, log, head, remote, lock, at, queue, acts, faults>>
registry == <<rows, rank, last>>
history == <<log, head, remote>>

\* Every machine has synced once: its files are headers.
Init ==
    /\ rows = [m \in Machines |-> {}] /\ rank = [m \in Machines |-> [by |-> m, at |-> 0]]
    /\ last = [m \in Machines |-> 0]
    /\ own = [m \in Machines |-> Empty] /\ log = [m \in Machines |-> <<Empty>>]
    /\ head = [m \in Machines |-> [n \in Machines |-> 1]]
    /\ remote = [n \in Machines |-> 1]
    /\ lock = [m \in Machines |-> "free"]
    /\ at = [m \in Machines |-> [a \in Actors |-> "idle"]]
    /\ queue = [m \in Machines |-> {}]
    /\ acts = 0 /\ faults = 0

Fault == faults < MaxFaults /\ faults' = faults + 1

GoTo(m, a, point) == at' = [at EXCEPT ![m][a] = point]
Free(m) == lock[m] = "free"
Take(m, a) == Free(m) /\ lock' = [lock EXCEPT ![m] = a]

\* The end of the actor's operation, reached or not.
Leave(m, a) == GoTo(m, a, "idle") /\ lock' = [lock EXCEPT ![m] = "free"]

(***************************************************************************)
(* Histories.                                                              *)
(***************************************************************************)
Ancestor(h, g) == \A n \in Machines : h[n] <= g[n]
Files(h, n) == IF h[n] = 0 THEN Empty ELSE log[n][h[n]]     \* machine n's files in h
OwnRows(m) == {r \in rows[m] : r.by = m}

\* Mutant: a pull that only fast-forwards.
FastForward(m) ==
    /\ head' = [head EXCEPT ![m] = IF Ancestor(@, remote) THEN remote ELSE @]
    /\ UNCHANGED log

\* git merge: nothing, a fast-forward, or a merge commit of this machine's.
Merge(m) ==
    \/ Ancestor(remote, head[m]) /\ UNCHANGED <<head, log>>
    \/ /\ Ancestor(head[m], remote) /\ ~Ancestor(remote, head[m])
       /\ head' = [head EXCEPT ![m] = remote]
       /\ UNCHANGED log
    \/ /\ ~Ancestor(head[m], remote) /\ ~Ancestor(remote, head[m])
       /\ head' = [head EXCEPT ![m] =
                      [n \in Machines |-> IF n = m THEN head[m][m] + 1 ELSE Max({head[m][n], remote[n]})]]
       /\ log' = [log EXCEPT ![m] = Append(log[m], Files(head[m], m))]

(***************************************************************************)
(* The registry.                                                           *)
(***************************************************************************)
\* The user decides, sets or marks something on the Panel: a row, unless the command line holds the registry.  Then
\* _export_after_write stamps the rows and starts a thread with a snapshot of this machine's, or fails and is ignored.
Record(m) ==
    /\ acts < MaxActs /\ at[m]["cli"] = "idle"
    /\ LET row == [by |-> m, at |-> acts + 1]
       IN  /\ rows' = [rows EXCEPT ![m] = @ \cup {row}]
           /\ \/ queue' = [queue EXCEPT ![m] = @ \cup {OwnRows(m) \cup {row}}] /\ UNCHANGED faults
              \/ Fault /\ UNCHANGED queue
    /\ acts' = acts + 1
    /\ UNCHANGED <<rank, last, own, history, lock, at>>

\* Mutant: an imported pipeline row replaces the local one without a look at its time.
NewerAlways(new, old) == new.at > 0

Newer(new, old) == new.at > old.at

\* import_tables: the rows of the other machines' files that are not known, and their newer pipeline rows.
ImportedRows(m, h) == rows[m] \cup UNION {Files(h, n).rows : n \in Machines \ {m}}
ImportedRank(m, h) ==
    LET ranks == {[by |-> n, at |-> Files(h, n).rank] : n \in {k \in Machines \ {m} : Files(h, k).rank # NoRank}}
        newer == {r \in ranks : Newer(r, rank[m])}
    IN  IF newer = {} THEN rank[m] ELSE CHOOSE r \in newer : \A s \in newer : s.at <= r.at

\* _compute: this machine's row replaces the one of the day, whosever it is; or the step fails.
Compute(m, before) ==
    \/ rank' = [rank EXCEPT ![m] = before] /\ UNCHANGED last
    \/ \E t \in Clock[m] :
        /\ t > last[m]
        /\ last' = [last EXCEPT ![m] = t]
        /\ rank' = [rank EXCEPT ![m] = [by |-> m, at |-> t]]

\* The sync command up to its export: pull, import, compute.  A step that fails (the lock is busy for 300 s, the
\* remote is away, a file is broken) does not stop the next one.
Sync(m) ==
    /\ at[m]["cli"] = "idle"
    /\ GoTo(m, "cli", "export")
    /\ \/ /\ Free(m) /\ Merge(m)
          /\ rows' = [rows EXCEPT ![m] = ImportedRows(m, head'[m])]
          /\ Compute(m, ImportedRank(m, head'[m]))
          /\ UNCHANGED faults
       \/ /\ Fault
          /\ (Free(m) /\ Merge(m)) \/ UNCHANGED <<head, log>>
          /\ Compute(m, rank[m]) /\ UNCHANGED rows
    /\ UNCHANGED <<own, remote, lock, queue, acts>>

\* Mutant: the file becomes the snapshot.
WrittenOver(file, snapshot) == snapshot

\* write_tables: the append-only rows already in the file stay in it.
Written(file, snapshot) == file.rows \cup snapshot

\* git add, and git commit when something changed.
Commit(m) ==
    IF own'[m] = Files(head[m], m) THEN UNCHANGED <<log, head>>
    ELSE /\ log' = [log EXCEPT ![m] = Append(@, own'[m])]
         /\ head' = [head EXCEPT ![m][m] = @ + 1]

\* A kill or a failure between the files and the commit.
CutShort(m, a) == Fault /\ Free(m) /\ GoTo(m, a, "idle") /\ UNCHANGED <<log, head, lock>>

\* sync_push up to the push: the command line, which holds the registry, stamps and collects under the lock.
Export(m) ==
    /\ at[m]["cli"] = "export"
    /\ own' = [own EXCEPT ![m] = [rows |-> Written(@, OwnRows(m)),
                                  rank |-> IF rank[m].by = m THEN rank[m].at ELSE NoRank]]
    /\ \/ Take(m, "cli") /\ Commit(m) /\ GoTo(m, "cli", "push") /\ UNCHANGED faults
       \/ CutShort(m, "cli")
    /\ UNCHANGED <<registry, remote, queue, acts>>

\* The same by a Panel thread, with its snapshot, which has no pipeline rows.
ExportSnapshot(m) ==
    /\ \E s \in queue[m] :
        /\ queue' = [queue EXCEPT ![m] = @ \ {s}]
        /\ own' = [own EXCEPT ![m].rows = Written(own[m], s)]
    /\ \/ Take(m, "panel") /\ Commit(m) /\ GoTo(m, "panel", "push") /\ UNCHANGED faults
       \/ CutShort(m, "panel")
    /\ UNCHANGED <<registry, remote, acts>>

Push(m, a) ==
    /\ at[m][a] \in {"push", "again"}
    /\ Ancestor(remote, head[m])
    /\ remote' = head[m]
    /\ Leave(m, a)
    /\ UNCHANGED <<registry, own, log, head, queue, acts, faults>>

\* A push that is not a fast-forward is rejected: one pull and one retry.
Rejected(m, a) ==
    /\ at[m][a] \in {"push", "again"}
    /\ ~Ancestor(remote, head[m])
    /\ IF at[m][a] = "push" THEN Merge(m) /\ GoTo(m, a, "again") /\ UNCHANGED lock
       ELSE Leave(m, a) /\ UNCHANGED <<log, head>>
    /\ UNCHANGED <<registry, own, remote, queue, acts, faults>>

(***************************************************************************)
(* Faults.                                                                 *)
(***************************************************************************)
\* A push or the pull after it fails or times out; a push that timed out may have reached the remote.
PushFails(m, a) ==
    /\ at[m][a] \in {"push", "again"} /\ Fault
    /\ UNCHANGED remote \/ (Ancestor(remote, head[m]) /\ remote' = head[m])
    /\ Leave(m, a)
    /\ UNCHANGED <<registry, own, log, head, queue, acts>>

\* The command line is killed before its export, or does not get the lock in time.
NoExport(m) ==
    /\ at[m]["cli"] = "export" /\ Fault
    /\ GoTo(m, "cli", "idle")
    /\ UNCHANGED <<registry, own, history, lock, queue, acts>>

\* The Panel is killed with its threads, or some of them do not get the lock in time.
NoSnapshots(m) ==
    /\ Fault
    /\ \E lost \in (SUBSET queue[m]) \ {{}} : queue' = [queue EXCEPT ![m] = @ \ lost]
    /\ UNCHANGED <<registry, own, history, lock, at, acts>>

Step(m) ==
    \/ Sync(m) \/ Export(m) \/ ExportSnapshot(m)
    \/ \E a \in Actors : Push(m, a) \/ Rejected(m, a)

Next ==
    \E m \in Machines :
        \/ Record(m)
        \/ Step(m)
        \/ NoExport(m) \/ NoSnapshots(m) \/ \E a \in Actors : PushFails(m, a)

Spec == Init /\ [][Next]_vars

\* A process that is not killed goes on; the user runs the sync command on every machine again and again.
FairSpec == Spec /\ \A m \in Machines : WF_vars(Step(m))

(***************************************************************************)
(* Properties.                                                             *)
(***************************************************************************)
TypeOK ==
    /\ rows \in [Machines -> SUBSET Rows]
    /\ rank \in [Machines -> [by : Machines, at : Nat]]
    /\ own \in [Machines -> Contents]
    /\ log \in [Machines -> Seq(Contents)]
    /\ head \in [Machines -> [Machines -> Nat]] /\ remote \in [Machines -> Nat]
    /\ lock \in [Machines -> Actors \cup {"free"}]
    /\ at \in [Machines -> [Actors -> Points]]
    /\ queue \in [Machines -> SUBSET (SUBSET Rows)]
    /\ acts \in 0..MaxActs /\ faults \in 0..MaxFaults

\* A row that reached the remote stays there, whatever is pushed after it: files written by a thread from an older
\* snapshot, merges, retries, and what a kill left behind.
PublishedStays ==
    [][\A m \in Machines : Files(remote, m).rows \subseteq Files(remote, m).rows']_vars

\* Every row a user gave reaches every machine's registry, also one that was merged by the retry of a push, which
\* imports nothing, or whose export was cut short.
RowsReachAll == <>[](\A m, n \in Machines : rows[m] = rows[n])

\* In the end every machine has the pipeline row that was computed last, although each computation replaces the row
\* of the day whosever it is, and a file loses its own row to a newer one.
NewestRowWins == <>[](\A m \in Machines : rank[m].at = Max({last[n] : n \in Machines}))
=============================================================================
