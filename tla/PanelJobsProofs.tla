--------------------------- MODULE PanelJobsProofs ---------------------------
(***************************************************************************)
(* What the registry of Panel jobs promises.  The import requests of       *)
(* BulkRetestImport: whatever the threads of the page, kills and failed    *)
(* saves do, one import works at a time, a restart leaves no reservation   *)
(* behind, and a committed import is not repeated.  And its journal file,  *)
(* JobJournal: it is a durable cell.                                       *)
(***************************************************************************)
EXTENDS BulkRetestImport, TLAPS

\* The points at which an import request has a child that is not yet submitted, that is
\* submitted and not yet handed to a worker, and that was.
Reserved == {"reset", "forget", "submit"}
Submitted == {"run", "launch"}
Launched == {"linkread", "link"}

\* Children are numbered; those not yet reserved, and the one being reserved, have no job.
Numbered ==
    /\ \A c \in Children : c >= next => mem.jobs[c] = "absent" /\ worker[c] = "idle"
    /\ pc \in Reserved \cup Submitted \cup Launched \cup {"undo"} => next > 1
    /\ pc \in Reserved => mem.jobs[Mine] = "absent"
    /\ pc = "run" => mem.jobs[Mine] = "queued"
    /\ pc = "launch" => mem.jobs[Mine] = "running"
    /\ pc \in Submitted => worker[Mine] = "idle"
    /\ pc \in Launched => mem.jobs[Mine] # "absent"
    /\ pc \in {"reconcile", "previous", "clear"} => copy.marker.child \in Children

\* One job holds the resource keys; a worker's is running, or has the end of its worker.
ActiveIn(r) == {c \in Children : r.jobs[c] \in {"queued", "running"}}
OneActive(r) == \A c, d \in ActiveIn(r) : c = d
Workers ==
    /\ OneActive(mem) /\ OneActive(disk)
    /\ \A c \in Children :
        /\ worker[c] = "running" => mem.jobs[c] = "running"
        /\ worker[c] \in Terminal => mem.jobs[c] \in {"running", worker[c]}
    /\ ~up => pc = "idle" /\ \A c \in Children : worker[c] = "idle"

\* The journal knows the same jobs.  A pending marker is of a child, and one that is not is
\* of a child that has a job; also in a copy.
Resolved(m) ==
    /\ m.pending => m.child # 0
    /\ m.child # 0 /\ ~m.pending => mem.jobs[m.child] # "absent"
Markings ==
    /\ \A c \in Children : mem.jobs[c] = "absent" <=> disk.jobs[c] = "absent"
    /\ Resolved(mem.marker) /\ Resolved(disk.marker) /\ Resolved(copy.marker)
    /\ \A p \in Polls : Resolved(seen[p].marker)

\* Unless a stale copy was written, the marker names the import that has committed or that
\* works, and the child of the request.
Committed(r) == \A c \in Children : r.jobs[c] = "committed" => r.marker.child = c
Marked ==
    ~stale =>
        /\ Committed(mem) /\ Committed(disk)
        /\ \A c \in Children : worker[c] \in {"running", "committed"} => mem.marker.child = c
        /\ pc \in Reserved \cup Submitted \cup Launched => mem.marker.child = Mine
        /\ pc = "clear" => mem.jobs[copy.marker.child] = "failed"

IInv == TypeOK /\ Numbered /\ Workers /\ Markings /\ Marked

USE ImportAssumption

-----------------------------------------------------------------------------
(* What a call of the registry makes of it.                                *)

LEMMA MarkerTypes ==
    /\ NoMarker \in Markers /\ NoMarker.child = 0 /\ ~NoMarker.pending
    /\ \A c \in 0..MaxImports :
        /\ Link(c) \in Markers /\ Link(c).child = c /\ ~Link(c).pending
        /\ Pending(c) \in Markers /\ Pending(c).child = c /\ Pending(c).pending
    /\ \A c \in Children : c \in 0..MaxImports /\ c # 0
    /\ \A m \in Markers : m.child \in 0..MaxImports /\ m.pending \in BOOLEAN
                          /\ (m.child # 0 => m.child \in Children)
BY DEF NoMarker, Link, Pending, Markers, Children

LEMMA MarkerSet ==
    ASSUME NEW r \in Registries, NEW m \in Markers
    PROVE  LET new == [r EXCEPT !.marker = m] IN
           /\ new \in Registries /\ new.marker = m /\ new.out = r.out /\ new.jobs = r.jobs
BY DEF Registries

LEMMA JobSet ==
    ASSUME NEW r \in Registries, NEW c \in Children, NEW s \in JobStates
    PROVE  LET new == [r EXCEPT !.jobs[c] = s] IN
           /\ new \in Registries /\ new.marker = r.marker /\ new.out = r.out
           /\ new.jobs = [r.jobs EXCEPT ![c] = s]
BY DEF Registries

LEMMA RuntimeSet ==
    ASSUME mem \in Registries, NEW v \in Runtimes
    PROVE  /\ Written(v) \in Registries /\ Written(v).jobs = mem.jobs
           /\ Written(v).marker = v.marker /\ Written(v).out = v.out
BY DEF Registries, Runtimes, Written

LEMMA RuntimeTypes ==
    ASSUME mem \in Registries
    PROVE  /\ Runtime \in Runtimes /\ Runtime.marker = mem.marker /\ Runtime.out = mem.out
           /\ mem.marker \in Markers /\ mem.out \in 0..MaxImports
           /\ mem.jobs \in [Children -> JobStates]
BY DEF Registries, Runtimes, Runtime

LEMMA RecoveredSet ==
    ASSUME NEW r \in Registries
    PROVE  LET new == Recovered(r) IN
           /\ new \in Registries
           /\ \A c \in Children :
                /\ r.jobs[c] \in {"queued", "running"} => new.jobs[c] = "failed"
                /\ r.jobs[c] \notin {"queued", "running"} => new.jobs[c] = r.jobs[c]
           /\ new.marker \in {r.marker, NoMarker}
           /\ new.marker # r.marker => r.marker.pending /\ r.jobs[r.marker.child] = "absent"
           /\ r.marker.pending /\ r.jobs[r.marker.child] = "absent" => new.marker = NoMarker
<1> DEFINE jobs == [c \in Children |-> IF r.jobs[c] \in {"queued", "running"}
                                         THEN "failed" ELSE r.jobs[c]]
           marker == IF r.marker.pending /\ r.jobs[r.marker.child] = "absent"
                       THEN NoMarker ELSE r.marker
<1>1. jobs \in [Children -> JobStates] /\ marker \in Markers
  BY MarkerTypes DEF Registries, JobStates
<1>2. Recovered(r) = [r EXCEPT !.jobs = jobs, !.marker = marker]
  BY DEF Recovered
<1> HIDE DEF jobs, marker
<1>3. Recovered(r) \in Registries /\ Recovered(r).jobs = jobs /\ Recovered(r).marker = marker
  BY <1>1, <1>2 DEF Registries
<1> QED BY <1>3 DEF jobs, marker

LEMMA Saved ==
    ASSUME TypeOK, NEW new \in Registries, NEW ok, NEW onError, Saves(new, ok, onError)
    PROVE  /\ mem' = new /\ disk' \in {disk, new}
           /\ mem' \in Registries /\ disk' \in Registries
           /\ pc' \in {ok, onError} /\ faults' \in 0..MaxFaults
BY DEF TypeOK, Saves, Goto, Fault

-----------------------------------------------------------------------------
(* The import request.                                                     *)

LEMMA InitInv == Init => IInv
<1> SUFFICES ASSUME Init PROVE IInv
  OBVIOUS
<1>1. /\ mem.jobs = [c \in Children |-> "absent"] /\ mem.marker = NoMarker /\ mem.out = 0
      /\ disk = mem /\ NoRuntime.marker = NoMarker
  BY DEF Init, NoRuntime
<1>2. TypeOK
  <2>1. NoRuntime \in Runtimes
    BY MarkerTypes DEF NoRuntime, Runtimes
  <2>2. mem \in Registries
    BY MarkerTypes DEF Init, Registries, JobStates
  <2>3. disk \in Registries /\ next \in 1..(MaxImports + 1)
    BY <1>1, <2>2 DEF Init
  <2>4. copy \in Runtimes /\ seen \in [Polls -> Runtimes] /\ faults \in 0..MaxFaults
    BY <2>1 DEF Init
  <2> QED BY <2>2, <2>3, <2>4 DEF Init, TypeOK
<1>3. Numbered
  BY <1>1 DEF Init, Numbered, Reserved, Submitted, Launched
<1>4. Workers
  BY <1>1 DEF Init, Workers, OneActive, ActiveIn, Terminal
<1>5. Markings
  BY <1>1, MarkerTypes DEF Init, Markings, Resolved
<1>6. Marked
  BY <1>1 DEF Init, Marked, Committed, Reserved, Submitted, Launched
<1> QED BY <1>2, <1>3, <1>4, <1>5, <1>6 DEF IInv

\* A step of the request that looks at the registry only.
LEMMA LookKeeps ==
    ASSUME IInv, ClickRead \/ ClickPrevious \/ ClickResetRead \/ ClickLinkRead
    PROVE  IInv'
<1>1. UNCHANGED <<up, mem, disk, tester, worker, next, polls, stale, faults>>
  BY DEF ClickRead, ClickPrevious, ClickResetRead, ClickLinkRead, registry
<1>2. copy' \in {copy, Runtime} /\ retry' \in {retry, FALSE}
  BY DEF ClickRead, ClickPrevious, ClickResetRead, ClickLinkRead
<1>3. /\ Runtime \in Runtimes /\ Runtime.marker = mem.marker /\ mem.marker \in Markers
  BY RuntimeTypes DEF IInv, TypeOK
<1>4. \/ pc' \in {"reserve", "idle"}
      \/ pc = "idle" /\ pc' \in {"reconcile", "previous"} /\ copy' = Runtime /\ mem.marker.child # 0
      \/ pc = "previous" /\ pc' = "clear" /\ mem.jobs[copy.marker.child] = "failed" /\ copy' = copy
      \/ pc = "reset" /\ pc' = "forget"
      \/ pc = "linkread" /\ pc' = "link"
  <2>1. CASE ClickRead
    <3>1. mem.marker.pending \in BOOLEAN
      BY <1>3, MarkerTypes
    <3>2. CASE mem.marker.child = 0
      <4>1. ~mem.marker.pending
        BY <3>2 DEF IInv, Markings, Resolved
      <4> QED BY <2>1, <3>2, <4>1 DEF ClickRead, Goto
    <3>3. CASE mem.marker.child # 0 /\ mem.marker.pending
      BY <2>1, <3>3 DEF ClickRead, Goto
    <3>4. CASE mem.marker.child # 0 /\ ~mem.marker.pending
      BY <2>1, <3>4 DEF ClickRead, Goto
    <3> QED BY <3>1, <3>2, <3>3, <3>4
  <2>2. CASE ClickPrevious
    BY <2>2 DEF ClickPrevious, Goto
  <2>3. CASE ClickResetRead \/ ClickLinkRead
    BY <2>3 DEF ClickResetRead, ClickLinkRead, Goto
  <2> QED BY <2>1, <2>2, <2>3
<1>5. TypeOK'
  BY <1>1, <1>2, <1>3, <1>4 DEF IInv, TypeOK, polls
<1>6. Numbered'
  BY <1>1, <1>3, <1>4, MarkerTypes DEF IInv, Numbered, Mine, Reserved, Submitted, Launched
<1>7. Workers'
  BY <1>1, <1>4 DEF IInv, Workers, OneActive, ActiveIn, ClickRead, ClickPrevious, ClickResetRead,
     ClickLinkRead
<1>8. Markings'
  BY <1>1, <1>2, <1>3 DEF IInv, Markings, Resolved, polls
<1>9. Marked'
  BY <1>1, <1>4 DEF IInv, Marked, Committed, Mine, Reserved, Submitted, Launched
<1> QED BY <1>5, <1>6, <1>7, <1>8, <1>9 DEF IInv

\* What a step that writes another runtime, and no job, keeps.
LEMMA RuntimeKeeps ==
    ASSUME IInv, up, UNCHANGED <<up, worker>>,
           mem' \in Registries, mem'.jobs = mem.jobs, disk' \in {disk, mem'},
           Resolved(mem'.marker)
    PROVE  /\ Workers'
           /\ \A c \in Children : mem'.jobs[c] = "absent" <=> disk'.jobs[c] = "absent"
           /\ Resolved(mem.marker)' /\ Resolved(disk.marker)'
           /\ ~stale /\ mem'.marker.child = mem.marker.child => Committed(mem') /\ Committed(disk')
<1>1. Workers'
  BY DEF IInv, Workers, OneActive, ActiveIn
<1>2. \A c \in Children : mem'.jobs[c] = "absent" <=> disk'.jobs[c] = "absent"
  BY DEF IInv, Markings
<1>3. Resolved(mem.marker)' /\ Resolved(disk.marker)'
  BY DEF IInv, Markings, Resolved
<1>4. ASSUME ~stale, mem'.marker.child = mem.marker.child PROVE Committed(mem') /\ Committed(disk')
  BY <1>4 DEF IInv, Marked, Committed
<1> QED BY <1>1, <1>2, <1>3, <1>4

\* A copy written back: the marker's child is the same unless it was stale.
LEMMA CopyKeeps ==
    ASSUME IInv, NEW v \in Runtimes, NEW base \in Runtimes, NotesStale(base),
           v.marker.child = base.marker.child, mem' = Written(v)
    PROVE  ~stale' => ~stale /\ mem'.marker.child = mem.marker.child
BY RuntimeSet, RuntimeTypes DEF IInv, TypeOK, NotesStale

LEMMA ReconcileKeeps == ASSUME IInv, ClickReconcile PROVE IInv'
<1> DEFINE c == copy.marker.child
<1>t. TypeOK /\ copy \in Runtimes /\ copy.marker \in Markers /\ c \in 0..MaxImports /\ c \in Children
  BY MarkerTypes DEF IInv, TypeOK, Runtimes, Numbered, ClickReconcile
<1>1. CASE mem.jobs[c] = "absent"
  <2>1. pc = "reconcile" /\ pc' = "idle"
        /\ UNCHANGED <<up, mem, disk, tester, worker, next, copy, retry, at, seen, stale, faults>>
    BY <1>1 DEF ClickReconcile, Goto, registry, polls
  <2> QED
    BY <2>1 DEF IInv, TypeOK, Numbered, Workers, OneActive, ActiveIn, Markings, Resolved, Marked,
       Committed, Mine, Reserved, Submitted, Launched
<1>2. CASE mem.jobs[c] # "absent"
  <2>1. /\ pc = "reconcile" /\ up /\ UNCHANGED <<up, tester, worker, next, retry, at, seen>>
        /\ copy' = [copy EXCEPT !.marker = Link(c)] /\ NotesStale(copy)
        /\ Saves(Written(copy'), "previous", "idle")
    BY <1>2 DEF ClickReconcile, polls
  <2>2. copy' \in Runtimes /\ copy'.marker = Link(c) /\ Link(c).child = c /\ ~Link(c).pending
    BY <1>t, <2>1, MarkerTypes DEF Runtimes
  <2>3. /\ mem' = Written(copy') /\ disk' \in {disk, mem'}
        /\ mem' \in Registries /\ disk' \in Registries
        /\ pc' \in {"previous", "idle"} /\ faults' \in 0..MaxFaults
        /\ mem'.jobs = mem.jobs /\ mem'.marker = Link(c)
    BY <1>t, <2>1, <2>2, RuntimeSet, Saved DEF TypeOK
  <2>4. Resolved(mem'.marker)
    BY <1>2, <2>2, <2>3 DEF Resolved
  <2>5. TypeOK'
    BY <1>t, <2>1, <2>2, <2>3 DEF TypeOK, NotesStale
  <2>6. Numbered'
    BY <1>t, <2>1, <2>2, <2>3 DEF IInv, Numbered, Reserved, Submitted, Launched
  <2>7. Workers' /\ Markings'
    BY <1>t, <2>1, <2>2, <2>3, <2>4, RuntimeKeeps DEF Markings, IInv, Resolved
  <2>8. ~stale' => ~stale /\ mem'.marker.child = mem.marker.child
    BY <1>t, <2>1, <2>2, <2>3, CopyKeeps
  <2>9. Marked'
    BY <2>1, <2>3, <2>4, <2>8, RuntimeKeeps DEF IInv, Marked, Reserved, Submitted, Launched
  <2> QED BY <2>5, <2>6, <2>7, <2>9 DEF IInv
<1> QED BY <1>1, <1>2

\* A step of the request that moves on without looking or writing.
LEMMA MoveKeeps ==
    ASSUME IInv, UNCHANGED <<up, mem, disk, tester, worker, next, copy, at, seen, stale, faults>>,
           retry' \in BOOLEAN, pc' \in {"idle", "reserve", "undo"}, pc' = "undo" => next > 1, up
    PROVE  IInv'
BY DEF IInv, TypeOK, Numbered, Workers, OneActive, ActiveIn, Markings, Resolved, Marked,
   Committed, Mine, Reserved, Submitted, Launched

LEMMA ClearKeeps == ASSUME IInv, ClickClear PROVE IInv'
<1> DEFINE c == copy.marker.child
           new == [mem EXCEPT !.marker = NoMarker]
<1>1. CASE mem.marker # Link(c)
  BY <1>1, MoveKeeps DEF ClickClear, Goto, registry, polls
<1>2. CASE mem.marker = Link(c)
  <2>1. /\ pc = "clear" /\ up /\ c \in Children
        /\ UNCHANGED <<up, tester, worker, next, copy, at, seen, stale>>
        /\ retry' = TRUE /\ Saves(new, "reserve", "idle")
    BY <1>2 DEF ClickClear, polls, IInv, Numbered
  <2>2. new \in Registries /\ new.jobs = mem.jobs /\ new.marker = NoMarker
    BY MarkerTypes, MarkerSet DEF IInv, TypeOK
  <2> HIDE DEF new
  <2>3. /\ mem' = new /\ disk' \in {disk, mem'} /\ disk' \in Registries
        /\ pc' \in {"reserve", "idle"} /\ faults' \in 0..MaxFaults
    BY <2>1, <2>2, Saved DEF IInv
  <2>4. Resolved(mem'.marker)
    BY <2>2, <2>3, MarkerTypes DEF Resolved
  <2>5. TypeOK'
    BY <2>1, <2>2, <2>3 DEF IInv, TypeOK
  <2>6. Numbered'
    BY <2>1, <2>2, <2>3 DEF IInv, Numbered, Reserved, Submitted, Launched
  <2>7. Workers' /\ Markings'
    BY <2>1, <2>2, <2>3, <2>4, RuntimeKeeps DEF Markings, IInv, Resolved
  <2>8. ASSUME ~stale, NEW d \in Children
        PROVE  mem.jobs[d] # "committed" /\ worker[d] \notin {"running", "committed"}
    <3>1. mem.jobs[c] = "failed" /\ mem.marker.child = c
      BY <1>2, <2>1, <2>8, MarkerTypes DEF IInv, Marked
    <3>2. d # c => mem.jobs[d] # "committed" /\ worker[d] \notin {"running", "committed"}
      BY <2>8, <3>1 DEF IInv, Marked, Committed
    <3>3. worker[c] \notin {"running", "committed"}
      BY <2>1, <3>1 DEF IInv, Workers, Terminal
    <3> QED BY <3>1, <3>2, <3>3
  <2>9. Marked'
    BY <2>1, <2>2, <2>3, <2>8 DEF IInv, Marked, Committed, Reserved, Submitted, Launched
  <2> QED BY <2>5, <2>6, <2>7, <2>9 DEF IInv
<1> QED BY <1>1, <1>2

LEMMA ReserveKeeps == ASSUME IInv, ClickReserve PROVE IInv'
<1> DEFINE new == [mem EXCEPT !.marker = Pending(next)]
<1>1. CASE mem.marker.child # 0
  <2>1. retry \in BOOLEAN
    BY DEF IInv, TypeOK
  <2> QED BY <1>1, <2>1, MoveKeeps DEF ClickReserve, Goto, registry, polls
<1>2. CASE mem.marker.child = 0
  <2>1. /\ pc = "reserve" /\ up /\ next \in Children /\ next' = next + 1
        /\ UNCHANGED <<up, tester, worker, copy, retry, at, seen, stale>>
        /\ Saves(new, IF retry THEN "reset" ELSE "submit", "undo")
    BY <1>2 DEF ClickReserve, polls
  <2>2. /\ new \in Registries /\ new.jobs = mem.jobs
        /\ new.marker.child = next /\ new.marker.pending
    BY <2>1, MarkerTypes, MarkerSet DEF IInv, TypeOK
  <2> HIDE DEF new
  <2>3. /\ mem' = new /\ disk' \in {disk, mem'} /\ disk' \in Registries
        /\ pc' \in {"reset", "submit", "undo"} /\ faults' \in 0..MaxFaults
    BY <2>1, <2>2, Saved DEF IInv
  <2>4. Resolved(mem'.marker)
    BY <2>1, <2>2, <2>3, MarkerTypes DEF Resolved
  <2>5. next' \in 1..(MaxImports + 1) /\ Mine' = next /\ next' > 1
        /\ mem.jobs[next] = "absent" /\ worker[next] = "idle"
    BY <2>1 DEF IInv, TypeOK, Children, Mine, Numbered
  <2>6. TypeOK'
    BY <2>1, <2>2, <2>3, <2>5 DEF IInv, TypeOK
  <2>7. Numbered'
    <3>1. \A c \in Children : c >= next' => c >= next
      BY <2>1 DEF Children
    <3> QED BY <2>1, <2>2, <2>3, <2>5, <3>1 DEF IInv, Numbered, Reserved, Submitted, Launched
  <2>8. Workers' /\ Markings'
    BY <2>1, <2>2, <2>3, <2>4, RuntimeKeeps DEF Markings, IInv, Resolved
  <2>9. ASSUME ~stale, NEW d \in Children
        PROVE  mem.jobs[d] # "committed" /\ worker[d] \notin {"running", "committed"}
    BY <1>2, <2>9, MarkerTypes DEF IInv, Marked, Committed
  <2>10. Marked'
    BY <2>1, <2>2, <2>3, <2>5, <2>9 DEF IInv, Marked, Committed, Reserved, Submitted, Launched
  <2> QED BY <2>6, <2>7, <2>8, <2>10 DEF IInv
<1> QED BY <1>1, <1>2

\* The request writes back its copy, with its outcomes taken back or its marker resolved.
LEMMA WriteBackKeeps == ASSUME IInv, ClickResetWrite \/ ClickLinkWrite PROVE IInv'
<1>t. TypeOK /\ copy \in Runtimes /\ copy.marker \in Markers /\ Mine \in Children
  BY MarkerTypes DEF IInv, TypeOK, Runtimes, Numbered, ClickResetWrite, ClickLinkWrite, Children,
     Mine, Reserved, Launched
<1>1. /\ up /\ UNCHANGED <<up, tester, worker, next, retry, at, seen>> /\ NotesStale(copy)
      /\ copy' \in Runtimes
      /\ \/ /\ pc = "forget" /\ Saves(Written(copy'), "submit", "undo")
            /\ copy'.marker = copy.marker
         \/ /\ pc = "link" /\ Saves(Written(copy'), "idle", "undo")
            /\ copy'.marker = Link(Mine)
  <2>1. CASE ClickResetWrite
    <3>1. copy' \in Runtimes /\ copy'.marker = copy.marker
      BY <1>t, <2>1 DEF ClickResetWrite, Runtimes
    <3> QED BY <2>1, <3>1 DEF ClickResetWrite, polls
  <2>2. CASE ClickLinkWrite
    <3>1. copy' \in Runtimes /\ copy'.marker = Link(Mine)
      BY <1>t, <2>2, MarkerTypes DEF ClickLinkWrite, Runtimes
    <3> QED BY <2>2, <3>1 DEF ClickLinkWrite, polls
  <2> QED BY <2>1, <2>2
<1>2. /\ mem' = Written(copy') /\ disk' \in {disk, mem'}
      /\ mem' \in Registries /\ disk' \in Registries /\ faults' \in 0..MaxFaults
      /\ mem'.jobs = mem.jobs /\ mem'.marker = copy'.marker
      /\ \/ pc = "forget" /\ pc' \in {"submit", "undo"}
         \/ pc = "link" /\ pc' \in {"idle", "undo"}
  BY <1>t, <1>1, RuntimeSet, Saved DEF TypeOK
<1>3. Mine' = Mine /\ (pc = "link" => mem.jobs[Mine] # "absent" /\ ~Link(Mine).pending)
  BY <1>t, <1>1, MarkerTypes DEF Mine, IInv, Numbered, Launched
<1>4. Resolved(mem'.marker)
  <2>1. CASE pc = "forget"
    BY <1>1, <1>2, <2>1 DEF IInv, Markings, Resolved
  <2>2. CASE pc = "link"
    <3>1. Link(Mine).child = Mine
      BY <1>t, MarkerTypes
    <3> QED BY <1>1, <1>2, <1>3, <2>2, <3>1 DEF Resolved
  <2> QED BY <1>1, <2>1, <2>2
<1>5. TypeOK'
  BY <1>t, <1>1, <1>2 DEF TypeOK, NotesStale
<1>6. Numbered'
  BY <1>1, <1>2, <1>3 DEF IInv, Numbered, Reserved, Submitted, Launched
<1>7. Workers' /\ Markings'
  BY <1>1, <1>2, <1>4, RuntimeKeeps DEF Markings, IInv, Resolved
<1>8. ASSUME ~stale' PROVE ~stale /\ mem'.marker.child = mem.marker.child
  <2>1. ~stale /\ copy.marker = mem.marker
    BY <1>t, <1>1, <1>8, RuntimeTypes DEF NotesStale, TypeOK
  <2>2. pc = "link" => mem.marker.child = Mine /\ Link(Mine).child = Mine
    BY <1>t, <2>1, MarkerTypes DEF IInv, Marked, Launched
  <2> QED BY <1>1, <1>2, <2>1, <2>2
<1>9. Marked'
  BY <1>1, <1>2, <1>3, <1>4, <1>8, RuntimeKeeps DEF IInv, Marked, Reserved, Submitted, Launched
<1> QED BY <1>5, <1>6, <1>7, <1>9 DEF IInv

LEMMA UndoKeeps == ASSUME IInv, ClickUndo PROVE IInv'
<1> DEFINE new == [mem EXCEPT !.marker = NoMarker]
<1>t. TypeOK /\ Mine \in Children
  BY DEF IInv, TypeOK, Numbered, ClickUndo, Children, Mine
<1>1. CASE ~(mem.jobs[Mine] = "absent" /\ mem.marker = Pending(Mine))
  BY <1>t, <1>1, MoveKeeps DEF ClickUndo, Goto, registry, polls, TypeOK
<1>2. CASE mem.jobs[Mine] = "absent" /\ mem.marker = Pending(Mine)
  <2>1. /\ pc = "undo" /\ up
        /\ UNCHANGED <<up, tester, worker, next, copy, retry, at, seen, stale>>
        /\ Saves(new, "idle", "idle")
    BY <1>2 DEF ClickUndo, polls
  <2>2. new \in Registries /\ new.jobs = mem.jobs /\ new.marker = NoMarker
    BY <1>t, MarkerTypes, MarkerSet DEF TypeOK
  <2> HIDE DEF new
  <2>3. /\ mem' = new /\ disk' \in {disk, mem'} /\ disk' \in Registries
        /\ pc' = "idle" /\ faults' \in 0..MaxFaults
    BY <1>t, <2>1, <2>2, Saved
  <2>4. Resolved(mem'.marker)
    BY <2>2, <2>3, MarkerTypes DEF Resolved
  <2>5. TypeOK'
    BY <1>t, <2>1, <2>2, <2>3 DEF TypeOK
  <2>6. Numbered'
    BY <2>1, <2>2, <2>3 DEF IInv, Numbered, Reserved, Submitted, Launched
  <2>7. Workers' /\ Markings'
    BY <2>1, <2>2, <2>3, <2>4, RuntimeKeeps DEF Markings, IInv, Resolved
  <2>8. ASSUME ~stale, NEW d \in Children
        PROVE  mem.jobs[d] # "committed" /\ worker[d] \notin {"running", "committed"}
    <3>1. mem.marker.child = Mine
      BY <1>t, <1>2, MarkerTypes
    <3> QED BY <1>t, <1>2, <2>8, <3>1 DEF IInv, Marked, Committed, Workers, Terminal
  <2>9. Marked'
    BY <2>1, <2>2, <2>3, <2>8 DEF IInv, Marked, Committed, Reserved, Submitted, Launched
  <2> QED BY <2>5, <2>6, <2>7, <2>9 DEF IInv
<1> QED BY <1>1, <1>2

-----------------------------------------------------------------------------
(* The child: submitted, handed to a worker, refused.                      *)

LEMMA SubmitKeeps == ASSUME IInv, ClickSubmit PROVE IInv'
<1> DEFINE new == [mem EXCEPT !.jobs[Mine] = "queued"]
<1>t. TypeOK /\ Mine \in Children /\ next > 1 /\ up /\ pc = "submit"
  BY DEF IInv, TypeOK, Numbered, ClickSubmit, Children, Mine, Reserved
<1>1. CASE UNCHANGED registry /\ Goto("undo")
  <2>1. faults' \in 0..MaxFaults
    BY <1>t, <1>1 DEF ClickSubmit, TypeOK, Fault
  <2>2. UNCHANGED <<up, mem, disk, tester, worker, next, copy, retry, at, seen, stale>> /\ pc' = "undo"
    BY <1>1 DEF ClickSubmit, registry, polls, Goto
  <2> QED
    BY <1>t, <2>1, <2>2 DEF IInv, TypeOK, Numbered, Workers, OneActive, ActiveIn, Markings, Resolved,
       Marked, Committed, Mine, Reserved, Submitted, Launched
<1>2. CASE Active = {} /\ mem' = new /\ disk' = mem' /\ Goto("run") /\ UNCHANGED faults
  <2>1. UNCHANGED <<up, tester, worker, next, copy, retry, at, seen, stale, faults>> /\ pc' = "run"
    BY <1>2 DEF ClickSubmit, polls, Goto
  <2>2. /\ new \in Registries /\ new.marker = mem.marker
        /\ new.jobs = [mem.jobs EXCEPT ![Mine] = "queued"]
    BY <1>t, JobSet DEF TypeOK, JobStates
  <2> HIDE DEF new
  <2>3. /\ mem.jobs[Mine] = "absent" /\ worker[Mine] = "idle"
        /\ mem.jobs \in [Children -> JobStates] /\ mem.marker \in Markers
    BY <1>t, RuntimeTypes DEF IInv, Numbered, Workers, Reserved, TypeOK, Terminal
  <2>4. \A d \in Children : new.jobs[d] = IF d = Mine THEN "queued" ELSE mem.jobs[d]
    BY <2>2, <2>3
  <2>5. TypeOK'
    BY <1>t, <1>2, <2>1, <2>2 DEF TypeOK
  <2>6. Numbered'
    BY <1>t, <1>2, <2>1, <2>3, <2>4 DEF IInv, Numbered, Mine, Reserved, Submitted, Launched, TypeOK
  <2>7. Workers'
    BY <1>t, <1>2, <2>1, <2>3, <2>4 DEF IInv, Workers, OneActive, ActiveIn, Active, Terminal
  <2>8. Markings'
    <3>1. \A m \in Markers : Resolved(m) => Resolved(m)'
      BY <1>2, <2>3, <2>4, MarkerTypes DEF Resolved
    <3>2. copy.marker \in Markers /\ \A p \in Polls : seen[p].marker \in Markers
      BY <1>t DEF TypeOK, Runtimes
    <3>3. Resolved(mem.marker)' /\ Resolved(disk.marker)'
      BY <1>2, <2>2, <2>3, <3>1 DEF IInv, Markings, Resolved
    <3>4. Resolved(copy.marker)' /\ \A p \in Polls : Resolved(seen[p].marker)'
      BY <2>1, <3>1, <3>2 DEF IInv, Markings, Resolved
    <3> QED BY <1>2, <3>3, <3>4 DEF Markings
  <2>9. Marked'
    BY <1>t, <1>2, <2>1, <2>2, <2>4 DEF IInv, Marked, Committed, Mine, Reserved, Submitted, Launched
  <2> QED BY <2>5, <2>6, <2>7, <2>8, <2>9 DEF IInv
<1> QED BY <1>1, <1>2 DEF ClickSubmit

\* What a job that goes on, or ends, keeps.
LEMMA JobKeeps ==
    ASSUME IInv, NEW c \in Children, NEW s \in {"running", "committed", "failed"},
           mem.jobs[c] # "absent", s = "running" => mem.jobs[c] = "queued",
           mem' = [mem EXCEPT !.jobs[c] = s], disk' \in {disk, mem'}, UNCHANGED <<copy, seen>>
    PROVE  /\ mem' \in Registries /\ disk' \in Registries /\ mem'.marker = mem.marker
           /\ \A d \in Children : mem'.jobs[d] = IF d = c THEN s ELSE mem.jobs[d]
           /\ OneActive(mem') /\ OneActive(disk') /\ Markings'
<1> DEFINE new == [mem EXCEPT !.jobs[c] = s]
<1>n. /\ mem' = new /\ disk' \in {disk, new} /\ copy' = copy /\ seen' = seen
      /\ s \in {"running", "committed", "failed"} /\ mem.jobs[c] # "absent"
      /\ s = "running" => mem.jobs[c] = "queued"
  OBVIOUS
<1>t. TypeOK /\ mem \in Registries
  BY DEF IInv, TypeOK
<1>s. s \in JobStates
  BY <1>n DEF JobStates
<1>1. new \in Registries /\ new.marker = mem.marker /\ new.jobs = [mem.jobs EXCEPT ![c] = s]
  BY <1>t, <1>s, JobSet
<1> HIDE DEF new
<1>2. mem.jobs \in [Children -> JobStates] /\ mem.marker \in Markers
  BY <1>t, RuntimeTypes
<1>3. \A d \in Children : new.jobs[d] = IF d = c THEN s ELSE mem.jobs[d]
  BY <1>1, <1>2
<1> SUFFICES ASSUME mem' = new
             PROVE  /\ new \in Registries /\ disk' \in Registries /\ new.marker = mem.marker
                    /\ \A d \in Children : new.jobs[d] = IF d = c THEN s ELSE mem.jobs[d]
                    /\ OneActive(new) /\ OneActive(disk') /\ Markings'
  BY <1>n
<1>4. disk' \in Registries
  BY <1>t, <1>1, <1>n DEF TypeOK
<1>5. OneActive(new)
  BY <1>3, <1>n DEF IInv, Workers, OneActive, ActiveIn
<1>6. OneActive(disk) /\ OneActive(disk')
  BY <1>5, <1>n DEF IInv, Workers
<1>7. \A d \in Children : new.jobs[d] = "absent" <=> mem.jobs[d] = "absent"
  BY <1>3, <1>n
<1>8. \A d \in Children : new.jobs[d] = "absent" <=> disk'.jobs[d] = "absent"
  <2>1. CASE disk' = disk
    BY <1>7, <2>1 DEF IInv, Markings
  <2>2. CASE disk' = new
    BY <2>2
  <2> QED BY <1>n, <2>1, <2>2
<1>9. \A m \in Markers : Resolved(m) => Resolved(m)'
  BY <1>7, <1>n, MarkerTypes DEF Resolved
<1>10. /\ Resolved(mem.marker) /\ Resolved(disk.marker) /\ Resolved(copy.marker)
       /\ disk.marker \in Markers /\ copy.marker \in Markers
       /\ \A p \in Polls : Resolved(seen[p].marker) /\ seen[p].marker \in Markers
  BY <1>t DEF IInv, Markings, TypeOK, Runtimes, Registries
<1>11. /\ \A m \in Markers : Resolved(m)' <=>
            (m.pending => m.child # 0) /\ (m.child # 0 /\ ~m.pending => new.jobs[m.child] # "absent")
       /\ Resolved(new.marker) /\ new.marker \in Markers
       /\ disk'.marker \in {disk.marker, new.marker}
  BY <1>1, <1>2, <1>10, <1>n DEF Resolved
<1>12. Resolved(mem.marker)' /\ Resolved(disk.marker)'
  BY <1>1, <1>2, <1>9, <1>10, <1>11, <1>n DEF Resolved
<1>13. Resolved(copy.marker)' /\ \A p \in Polls : Resolved(seen[p].marker)'
  BY <1>9, <1>10, <1>n DEF Resolved
<1>14. Markings'
  BY <1>8, <1>12, <1>13, <1>n DEF Markings
<1> QED BY <1>1, <1>3, <1>4, <1>5, <1>6, <1>14

LEMMA RunKeeps == ASSUME IInv, ClickRun \/ ClickLaunchFails PROVE IInv'
<1> DEFINE s == IF pc = "run" THEN "running" ELSE "failed"
<1>t. TypeOK /\ Mine \in Children /\ next > 1 /\ up
  BY DEF IInv, TypeOK, Numbered, ClickRun, ClickLaunchFails, Children, Mine, Submitted
<1>1. /\ UNCHANGED <<up, tester, worker, next, copy, retry, at, seen, stale>>
      /\ mem' = [mem EXCEPT !.jobs[Mine] = s] /\ disk' \in {disk, mem'}
      /\ faults' \in 0..MaxFaults
      /\ \/ pc = "run" /\ pc' \in {"launch", "undo"}
         \/ pc = "launch" /\ pc' = "undo"
  <2>1. CASE ClickRun
    <3>1. pc = "run" /\ s = "running" /\ Saves([mem EXCEPT !.jobs[Mine] = "running"], "launch", "undo")
      BY <2>1 DEF ClickRun
    <3>2. /\ mem' = [mem EXCEPT !.jobs[Mine] = s] /\ disk' \in {disk, mem'}
          /\ pc' \in {"launch", "undo"} /\ faults' \in 0..MaxFaults
      BY <1>t, <3>1 DEF Saves, Goto, Fault, TypeOK
    <3>3. UNCHANGED <<up, tester, worker, next, copy, retry, at, seen, stale>>
      BY <2>1 DEF ClickRun, polls
    <3> QED BY <3>1, <3>2, <3>3
  <2>2. CASE ClickLaunchFails
    <3>1. pc = "launch" /\ s = "failed" /\ pc' = "undo"
      BY <2>2 DEF ClickLaunchFails, Goto
    <3>2. mem' = [mem EXCEPT !.jobs[Mine] = s] /\ disk' \in {disk, mem'}
      BY <2>2, <3>1 DEF ClickLaunchFails
    <3>3. faults' \in 0..MaxFaults
      BY <1>t, <2>2 DEF ClickLaunchFails, Fault, TypeOK
    <3>4. UNCHANGED <<up, tester, worker, next, copy, retry, at, seen, stale>>
      BY <2>2 DEF ClickLaunchFails, polls
    <3> QED BY <3>1, <3>2, <3>3, <3>4
  <2> QED BY <2>1, <2>2
<1>2. /\ worker[Mine] = "idle" /\ mem.jobs[Mine] # "absent"
      /\ pc = "run" => mem.jobs[Mine] = "queued"
  BY <1>1 DEF IInv, Numbered, Submitted
<1>3. s \in {"running", "failed"} /\ (s = "running" => pc = "run") /\ (pc = "run" => s = "running")
  OBVIOUS
<1> HIDE DEF s
<1>4. /\ mem' \in Registries /\ disk' \in Registries /\ mem'.marker = mem.marker
      /\ \A d \in Children : mem'.jobs[d] = IF d = Mine THEN s ELSE mem.jobs[d]
      /\ OneActive(mem') /\ OneActive(disk') /\ Markings'
  <2>1. s \in {"running", "committed", "failed"} /\ (s = "running" => mem.jobs[Mine] = "queued")
    BY <1>2, <1>3
  <2> QED BY <1>t, <1>1, <1>2, <2>1, JobKeeps
<1>5. TypeOK'
  BY <1>t, <1>1, <1>4 DEF TypeOK
<1>6. Numbered'
  BY <1>t, <1>1, <1>2, <1>3, <1>4 DEF IInv, Numbered, Mine, Reserved, Submitted, Launched, TypeOK
<1>7. Workers'
  BY <1>t, <1>1, <1>2, <1>4 DEF IInv, Workers, Terminal
<1>8. Marked'
  <2>1. Committed(mem) => Committed(mem')
    BY <1>3, <1>4 DEF Committed
  <2>2. Committed(mem) /\ Committed(disk) => Committed(disk')
    BY <1>1, <2>1
  <2>3. Committed(mem)' <=> Committed(mem')
    BY DEF Committed
  <2>4. Committed(disk)' <=> Committed(disk')
    BY DEF Committed
  <2>m. UNCHANGED <<stale, worker, next>> /\ mem'.marker = mem.marker
    BY <1>1, <1>4
  <2>p. (pc = "run" \/ pc = "launch") /\ pc' \in {"launch", "undo"}
    BY <1>1
  <2>5. CASE ~stale
    <3>1. Committed(mem)' /\ Committed(disk)'
      BY <2>1, <2>2, <2>3, <2>4, <2>5 DEF IInv, Marked
    <3> QED BY <2>5, <2>m, <2>p, <3>1 DEF IInv, Marked, Mine, Reserved, Submitted, Launched
  <2> QED BY <2>5, <2>m DEF Marked
<1> QED BY <1>4, <1>5, <1>6, <1>7, <1>8 DEF IInv

LEMMA LaunchKeeps == ASSUME IInv, ClickLaunch PROVE IInv'
<1>t. TypeOK /\ Mine \in Children /\ worker \in [Children -> {"idle", "running"} \cup Terminal]
  BY DEF IInv, TypeOK, Numbered, ClickLaunch, Children, Mine, Submitted
<1>1. /\ up /\ pc = "launch" /\ pc' = "linkread" /\ worker' = [worker EXCEPT ![Mine] = "running"]
      /\ UNCHANGED <<up, mem, disk, tester, next, copy, retry, at, seen, stale, faults>>
  BY DEF ClickLaunch, Goto, registry, polls
<1>2. \A d \in Children : worker'[d] = IF d = Mine THEN "running" ELSE worker[d]
  BY <1>t, <1>1
<1>3. TypeOK'
  BY <1>t, <1>1 DEF TypeOK
<1>4. Numbered'
  BY <1>t, <1>1, <1>2 DEF IInv, Numbered, Mine, Reserved, Submitted, Launched, TypeOK
<1>5. Workers'
  BY <1>1, <1>2 DEF IInv, Workers, OneActive, ActiveIn, Numbered, Terminal
<1>6. Markings' /\ Marked'
  BY <1>1, <1>2 DEF IInv, Markings, Resolved, Marked, Committed, Mine, Reserved, Submitted, Launched
<1> QED BY <1>3, <1>4, <1>5, <1>6 DEF IInv

-----------------------------------------------------------------------------
(* The status requests, the workers, and restarts.                         *)

LEMMA RecordKeeps == ASSUME IInv, NEW c \in Children, Record(c) PROVE IInv'
<1> DEFINE end == worker[c]
<1>t. TypeOK /\ up /\ worker \in [Children -> {"idle", "running"} \cup Terminal] /\ next \in Nat
  BY DEF IInv, TypeOK, Record
<1>1. /\ UNCHANGED <<up, tester, next, pc, copy, retry, at, seen, stale>>
      /\ mem' = [mem EXCEPT !.jobs[c] = end] /\ disk' \in {disk, mem'}
      /\ worker' = worker \/ worker' = [worker EXCEPT ![c] = "idle"]
  BY DEF Record, polls, click
<1>f. faults' \in 0..MaxFaults
  BY <1>t DEF Record, Fault, TypeOK
<1>2. /\ end \in {"committed", "failed"} /\ mem.jobs[c] \in {"running", end}
  BY DEF Record, Terminal, IInv, Workers
<1>4. \A d \in Children : worker'[d] = worker[d] \/ (d = c /\ worker'[d] = "idle")
  <2>1. CASE worker' = worker
    BY <2>1
  <2>2. CASE worker' = [worker EXCEPT ![c] = "idle"]
    BY <1>t, <2>2
  <2> QED BY <1>1, <2>1, <2>2
<1>5. worker' \in [Children -> {"idle", "running"} \cup Terminal]
  BY <1>t, <1>1
<1>6. ~(c >= next) /\ (pc \in Reserved \cup Submitted => c # Mine)
  <2>1. worker[c] # "idle"
    BY <1>2
  <2>2. mem.jobs[c] # "absent"
    BY <1>2
  <2> QED BY <2>1, <2>2 DEF IInv, Numbered
<1> HIDE DEF end
<1>3. /\ mem' \in Registries /\ disk' \in Registries /\ mem'.marker = mem.marker
      /\ \A d \in Children : mem'.jobs[d] = IF d = c THEN end ELSE mem.jobs[d]
      /\ OneActive(mem') /\ OneActive(disk') /\ Markings'
  <2>1. /\ end \in {"running", "committed", "failed"} /\ mem.jobs[c] # "absent"
        /\ end = "running" => mem.jobs[c] = "queued"
    BY <1>2
  <2>2. UNCHANGED <<copy, seen>> /\ disk' \in {disk, mem'} /\ mem' = [mem EXCEPT !.jobs[c] = end]
    BY <1>1
  <2> QED BY <2>1, <2>2, JobKeeps
<1>7. /\ UNCHANGED <<up, tester, next, pc, copy, retry, at, seen, stale>> /\ disk' \in {disk, mem'}
      /\ end = worker[c]
  BY <1>1 DEF end
<1>8. TypeOK'
  BY <1>t, <1>3, <1>5, <1>7, <1>f DEF TypeOK
<1>9. Numbered'
  <2>1. \A d \in Children : d >= next => mem'.jobs[d] = "absent" /\ worker'[d] = "idle"
    BY <1>3, <1>4, <1>6 DEF IInv, Numbered
  <2>2. pc \in Reserved \cup Submitted => /\ mem'.jobs[Mine] = mem.jobs[Mine]
                                          /\ worker'[Mine] = worker[Mine]
    <3>1. pc \in Reserved \cup Submitted => Mine \in Children
      BY <1>t DEF IInv, Numbered, Mine, Children, TypeOK
    <3> QED BY <1>3, <1>4, <1>6, <3>1
  <2>3. pc \in Launched => mem'.jobs[Mine] # "absent"
    <3>1. pc \in Launched => Mine \in Children
      BY <1>t DEF IInv, Numbered, Mine, Children, TypeOK
    <3> QED BY <1>2, <1>3, <3>1 DEF IInv, Numbered
  <2>4. Mine' = Mine
    BY <1>7 DEF Mine
  <2> QED BY <1>7, <2>1, <2>2, <2>3, <2>4 DEF IInv, Numbered, Reserved, Submitted, Launched
<1>10. Workers'
  BY <1>2, <1>3, <1>4, <1>7, <1>t DEF IInv, Workers, Terminal
<1>11. Marked'
  <2>1. CASE ~stale
    <3>1. Committed(mem) /\ Committed(disk) /\ (end = "committed" => mem.marker.child = c)
      BY <1>7, <2>1 DEF IInv, Marked
    <3>2. Committed(mem')
      BY <1>3, <3>1 DEF Committed
    <3>3. Committed(disk')
      BY <1>7, <3>1, <3>2
    <3>4. Committed(mem)' /\ Committed(disk)'
      BY <3>2, <3>3 DEF Committed
    <3>5. \A d \in Children : worker'[d] \in {"running", "committed"} => mem.marker.child = d
      BY <1>4, <2>1 DEF IInv, Marked
    <3>6. pc = "clear" => mem'.jobs[copy.marker.child] = "failed"
      <4>1. pc = "clear" => mem.jobs[copy.marker.child] = "failed" /\ copy.marker.child \in Children
        BY <2>1 DEF IInv, Marked, Numbered
      <4> QED BY <1>2, <1>3, <4>1
    <3>7. pc \in Reserved \cup Submitted \cup Launched => mem.marker.child = Mine
      BY <2>1 DEF IInv, Marked
    <3> QED BY <1>3, <1>7, <3>4, <3>5, <3>6, <3>7 DEF Marked, Mine, Reserved, Submitted, Launched
  <2> QED BY <1>7, <2>1 DEF Marked
<1> QED BY <1>3, <1>8, <1>9, <1>10, <1>11 DEF IInv

LEMMA WorkKeeps == ASSUME IInv, NEW c \in Children, Work(c) PROVE IInv'
<1>t. TypeOK /\ worker \in [Children -> {"idle", "running"} \cup Terminal]
  BY DEF IInv, TypeOK
<1>1. PICK end \in Terminal : worker' = [worker EXCEPT ![c] = end]
  BY DEF Work
<1>2. /\ up /\ worker[c] = "running"
      /\ UNCHANGED <<up, mem, disk, tester, next, pc, copy, retry, at, seen, stale, faults>>
  BY DEF Work, registry, polls, click
<1>3. \A d \in Children : worker'[d] = IF d = c THEN end ELSE worker[d]
  BY <1>t, <1>1
<1>4. TypeOK'
  BY <1>t, <1>1, <1>2 DEF TypeOK
<1>5. Numbered'
  <2>1. ~(c >= next) /\ (pc \in Submitted => c # Mine)
    BY <1>2 DEF IInv, Numbered
  <2>2. \A d \in Children : d >= next => mem.jobs[d] = "absent" /\ worker'[d] = "idle"
    BY <1>3, <2>1 DEF IInv, Numbered
  <2>3. pc \in Submitted => worker'[Mine] = "idle"
    <3>1. pc \in Submitted => Mine \in Children
      BY <1>t DEF IInv, Numbered, Mine, Children, TypeOK
    <3> QED BY <1>3, <2>1, <3>1 DEF IInv, Numbered
  <2> QED BY <1>2, <2>2, <2>3 DEF IInv, Numbered, Mine, Reserved, Submitted, Launched
<1>6. Workers'
  BY <1>2, <1>3 DEF IInv, Workers, OneActive, ActiveIn, Terminal
<1>7. Markings' /\ Marked'
  BY <1>2, <1>3 DEF IInv, Markings, Resolved, Marked, Committed, Mine, Reserved, Submitted, Launched
<1> QED BY <1>4, <1>5, <1>6, <1>7 DEF IInv

LEMMA PollKeeps == ASSUME IInv, NEW p \in Polls, Poll(p) PROVE IInv'
<1>t. /\ TypeOK /\ seen \in [Polls -> Runtimes] /\ seen[p] \in Runtimes
      /\ seen[p].marker \in Markers /\ seen[p].marker.child \in 0..MaxImports
  BY MarkerTypes DEF IInv, TypeOK, Runtimes
<1> DEFINE Points == {"idle", "record", "inspect", "reconcile", "outcomes", "finalize"}
<1>1. CASE \E from, to \in Points : PollReads(p, from, to) \/ PollSkips(p, from, to)
  <2>1. /\ UNCHANGED <<up, mem, disk, tester, worker, next, pc, copy, retry, stale, faults>>
        /\ up /\ at' \in [Polls -> Points]
        /\ seen' = [seen EXCEPT ![p] = Runtime] \/ seen' = seen
    BY <1>t, <1>1 DEF PollReads, PollSkips, Step, registry, click, TypeOK
  <2>2. Runtime \in Runtimes /\ Runtime.marker = mem.marker
    BY <1>t, RuntimeTypes DEF TypeOK
  <2>3. TypeOK'
    BY <1>t, <2>1, <2>2 DEF TypeOK
  <2>4. \A q \in Polls : seen'[q] \in {seen[q], Runtime}
    BY <1>t, <2>1
  <2>5. Markings'
    BY <2>1, <2>2, <2>4 DEF IInv, Markings, Resolved
  <2>6. Numbered' /\ Workers' /\ Marked'
    BY <2>1 DEF IInv, Numbered, Workers, OneActive, ActiveIn, Marked, Committed, Mine, Reserved,
       Submitted, Launched
  <2> QED BY <2>3, <2>5, <2>6 DEF IInv
<1>2. ASSUME NEW v \in Runtimes, NEW from \in Points, NEW to \in Points,
             PollWrites(p, v, from, to),
             v.marker.child = seen[p].marker.child, Resolved(v.marker)
      PROVE  IInv'
  <2>1. /\ UNCHANGED <<up, tester, worker, next, pc, copy, retry, seen>>
        /\ up /\ at' \in [Polls -> Points] /\ faults' \in 0..MaxFaults
        /\ mem' = Written(v) /\ disk' \in {disk, mem'} /\ NotesStale(seen[p])
    BY <1>t, <1>2 DEF PollWrites, Step, registry, click, TypeOK, Fault
  <2>2. mem' \in Registries /\ mem'.jobs = mem.jobs /\ mem'.marker = v.marker
    BY <1>t, <2>1, RuntimeSet DEF TypeOK
  <2>3. Resolved(mem'.marker)
    BY <1>2, <2>2
  <2>4. TypeOK'
    BY <1>t, <2>1, <2>2 DEF TypeOK, NotesStale
  <2>5. Numbered'
    BY <2>1, <2>2 DEF IInv, Numbered, Mine, Reserved, Submitted, Launched
  <2>6. Workers' /\ Markings'
    BY <2>1, <2>2, <2>3, RuntimeKeeps DEF Markings, IInv, Resolved
  <2>7. ~stale' => ~stale /\ mem'.marker.child = mem.marker.child
    BY <1>t, <1>2, <2>1, CopyKeeps
  <2>8. Marked'
    BY <2>1, <2>2, <2>3, <2>7, RuntimeKeeps DEF IInv, Marked, Mine, Reserved, Submitted, Launched
  <2> QED BY <2>4, <2>5, <2>6, <2>8 DEF IInv
<1> DEFINE m == seen[p].marker
<1>3. CASE PollRecord(p)
  BY <1>t, <1>2, <1>3 DEF PollRecord, IInv, Markings
<1>4. CASE PollReconcile(p)
  <2>1. CASE m.pending /\ mem.jobs[m.child] # "absent"
    <3> DEFINE v == [seen[p] EXCEPT !.marker = Link(m.child)]
    <3>1. v \in Runtimes /\ v.marker = Link(m.child) /\ Link(m.child).child = m.child
          /\ ~Link(m.child).pending
      BY <1>t, MarkerTypes DEF Runtimes
    <3>2. PollWrites(p, v, "reconcile", "outcomes")
      BY <1>4, <2>1 DEF PollReconcile
    <3>3. Resolved(v.marker)
      BY <2>1, <3>1 DEF Resolved
    <3> QED BY <1>2, <3>1, <3>2, <3>3
  <2> QED BY <1>1, <1>4, <2>1 DEF PollReconcile
<1>5. CASE PollFinalize(p)
  <2> DEFINE v == [seen[p] EXCEPT !.out = m.child]
  <2>1. v \in Runtimes /\ v.marker = m
    BY <1>t DEF Runtimes
  <2>2. Resolved(m)
    BY DEF IInv, Markings
  <2>3. PollWrites(p, v, "finalize", "idle") \/ PollSkips(p, "finalize", "idle")
    BY <1>5 DEF PollFinalize
  <2> QED BY <1>1, <1>2, <2>1, <2>2, <2>3
<1> QED BY <1>1, <1>3, <1>4, <1>5 DEF Poll, PollStatus, PollForgotten, PollInspect, PollOutcomes

LEMMA KillKeeps == ASSUME IInv, Kill PROVE IInv'
<1>1. /\ UNCHANGED <<mem, disk, next, copy, retry, seen, stale>>
      /\ up' = FALSE /\ tester' = FALSE /\ pc' = "idle"
      /\ worker' = [c \in Children |-> "idle"] /\ at' = [p \in Polls |-> "idle"]
      /\ faults' \in 0..MaxFaults
  BY DEF Kill, registry, Goto, Fault, IInv, TypeOK
<1>2. \A c \in Children : worker'[c] = "idle"
  BY <1>1
<1>3. TypeOK'
  BY <1>1 DEF IInv, TypeOK
<1>4. Numbered'
  BY <1>1, <1>2 DEF IInv, Numbered, Reserved, Submitted, Launched
<1>5. Workers'
  BY <1>1, <1>2 DEF IInv, Workers, OneActive, ActiveIn, Terminal
<1>6. Markings'
  BY <1>1 DEF IInv, Markings, Resolved
<1>7. Marked'
  BY <1>1, <1>2 DEF IInv, Marked, Committed, Reserved, Submitted, Launched
<1> QED BY <1>3, <1>4, <1>5, <1>6, <1>7 DEF IInv

\* A start, with the jobs recovered or as they were loaded.
LEMMA BootKeeps == ASSUME IInv, Boot PROVE IInv'
<1> DEFINE new == IF mem' = disk THEN disk ELSE Recovered(disk)
<1>1. /\ ~up /\ up' = TRUE /\ UNCHANGED <<tester, worker, next, pc, copy, retry, at, seen, stale>>
      /\ mem' = new /\ disk' = new
  BY DEF Boot, click, polls
<1>2. faults' \in 0..MaxFaults /\ disk \in Registries
  BY DEF Boot, Fault, IInv, TypeOK
<1>3. /\ pc = "idle" /\ \A c \in Children : worker[c] = "idle"
  BY <1>1 DEF IInv, Workers
<1>4. /\ new \in Registries
      /\ \A c \in Children :
            /\ new.jobs[c] = "absent" <=> disk.jobs[c] = "absent"
            /\ new.jobs[c] = "committed" <=> disk.jobs[c] = "committed"
            /\ new.jobs[c] \in {"queued", "running"} => new = disk
      /\ new.marker \in {disk.marker, NoMarker}
      /\ new.marker # disk.marker => disk.jobs[disk.marker.child] = "absent"
  <2>1. CASE mem' = disk
    BY <1>2, <2>1
  <2>2. CASE mem' # disk
    <3>1. new = Recovered(disk)
      BY <2>2
    <3> HIDE DEF new
    <3>2. \A c \in Children : disk.jobs[c] \in JobStates
      BY <1>2 DEF Registries
    <3> QED BY <1>2, <3>1, <3>2, RecoveredSet DEF JobStates
  <2> QED BY <2>1, <2>2
<1> HIDE DEF new
<1>5. \A c \in Children : new.jobs[c] = "absent" <=> mem.jobs[c] = "absent"
  BY <1>4 DEF IInv, Markings
<1>6. TypeOK'
  BY <1>1, <1>2, <1>4 DEF IInv, TypeOK
<1>7. Numbered'
  BY <1>1, <1>3, <1>5 DEF IInv, Numbered, Reserved, Submitted, Launched
<1>8. Workers'
  <2>1. OneActive(new)
    <3>1. OneActive(disk)
      BY DEF IInv, Workers
    <3>2. CASE new = disk
      BY <3>1, <3>2
    <3>3. CASE new # disk
      BY <1>4, <3>3 DEF OneActive, ActiveIn
    <3> QED BY <3>2, <3>3
  <2>2. OneActive(mem)' /\ OneActive(disk)'
    BY <1>1, <2>1 DEF OneActive, ActiveIn
  <2> QED BY <1>1, <1>3, <2>2 DEF Workers, Terminal
<1>9. Markings'
  <2>1. \A m \in Markers : Resolved(m) => Resolved(m)'
    BY <1>1, <1>5, MarkerTypes DEF Resolved
  <2>2. /\ disk.marker \in Markers /\ copy.marker \in Markers /\ new.marker \in Markers
        /\ \A p \in Polls : seen[p].marker \in Markers
    BY <1>2, <1>4 DEF IInv, TypeOK, Runtimes, Registries
  <2>3. Resolved(new.marker)
    <3>1. Resolved(disk.marker) /\ Resolved(NoMarker)
      BY MarkerTypes DEF IInv, Markings, Resolved
    <3> QED BY <1>4, <3>1
  <2>4. Resolved(mem.marker)' /\ Resolved(disk.marker)'
    BY <1>1, <2>1, <2>2, <2>3 DEF Resolved
  <2>5. Resolved(copy.marker)' /\ \A p \in Polls : Resolved(seen[p].marker)'
    BY <1>1, <2>1, <2>2 DEF IInv, Markings, Resolved
  <2> QED BY <1>1, <2>4, <2>5 DEF Markings
<1>10. Marked'
  <2>1. ~stale => Committed(new)
    <3>1. ASSUME ~stale, NEW c \in Children, new.jobs[c] = "committed" PROVE new.marker.child = c
      <4>1. disk.jobs[c] = "committed" /\ disk.marker.child = c
        BY <1>4, <3>1 DEF IInv, Marked, Committed
      <4> QED BY <1>4, <4>1
    <3> QED BY <3>1 DEF Committed
  <2>2. Committed(mem)' <=> Committed(new)
    BY <1>1 DEF Committed
  <2>3. Committed(disk)' <=> Committed(new)
    BY <1>1 DEF Committed
  <2> QED BY <1>1, <1>3, <2>1, <2>2, <2>3 DEF Marked, Reserved, Submitted, Launched
<1> QED BY <1>6, <1>7, <1>8, <1>9, <1>10 DEF IInv

-----------------------------------------------------------------------------
(* The invariant of the import, and what follows from it.                  *)

LEMMA StepKeeps == IInv /\ [Next]_vars => IInv'
<1> SUFFICES ASSUME IInv, [Next]_vars PROVE IInv'
  OBVIOUS
<1>1. CASE UNCHANGED vars
  BY <1>1 DEF vars, IInv, TypeOK, Numbered, Workers, OneActive, ActiveIn, Markings, Resolved,
     Marked, Committed, Mine, Reserved, Submitted, Launched
<1>2. CASE ClickRead \/ Click
  BY <1>2, LookKeeps, ReconcileKeeps, ClearKeeps, ReserveKeeps, WriteBackKeeps, SubmitKeeps, RunKeeps,
     LaunchKeeps, UndoKeeps DEF Click
<1>3. CASE \E p \in Polls : Poll(p)
  BY <1>3, PollKeeps
<1>4. CASE \E c \in Children : Work(c) \/ Record(c)
  BY <1>4, WorkKeeps, RecordKeeps
<1> QED BY <1>1, <1>2, <1>3, <1>4, KillKeeps, BootKeeps DEF Next

LEMMA Invariant == Spec => []IInv
BY InitInv, StepKeeps, PTL DEF Spec

\* Whatever clicks, status requests, kills and failed saves do to the registry, no second
\* import is started while one works on the performance database (OneImport).
THEOREM OneImportAtATime == Spec => []OneImport
<1>1. IInv => OneImport
  <2> SUFFICES ASSUME IInv, NEW c \in Children, worker[c] = "running"
               PROVE  mem.jobs[c] = "running" /\ \A d \in Children \ {c} : worker[d] # "running"
    BY DEF OneImport
  <2>1. \A d \in Children : worker[d] = "running" => d \in ActiveIn(mem)
    BY DEF IInv, Workers, ActiveIn
  <2>2. OneActive(mem) /\ mem.jobs[c] = "running"
    BY DEF IInv, Workers
  <2> QED BY <2>1, <2>2 DEF OneActive
<1> QED BY <1>1, Invariant, PTL

\* A start that saves its recovery leaves no marker of a child that can still be pending or
\* at work: the next request finds none, or one that has ended (Reopened).
THEOREM RestartReopens == Spec => Reopened
<1>1. IInv /\ [Next]_vars =>
        [~up /\ up' /\ faults' = faults =>
            mem'.marker.child = 0 \/ mem'.jobs[mem'.marker.child] \in Terminal]_vars
  <2> SUFFICES ASSUME IInv, Next, ~up, up', faults' = faults
               PROVE  mem'.marker.child = 0 \/ mem'.jobs[mem'.marker.child] \in Terminal
    BY DEF vars
  <2> DEFINE new == Recovered(disk)
  <2>1. ~(ClickRead \/ Click)
    BY DEF ClickRead, Click, ClickReconcile, ClickPrevious, ClickClear, ClickReserve, ClickResetRead,
       ClickResetWrite, ClickSubmit, ClickRun, ClickLaunch, ClickLaunchFails, ClickLinkRead,
       ClickLinkWrite, ClickUndo
  <2>2. ASSUME NEW p \in Polls PROVE ~Poll(p)
    BY DEF Poll, PollStatus, PollForgotten, PollRecord, PollInspect, PollReconcile, PollOutcomes,
       PollFinalize, PollReads, PollWrites, PollSkips, Step
  <2>3. ~(\E c \in Children : Work(c) \/ Record(c)) /\ ~Kill
    BY DEF Work, Record, Kill
  <2>4. Boot
    BY <2>1, <2>2, <2>3 DEF Next
  <2>5. faults \in Nat /\ disk \in Registries
    BY DEF IInv, TypeOK
  <2>6. mem' = new
    BY <2>4, <2>5 DEF Boot, Fault
  <2>7. disk.marker \in Markers /\ Resolved(disk.marker)
    BY <2>5 DEF IInv, Markings, Registries
  <2>8. /\ new.marker \in Markers
        /\ new.marker.child # 0 => new.marker = disk.marker /\ disk.jobs[disk.marker.child] # "absent"
    <3>1. CASE disk.marker.pending
      BY <2>5, <2>7, <3>1, RecoveredSet, MarkerTypes
    <3>2. CASE ~disk.marker.pending
      <4>1. new.marker = disk.marker
        BY <2>5, <3>2, RecoveredSet
      <4>2. new.marker.child # 0 => new.marker.child \in Children
        BY <2>7, <4>1, MarkerTypes
      <4> QED BY <2>7, <3>2, <4>1, <4>2 DEF Resolved, IInv, Markings
    <3> QED BY <2>7, <3>1, <3>2, MarkerTypes
  <2>9. ASSUME new.marker.child # 0 PROVE new.jobs[new.marker.child] \in Terminal
    <3>1. new.marker.child \in Children /\ disk.jobs[new.marker.child] # "absent"
      BY <2>8, <2>9, MarkerTypes
    <3>2. disk.jobs[new.marker.child] \in JobStates
      BY <2>5, <3>1 DEF Registries
    <3> HIDE DEF new
    <3>3. \A c \in Children :
            /\ disk.jobs[c] \in {"queued", "running"} => new.jobs[c] = "failed"
            /\ disk.jobs[c] \notin {"queued", "running"} => new.jobs[c] = disk.jobs[c]
      BY <2>5, RecoveredSet DEF new
    <3> QED BY <3>1, <3>2, <3>3 DEF JobStates, Terminal
  <2> QED BY <2>6, <2>9
<1> QED BY <1>1, Invariant, PTL DEF Spec, Reopened

\* The import that is launched is the one the marker names, and so is a committed one: what
\* has been committed is not imported again, stale copies aside (CommittedNotRepeated).
THEOREM NotRepeated == Spec => CommittedNotRepeated
<1>1. IInv /\ [Next]_vars =>
        [\A c \in Children : worker[c] = "idle" /\ worker'[c] = "running" /\ ~stale =>
            \A d \in Children : mem.jobs[d] # "committed"]_vars
  <2> SUFFICES ASSUME IInv, Next, NEW c \in Children, worker[c] = "idle", worker'[c] = "running",
                      ~stale, NEW d \in Children, mem.jobs[d] = "committed"
               PROVE  FALSE
    BY DEF vars
  <2>t. worker \in [Children -> {"idle", "running"} \cup Terminal]
    BY DEF IInv, TypeOK
  <2>1. CASE ClickLaunch
    <3>1. pc = "launch" /\ Mine \in Children
      BY <2>1 DEF ClickLaunch, IInv, TypeOK, Numbered, Mine, Children, Submitted
    <3>2. mem.jobs[Mine] = "running" /\ mem.marker.child = Mine
      BY <3>1 DEF IInv, Numbered, Marked, Submitted
    <3>3. mem.marker.child = d
      BY DEF IInv, Marked, Committed
    <3> QED BY <3>2, <3>3
  <2>2. CASE (ClickRead \/ Click) /\ ~ClickLaunch
    <3>1. worker' = worker
      BY <2>2 DEF ClickRead, Click, ClickReconcile, ClickPrevious, ClickClear, ClickReserve,
         ClickResetRead, ClickResetWrite, ClickSubmit, ClickRun, ClickLaunchFails, ClickLinkRead,
         ClickLinkWrite, ClickUndo
    <3> QED BY <3>1
  <2>3. CASE \E p \in Polls : Poll(p)
    <3>1. worker' = worker
      BY <2>3 DEF Poll, PollStatus, PollForgotten, PollRecord, PollInspect, PollReconcile,
         PollOutcomes, PollFinalize, PollReads, PollWrites, PollSkips
    <3> QED BY <3>1
  <2>4. ASSUME NEW e \in Children, Work(e) PROVE FALSE
    <3>1. PICK end \in Terminal : worker' = [worker EXCEPT ![e] = end]
      BY <2>4 DEF Work
    <3> QED BY <2>t, <3>1 DEF Terminal
  <2>5. ASSUME NEW e \in Children, Record(e) PROVE FALSE
    <3>1. worker' = worker \/ worker' = [worker EXCEPT ![e] = "idle"]
      BY <2>5 DEF Record
    <3>2. CASE worker' = worker
      BY <3>2
    <3>3. CASE worker' = [worker EXCEPT ![e] = "idle"]
      BY <2>t, <3>3
    <3> QED BY <3>1, <3>2, <3>3
  <2>6. CASE Kill
    <3>1. worker' = [e \in Children |-> "idle"]
      BY <2>6 DEF Kill
    <3> QED BY <3>1
  <2>7. CASE Boot
    BY <2>7 DEF Boot
  <2> QED BY <2>1, <2>2, <2>3, <2>4, <2>5, <2>6, <2>7 DEF Next
<1> QED BY <1>1, Invariant, PTL DEF Spec, CommittedNotRepeated

-----------------------------------------------------------------------------
(* The journal itself, its variables under names of their own: if the      *)
(* sidecar can be deleted and the journal can be read, the protocol of     *)
(* JobJournal is a durable cell, for any set of jobs and any number of     *)
(* kills, denied replacements and failed reads and writes.                 *)

CONSTANTS Jobs, None, Absent, Torn, RemovalFails, ReadFails
VARIABLES journal, sidecar, kept, job, used, point, acked, failures

J == INSTANCE JobJournal WITH mem <- kept, pc <- point, faults <- failures

\* JournalAssumption, on the constants here.
Values ==
    /\ \A c \in J!Contents : c \notin {None, Absent, Torn}
    /\ Absent # Torn
    /\ \A s \in [previous : J!Contents, intended : J!Contents] : s # None

\* What each point of a save, and each state of the files, has established.
PointFacts ==
    /\ point \in {"read", "replace", "sync", "publish"} => sidecar = None
    /\ point \in {"again", "publish"} => journal # Absent
    /\ point = "sync" => journal = J!Intended
    /\ point \in {"overwrite", "verify"} => sidecar # None /\ sidecar.intended = J!Intended
    /\ point = "overwrite" => journal \in {Torn, sidecar.previous}
    /\ point = "verify" => journal = J!Intended
    /\ point \notin {"down", "load", "read"} => acked \subseteq kept

\* A journal written in part always has a sidecar to restore it from.
TornHasSidecar == journal = Torn => sidecar # None

\* Between the operations of a submit there is a job being submitted.
HasJob == J!Saving => job \in Jobs

\* The inductive invariant of the journal, and what is assumed: a sidecar can be deleted and
\* the journal read.
JInv == J!TypeOK /\ PointFacts /\ TornHasSidecar /\ HasJob /\ J!Kept

Sound == ~RemovalFails /\ ~ReadFails /\ Values

Sidecars == [previous : J!Contents, intended : J!Contents]

-----------------------------------------------------------------------------
(* Contents, markers and what a start would find.                          *)

\* The markers are no contents of a journal, and no sidecar.
LEMMA JournalMarkers ==
    ASSUME Values, J!TypeOK
    PROVE  /\ Torn \notin J!Contents /\ Absent \notin J!Contents
           /\ sidecar # None => sidecar \in Sidecars
           /\ \A c \in J!Contents : c # None
BY DEF Values, J!TypeOK, Sidecars

LEMMA JournalInit == Values /\ J!Init => JInv
BY DEF Values, J!Init, JInv, J!TypeOK, PointFacts, TornHasSidecar, HasJob, J!Kept, J!Saving,
   J!Found, J!Checks, J!Contents

-----------------------------------------------------------------------------
(* Every step preserves the invariant and is a step of the cell, or none.  *)

Mapped == J!Cell!Next \/ UNCHANGED <<J!Found, IF J!Saving THEN J!Intended ELSE None, acked>>

\* A step of the recovery: it leaves what a start would find alone, and a save goes on or
\* is abandoned.
LEMMA CheckStep ==
    ASSUME Sound, JInv, J!NothingToRecover \/ J!Reconcile \/ J!RestorePrevious \/ J!RecoverFails
    PROVE  JInv' /\ Mapped
<1>v. Values
  BY DEF Sound
<1> USE <1>v, JournalMarkers DEF JInv, J!TypeOK, J!Contents, Sidecars
<1>1. point \in J!Checks
  BY DEF J!NothingToRecover, J!Reconcile, J!RestorePrevious, J!RecoverFails
<1>2. /\ point = "load" => J!Checked = "read" /\ J!Refused = "down"
      /\ point = "before" => J!Checked = "replace" /\ J!Refused = "up"
      /\ point = "again" => J!Checked = "publish" /\ J!Refused = "undo"
      /\ point = "undo" => J!Checked = "up" /\ J!Refused = "up"
  BY DEF J!Checked, J!Refused
<1>3. /\ UNCHANGED <<kept, job, used, acked>> /\ J!Found' = J!Found
      /\ sidecar' \in {sidecar, None} /\ journal' \in {journal, Torn, sidecar.previous}
      /\ failures' \in Nat
      /\ point' \in {point, J!Checked, J!Refused}
  <2>1. CASE J!NothingToRecover
    BY <2>1 DEF J!NothingToRecover, J!Goto, J!files, J!Found
  <2>2. CASE J!Reconcile
    BY <2>2 DEF Sound, J!Reconcile, J!RemoveSidecar, J!Goto, J!Found, J!Matches
  <2>3. CASE J!RestorePrevious
    BY <2>3 DEF J!RestorePrevious, J!Found, J!Matches
  <2>4. CASE J!RecoverFails
    BY <2>4 DEF J!RecoverFails, J!Goto, J!files, J!Found, J!Fault, J!Matches
  <2> QED BY <2>1, <2>2, <2>3, <2>4
<1>4. J!TypeOK'
  BY <1>1, <1>2, <1>3 DEF J!Checks, J!NothingToRecover, J!Reconcile, J!RestorePrevious,
     J!RecoverFails, J!files, J!Goto
<1>5. PointFacts' /\ TornHasSidecar'
  <2>1. CASE J!NothingToRecover
    BY <1>1, <1>2, <1>3, <2>1 DEF PointFacts, TornHasSidecar, J!Checks, J!NothingToRecover,
       J!files, J!Goto, J!Intended
  <2>2. CASE J!Reconcile
    BY <1>1, <1>2, <1>3, <2>2 DEF Sound, PointFacts, TornHasSidecar, J!Checks, J!Reconcile,
       J!RemoveSidecar, J!Goto, J!Matches, J!Intended
  <2>3. CASE J!RestorePrevious
    <3>1. /\ point' = point /\ sidecar' = sidecar /\ sidecar # None /\ kept' = kept /\ acked' = acked
          /\ journal' \in {Torn, sidecar.previous} /\ sidecar \in Sidecars
      BY <1>3, <2>3 DEF J!RestorePrevious
    <3>2. journal' # Absent
      BY <3>1 DEF Values
    <3> QED BY <1>1, <3>1, <3>2 DEF PointFacts, TornHasSidecar, J!Checks
  <2>4. CASE J!RecoverFails
    BY <1>1, <1>2, <1>3, <2>4 DEF PointFacts, TornHasSidecar, J!Checks, J!RecoverFails,
       J!files, J!Goto, J!Intended
  <2> QED BY <2>1, <2>2, <2>3, <2>4
<1>6. HasJob' /\ J!Kept'
  BY <1>1, <1>2, <1>3 DEF HasJob, J!Kept, J!Saving, J!Checks
<1>7. Mapped
  <2>1. CASE J!Saving <=> J!Saving'
    BY <1>3, <2>1 DEF Mapped, J!Saving, J!Intended
  <2>2. CASE J!Saving /\ ~J!Saving'
    BY <1>3, <2>2 DEF Mapped, HasJob, J!Intended, J!Cell!Next, J!Cell!Abandon
  <2> QED BY <1>1, <1>2, <1>3, <2>1, <2>2 DEF J!Saving, J!Checks
<1> QED BY <1>4, <1>5, <1>6, <1>7

\* Starting, loading, submitting and dying.
LEMMA ProcessStep ==
    ASSUME Sound, JInv, J!Start \/ J!Load \/ J!Submit \/ J!Kill
    PROVE  JInv' /\ Mapped
<1>v. Values
  BY DEF Sound
<1> USE <1>v, JournalMarkers DEF JInv, J!TypeOK, J!Contents, J!Checks, J!files, J!Goto
<1>1. CASE J!Start
  BY <1>1 DEF J!Start, PointFacts, TornHasSidecar, HasJob, J!Kept, J!Saving, J!Found,
     J!Matches, J!Intended, Mapped
<1>2. CASE J!Load
  <2>1. kept' = J!Found
    BY <1>2 DEF Sound, J!Load, PointFacts, TornHasSidecar, J!Found
  <2>2. J!Found \in SUBSET Jobs
    BY <2>1, <1>2 DEF J!Load, TornHasSidecar, PointFacts
  <2> QED
    BY <1>2, <2>1, <2>2 DEF Sound, J!Load, PointFacts, TornHasSidecar, HasJob, J!Kept,
       J!Saving, J!Found, J!Matches, J!Intended, Mapped
<1>3. CASE J!Submit
  <2>1. /\ job' \in Jobs /\ point = "up" /\ point' = "before" /\ kept' = kept
        /\ UNCHANGED <<journal, sidecar, acked>>
    BY <1>3 DEF J!Submit
  <2>2. JInv'
    BY <1>3, <2>1 DEF J!Submit, PointFacts, TornHasSidecar, HasJob, J!Kept, J!Saving, J!Found,
       J!Matches
  <2>3. J!Intended' \in SUBSET Jobs /\ acked \subseteq J!Intended' /\ J!Intended' # None
    BY <2>1 DEF J!Intended, PointFacts
  <2>4. ~J!Saving /\ J!Saving' /\ J!Found' = J!Found
    BY <2>1 DEF J!Saving, J!Found, J!Matches
  <2> QED BY <2>1, <2>2, <2>3, <2>4 DEF Mapped, J!Cell!Next, J!Cell!Begin
<1>4. CASE J!Kill
  <2>1. JInv'
    BY <1>4 DEF J!Kill, J!Fault, PointFacts, TornHasSidecar, HasJob, J!Kept, J!Saving, J!Found,
       J!Matches
  <2>2. J!Found' = J!Found /\ ~J!Saving' /\ acked' = acked
    BY <1>4 DEF J!Kill, J!Found, J!Matches, J!Saving
  <2>3. J!Saving => J!Intended # None
    BY DEF HasJob, J!Intended
  <2> QED BY <2>1, <2>2, <2>3 DEF Mapped, J!Cell!Next, J!Cell!Abandon
<1> QED BY <1>1, <1>2, <1>3, <1>4

\* The atomic replacement and what follows it, or its denial.
LEMMA ReplaceStep ==
    ASSUME Sound, JInv, J!Replace \/ J!ReplaceFails \/ J!Denied \/ J!Sync
    PROVE  JInv' /\ Mapped
<1>v. Values
  BY DEF Sound
<1> USE <1>v, JournalMarkers DEF JInv, J!TypeOK, J!Contents, J!Checks, J!files, J!Goto
<1>1. J!Saving /\ job \in Jobs
  BY DEF J!Replace, J!ReplaceFails, J!Denied, J!Sync, J!Saving, HasJob
<1>2. J!Intended \in SUBSET Jobs /\ J!Intended # None /\ J!Intended # Torn /\ J!Intended # Absent
  BY <1>1 DEF J!Intended
<1>3. CASE J!Replace
  <2>1. J!Found' = J!Intended /\ J!Intended' = J!Intended /\ J!Saving'
    BY <1>2, <1>3 DEF J!Replace, PointFacts, J!Found, J!Intended, J!Saving
  <2>2. acked \subseteq J!Intended
    BY <1>3 DEF J!Replace, PointFacts, J!Intended
  <2>3. JInv'
    BY <1>1, <1>2, <1>3, <2>1, <2>2 DEF J!Replace, PointFacts, TornHasSidecar, HasJob, J!Kept
  <2> QED BY <1>1, <1>2, <1>3, <2>1, <2>3 DEF J!Replace, Mapped, J!Cell!Next, J!Cell!Land
<1>4. CASE J!ReplaceFails
  <2>1. J!Found' = J!Found /\ ~J!Saving' /\ acked' = acked
    BY <1>4 DEF J!ReplaceFails, J!Found, J!Matches, J!Saving
  <2>2. JInv'
    BY <1>4, <2>1 DEF J!ReplaceFails, J!Fault, PointFacts, TornHasSidecar, HasJob, J!Kept
  <2> QED BY <1>1, <1>2, <2>1, <2>2 DEF Mapped, J!Cell!Next, J!Cell!Abandon
<1>5. CASE J!Denied
  <2>1. J!Found' = J!Found /\ acked' = acked /\ J!Intended' = J!Intended /\ point' \in {"up",
     "again"}
    BY <1>5 DEF J!Denied, J!Found, J!Matches, J!Intended
  <2>2. JInv'
    BY <1>1, <1>5, <2>1 DEF J!Denied, PointFacts, TornHasSidecar, HasJob, J!Kept
  <2> QED BY <1>1, <1>2, <2>1, <2>2 DEF Mapped, J!Saving, J!Cell!Next, J!Cell!Abandon
<1>6. CASE J!Sync
  <2>1. J!Found = J!Intended /\ J!Found' = J!Found /\ ~J!Saving'
    BY <1>2, <1>6 DEF J!Sync, J!Return, PointFacts, J!Found, J!Saving
  <2>2. CASE J!Return
    <3>1. JInv'
      BY <1>2, <1>6, <2>1, <2>2 DEF J!Sync, J!Return, J!Fault, PointFacts, TornHasSidecar,
         HasJob, J!Kept
    <3> QED BY <1>1, <1>2, <2>1, <2>2, <3>1 DEF J!Return, Mapped, J!Cell!Next, J!Cell!Return
  <2>3. CASE UNCHANGED <<acked, kept>>
    <3>1. JInv'
      BY <1>6, <2>1, <2>3 DEF J!Sync, J!Return, J!Fault, PointFacts, TornHasSidecar, HasJob,
         J!Kept
    <3> QED BY <1>1, <1>2, <2>1, <2>3, <3>1 DEF Mapped, J!Cell!Next, J!Cell!Abandon
  <2> QED BY <1>6, <2>2, <2>3 DEF J!Sync
<1> QED BY <1>3, <1>4, <1>5, <1>6

\* The sidecar, the overwrite in place, and its verification.
LEMMA OverwriteStep ==
    ASSUME Sound, JInv, J!Publish \/ J!Overwrite \/ J!Verify
    PROVE  JInv' /\ Mapped
<1>v. Values
  BY DEF Sound
<1> USE <1>v, JournalMarkers DEF JInv, J!TypeOK, J!Contents, J!Checks, J!files, J!Goto
<1>1. J!Saving /\ job \in Jobs
  BY DEF J!Publish, J!Overwrite, J!Verify, J!Saving, HasJob
<1>2. J!Intended \in SUBSET Jobs /\ J!Intended # None /\ J!Intended # Torn /\ J!Intended # Absent
  BY <1>1 DEF J!Intended
<1>3. CASE J!Publish
  <2>1. J!Found' = J!Found /\ acked' = acked /\ J!Intended' = J!Intended /\ J!Saving'
    BY <1>3 DEF J!Publish, J!Found, J!Matches, J!Intended, J!Saving, PointFacts
  <2>2. CASE sidecar' = [previous |-> journal, intended |-> J!Intended] /\ journal # Torn
    <3>1. journal \in SUBSET Jobs
      BY <1>3, <2>2 DEF J!Publish, PointFacts
    <3>2. sidecar' \in Sidecars /\ sidecar'.intended = J!Intended /\ sidecar'.previous = journal
      BY <1>2, <2>2, <3>1 DEF Sidecars
    <3>3. sidecar' # None
      BY <3>2 DEF Values, Sidecars
    <3> QED BY <1>1, <1>3, <2>1, <3>1, <3>2, <3>3 DEF Sidecars, Mapped, J!Publish, J!Fault,
               PointFacts, TornHasSidecar, HasJob, J!Kept
  <2>3. CASE UNCHANGED sidecar
    <3>1. point = "publish" => point' = "undo" /\ failures' \in Nat
      <4>1. CASE sidecar' = [previous |-> journal, intended |-> J!Intended] /\ journal # Torn
                  /\ sidecar = None
        <5>1. journal \in SUBSET Jobs
          BY <1>3, <4>1 DEF J!Publish, PointFacts
        <5> QED BY <1>2, <2>3, <4>1, <5>1 DEF Values
      <4> QED BY <1>3, <4>1 DEF J!Publish, J!Fault
    <3> QED BY <1>1, <1>3, <2>1, <2>3, <3>1 DEF Mapped, J!Publish, PointFacts, TornHasSidecar,
               HasJob, J!Kept
  <2> QED BY <1>3, <2>2, <2>3 DEF J!Publish
<1>4. CASE J!Overwrite
  <2>1. /\ sidecar # None /\ sidecar.intended = J!Intended /\ sidecar.previous \in SUBSET Jobs
        /\ J!Found = sidecar.previous /\ acked \subseteq J!Intended
    BY <1>4 DEF J!Overwrite, PointFacts, J!Found, J!Matches, Sidecars, J!Intended
  <2>2. /\ point = "overwrite" /\ J!Intended' = J!Intended /\ J!Saving'
        /\ UNCHANGED <<sidecar, kept, job, used, acked>>
    BY <1>4 DEF J!Overwrite, J!Intended, J!Saving
  <2>3. CASE journal' = Torn /\ UNCHANGED <<point, failures>>
    <3>1. J!Found' = J!Found
      BY <1>2, <2>1, <2>2, <2>3 DEF J!Found, J!Matches
    <3> QED BY <1>1, <1>4, <2>1, <2>2, <2>3, <3>1 DEF J!Overwrite, Mapped, PointFacts,
               TornHasSidecar, HasJob, J!Kept
  <2>4. CASE journal' = J!Intended /\ point' = "verify" /\ UNCHANGED failures
    <3>1. J!Found' = J!Intended
      BY <2>1, <2>2, <2>4 DEF J!Found, J!Matches
    <3> QED BY <1>1, <1>2, <1>4, <2>1, <2>2, <2>4, <3>1 DEF Mapped, PointFacts, TornHasSidecar,
               HasJob, J!Kept, J!Cell!Next, J!Cell!Land
  <2>5. CASE J!Fault /\ point' = "undo" /\ UNCHANGED journal
    <3>1. J!Found' = J!Found
      BY <2>2, <2>5 DEF J!Found, J!Matches
    <3> QED BY <1>1, <1>4, <2>1, <2>2, <2>5, <3>1 DEF J!Fault, Mapped, PointFacts,
               TornHasSidecar, HasJob, J!Kept
  <2> QED BY <1>4, <2>3, <2>4, <2>5 DEF J!Overwrite
<1>5. CASE J!Verify
  <2>1. J!Found = J!Intended /\ acked \subseteq J!Intended
    BY <1>5 DEF J!Verify, PointFacts, J!Found, J!Matches, J!Intended
  <2>2. CASE J!RemoveSidecar /\ J!Return
    <3>1. /\ J!Found' = J!Intended /\ ~J!Saving' /\ sidecar' = None
          /\ UNCHANGED <<journal, job, used, failures>>
      BY <1>2, <1>5, <2>2 DEF Sound, J!Verify, J!RemoveSidecar, J!Return, PointFacts, J!Found,
         J!Saving
    <3>2. JInv'
      BY <1>2, <1>5, <2>1, <2>2, <3>1 DEF J!Verify, J!Return, PointFacts, TornHasSidecar,
         HasJob, J!Kept
    <3> QED BY <1>1, <1>2, <2>1, <2>2, <3>1, <3>2 DEF J!Return, Mapped, J!Cell!Next,
               J!Cell!Return
  <2>3. CASE J!Fault /\ point' = "undo" /\ UNCHANGED <<sidecar, acked, kept>>
    <3>1. J!Found' = J!Found /\ J!Intended' = J!Intended /\ J!Saving'
      BY <1>5, <2>3 DEF J!Verify, J!Found, J!Matches, J!Intended, J!Saving
    <3> QED BY <1>1, <1>5, <2>3, <3>1 DEF J!Verify, J!Fault, Mapped, PointFacts,
               TornHasSidecar, HasJob, J!Kept
  <2> QED BY <1>5, <2>2, <2>3 DEF J!Verify
<1> QED BY <1>3, <1>4, <1>5

\* Every step preserves the invariant and maps to a step of the cell or to none.
LEMMA StepMaps ==
    Sound /\ JInv /\ [J!Next]_J!vars =>
        JInv' /\ [J!Cell!Next]_<<J!Found, IF J!Saving THEN J!Intended ELSE None, acked>>
<1> SUFFICES ASSUME Sound, JInv, [J!Next]_J!vars PROVE JInv' /\ Mapped
  BY DEF Mapped
<1>1. CASE UNCHANGED J!vars
  BY <1>1 DEF J!vars, J!files, JInv, J!TypeOK, PointFacts, TornHasSidecar, HasJob, J!Kept,
     J!Saving, J!Found, J!Matches, J!Intended, Mapped
<1>2. CASE J!Next
  BY <1>2, CheckStep, ProcessStep, ReplaceStep, OverwriteStep DEF J!Next, J!Step
<1> QED BY <1>1, <1>2

-----------------------------------------------------------------------------
\* Every variable of the journal's protocol keeps its type, and what was acknowledged is
\* found by the next start: _save and _recover_in_place_backup never lose a job.
THEOREM JournalKept == ASSUME Sound PROVE J!Spec => [](J!TypeOK /\ J!Kept)
<1>v. Values
  BY DEF Sound
<1>1. JInv => J!TypeOK /\ J!Kept
  BY DEF JInv
<1>2. JInv /\ [J!Next]_J!vars => JInv'
  BY StepMaps
<1> QED BY <1>v, <1>1, <1>2, JournalInit, PTL DEF J!Spec

\* The journal's protocol implements the abstract cell: all or nothing of a save that did
\* not return, everything of one that did.
THEOREM JournalImplementsCell == ASSUME Sound PROVE J!Spec => J!ImplementsCell
<1>v. Values
  BY DEF Sound
<1>1. J!Init => J!Cell!Init
  BY DEF J!Init, J!Cell!Init, J!Found, J!Saving
<1>2. JInv /\ [J!Next]_J!vars =>
        JInv' /\ [J!Cell!Next]_<<J!Found, IF J!Saving THEN J!Intended ELSE None, acked>>
  BY StepMaps
<1> QED BY <1>v, <1>1, <1>2, JournalInit, PTL DEF J!Spec, J!ImplementsCell, J!Cell!Spec
=============================================================================
