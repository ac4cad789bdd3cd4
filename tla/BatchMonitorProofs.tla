------------------------- MODULE BatchMonitorProofs -------------------------
(***************************************************************************)
(* What monitor_controlled_batch promises about attempts and evidence, for *)
(* any strategies, report files, attempts, restarts and interleavings.     *)
(***************************************************************************)
EXTENDS BatchMonitor, FiniteSetTheorems, WellFoundedInduction, TLAPS

States == {"NONE", "TEST", "RUNNING", "RESULT"}
RunIds == {None} \cup {Id(k) : k \in Nat}
Reports == {None} \cup {Report(n, k) : n \in Names, k \in Nat}
Trackers == [attempts : Nat, state : States, id : RunIds, report : Reports, polls : Nat,
             launchedAt : {"none", "set", "old"}, missingSince : {"none", "set", "old"},
             seen : BOOLEAN, done : BOOLEAN, failed : BOOLEAN]
Rows == [state : {"TEST", "RUNNING", "RESULT"}, id : RunIds]

Types ==
    /\ row \in [Names -> Rows] /\ rows \in [Names -> Rows]
    /\ queue \in [Names -> SUBSET Nat] /\ owed \in [Names -> SUBSET Nat]
    /\ running \in [Names -> RunIds] /\ log \subseteq [name : Names, id : RunIds, run : Nat]
    /\ file \in [Paths -> Reports] /\ inspected \subseteq Reports \ {None}
    /\ inHand \in Reports \cup {Ended} /\ snap \in [Names -> Reports]
    /\ tr \in [Names -> Trackers]
    /\ base \in [Names -> SUBSET RunIds]
    /\ names \subseteq Names /\ pending \subseteq names /\ launched \subseteq names
    /\ todo \subseteq names
    /\ counts \in [Names -> Nat] /\ subs \in [Names -> Nat] /\ blame \in [Names -> Nat]
    /\ from \in [Names -> Nat]
    /\ restarts \in Nat
    /\ pc \in {"submit", "examine", "retry", "end"}
    /\ outcome = "none" <=> pc # "end"

\* Every submission is an attempt that the caller was told of before it was sent.
Counted ==
    /\ \A n \in Names : counts[n] = Used[n] + subs[n]
    /\ \A n \in names : tr[n].attempts = counts[n]
    /\ \A n \in Names : counts[n] <= MaxAttempts \/ subs[n] = 0

CInv == Types /\ Counted

\* A report is of its file, and of a run of this call unless the collector has looked at it.
New(r) == r # None /\ from[r.name] < r.run /\ r.run <= subs[r.name]
FilesOwned == \A p \in Paths : file[p] # None => Path[file[p].name] = p
FilesNew ==
    /\ \A p \in Paths : file[p] = None \/ file[p] \in inspected \/ New(file[p])
    /\ inHand \notin {None, Ended} => New(file[Path[inHand.name]])

\* What the tester has of a strategy, and the reports that are taken for its own, are of this
\* call.
Recent(n) ==
    /\ from[n] <= subs[n]
    /\ \A k \in queue[n] \cup owed[n] : from[n] < k /\ k <= subs[n]
    /\ snap[n] # None => New(snap[n]) /\ snap[n].name = n
    /\ n \in names /\ tr[n].report # None => New(tr[n].report) /\ tr[n].report.name = n
    /\ n \in names /\ tr[n].done => tr[n].report # None

EInv == CInv /\ FilesOwned /\ FilesNew /\ \A n \in Names : Recent(n)

\* The tester has at most the last submission of a strategy, and its row says how far it is.
TesterFacts(n) ==
    /\ queue[n] \subseteq {subs[n]} /\ owed[n] \subseteq {subs[n]}
    /\ running[n] \in {None, Id(subs[n])}
    /\ running[n] # None <=> row[n].state = "RUNNING"
    /\ queue[n] # {} => running[n] = None /\ owed[n] = {}
    /\ owed[n] # {} => row[n].state \in {"RUNNING", "RESULT"}
    /\ row[n].state = "RESULT" <=> row[n].id # None
    /\ \A r \in {row[n], rows[n]} : r.state = "RESULT" => r.id # None /\ Entries(n, r.id) # {}

Owns(report, n) == report \notin {None, Ended} /\ report.name = n

\* Nothing of a strategy is under way in the tester, and the collector will take in nothing
\* of what it left.
InTester(n) == queue[n] # {} \/ running[n] # None \/ owed[n] # {}
Quiet(n) ==
    \/ inHand = Ended
    \/ ~Owns(inHand, n) /\ (Owns(file[Path[n]], n) => file[Path[n]] \in inspected)
Idle(n) == ~InTester(n) /\ Quiet(n)

\* While the tester still shows the result of before a submission, no snapshot can go with it.
Waits(n) ==
    /\ queue[n] # {} /\ row[n].state # "TEST" => snap[n] = None /\ Quiet(n)
    /\ queue[n] # {} /\ pc = "examine" => rows[n] = row[n]

\* The reasons for another attempt hold only of a strategy that is not in the tester.
AgainFacts(n) ==
    /\ "old" \in {tr[n].launchedAt, tr[n].missingSince} => Idle(n)
    /\ tr[n].seen => queue[n] = {}
    /\ tr[n].seen /\ "TEST" \in {rows[n].state, tr[n].state} =>
            ~InTester(n) /\ row[n].state = "TEST"
    /\ pc = "examine" /\ rows[n].state = "RUNNING" => queue[n] = {}

\* A strategy this call has not launched.
Unlaunched(n) ==
    n \notin launched /\ outcome = "none" =>
        /\ Idle(n) /\ snap[n] = None
        /\ rows[n] = row[n] /\ row[n].id \in base[n] \cup {None}
        /\ ~tr[n].seen /\ tr[n].launchedAt = "none" /\ tr[n].missingSince = "none"
        /\ ~tr[n].done /\ ~tr[n].failed

\* A second poll of a report reads a row of after the run.
PollFacts(n) ==
    /\ tr[n].polls >= 1 => queue[n] = {}
    /\ pc = "examine" /\ tr[n].polls >= 1 /\ rows[n].state = "RESULT" => running[n] = None
    /\ tr[n].done => ~tr[n].failed
    /\ tr[n].failed => tr[n].attempts >= MaxAttempts

Busy(n) == queue[n] # {} \/ running[n] # None

Lanes ==
    /\ pending \cap launched = {}
    /\ outcome = "none" => \A n \in Names : Busy(n) => n \in Active
    /\ outcome = "none" => \A m, n \in Active : Lane(m) = Lane(n) => m = n
    /\ \A m, n \in Names : Busy(m) /\ Busy(n) /\ Lane(m) = Lane(n) => m = n

Facts(n) ==
    /\ TesterFacts(n)
    /\ n \notin names => ~tr[n].failed
    /\ n \in names => Waits(n) /\ AgainFacts(n) /\ Unlaunched(n) /\ PollFacts(n)

IInv == EInv /\ Lanes /\ \A n \in Names : Facts(n)

\* The report of the last submission is written once.
WrittenOnce(n) ==
    Report(n, subs[n]) \in inspected \/ file[Path[n]] = Report(n, subs[n]) =>
        queue[n] = {} /\ owed[n] = {}
NoneAhead(n) ==
    \A k \in Nat : Report(n, k) \in inspected \/ file[Path[n]] = Report(n, k) => k <= subs[n]

\* A mishap or a restart answers for each attempt.
Blamed(n) == blame[n] + restarts >= subs[n]

\* An attempt that nothing answers for yet is under way, and so is its report.
Account(n) ==
    n \in Active /\ outcome = "none" /\ ~Blamed(n) =>
        \/ subs[n] \in queue[n]
        \/ /\ row[n].state # "TEST"
           /\ \/ subs[n] \in owed[n] \/ snap[n] # None
              \/ Uncopied(file[Path[n]]) /\ file[Path[n]].name = n

\* So a strategy is tried again, or given up, only if each of its attempts is answered for.
Justified(n) ==
    /\ blame[n] + restarts >= subs[n] - 1
    /\ n \in names =>
        /\ "old" \in {tr[n].launchedAt, tr[n].missingSince} => Blamed(n)
        /\ tr[n].seen /\ "TEST" \in {rows[n].state, tr[n].state} /\ ~tr[n].done => Blamed(n)
        /\ n \notin launched /\ outcome = "none" => Blamed(n)
        /\ tr[n].failed => Blamed(n)
        /\ Account(n)

WInv == IInv /\ \A n \in Names : WrittenOnce(n) /\ NoneAhead(n)
LInv == WInv /\ (inHand = Ended => crashed) /\ \A e \in log : e.id = Id(e.run)
JInv == LInv /\ inHand # Ended /\ \A n \in Names : Justified(n)

USE ConstantsAssumption

-----------------------------------------------------------------------------
(* The operators of the module.                                              *)

LEMMA RunIdValues ==
    /\ None \in RunIds /\ \A k \in Nat : Id(k) \in RunIds /\ Id(k) # None
    /\ \A k, l \in Nat : Id(k) = Id(l) => k = l
    /\ \A k : Id(k).k = k
BY DEF RunIds, None, Id

LEMMA ReportValues ==
    /\ None \in Reports /\ Ended \notin Reports /\ Ended # None
    /\ \A n, k : Report(n, k) # None /\ Report(n, k).name = n
    /\ \A n, m, k, l : Report(n, k) = Report(m, l) <=> n = m /\ k = l
    /\ \A n \in Names, k \in Nat : Report(n, k) \in Reports
    /\ \A r \in Reports : r # None => r.name \in Names /\ \E k \in Nat : r = Report(r.name, k)
<1>1. \A n, k : Report(n, k) # None /\ Report(n, k).name = n
  BY DEF None, Report
<1>2. \A n, m, k, l : Report(n, k) = Report(m, l) <=> n = m /\ k = l
  BY DEF Report
<1>3. None \in Reports /\ \A n \in Names, k \in Nat : Report(n, k) \in Reports
  BY DEF Reports
<1>5. Ended \notin Reports /\ Ended # None
  <2>1. Ended.of = "ended" /\ None.of = "none" /\ \A n, k : Report(n, k).of = "strategy"
    BY DEF Report, None, Ended
  <2> QED BY <2>1 DEF Reports
<1>4. \A r \in Reports : r # None => r.name \in Names /\ \E k \in Nat : r = Report(r.name, k)
  BY <1>1 DEF Reports
<1> QED BY <1>1, <1>2, <1>3, <1>4, <1>5

LEMMA TrackerValues ==
    ASSUME NEW k \in Nat
    PROVE  /\ Tracker(k) \in Trackers /\ Tracker(k).attempts = k /\ Tracker(k).state = "NONE"
           /\ Tracker(k).report = None /\ Tracker(k).polls = 0
           /\ Tracker(k).launchedAt = "none" /\ Tracker(k).missingSince = "none"
           /\ ~Tracker(k).seen /\ ~Tracker(k).done /\ ~Tracker(k).failed
BY RunIdValues, ReportValues DEF Tracker, Trackers, States, NoStamp

\* What a launch makes of a tracker, without and with the resets of a retry.
LEMMA LaunchedValues ==
    ASSUME Types, NEW n \in Names
    PROVE  LET t == Launched(n) IN
           /\ t \in Trackers /\ t.attempts = tr[n].attempts + 1 /\ t.state = tr[n].state
           /\ t.report = None /\ t.polls = 0 /\ t.launchedAt = "set" /\ ~t.done
           /\ t.missingSince = tr[n].missingSince /\ t.seen = tr[n].seen
           /\ t.failed = tr[n].failed
<1>1. tr[n] \in Trackers
  BY DEF Types
<1> DEFINE t == Launched(n)
<1>2. /\ t.attempts = tr[n].attempts + 1 /\ t.state = tr[n].state
      /\ t.report = None /\ t.polls = 0 /\ t.launchedAt = "set" /\ ~t.done
      /\ t.missingSince = tr[n].missingSince /\ t.seen = tr[n].seen
      /\ t.failed = tr[n].failed
  BY <1>1 DEF Launched, Trackers
<1>3. t \in Trackers
  <2>1. None \in RunIds /\ None \in Reports
    BY RunIdValues, ReportValues
  <2>2. tr[n].attempts + 1 \in Nat
    BY <1>1 DEF Trackers
  <2>3. \A i \in RunIds, r \in Reports, k \in Nat :
            [tr[n] EXCEPT !.attempts = k, !.id = i, !.report = r, !.polls = 0, !.done = FALSE,
                          !.launchedAt = "set"] \in Trackers
    BY Zenon, <1>1 DEF Trackers
  <2> QED BY Zenon, <2>1, <2>2, <2>3 DEF Launched
<1> QED BY <1>2, <1>3

LEMMA ResetValues ==
    ASSUME Types, NEW n \in Names
    PROVE  LET t == Reset(n) IN
           /\ t \in Trackers /\ t.attempts = tr[n].attempts + 1 /\ t.state = tr[n].state
           /\ t.report = None /\ t.polls = 0 /\ t.launchedAt = "set" /\ ~t.done
           /\ t.missingSince = "none" /\ ~t.seen /\ t.failed = tr[n].failed
<1> DEFINE l == Launched(n)
           t == Reset(n)
<1>1. /\ l \in Trackers /\ l.attempts = tr[n].attempts + 1 /\ l.state = tr[n].state
      /\ l.report = None /\ l.polls = 0 /\ l.launchedAt = "set" /\ ~l.done
      /\ l.failed = tr[n].failed
  BY LaunchedValues
<1>2. t = [l EXCEPT !.missingSince = NoStamp, !.seen = FALSE]
  BY DEF Reset
<1> HIDE DEF l, t
<1>3. t \in Trackers
  BY Zenon, <1>1, <1>2 DEF NoStamp, Trackers
<1>4. /\ t.attempts = l.attempts /\ t.state = l.state /\ t.report = l.report /\ t.polls = l.polls
      /\ t.launchedAt = l.launchedAt /\ t.done = l.done /\ t.failed = l.failed
      /\ t.missingSince = "none" /\ t.seen = FALSE
  BY Zenon, <1>1, <1>2 DEF NoStamp, Trackers
<1>5. /\ t \in Trackers /\ t.attempts = tr[n].attempts + 1 /\ t.state = tr[n].state
      /\ t.report = None /\ t.polls = 0 /\ t.launchedAt = "set" /\ ~t.done
      /\ t.missingSince = "none" /\ ~t.seen /\ t.failed = tr[n].failed
  BY <1>1, <1>3, <1>4
<1> QED BY <1>5 DEF t

\* What a poll makes of a tracker.
LEMMA ObservedValues ==
    ASSUME Types, NEW n \in Names
    PROVE  LET t == Observed(n) IN
           /\ t \in Trackers /\ t.attempts = tr[n].attempts /\ t.state = rows[n].state
           /\ t.seen <=> tr[n].seen \/ rows[n].state = "RUNNING"
           /\ t.launchedAt \in {"none", tr[n].launchedAt}
           /\ t.failed = tr[n].failed
           /\ \/ /\ t.report = tr[n].report /\ t.polls = tr[n].polls /\ t.done = tr[n].done
                 /\ \/ t.missingSince \in {"none", tr[n].missingSince}
                    \/ rows[n].state = "RESULT" /\ rows[n].id \notin base[n]
                       /\ t.missingSince = "set"
              \/ /\ rows[n].state = "RESULT" /\ snap[n] # None
                 /\ t.missingSince = "none" /\ t.report = snap[n]
                 /\ t.polls = IF tr[n].report = snap[n] THEN tr[n].polls + 1 ELSE 1
                 /\ t.done <=> t.polls >= StablePolls
<1>1. tr[n] \in Trackers /\ rows[n] \in Rows /\ snap[n] \in Reports
  BY DEF Types
<1> DEFINE u == [tr[n] EXCEPT !.state = rows[n].state,
                              !.seen = @ \/ rows[n].state = "RUNNING",
                              !.launchedAt = IF rows[n].state = "RUNNING" THEN NoStamp ELSE @,
                              !.id = IF rows[n].id = None THEN @ ELSE rows[n].id]
<1>2. /\ u \in Trackers /\ u.attempts = tr[n].attempts /\ u.state = rows[n].state
      /\ u.seen = (tr[n].seen \/ rows[n].state = "RUNNING")
      /\ u.launchedAt \in {"none", tr[n].launchedAt} /\ u.missingSince = tr[n].missingSince
      /\ u.failed = tr[n].failed /\ u.report = tr[n].report /\ u.polls = tr[n].polls
      /\ u.done = tr[n].done
  BY ZenonT(30), <1>1 DEF Trackers, Rows, States, NoStamp
<1> HIDE DEF u
<1> DEFINE stamped == IF u.missingSince = NoStamp THEN "set" ELSE u.missingSince
           polls == IF u.report = snap[n] THEN u.polls + 1 ELSE 1
<1>3. \/ Observed(n) = [u EXCEPT !.missingSince = NoStamp]
      \/ Observed(n) = u
      \/ rows[n].state = "RESULT" /\ rows[n].id \notin base[n]
         /\ Observed(n) = [u EXCEPT !.missingSince = stamped]
      \/ rows[n].state = "RESULT" /\ snap[n] # None
         /\ Observed(n) = [u EXCEPT !.missingSince = NoStamp, !.report = snap[n],
                                    !.polls = polls, !.done = polls >= StablePolls]
  BY <1>2 DEF Observed, u, Trackers
<1>4. CASE Observed(n) = [u EXCEPT !.missingSince = NoStamp]
  BY <1>2, <1>4 DEF Trackers, NoStamp
<1>5. CASE Observed(n) = u
  BY <1>2, <1>5
<1>6. CASE rows[n].state = "RESULT" /\ rows[n].id \notin base[n]
           /\ Observed(n) = [u EXCEPT !.missingSince = stamped]
  BY <1>2, <1>6 DEF Trackers, NoStamp
<1>7. CASE rows[n].state = "RESULT" /\ snap[n] # None
           /\ Observed(n) = [u EXCEPT !.missingSince = NoStamp, !.report = snap[n],
                                      !.polls = polls, !.done = polls >= StablePolls]
  <2>1. polls \in Nat /\ (polls >= StablePolls) \in BOOLEAN
    BY <1>2 DEF Trackers
  <2> HIDE DEF polls
  <2>2. /\ Observed(n) \in Trackers
        /\ Observed(n).attempts = u.attempts /\ Observed(n).state = u.state
        /\ Observed(n).seen = u.seen /\ Observed(n).launchedAt = u.launchedAt
        /\ Observed(n).failed = u.failed /\ Observed(n).missingSince = "none"
        /\ Observed(n).report = snap[n] /\ Observed(n).polls = polls
        /\ Observed(n).done = (polls >= StablePolls)
    <3> DEFINE t == Observed(n)
               enough == polls >= StablePolls
    <3>1. t = [u EXCEPT !.missingSince = NoStamp, !.report = snap[n], !.polls = polls,
                        !.done = enough]
      BY <1>7
    <3>2. enough \in BOOLEAN
      BY <2>1
    <3> HIDE DEF t, enough
    <3>3. /\ t \in Trackers
          /\ t.attempts = u.attempts /\ t.state = u.state /\ t.seen = u.seen
          /\ t.launchedAt = u.launchedAt /\ t.failed = u.failed /\ t.missingSince = "none"
          /\ t.report = snap[n] /\ t.polls = polls /\ t.done = enough
      BY <1>1, <1>2, <2>1, <3>1, <3>2 DEF Trackers, NoStamp
    <3> QED BY <3>3 DEF t, enough
  <2> QED BY <1>2, <1>7, <2>2 DEF polls
<1> QED BY <1>3, <1>4, <1>5, <1>6, <1>7

\* What the grace period and the end of a poll make of a tracker.
LEMMA TrackerUpdates ==
    ASSUME NEW t \in Trackers, NEW f \in BOOLEAN
    PROVE  /\ [t EXCEPT !.launchedAt = "old"] \in Trackers
           /\ [t EXCEPT !.launchedAt = "old"].attempts = t.attempts
           /\ [t EXCEPT !.missingSince = "old"] \in Trackers
           /\ [t EXCEPT !.missingSince = "old"].attempts = t.attempts
           /\ [t EXCEPT !.failed = f] \in Trackers
           /\ [t EXCEPT !.failed = f].attempts = t.attempts
<1>1. /\ [t EXCEPT !.launchedAt = "old"] \in Trackers
      /\ [t EXCEPT !.launchedAt = "old"].attempts = t.attempts
  BY DEF Trackers
<1>2. /\ [t EXCEPT !.missingSince = "old"] \in Trackers
      /\ [t EXCEPT !.missingSince = "old"].attempts = t.attempts
  BY DEF Trackers
<1>3. /\ [t EXCEPT !.failed = f] \in Trackers
      /\ [t EXCEPT !.failed = f].attempts = t.attempts
  BY DEF Trackers
<1> QED BY <1>1, <1>2, <1>3

\* The earliest of some runs is one of them.
LEMMA MinIsMember == ASSUME NEW S \in SUBSET Nat, S # {} PROVE Min(S) \in S
<1> DEFINE less == {pair \in Nat \X Nat : pair[1] < pair[2]}
<1>1. IsWellFoundedOn(less, Nat)
  BY NatLessThanWellFounded DEF OpToRel
<1>2. PICK i \in S : \A j \in S : <<j, i>> \notin less
  <2> HIDE DEF less
  <2> QED BY <1>1, WFMin
<1>3. ASSUME NEW j \in S PROVE i <= j
  <2>1. i \in Nat /\ j \in Nat
    OBVIOUS
  <2>2. ~(j < i)
    BY <1>2, <2>1
  <2> QED BY <2>1, <2>2
<1> QED BY <1>3 DEF Min

-----------------------------------------------------------------------------
(* The types, and the count of the attempts, whatever fails.                 *)

LEMMA InitCInv == Init => CInv
<1> SUFFICES ASSUME Init PROVE CInv
  OBVIOUS
<1>1. \A n \in Names : Tracker(Used[n]) \in Trackers /\ Tracker(Used[n]).attempts = Used[n]
  BY TrackerValues
<1>2. row \in [Names -> Rows]
  BY RunIdValues DEF Init, Row, Rows, States
<1>3. \A n \in Names : Report(n, 0) \in Reports
  BY ReportValues
<1>4. file \in [Paths -> Reports]
  <2>1. {None} \cup {Report(n, 0) : n \in Left} \subseteq Reports
    BY <1>3, ReportValues
  <2> QED BY <2>1 DEF Init
<1>5. base \in [Names -> SUBSET RunIds]
  <2>1. log \subseteq [name : Names, id : RunIds, run : Nat]
    BY RunIdValues DEF Init
  <2>2. \A n \in Names : row[n].id \in RunIds
    BY <1>2 DEF Rows
  <2> QED BY <2>1, <2>2 DEF Init, Baseline
<1>6. Types
  <2>1. tr \in [Names -> Trackers]
    BY <1>1 DEF Init
  <2>2. /\ rows = row /\ running \in [Names -> RunIds] /\ snap \in [Names -> Reports]
        /\ inHand \in Reports
    BY RunIdValues, ReportValues DEF Init
  <2>3. inspected \subseteq Reports \ {None}
    BY <1>4 DEF Init, Seeded
  <2>4. log \subseteq [name : Names, id : RunIds, run : Nat]
    BY RunIdValues DEF Init
  <2> QED BY <1>2, <1>4, <1>5, <2>1, <2>2, <2>3, <2>4 DEF Init, Types
<1> QED BY <1>1, <1>6 DEF CInv, Counted, Init

\* The tracker a launch gives to a strategy, and what the tester makes of the request.
LEMMA LaunchTypes ==
    ASSUME Types, Counted, NEW n \in names, NEW t \in Trackers, t.attempts = tr[n].attempts + 1,
           tr[n].attempts < MaxAttempts, NEW next \in {"submit", "retry"}, pc # "end",
           Launch(n, t, next)
    PROVE  /\ tr' \in [Names -> Trackers] /\ base' \in [Names -> SUBSET RunIds]
           /\ snap' \in [Names -> Reports] /\ counts' \in [Names -> Nat]
           /\ subs' \in [Names -> Nat] /\ blame' \in [Names -> Nat]
           /\ queue' \in [Names -> SUBSET Nat] /\ launched' \subseteq names
           /\ pc' \in {next, "end"} /\ (outcome' = "none" <=> pc' # "end")
           /\ \A m \in Names : counts'[m] = Used[m] + subs'[m]
           /\ \A m \in names : tr'[m].attempts = counts'[m]
           /\ \A m \in Names : counts'[m] <= MaxAttempts \/ subs'[m] = 0
<1> USE DEF Types
<1>1. n \in Names /\ t.attempts \in Nat
  BY DEF Trackers
<1>2. subs' = [subs EXCEPT ![n] = @ + 1] /\ counts' = [counts EXCEPT ![n] = t.attempts]
      /\ tr' = [tr EXCEPT ![n] = t]
  BY DEF Launch, Send
<1>3. snap' = [snap EXCEPT ![n] = None] /\ base' = [base EXCEPT ![n] = @ \cup ({tr[n].id} \ {None})]
  BY DEF Launch, Forget
<1>4. tr[n].id \in RunIds
  BY <1>1 DEF Trackers
<1>5. subs'[n] \in Nat
  BY <1>1, <1>2
<1>6. queue' \in [Names -> SUBSET Nat] /\ launched' \subseteq names
  BY <1>1, <1>5 DEF Launch, Send
<1>7. blame' \in [Names -> Nat]
  BY <1>1 DEF Launch, Send, Blame
<1>8. pc' \in {next, "end"} /\ (outcome' = "none" <=> pc' # "end")
  BY DEF Launch, Send
<1>9. snap' \in [Names -> Reports] /\ base' \in [Names -> SUBSET RunIds]
  BY <1>1, <1>3, <1>4, ReportValues
<1>10. tr' \in [Names -> Trackers] /\ counts' \in [Names -> Nat] /\ subs' \in [Names -> Nat]
  BY <1>1, <1>2
<1>11. \A m \in Names : counts'[m] = Used[m] + subs'[m]
  BY <1>1, <1>2 DEF Counted
<1>12. \A m \in names : tr'[m].attempts = counts'[m]
  BY <1>1, <1>2 DEF Counted
<1>13. \A m \in Names : counts'[m] <= MaxAttempts \/ subs'[m] = 0
  BY <1>1, <1>2 DEF Counted, Trackers
<1> QED BY <1>6, <1>7, <1>8, <1>9, <1>10, <1>11, <1>12, <1>13

LEMMA TesterKeepsCInv ==
    ASSUME CInv, NEW n \in Names, Tester(n) \/ Drop(n) \/ LoseReport(n) \/ GracePasses(n)
    PROVE  CInv'
<1> USE DEF CInv, Types, Counted, call
<1>1. CASE Start(n)
  <2>1. Min(queue[n]) \in Nat
    BY <1>1, MinIsMember DEF Start
  <2>2. Row("RUNNING", None) \in Rows
    BY RunIdValues DEF Row, Rows, States
  <2> QED BY <1>1, <2>1, <2>2, RunIdValues DEF Start, collector
<1>2. CASE WriteReport(n)
  <2>1. Min(owed[n]) \in Nat
    BY <1>2, MinIsMember DEF WriteReport
  <2>2. Report(n, Min(owed[n])) \in Reports
    BY <2>1, ReportValues
  <2>3. file' \in [Paths -> Reports] /\ owed' \in [Names -> SUBSET Nat]
    BY <1>2, <2>1, <2>2 DEF WriteReport
  <2>4. blame' \in [Names -> Nat]
    <3>1. PICK x : blame' = blame \/ blame' = [blame EXCEPT ![x] = @ + 1]
      BY <1>2 DEF WriteReport
    <3>2. blame \in [Names -> Nat]
      OBVIOUS
    <3> QED BY <3>1, <3>2
  <2> QED BY <1>2, <2>3, <2>4 DEF WriteReport, collector
<1>3. CASE Finish(n)
  <2>1. \A i \in {running[n], Id(0)} : Row("RESULT", i) \in Rows
    BY RunIdValues DEF Row, Rows, States
  <2>2. running[n].k \in Nat /\ {running[n], Id(0)} \subseteq RunIds
    <3>1. running[n] \in RunIds /\ running[n] # None
      BY <1>3 DEF Finish
    <3>2. PICK k \in Nat : running[n] = Id(k)
      BY <3>1 DEF RunIds
    <3> QED BY <3>1, <3>2, RunIdValues
  <2>0. PICK i \in {running[n], Id(0)}, kept \in SUBSET log :
            /\ row' = [row EXCEPT ![n] = Row("RESULT", i)]
            /\ log' = kept \cup {[name |-> n, id |-> i, run |-> running[n].k]}
    BY <1>3 DEF Finish
  <2>3. log' \subseteq [name : Names, id : RunIds, run : Nat]
    BY <2>0, <2>2
  <2>4. row' \in [Names -> Rows] /\ running' \in [Names -> RunIds]
    BY <1>3, <2>0, <2>1, RunIdValues DEF Finish
  <2> QED BY <1>3, <2>3, <2>4 DEF Finish, collector
<1>4. CASE Drop(n)
  <2>1. Row("TEST", None) \in Rows
    BY RunIdValues DEF Row, Rows, States
  <2> QED BY <1>4, <2>1, RunIdValues DEF Drop, Blame, collector
<1>5. CASE LoseReport(n)
  BY <1>5 DEF LoseReport, Blame, collector
<1>6. CASE GracePasses(n)
  <2>1. /\ [tr[n] EXCEPT !.launchedAt = "old"] \in Trackers
        /\ [tr[n] EXCEPT !.missingSince = "old"] \in Trackers
        /\ [tr[n] EXCEPT !.launchedAt = "old"].attempts = tr[n].attempts
        /\ [tr[n] EXCEPT !.missingSince = "old"].attempts = tr[n].attempts
    BY TrackerUpdates
  <2>2. \/ tr' = [tr EXCEPT ![n] = [tr[n] EXCEPT !.launchedAt = "old"]]
        \/ tr' = [tr EXCEPT ![n] = [tr[n] EXCEPT !.missingSince = "old"]]
    BY <1>6 DEF GracePasses
  <2>3. tr' \in [Names -> Trackers] /\ \A m \in Names : tr'[m].attempts = tr[m].attempts
    <3>1. PICK t \in Trackers : tr' = [tr EXCEPT ![n] = t] /\ t.attempts = tr[n].attempts
      BY Zenon, <2>1, <2>2
    <3>2. tr \in [Names -> Trackers]
      OBVIOUS
    <3> HIDE DEF CInv, Types, Counted, call
    <3> QED BY <3>1, <3>2
  <2>4. /\ blame' = [blame EXCEPT ![n] = @ + 1] \/ blame' = blame
        /\ UNCHANGED <<row, queue, running, owed, log, file, pending, launched, base, names, from,
                       restarts, counts, pc, rows, todo, outcome, inspected, inHand, snap, subs>>
    BY Zenon, <1>6 DEF GracePasses, Blame, collector, table
  <2>5. blame' \in [Names -> Nat]
    BY <2>4
  <2>6. Types'
    BY <2>3, <2>4, <2>5
  <2> QED BY <2>3, <2>4, <2>6
<1> QED BY <1>1, <1>2, <1>3, <1>4, <1>5, <1>6 DEF Tester

LEMMA CollectorKeepsCInv == ASSUME CInv, Collector PROVE CInv'
<1> USE DEF CInv, Types, Counted, call, table
<1>1. CASE Copy
  <2>1. inHand.name \in Names
    BY <1>1, ReportValues DEF Copy
  <2>2. file[Path[inHand.name]] \in Reports
    BY <2>1 DEF Paths
  <2>3. snap' \in [Names -> Reports] /\ blame' \in [Names -> Nat] /\ inHand' \in Reports \cup {Ended}
    <3> DEFINE n == inHand.name
    <3>1. /\ snap' = snap \/ snap' = [snap EXCEPT ![n] = file[Path[n]]]
          /\ blame' = blame \/ blame' = [blame EXCEPT ![n] = @ + 1]
          /\ inHand' \in {None, Ended}
      BY <1>1 DEF Copy, Blame
    <3>2. snap \in [Names -> Reports] /\ blame \in [Names -> Nat]
      OBVIOUS
    <3> HIDE DEF n, CInv
    <3> QED BY <2>2, <3>1, <3>2, ReportValues DEF n
  <2> QED BY <1>1, <2>3 DEF Copy
<1>2. ASSUME NEW p \in Paths, Inspect(p) PROVE CInv'
  BY <1>2 DEF Inspect
<1> QED BY <1>1, <1>2 DEF Collector

LEMMA MonitorKeepsCInv == ASSUME CInv, Monitor PROVE CInv'
<1> USE DEF CInv, Types, Counted, call
<1>1. CASE Look
  BY <1>1 DEF Look, table, collector
<1>2. CASE Examine
  <2>1. \A n \in Names : Observed(n) \in Trackers /\ Observed(n).attempts = tr[n].attempts
    BY ObservedValues
  <2>2. tr' \in [Names -> Trackers] /\ \A n \in Names : tr'[n].attempts = tr[n].attempts
    BY <1>2, <2>1 DEF Examine
  <2> QED BY <1>2, <2>2 DEF Examine, table, collector
<1>3. CASE Judge
  <2>1. \A n \in Names, f \in BOOLEAN :
            /\ [tr[n] EXCEPT !.failed = f] \in Trackers
            /\ [tr[n] EXCEPT !.failed = f].attempts = tr[n].attempts
    BY TrackerUpdates
  <2>2. tr' \in [Names -> Trackers] /\ \A n \in Names : tr'[n].attempts = tr[n].attempts
    <3>1. CASE tr' = tr
      BY <3>1
    <3>2. CASE tr' = [n \in Names |-> [tr[n] EXCEPT !.failed = @ \/ n \in Exhausted]]
      <4> DEFINE failed(n) == tr[n].failed \/ n \in Exhausted
      <4>1. \A n \in Names : failed(n) \in BOOLEAN
        OBVIOUS
      <4>2. tr' = [n \in Names |-> [tr[n] EXCEPT !.failed = failed(n)]]
        BY <3>2
      <4> HIDE DEF failed
      <4> QED BY <2>1, <4>1, <4>2
    <3> QED BY <1>3, <3>1, <3>2 DEF Judge
  <2>4. pc' \in {"submit", "end"} /\ (outcome' = "none" <=> pc' # "end")
    BY <1>3 DEF Judge
  <2> QED BY <1>3, <2>2, <2>4 DEF Judge, table, collector
<1>4. ASSUME NEW n \in Names, Submit(n) PROVE CInv'
  <2>1. n \in names /\ pc = "submit"
    BY <1>4 DEF Submit, Free
  <2>2. CASE tr[n].attempts >= MaxAttempts
    BY <1>4, <2>2 DEF Submit, collector
  <2>3. CASE ~(tr[n].attempts >= MaxAttempts)
    <3>1. Launched(n) \in Trackers /\ Launched(n).attempts = tr[n].attempts + 1
      BY LaunchedValues
    <3>2. tr[n].attempts < MaxAttempts
      BY <2>1, <2>3 DEF Trackers
    <3>3. Launch(n, Launched(n), "submit")
      BY <1>4, <2>3 DEF Submit
    <3> QED BY <1>4, <2>1, <3>1, <3>2, <3>3, LaunchTypes DEF Submit, collector
  <2> QED BY <2>2, <2>3
<1>5. ASSUME NEW n \in Names, Retry(n) PROVE CInv'
  <2>1. n \in names /\ pc = "retry"
    BY <1>5 DEF Retry
  <2>2. CASE ~(Again(n) /\ tr[n].attempts < MaxAttempts)
    BY <1>5, <2>2 DEF Retry, collector
  <2>3. CASE Again(n) /\ tr[n].attempts < MaxAttempts
    <3>1. Reset(n) \in Trackers /\ Reset(n).attempts = tr[n].attempts + 1
      BY ResetValues
    <3>2. Launch(n, Reset(n), "retry")
      BY <1>5, <2>3 DEF Retry
    <3> QED BY <1>5, <2>1, <2>3, <3>1, <3>2, LaunchTypes DEF Retry, collector
  <2> QED BY <2>2, <2>3
<1> QED BY <1>1, <1>2, <1>3, <1>4, <1>5 DEF Monitor

LEMMA RestartKeepsCInv == ASSUME CInv, Stall \/ Restart \/ UNCHANGED vars PROVE CInv'
<1> USE DEF CInv, Types, Counted, call
<1>1. CASE Stall
  BY <1>1 DEF Stall, table, collector
<1>2. CASE UNCHANGED vars
  BY <1>2 DEF vars, table, collector
<1>3. CASE Restart
  <2>1. Row("TEST", None) \in Rows
    BY RunIdValues DEF Row, Rows, States
  <2>2. \A n \in Names : Tracker(counts[n]) \in Trackers /\ Tracker(counts[n]).attempts = counts[n]
    BY TrackerValues
  <2>3. row' \in [Names -> Rows] /\ tr' \in [Names -> Trackers]
    BY <1>3, <2>1, <2>2 DEF Restart
  <2>4. Baseline \in [Names -> SUBSET RunIds]
    BY DEF Baseline, Rows
  <2>5. Seeded \subseteq Reports \ {None}
    BY DEF Seeded
  <2> QED BY <1>3, <2>2, <2>3, <2>4, <2>5, RunIdValues, ReportValues DEF Restart
<1> QED BY <1>1, <1>2, <1>3

LEMMA CInvHolds == Spec => []CInv
<1>1. CInv /\ [Next]_vars => CInv'
  BY TesterKeepsCInv, CollectorKeepsCInv, MonitorKeepsCInv, RestartKeepsCInv DEF Next, Done
<1> QED BY <1>1, InitCInv, PTL DEF Spec

\* However requests fail, runs end and the bot restarts, no strategy that had attempts left is
\* submitted more often than max_strategy_attempts allows.
THEOREM AttemptsKept == Spec => []AttemptsBounded
<1>1. CInv => AttemptsBounded
  BY DEF CInv, Types, Counted, AttemptsBounded
<1> QED BY <1>1, CInvHolds, PTL

-----------------------------------------------------------------------------
(* The evidence, whatever fails.                                             *)

LEMMA NewValues ==
    ASSUME Types
    PROVE  /\ \A n, k : New(Report(n, k)) <=> from[n] < k /\ k <= subs[n]
           /\ ~New(None)
<1>1. \A n, k : Report(n, k).name = n /\ Report(n, k).run = k /\ Report(n, k) # None
  BY ReportValues DEF Report
<1> QED BY <1>1 DEF New

\* What the steps of the tester leave alone.
TesterFrame == UNCHANGED <<tr, pending, launched, base, call, counts, pc, rows, todo, outcome,
                           collector, snap, subs>>

LEMMA TesterKeepsEInv ==
    ASSUME EInv, NEW n \in Names, Tester(n) \/ Drop(n) \/ LoseReport(n)
    PROVE  EInv'
<1>1. Types /\ TesterFrame /\ Recent(n) /\ Path[n] \in Paths
  BY DEF EInv, CInv, Tester, Start, WriteReport, Finish, Drop, LoseReport, TesterFrame, Paths
<1> USE DEF TesterFrame, call, collector
<1>2. \A m \in Names : queue'[m] \cup owed'[m] \subseteq queue[m] \cup owed[m]
  <2>1. queue[n] \in SUBSET Nat
    BY <1>1 DEF Types
  <2>2. CASE Start(n)
    <3>1. Min(queue[n]) \in queue[n]
      BY <2>1, <2>2, MinIsMember DEF Start
    <3>2. /\ queue' = [queue EXCEPT ![n] = @ \ {Min(queue[n])}]
          /\ owed' = [owed EXCEPT ![n] = @ \cup {Min(queue[n])}]
      BY <2>2 DEF Start
    <3> QED BY <1>1, <3>1, <3>2 DEF Types
  <2>3. CASE ~Start(n)
    <3>1. queue' = queue /\ (owed' = owed \/ \E k : owed' = [owed EXCEPT ![n] = @ \ {k}])
      BY <2>3 DEF Tester, WriteReport, Finish, Drop, LoseReport
    <3> QED BY <1>1, <3>1 DEF Types
  <2> QED BY <2>2, <2>3
<1>3. /\ \A r : New(r)' <=> New(r)
      /\ \A m \in Names : Recent(m)'
  <2>1. \A r : New(r)' <=> New(r)
    BY <1>1 DEF New
  <2> QED BY <1>1, <1>2, <2>1 DEF EInv, Recent
<1>4. FilesOwned' /\ FilesNew'
  <2>1. CASE WriteReport(n)
    <3>1. Min(owed[n]) \in owed[n]
      BY <1>1, <2>1, MinIsMember DEF WriteReport, Types
    <3>2. file' = [file EXCEPT ![Path[n]] = Report(n, Min(owed[n]))]
      BY <2>1 DEF WriteReport
    <3>3. New(Report(n, Min(owed[n]))) /\ Report(n, Min(owed[n])).name = n
      BY <1>1, <3>1, NewValues, ReportValues DEF Recent
    <3>4. inHand \notin {None, Ended} => Path[inHand.name] \in Paths
      BY <1>1, ReportValues DEF Types, Paths
    <3>5. \A p \in Paths : \/ file'[p] = file[p]
                           \/ p = Path[n] /\ New(file'[p]) /\ file'[p].name = n
      BY <1>1, <3>2, <3>3 DEF Types
    <3>6. FilesOwned'
      BY <3>5 DEF EInv, FilesOwned
    <3>7. FilesNew'
      BY <1>1, <1>3, <3>4, <3>5 DEF EInv, FilesNew
    <3> QED BY <3>6, <3>7
  <2>2. CASE file' = file
    BY <1>1, <1>3, <2>2 DEF EInv, FilesOwned, FilesNew
  <2> QED BY <2>1, <2>2 DEF Tester, Start, Finish, Drop, LoseReport
<1> QED BY <1>3, <1>4, TesterKeepsCInv DEF EInv

LEMMA CollectorKeepsEInv == ASSUME EInv, Collector PROVE EInv'
<1>1. /\ Types
      /\ UNCHANGED <<table, file, tr, pending, launched, base, call, counts, pc, rows, todo,
                     outcome, subs>>
  BY DEF EInv, CInv, Collector, Copy, Inspect
<1> USE DEF table, call
<1>2. \A r : New(r)' <=> New(r)
  BY <1>1 DEF New
<1>3. CASE Copy
  <2> DEFINE h == inHand.name
  <2>1. h \in Names /\ New(file[Path[h]]) /\ inHand' \in {None, Ended} /\ inspected' = inspected
    BY <1>1, <1>3, ReportValues DEF Copy, EInv, FilesNew, Types
  <2>2. snap' = snap \/ (snap' = [snap EXCEPT ![h] = file[Path[h]]] /\ file[Path[h]].name = h)
    BY <1>3 DEF Copy
  <2>3. \A m \in Names : snap'[m] # None => New(snap'[m]) /\ snap'[m].name = m
    BY <1>1, <2>1, <2>2 DEF EInv, Recent, Types
  <2>4. \A m \in Names : Recent(m)'
    BY <1>1, <1>2, <2>3 DEF EInv, Recent
  <2>5. FilesOwned' /\ FilesNew'
    BY <1>1, <1>2, <2>1 DEF EInv, FilesOwned, FilesNew
  <2> QED BY <2>4, <2>5, CollectorKeepsCInv DEF EInv
<1>4. ASSUME NEW p \in Paths, Inspect(p) PROVE EInv'
  <2>1. /\ file[p] \notin inspected /\ file[p] # None /\ inspected \subseteq inspected'
        /\ inHand' = None \/ inHand' = file[p]
    BY <1>4 DEF Inspect
  <2>2. New(file[p]) /\ Path[file[p].name] = p /\ snap' = snap
    BY <1>4, <2>1 DEF EInv, FilesNew, FilesOwned, Inspect
  <2>3. \A m \in Names : Recent(m)'
    BY <1>1, <1>2, <2>2 DEF EInv, Recent
  <2>4. FilesOwned' /\ FilesNew'
    BY <1>1, <1>2, <2>1, <2>2 DEF EInv, FilesOwned, FilesNew
  <2> QED BY <1>4, <2>3, <2>4, CollectorKeepsCInv DEF EInv, Collector
<1> QED BY <1>3, <1>4 DEF Collector

\* What launch makes of the evidence of a strategy.
LEMMA LaunchKeepsRecent ==
    ASSUME Types, NEW n \in names, Recent(n), NEW t \in Trackers, t.report = None, ~t.done,
           NEW next \in {"submit", "retry"}, Launch(n, t, next), owed' = owed, call' = call
    PROVE  /\ Recent(n)'
           /\ \A m \in Names \ {n} : subs'[m] = subs[m] /\ snap'[m] = snap[m] /\ tr'[m] = tr[m]
                                    /\ queue'[m] = queue[m]
           /\ \A r \in Reports : New(r) => New(r)'
<1>1. n \in Names /\ {subs[n], from[n]} \subseteq Nat
  BY DEF Types
<1>2. /\ tr' = [tr EXCEPT ![n] = t] /\ subs' = [subs EXCEPT ![n] = @ + 1]
      /\ snap' = [snap EXCEPT ![n] = None]
      /\ queue' = queue \/ queue' = [queue EXCEPT ![n] = @ \cup {subs'[n]}]
  BY DEF Launch, Forget, Send
<1>3. /\ subs'[n] = subs[n] + 1 /\ tr'[n] = t /\ snap'[n] = None /\ from' = from
      /\ queue'[n] \subseteq queue[n] \cup {subs[n] + 1} /\ names' = names
  BY <1>1, <1>2 DEF Types, call
<1>4. queue[n] \in SUBSET Nat /\ owed[n] \in SUBSET Nat
  BY <1>1 DEF Types
<1>5. Recent(n)'
  BY <1>1, <1>3, <1>4 DEF Recent
<1>6. \A m \in Names \ {n} : subs'[m] = subs[m] /\ snap'[m] = snap[m] /\ tr'[m] = tr[m]
                              /\ queue'[m] = queue[m]
  BY <1>1, <1>2 DEF Types
<1>7. \A m \in Names : subs'[m] >= subs[m] /\ subs'[m] \in Nat /\ subs[m] \in Nat
  BY <1>1, <1>3, <1>6 DEF Types
<1>8. ASSUME NEW r \in Reports, New(r) PROVE New(r)'
  <2>1. r.name \in Names /\ r.run \in Nat
    <3>1. PICK k \in Nat : r = Report(r.name, k) /\ r.name \in Names
      BY <1>8, ReportValues DEF New
    <3>2. Report(r.name, k).run = k
      BY DEF Report
    <3> QED BY <3>1, <3>2
  <2> QED BY <1>3, <1>7, <1>8, <2>1 DEF New
<1> QED BY <1>5, <1>6, <1>8

\* The tracker after a step that is no launch has no other evidence but the snapshot.
LEMMA TrackersKeepEInv ==
    ASSUME EInv, CInv',
           UNCHANGED <<table, file, launched, base, call, counts, collector, snap, subs>>,
           \A n \in names :
               \/ tr'[n].report = tr[n].report /\ tr'[n].done = tr[n].done
               \/ tr'[n].report = snap[n] /\ snap[n] # None
    PROVE  EInv'
<1> USE DEF table, call, collector
<1>1. \A r : New(r)' <=> New(r)
  BY DEF New
<1>2. \A m \in Names : Recent(m)'
  BY <1>1 DEF EInv, Recent
<1>3. FilesOwned' /\ FilesNew'
  BY <1>1 DEF EInv, FilesOwned, FilesNew
<1> QED BY <1>2, <1>3 DEF EInv

LEMMA LaunchKeepsEInv ==
    ASSUME EInv, CInv', NEW n \in names, NEW t \in Trackers, t.report = None, ~t.done,
           NEW next \in {"submit", "retry"}, Launch(n, t, next),
           UNCHANGED <<row, running, owed, log, file, call, rows, collector>>
    PROVE  EInv'
<1>1. Types /\ n \in Names /\ Recent(n)
  BY DEF EInv, CInv, Types
<1> USE DEF call, collector
<1>2. /\ Recent(n)'
      /\ \A m \in Names \ {n} : subs'[m] = subs[m] /\ snap'[m] = snap[m] /\ tr'[m] = tr[m]
                               /\ queue'[m] = queue[m]
      /\ \A r \in Reports : New(r) => New(r)'
  BY <1>1, LaunchKeepsRecent
<1>3. ASSUME NEW m \in Names, m # n PROVE Recent(m)'
  <2>1. snap[m] \in Reports /\ tr[m].report \in Reports
    BY <1>1 DEF Types, Trackers
  <2> QED BY <1>2, <1>3, <2>1 DEF EInv, Recent
<1>4. FilesOwned' /\ FilesNew'
  <2>1. inHand \notin {None, Ended} => Path[inHand.name] \in Paths
    BY <1>1, ReportValues DEF Types, Paths
  <2> QED BY <1>1, <1>2, <2>1 DEF EInv, FilesOwned, FilesNew, Types
<1> QED BY <1>2, <1>3, <1>4 DEF EInv

LEMMA MonitorKeepsEInv == ASSUME EInv, Monitor PROVE EInv'
<1>1. CInv' /\ Types /\ names \subseteq Names
  BY MonitorKeepsCInv DEF EInv, CInv, Types
<1>2. CASE Look
  BY <1>1, <1>2, TrackersKeepEInv DEF Look
<1>3. CASE Examine
  <2>1. \A n \in names : tr'[n] = tr[n] \/ tr'[n] = Observed(n)
    BY <1>1, <1>3 DEF Examine
  <2>2. \A n \in names :
            \/ tr'[n].report = tr[n].report /\ tr'[n].done = tr[n].done
            \/ tr'[n].report = snap[n] /\ snap[n] # None
    BY <1>1, <2>1, ObservedValues
  <2> QED BY <1>1, <1>3, <2>2, TrackersKeepEInv DEF Examine
<1>4. CASE Judge
  <2>1. \A n \in names : tr'[n].report = tr[n].report /\ tr'[n].done = tr[n].done
    <3>1. CASE tr' = tr
      BY <3>1
    <3>2. CASE tr' = [n \in Names |-> [tr[n] EXCEPT !.failed = @ \/ n \in Exhausted]]
      BY <1>1, <3>2 DEF Types, Trackers
    <3> QED BY <1>4, <3>1, <3>2 DEF Judge
  <2> QED BY <1>1, <1>4, <2>1, TrackersKeepEInv DEF Judge
<1>5. ASSUME NEW n \in Names, Submit(n) PROVE EInv'
  <2>1. n \in names
    BY <1>1, <1>5 DEF Submit, Free, Types
  <2>2. CASE tr[n].attempts >= MaxAttempts
    BY <1>1, <1>5, <2>2, TrackersKeepEInv DEF Submit, table
  <2>3. CASE ~(tr[n].attempts >= MaxAttempts)
    <3>1. Launched(n) \in Trackers /\ Launched(n).report = None /\ ~Launched(n).done
      BY <1>1, LaunchedValues
    <3>2. Launch(n, Launched(n), "submit")
      BY <1>5, <2>3 DEF Submit
    <3> QED BY <1>1, <1>5, <2>1, <3>1, <3>2, LaunchKeepsEInv DEF Submit
  <2> QED BY <2>2, <2>3
<1>6. ASSUME NEW n \in Names, Retry(n) PROVE EInv'
  <2>1. n \in names
    BY <1>1, <1>6 DEF Retry, Types
  <2>2. CASE ~(Again(n) /\ tr[n].attempts < MaxAttempts)
    BY <1>1, <1>6, <2>2, TrackersKeepEInv DEF Retry, table
  <2>3. CASE Again(n) /\ tr[n].attempts < MaxAttempts
    <3>1. Reset(n) \in Trackers /\ Reset(n).report = None /\ ~Reset(n).done
      BY <1>1, ResetValues
    <3>2. Launch(n, Reset(n), "retry")
      BY <1>6, <2>3 DEF Retry
    <3> QED BY <1>1, <1>6, <2>1, <3>1, <3>2, LaunchKeepsEInv DEF Retry
  <2> QED BY <2>2, <2>3
<1> QED BY <1>2, <1>3, <1>4, <1>5, <1>6 DEF Monitor

LEMMA RestKeepsEInv ==
    ASSUME EInv, (\E n \in Names : GracePasses(n)) \/ Stall \/ Restart \/ UNCHANGED vars
    PROVE  EInv'
<1>1. CInv' /\ Types
  BY TesterKeepsCInv, RestartKeepsCInv DEF EInv, CInv
<1>2. ASSUME NEW n \in Names, GracePasses(n) PROVE EInv'
  <2>1. \A m \in Names : tr'[m].report = tr[m].report /\ tr'[m].done = tr[m].done
    <3>1. \/ tr' = [tr EXCEPT ![n] = [tr[n] EXCEPT !.launchedAt = "old"]]
          \/ tr' = [tr EXCEPT ![n] = [tr[n] EXCEPT !.missingSince = "old"]]
      BY <1>2 DEF GracePasses
    <3>2. tr'[n].report = tr[n].report /\ tr'[n].done = tr[n].done
      BY <1>1, <3>1 DEF Types, Trackers
    <3>3. \A m \in Names \ {n} : tr'[m] = tr[m]
      BY <1>1, <3>1 DEF Types
    <3> QED BY <3>2, <3>3
  <2>2. names \subseteq Names
    BY <1>1 DEF Types
  <2> QED BY <1>1, <1>2, <2>1, <2>2, TrackersKeepEInv DEF GracePasses
<1>3. CASE Stall
  BY <1>1, <1>3, TrackersKeepEInv DEF Stall
<1>4. CASE UNCHANGED vars
  BY <1>1, <1>4, TrackersKeepEInv DEF vars
<1>5. CASE Restart
  <2>1. /\ from' = subs /\ subs' = subs /\ file' = file /\ inHand' = None
        /\ inspected' = {file[p] : p \in Paths} \ {None}
        /\ queue' = [n \in Names |-> {}] /\ owed' = [n \in Names |-> {}]
        /\ snap' = [n \in Names |-> None]
        /\ \A n \in names' : n \in names /\ tr'[n] = Tracker(counts[n])
    BY <1>1, <1>5 DEF Restart, Types, Seeded
  <2>2. \A n \in names' : tr'[n].report = None /\ ~tr'[n].done
    BY <1>1, <2>1, TrackerValues DEF Types
  <2>3. \A n \in Names : Recent(n)'
    BY <1>1, <2>1, <2>2 DEF Recent, Types
  <2>4. FilesOwned' /\ FilesNew'
    BY <2>1 DEF EInv, FilesOwned, FilesNew
  <2> QED BY <1>1, <2>3, <2>4 DEF EInv
<1> QED BY <1>2, <1>3, <1>4, <1>5

LEMMA InitEInv == Init => EInv
<1> SUFFICES ASSUME Init PROVE EInv
  OBVIOUS
<1>1. CInv /\ Types
  BY InitCInv DEF CInv
<1>2. FilesOwned /\ FilesNew
  BY DEF Init, Seeded, FilesOwned, FilesNew
<1>3. ASSUME NEW n \in Names PROVE Recent(n)
  <2>1. tr[n] = Tracker(Used[n]) /\ Used[n] \in Nat /\ from[n] = 0 /\ subs[n] = 0
        /\ snap[n] = None /\ queue[n] = {} /\ owed[n] = {}
    BY DEF Init
  <2> QED BY <2>1, TrackerValues DEF Recent
<1> QED BY <1>1, <1>2, <1>3 DEF EInv

LEMMA EInvHolds == Spec => []EInv
<1>1. EInv /\ [Next]_vars => EInv'
  BY TesterKeepsEInv, CollectorKeepsEInv, MonitorKeepsEInv, RestKeepsEInv DEF Next, Done
<1> QED BY <1>1, InitEInv, PTL DEF Spec

\* Whatever the tester, the collector and the requests do, and however late they are, the report
\* that completes a strategy is its own and of a run of this call.
THEOREM EvidenceIsFresh == Spec => []FreshEvidence
<1>1. ASSUME EInv, NEW n \in names, tr[n].done
      PROVE  \E k \in from[n] + 1 .. subs[n] : tr[n].report = Report(n, k)
  <2>1. n \in Names /\ tr[n].report \in Reports /\ {from[n], subs[n]} \subseteq Nat
    BY <1>1 DEF EInv, CInv, Types, Trackers
  <2>2. New(tr[n].report) /\ tr[n].report.name = n /\ tr[n].report # None
    BY <1>1, <2>1 DEF EInv, Recent
  <2>3. PICK k \in Nat : tr[n].report = Report(n, k)
    BY <2>1, <2>2, ReportValues
  <2>4. from[n] < k /\ k <= subs[n]
    BY <1>1, <2>2, <2>3, NewValues DEF EInv, CInv
  <2> QED BY <2>1, <2>3, <2>4
<1>2. EInv => FreshEvidence
  BY <1>1 DEF FreshEvidence
<1> QED BY <1>2, EInvHolds, PTL

-----------------------------------------------------------------------------
(* The tester's steps, and how far each strategy is.                         *)

\* No run starts or reports later than the grace period, and no copy is made later.
Timely == "slow" \notin Faults

\* What a step of the tester leaves of a strategy it is not about.
Untouched(m) ==
    /\ row'[m] = row[m] /\ queue'[m] = queue[m] /\ running'[m] = running[m] /\ owed'[m] = owed[m]
    /\ \/ file'[Path[m]] = file[Path[m]]
       \/ ~Owns(file'[Path[m]], m)
    /\ \A i : Entries(m, i)' = Entries(m, i)

LEMMA UntouchedKeeps ==
    ASSUME NEW m \in Names, Facts(m), TesterFrame, Untouched(m)
    PROVE  Facts(m)'
<1> USE DEF TesterFrame, call, collector, Untouched
<1>1. TesterFacts(m)'
  BY DEF Facts, TesterFacts
<1>2. (Quiet(m) => Quiet(m)') /\ (InTester(m)' <=> InTester(m))
  BY DEF Quiet, InTester, Owns
<1>3. m \in names => Waits(m)'
  BY <1>2 DEF Facts, Waits
<1>4. Idle(m) => Idle(m)'
  BY <1>2 DEF Idle
<1>5. m \in names => AgainFacts(m)'
  BY <1>2, <1>4 DEF Facts, AgainFacts
<1>6. m \in names => Unlaunched(m)'
  BY <1>4 DEF Facts, Unlaunched
<1>7. m \in names => PollFacts(m)'
  BY DEF Facts, PollFacts
<1> QED BY <1>1, <1>3, <1>5, <1>6, <1>7 DEF Facts

LEMMA StartKeeps == ASSUME IInv, NEW n \in Names, Start(n) PROVE IInv'
<1>t. Types /\ subs[n] \in Nat /\ queue[n] \in SUBSET Nat
  BY DEF IInv, EInv, CInv, Types
<1>f. Facts(n)
  BY DEF IInv
<1>1. /\ queue[n] = {subs[n]} /\ running[n] = None /\ Min(queue[n]) = subs[n]
      /\ owed[n] = {} /\ row[n].state # "RUNNING"
  <2>1. queue[n] \subseteq {subs[n]} /\ queue[n] # {}
    BY <1>f DEF Start, Facts, TesterFacts
  <2>2. Min(queue[n]) \in queue[n]
    BY <1>t, <2>1, MinIsMember
  <2> QED BY <1>f, <2>1, <2>2 DEF Facts, TesterFacts
<1>2. /\ queue' = [queue EXCEPT ![n] = @ \ {subs[n]}] /\ running' = [running EXCEPT ![n] = Id(subs[n])]
      /\ owed' = [owed EXCEPT ![n] = @ \cup {subs[n]}]
      /\ row' = [row EXCEPT ![n] = Row("RUNNING", None)]
      /\ log' = log /\ file' = file /\ blame' = blame /\ TesterFrame
  BY <1>1 DEF Start, TesterFrame
<1>3. \A m \in Names \ {n} : Untouched(m)
  BY <1>t, <1>2 DEF Types, Untouched, Entries
<1>4. /\ queue'[n] = {} /\ running'[n] = Id(subs[n]) /\ owed'[n] = {subs[n]}
      /\ row'[n].state = "RUNNING" /\ row'[n].id = None /\ Id(subs[n]) # None
  BY <1>t, <1>1, <1>2, RunIdValues DEF Types, Row
<1> USE DEF TesterFrame, call, collector
<1>6. Facts(n)'
  <2>1. TesterFacts(n)'
    BY <1>f, <1>1, <1>2, <1>4 DEF Facts, TesterFacts, Entries
  <2>3. n \in names => Waits(n)' /\ AgainFacts(n)' /\ Unlaunched(n)' /\ PollFacts(n)'
    BY <1>f, <1>t, <1>1, <1>2, <1>4
       DEF Facts, TesterFacts, Waits, AgainFacts, Unlaunched, PollFacts, Idle, InTester
  <2> QED BY <1>f, <1>2, <2>1, <2>3 DEF Facts
<1>7. Lanes'
  <2>1. \A m \in Names : Busy(m)' <=> Busy(m)
    BY <1>1, <1>3, <1>4 DEF Busy, Untouched
  <2> QED BY <1>2, <2>1 DEF IInv, Lanes, Active, Settled, Lane
<1>8. EInv'
  BY TesterKeepsEInv DEF IInv, Tester
<1> QED BY <1>2, <1>3, <1>6, <1>7, <1>8, UntouchedKeeps DEF IInv

LEMMA WriteReportKeeps == ASSUME IInv, NEW n \in Names, WriteReport(n) PROVE IInv'
<1>t. /\ Types /\ n \in DOMAIN queue /\ subs[n] \in Nat
      /\ owed[n] \in SUBSET Nat /\ Path[n] \in Paths
  BY DEF IInv, EInv, CInv, Types, Paths
<1>f. Facts(n)
  BY DEF IInv
<1>1. /\ owed[n] = {subs[n]} /\ queue[n] = {} /\ Min(owed[n]) = subs[n]
      /\ row[n].state \in {"RUNNING", "RESULT"}
  <2>1. owed[n] \subseteq {subs[n]} /\ owed[n] # {}
    BY <1>f DEF WriteReport, Facts, TesterFacts
  <2>2. Min(owed[n]) \in owed[n]
    BY <1>t, <2>1, MinIsMember
  <2> QED BY <1>f, <1>t, <2>1, <2>2 DEF Facts, TesterFacts
<1>2. /\ owed' = [owed EXCEPT ![n] = @ \ {subs[n]}]
      /\ file' = [file EXCEPT ![Path[n]] = Report(n, subs[n])]
      /\ UNCHANGED <<row, queue, running, log>> /\ TesterFrame
  BY <1>1 DEF WriteReport, TesterFrame
<1>3. \A m \in Names \ {n} : Untouched(m)
  <2>1. \A p : file'[p] = file[p] \/ file'[p].name = n
    BY <1>t, <1>2, ReportValues DEF Types
  <2> QED BY <1>t, <1>2, <2>1 DEF Types, Untouched, Owns, Entries
<1>4. owed'[n] = {} /\ file'[Path[n]] = Report(n, subs[n])
  BY <1>t, <1>1, <1>2 DEF Types
<1> USE DEF TesterFrame, call, collector
<1>6. Facts(n)'
  <2>1. TesterFacts(n)'
    BY <1>f, <1>t, <1>1, <1>2, <1>4, RunIdValues DEF Facts, TesterFacts, Entries
  <2>3. n \in names => Waits(n)' /\ AgainFacts(n)' /\ Unlaunched(n)' /\ PollFacts(n)'
    BY <1>f, <1>t, <1>1, <1>2, <1>4
       DEF Facts, TesterFacts, Waits, AgainFacts, Unlaunched, PollFacts, Idle, InTester
  <2> QED BY <1>f, <1>t, <1>2, <1>4, <2>1, <2>3 DEF Facts
<1>7. Lanes'
  <2>1. \A m \in Names : Busy(m)' => Busy(m)
    BY <1>1, <1>2, <1>3, <1>4 DEF Busy, Untouched
  <2> QED BY <1>2, <2>1 DEF IInv, Lanes, Active, Settled, Lane
<1>8. EInv'
  BY TesterKeepsEInv DEF IInv, Tester
<1> QED BY <1>2, <1>3, <1>6, <1>7, <1>8, UntouchedKeeps DEF IInv

LEMMA FinishKeeps == ASSUME IInv, NEW n \in Names, Finish(n) PROVE IInv'
<1>t. /\ Types /\ n \in DOMAIN queue /\ subs[n] \in Nat
      /\ owed[n] \in SUBSET Nat /\ Path[n] \in Paths
  BY DEF IInv, EInv, CInv, Types, Paths
<1>f. Facts(n)
  BY DEF IInv
<1>1. running[n] = Id(subs[n]) /\ running[n] # None /\ queue[n] = {} /\ row[n].state = "RUNNING"
  BY <1>f DEF Finish, Facts, TesterFacts
<1>2. PICK i \in {Id(subs[n]), Id(0)}, kept \in SUBSET log :
        /\ kept \in {log, log \ Entries(n, i)}
        /\ row' = [row EXCEPT ![n] = Row("RESULT", i)]
        /\ log' = kept \cup {[name |-> n, id |-> i, run |-> running[n].k]}
        /\ running' = [running EXCEPT ![n] = None]
        /\ UNCHANGED <<queue, owed, file, blame>> /\ TesterFrame
  <2>1. /\ running' = [running EXCEPT ![n] = None]
        /\ UNCHANGED <<queue, owed, file, blame>> /\ TesterFrame
    BY DEF Finish, TesterFrame
  <2>2. PICK i \in {running[n]} \cup {Id(0)} :
            /\ row' = [row EXCEPT ![n] = Row("RESULT", i)]
            /\ \E kept \in {log, log \ Entries(n, i)} :
                    log' = kept \cup {[name |-> n, id |-> i, run |-> running[n].k]}
    BY DEF Finish
  <2>3. PICK kept \in {log, log \ Entries(n, i)} :
            log' = kept \cup {[name |-> n, id |-> i, run |-> running[n].k]}
    BY <2>2
  <2>4. kept \in SUBSET log /\ i \in {Id(subs[n]), Id(0)}
    BY <1>1, <2>3
  <2> QED BY <2>1, <2>2, <2>3, <2>4
<1>3. \A m \in Names \ {n} : Untouched(m)
  <2>1. \A m \in Names \ {n} : \A j : Entries(m, j)' = Entries(m, j)
    BY <1>2 DEF Entries
  <2> QED BY <1>t, <1>2, <2>1 DEF Types, Untouched
<1>4. /\ running'[n] = None /\ row'[n].state = "RESULT" /\ row'[n].id = i /\ i # None
      /\ \A j : j = i \/ Entries(n, j) # {} => Entries(n, j)' # {}
  <2>1. \A j : j = i \/ Entries(n, j) # {} => Entries(n, j)' # {}
    <3> DEFINE new == [name |-> n, id |-> i, run |-> running[n].k]
    <3>1. new.name = n /\ new.id = i /\ new \in log'
      BY <1>2
    <3> HIDE DEF new
    <3>2. new \in Entries(n, i)'
      BY <3>1 DEF Entries
    <3>3. ASSUME NEW j, j # i, NEW e \in Entries(n, j) PROVE e \in Entries(n, j)'
      <4>1. e \in log /\ e.name = n /\ e.id = j /\ e \notin Entries(n, i)
        BY <3>3 DEF Entries
      <4>2. e \in log'
        BY <1>2, <4>1
      <4> QED BY <4>1, <4>2 DEF Entries
    <3> QED BY <3>2, <3>3
  <2> QED BY <1>t, <1>2, <2>1, RunIdValues DEF Types, Row
<1> USE DEF TesterFrame, call, collector
<1>6. Facts(n)'
  <2>1. TesterFacts(n)'
    <3>1. \A x \in {row'[n], rows[n]} : x.state = "RESULT" => x.id # None /\ Entries(n, x.id)' # {}
      BY <1>f, <1>4 DEF Facts, TesterFacts
    <3> QED BY <1>f, <1>1, <1>2, <1>4, <3>1 DEF Facts, TesterFacts
  <2>3. n \in names => Waits(n)' /\ AgainFacts(n)' /\ Unlaunched(n)' /\ PollFacts(n)'
    BY <1>f, <1>t, <1>1, <1>2, <1>4
       DEF Facts, TesterFacts, Waits, AgainFacts, Unlaunched, PollFacts, Idle, InTester
  <2> QED BY <1>f, <1>t, <1>2, <1>4, <2>1, <2>3 DEF Facts
<1>7. Lanes'
  <2>1. \A m \in Names : Busy(m)' => Busy(m)
    BY <1>1, <1>2, <1>3, <1>4 DEF Busy, Untouched
  <2> QED BY <1>2, <2>1 DEF IInv, Lanes, Active, Settled, Lane
<1>8. EInv'
  BY TesterKeepsEInv DEF IInv, Tester
<1> QED BY <1>2, <1>3, <1>6, <1>7, <1>8, UntouchedKeeps DEF IInv

LEMMA DropKeeps == ASSUME IInv, NEW n \in Names, Drop(n) PROVE IInv'
<1>t. /\ Types /\ n \in DOMAIN queue /\ subs[n] \in Nat
      /\ owed[n] \in SUBSET Nat /\ Path[n] \in Paths
  BY DEF IInv, EInv, CInv, Types, Paths
<1>f. Facts(n)
  BY DEF IInv
<1>1. /\ running[n] = Id(subs[n]) /\ queue[n] = {} /\ row[n].state = "RUNNING"
      /\ running[n] # None /\ running[n].k = subs[n]
  BY <1>f, RunIdValues DEF Drop, Facts, TesterFacts
<1>2. /\ row' = [row EXCEPT ![n] = Row("TEST", None)] /\ owed' = [owed EXCEPT ![n] = @ \ {subs[n]}]
      /\ running' = [running EXCEPT ![n] = None] /\ blame' = [blame EXCEPT ![n] = @ + 1]
      /\ UNCHANGED <<queue, log, file>> /\ TesterFrame
  BY <1>1 DEF Drop, Blame, TesterFrame
<1>3. \A m \in Names \ {n} : Untouched(m)
  BY <1>t, <1>2 DEF Types, Untouched, Entries
<1>4. /\ running'[n] = None /\ owed'[n] = {} /\ row'[n].state = "TEST" /\ row'[n].id = None
      /\ blame'[n] = blame[n] + 1
  <2>1. owed[n] \subseteq {subs[n]}
    BY <1>f DEF Facts, TesterFacts
  <2> QED BY <1>t, <1>2, <2>1 DEF Types, Row
<1> USE DEF TesterFrame, call, collector
<1>6. Facts(n)'
  <2>1. TesterFacts(n)'
    BY <1>f, <1>t, <1>1, <1>2, <1>4, RunIdValues DEF Facts, TesterFacts, Entries
  <2>3. n \in names => Waits(n)' /\ AgainFacts(n)' /\ Unlaunched(n)' /\ PollFacts(n)'
    BY <1>f, <1>t, <1>1, <1>2, <1>4
       DEF Facts, TesterFacts, Waits, AgainFacts, Unlaunched, PollFacts, Idle, InTester
  <2> QED BY <1>f, <1>t, <1>2, <1>4, <2>1, <2>3 DEF Facts
<1>7. Lanes'
  <2>1. \A m \in Names : Busy(m)' => Busy(m)
    BY <1>1, <1>2, <1>3, <1>4 DEF Busy, Untouched
  <2> QED BY <1>2, <2>1 DEF IInv, Lanes, Active, Settled, Lane
<1>8. EInv'
  BY TesterKeepsEInv DEF IInv, Tester
<1> QED BY <1>2, <1>3, <1>6, <1>7, <1>8, UntouchedKeeps DEF IInv

LEMMA LoseReportKeeps == ASSUME IInv, NEW n \in Names, LoseReport(n) PROVE IInv'
<1>t. /\ Types /\ n \in DOMAIN queue /\ subs[n] \in Nat
      /\ owed[n] \in SUBSET Nat /\ Path[n] \in Paths
  BY DEF IInv, EInv, CInv, Types, Paths
<1>f. Facts(n)
  BY DEF IInv
<1>1. owed[n] = {subs[n]} /\ queue[n] = {} /\ Min(owed[n]) = subs[n]
  <2>1. owed[n] \subseteq {subs[n]} /\ owed[n] # {}
    BY <1>f DEF LoseReport, Facts, TesterFacts
  <2>2. Min(owed[n]) \in owed[n]
    BY <1>t, <2>1, MinIsMember
  <2> QED BY <1>f, <1>t, <2>1, <2>2 DEF Facts, TesterFacts
<1>2. /\ owed' = [owed EXCEPT ![n] = @ \ {subs[n]}] /\ blame' = [blame EXCEPT ![n] = @ + 1]
      /\ UNCHANGED <<row, queue, running, log, file>> /\ TesterFrame
  BY <1>1 DEF LoseReport, Blame, TesterFrame
<1>3. \A m \in Names \ {n} : Untouched(m)
  BY <1>t, <1>2 DEF Types, Untouched, Entries
<1>4. owed'[n] = {} /\ blame'[n] = blame[n] + 1
  BY <1>t, <1>1, <1>2 DEF Types
<1> USE DEF TesterFrame, call, collector
<1>6. Facts(n)'
  <2>1. TesterFacts(n)'
    BY <1>f, <1>t, <1>1, <1>2, <1>4, RunIdValues DEF Facts, TesterFacts, Entries
  <2>3. n \in names => Waits(n)' /\ AgainFacts(n)' /\ Unlaunched(n)' /\ PollFacts(n)'
    BY <1>f, <1>t, <1>1, <1>2, <1>4
       DEF Facts, TesterFacts, Waits, AgainFacts, Unlaunched, PollFacts, Idle, InTester
  <2> QED BY <1>f, <1>t, <1>2, <1>4, <2>1, <2>3 DEF Facts
<1>7. Lanes'
  <2>1. \A m \in Names : Busy(m)' => Busy(m)
    BY <1>1, <1>2, <1>3, <1>4 DEF Busy, Untouched
  <2> QED BY <1>2, <2>1 DEF IInv, Lanes, Active, Settled, Lane
<1>8. EInv'
  BY TesterKeepsEInv DEF IInv, Tester
<1> QED BY <1>2, <1>3, <1>6, <1>7, <1>8, UntouchedKeeps DEF IInv

-----------------------------------------------------------------------------
(* The steps that leave the tester as it is.                                 *)

\* What they leave of a strategy, if they are not about it.
SameIn(m) ==
    /\ UNCHANGED <<row, running, owed, log, rows, file, inspected, inHand>>
    /\ queue'[m] = queue[m] /\ subs'[m] = subs[m]

LEMMA SameKeeps ==
    ASSUME NEW m \in Names, SameIn(m)
    PROVE  /\ (TesterFacts(m)' <=> TesterFacts(m)) /\ (Busy(m)' <=> Busy(m))
           /\ (Quiet(m)' <=> Quiet(m)) /\ (InTester(m)' <=> InTester(m)) /\ (Idle(m)' <=> Idle(m))
<1>1. \A i : Entries(m, i)' = Entries(m, i)
  BY DEF SameIn, Entries
<1>2. TesterFacts(m)' <=> TesterFacts(m)
  BY <1>1 DEF SameIn, TesterFacts
<1>3. Busy(m)' <=> Busy(m)
  BY DEF SameIn, Busy
<1>4. (Quiet(m)' <=> Quiet(m)) /\ (InTester(m)' <=> InTester(m))
  BY DEF SameIn, Quiet, InTester
<1> QED BY <1>2, <1>3, <1>4 DEF Idle

LEMMA FactsKept ==
    ASSUME NEW m \in Names, Facts(m), SameIn(m), tr'[m] = tr[m], snap'[m] = snap[m],
           base[m] \subseteq base'[m], names' = names, launched \subseteq launched',
           outcome' = "none" => outcome = "none", pc' = "examine" => pc = "examine"
    PROVE  Facts(m)'
<1>1. /\ TesterFacts(m)' /\ (Quiet(m)' <=> Quiet(m)) /\ (InTester(m)' <=> InTester(m))
      /\ (Idle(m)' <=> Idle(m))
  BY SameKeeps DEF Facts
<1>2. m \in names => Waits(m)'
  BY <1>1 DEF Facts, SameIn, Waits
<1>3. m \in names => AgainFacts(m)'
  BY <1>1 DEF Facts, SameIn, AgainFacts
<1>4. m \in names => Unlaunched(m)'
  BY <1>1 DEF Facts, SameIn, Unlaunched
<1>5. m \in names => PollFacts(m)'
  BY DEF Facts, SameIn, PollFacts
<1> QED BY <1>1, <1>2, <1>3, <1>4, <1>5 DEF Facts

\* A step of the collector does not make a strategy less quiet.
LEMMA CollectorKeepsFacts ==
    ASSUME NEW m \in Names, Facts(m),
           UNCHANGED <<table, tr, launched, base, call, pc, rows, outcome, subs>>,
           Quiet(m) => Quiet(m)' /\ snap'[m] = snap[m]
    PROVE  Facts(m)'
<1> USE DEF table, call
<1>1. TesterFacts(m)'
  BY DEF Facts, TesterFacts, Entries
<1>2. (InTester(m)' <=> InTester(m)) /\ (Idle(m) => Idle(m)' /\ snap'[m] = snap[m])
  BY DEF InTester, Idle
<1>3. m \in names => Waits(m)'
  BY DEF Facts, Waits
<1>4. m \in names => AgainFacts(m)'
  BY <1>2 DEF Facts, AgainFacts
<1>5. m \in names => Unlaunched(m)'
  BY <1>2 DEF Facts, Unlaunched
<1>6. m \in names => PollFacts(m)'
  BY DEF Facts, PollFacts
<1> QED BY <1>1, <1>3, <1>4, <1>5, <1>6 DEF Facts

LEMMA CollectorKeeps == ASSUME IInv, Collector PROVE IInv'
<1>1. /\ Types /\ FilesOwned
      /\ UNCHANGED <<table, file, tr, pending, launched, base, call, counts, pc, rows, todo,
                     outcome, subs>>
  BY DEF IInv, EInv, CInv, Collector, Copy, Inspect
<1>2. ASSUME NEW m \in Names, Quiet(m) PROVE Quiet(m)' /\ snap'[m] = snap[m]
  <2>1. CASE Copy
    <3>1. /\ inHand # None /\ inHand # Ended /\ inHand' \in {None, Ended}
          /\ inspected' = inspected /\ file' = file
      BY <2>1 DEF Copy
    <3>2. ~Owns(inHand, m) /\ ~Owns(inHand', m)
      BY <1>2, <3>1 DEF Quiet, Owns
    <3>3. m # inHand.name
      BY <3>1, <3>2 DEF Owns
    <3>4. snap'[m] = snap[m]
      BY <1>1, <2>1, <3>3 DEF Copy, Types
    <3>5. Owns(file[Path[m]], m) => file[Path[m]] \in inspected
      BY <1>2, <3>1 DEF Quiet
    <3> QED BY <3>1, <3>2, <3>4, <3>5 DEF Quiet
  <2>2. ASSUME NEW p \in Paths, Inspect(p) PROVE Quiet(m)' /\ snap'[m] = snap[m]
    <3>1. /\ inHand = None /\ file[p] # None /\ file[p] \notin inspected /\ snap' = snap
          /\ inspected' = inspected \cup {file[p]} /\ inHand' \in {None, file[p]} /\ file' = file
      BY <2>2 DEF Inspect
    <3>2. file[p] \in Reports /\ Path[file[p].name] = p
      BY <1>1, <3>1 DEF Types, FilesOwned
    <3>3. Owns(file[Path[m]], m) => file[Path[m]] \in inspected
      BY <1>2, <3>1, ReportValues DEF Quiet
    <3>4. ~Owns(file[p], m)
      BY <3>1, <3>2, <3>3 DEF Owns
    <3>5. ~Owns(inHand', m)
      BY <3>1, <3>4 DEF Owns
    <3> QED BY <3>1, <3>3, <3>5 DEF Quiet
  <2> QED BY <2>1, <2>2 DEF Collector
<1>3. ASSUME NEW m \in Names PROVE Facts(m)'
  BY <1>1, <1>2, CollectorKeepsFacts DEF IInv
<1>4. Lanes'
  BY <1>1 DEF IInv, Lanes, Busy, Active, Settled, Lane, table, call
<1> QED BY <1>3, <1>4, CollectorKeepsEInv DEF IInv

-----------------------------------------------------------------------------
(* The monitor's steps.                                                      *)

LEMMA LookKeeps == ASSUME IInv, Look PROVE IInv'
<1>1. /\ rows' = row /\ pc = "submit" /\ pc' = "examine"
      /\ UNCHANGED <<table, file, tr, pending, launched, base, call, counts, todo, outcome,
                     collector, snap, subs, blame>>
  BY DEF Look
<1> USE DEF table, call, collector
<1>2. ASSUME NEW m \in Names PROVE Facts(m)'
  <2>1. Facts(m) /\ (Quiet(m)' <=> Quiet(m)) /\ (InTester(m)' <=> InTester(m))
    BY <1>1 DEF IInv, Quiet, InTester
  <2>2. TesterFacts(m)' /\ (Idle(m)' <=> Idle(m))
    BY <1>1, <2>1 DEF Facts, TesterFacts, Entries, Idle
  <2>3. m \in names => Waits(m)'
    BY <1>1, <2>1 DEF Facts, Waits
  <2>4. /\ row[m].state = "RUNNING" => queue[m] = {}
        /\ row[m].state = "TEST" /\ queue[m] = {} => ~InTester(m)
        /\ row[m].state = "RESULT" => running[m] = None
    BY <2>1 DEF Facts, TesterFacts, InTester
  <2>5. m \in names => AgainFacts(m)'
    BY <1>1, <2>1, <2>2, <2>4 DEF Facts, AgainFacts
  <2>6. m \in names => Unlaunched(m)' /\ PollFacts(m)'
    BY <1>1, <2>1, <2>2, <2>4 DEF Facts, Unlaunched, PollFacts
  <2> QED BY <1>1, <2>1, <2>2, <2>3, <2>5, <2>6 DEF Facts
<1>3. Lanes'
  BY <1>1 DEF IInv, Lanes, Busy, Active, Settled, Lane
<1> QED BY <1>2, <1>3, MonitorKeepsEInv DEF IInv, Monitor

LEMMA ExamineKeeps == ASSUME IInv, Examine PROVE IInv'
<1>1. /\ pc = "examine" /\ pc' = "retry"
      /\ tr' = [n \in Names |->
                  IF n \in names /\ tr[n].attempts > 0 /\ ~Settled(n) THEN Observed(n) ELSE tr[n]]
      /\ UNCHANGED <<table, file, pending, launched, base, call, counts, rows, outcome,
                     collector, snap, subs, blame>>
  BY DEF Examine
<1> USE DEF table, call, collector
<1>2. ASSUME NEW m \in Names
      PROVE  \/ tr'[m] = tr[m]
             \/ m \in names /\ ~tr[m].done /\ ~tr[m].failed /\ tr'[m] = Observed(m)
  BY <1>1 DEF Settled
<1>3. Types /\ pc # "end" /\ outcome = "none"
  BY <1>1 DEF IInv, EInv, CInv, Types
<1>s. \A m \in Names : SameIn(m)
  BY <1>1 DEF SameIn
\* A report is counted only where the tester has no submission, and completes only where no
\* run is under way.
<1>p. ASSUME NEW m \in Names, m \in names
      PROVE  /\ rows[m].state = "RESULT" /\ snap[m] # None => queue[m] = {}
             /\ ~tr[m].done /\ Observed(m).done => ~Busy(m)
  <2>1. Facts(m) /\ tr[m].polls \in Nat
    BY <1>3 DEF IInv, Types, Trackers
  <2>2. rows[m].state = "RESULT" /\ snap[m] # None => queue[m] = {}
    BY <1>1, <1>p, <2>1 DEF Facts, Waits
  <2>3. ASSUME ~tr[m].done, Observed(m).done
        PROVE  rows[m].state = "RESULT" /\ snap[m] # None /\ tr[m].polls >= 1
    BY <1>3, <2>1, <2>3, ObservedValues
  <2>4. tr[m].polls >= 1 /\ rows[m].state = "RESULT" => running[m] = None
    BY <1>1, <1>p, <2>1 DEF Facts, PollFacts
  <2> QED BY <2>2, <2>3, <2>4 DEF Busy
<1>4. ASSUME NEW m \in Names PROVE Facts(m)'
  <2>1. Facts(m)
    BY DEF IInv
  <2>2. /\ TesterFacts(m)' /\ (Idle(m)' <=> Idle(m)) /\ (InTester(m)' <=> InTester(m))
        /\ (Quiet(m)' <=> Quiet(m))
    BY <1>s, <2>1, SameKeeps DEF Facts
  <2>3. CASE tr'[m] = tr[m]
    BY <1>1, <1>s, <2>1, <2>3, FactsKept
  <2>4. CASE m \in names /\ ~tr[m].done /\ ~tr[m].failed /\ tr'[m] = Observed(m)
    <3>0. Waits(m)'
      BY <1>1, <2>1, <2>2, <2>4 DEF Facts, Waits
    <3>1. AgainFacts(m)'
      <4>1. /\ "old" \in {tr'[m].launchedAt, tr'[m].missingSince} =>
                    "old" \in {tr[m].launchedAt, tr[m].missingSince}
            /\ tr'[m].seen <=> tr[m].seen \/ rows[m].state = "RUNNING"
            /\ tr'[m].state = rows[m].state
        BY <1>3, <2>4, ObservedValues
      <4> QED BY <1>1, <2>1, <2>2, <2>4, <4>1 DEF Facts, AgainFacts
    <3>2. Unlaunched(m)'
      <4>1. CASE m \in launched
        BY <1>1, <4>1 DEF Unlaunched
      <4>2. CASE m \notin launched
        <5>1. Unlaunched(m) /\ TesterFacts(m) /\ ~InTester(m) /\ snap[m] = None
          BY <1>3, <2>1, <2>4, <4>2 DEF Facts, Unlaunched, Idle
        <5>2. rows[m].state # "RUNNING" /\ (rows[m].state = "RESULT" => rows[m].id \in base[m])
          BY <1>3, <4>2, <5>1 DEF Unlaunched, TesterFacts, InTester
        <5>3. /\ ~tr'[m].seen /\ tr'[m].launchedAt = "none" /\ tr'[m].missingSince = "none"
              /\ ~tr'[m].done /\ ~tr'[m].failed
          BY <1>3, <2>4, <4>2, <5>1, <5>2, ObservedValues DEF Unlaunched
        <5> QED BY <1>1, <1>3, <2>2, <4>2, <5>1, <5>3 DEF Unlaunched
      <4> QED BY <4>1, <4>2
    <3>3. PollFacts(m)'
      <4>1. tr[m].polls \in Nat
        BY <1>3 DEF Types, Trackers
      <4>2. /\ tr'[m].polls = tr[m].polls \/ queue[m] = {}
            /\ tr'[m].failed = tr[m].failed /\ tr'[m].attempts = tr[m].attempts
        BY <1>3, <1>p, <2>4, ObservedValues
      <4> QED BY <1>1, <2>1, <2>4, <4>1, <4>2 DEF Facts, PollFacts
    <3> QED BY <1>1, <2>2, <2>4, <3>0, <3>1, <3>2, <3>3 DEF Facts
  <2> QED BY <1>2, <2>3, <2>4
<1>5. Lanes'
  <2>1. ASSUME NEW m \in Names, m \in Active, Busy(m) PROVE m \in Active'
    <3>1. CASE tr'[m] = tr[m]
      BY <1>1, <2>1, <3>1 DEF Active, Settled
    <3>2. CASE m \in names /\ ~tr[m].done /\ ~tr[m].failed /\ tr'[m] = Observed(m)
      <4>1. ~Observed(m).done
        BY <1>p, <2>1, <3>2
      <4> QED BY <1>1, <1>3, <2>1, <3>2, <4>1, ObservedValues DEF Active, Settled
    <3> QED BY <1>2, <3>1, <3>2
  <2>2. Active' \subseteq Active
    BY <1>1, <1>2, <1>3, ObservedValues DEF Active, Settled, Types
  <2>3. \A m \in Names : Busy(m)' <=> Busy(m)
    BY <1>s, SameKeeps
  <2> QED BY <1>1, <2>1, <2>2, <2>3 DEF IInv, Lanes, Lane
<1> QED BY <1>4, <1>5, MonitorKeepsEInv DEF IInv, Monitor

\* A strategy that is to be tried again is not in the tester, and was launched.
LEMMA AgainIsIdle ==
    ASSUME IInv, NEW n \in names, Again(n)
    PROVE  /\ n \in Names /\ ~InTester(n) /\ (row[n].state = "TEST" \/ Quiet(n))
           /\ ~tr[n].done /\ (outcome = "none" => n \in launched)
<1>1. n \in Names /\ AgainFacts(n) /\ Unlaunched(n)
  BY DEF IInv, EInv, CInv, Types, Facts
<1> QED BY <1>1 DEF Again, ReturnedToTest, MissingReport, NeverStarted, AgainFacts, Unlaunched, Idle

LEMMA JudgeKeeps == ASSUME IInv, Judge PROVE IInv'
<1>1. /\ pc = "retry" /\ pc' # "examine" /\ (outcome' = "none" => outcome = "none")
      /\ UNCHANGED <<table, file, pending, launched, base, call, counts, rows, todo, collector,
                     snap, subs, blame>>
  BY DEF Judge
<1>2. Types /\ outcome = "none"
  BY <1>1 DEF IInv, EInv, CInv, Types
<1>3. ASSUME NEW m \in Names
      PROVE  \/ tr'[m] = tr[m]
             \/ m \in Exhausted /\ tr'[m] = [tr[m] EXCEPT !.failed = TRUE]
  <2>1. CASE tr' = tr
    BY <2>1
  <2>2. CASE tr' = [n \in Names |-> [tr[n] EXCEPT !.failed = @ \/ n \in Exhausted]]
    <3>1. tr[m] \in Trackers /\ tr[m].failed \in BOOLEAN
      BY <1>2 DEF Types, Trackers
    <3>2. CASE m \in Exhausted
      BY <2>2, <3>1, <3>2
    <3>3. CASE m \notin Exhausted
      BY <2>2, <3>1, <3>3 DEF Trackers
    <3> QED BY <3>2, <3>3
  <2> QED BY <2>1, <2>2 DEF Judge
<1> USE DEF table, call, collector
<1>4. ASSUME NEW m \in Exhausted
      PROVE  /\ m \in names /\ m \in Names /\ ~InTester(m) /\ ~tr[m].done /\ m \in launched
             /\ tr[m].attempts >= MaxAttempts
  BY <1>2, AgainIsIdle DEF Exhausted
<1>5. \A t \in Trackers : LET u == [t EXCEPT !.failed = TRUE] IN
          /\ u.launchedAt = t.launchedAt /\ u.missingSince = t.missingSince /\ u.seen = t.seen
          /\ u.state = t.state /\ u.polls = t.polls /\ u.report = t.report /\ u.done = t.done
          /\ u.attempts = t.attempts /\ u.failed = TRUE
  BY DEF Trackers
<1>s. \A m \in Names : SameIn(m)
  BY <1>1 DEF SameIn
<1>6. ASSUME NEW m \in Names PROVE Facts(m)'
  <2>1. Facts(m) /\ tr[m] \in Trackers
    BY <1>2 DEF IInv, Types
  <2>2. /\ TesterFacts(m)' /\ (Idle(m)' <=> Idle(m)) /\ (InTester(m)' <=> InTester(m))
        /\ (Quiet(m)' <=> Quiet(m))
    BY <1>s, <2>1, SameKeeps DEF Facts
  <2>3. CASE tr'[m] = tr[m]
    BY <1>1, <1>s, <2>1, <2>3, FactsKept
  <2>4. CASE m \in Exhausted /\ tr'[m] = [tr[m] EXCEPT !.failed = TRUE]
    <3>0. Waits(m)'
      BY <1>1, <1>4, <2>1, <2>2, <2>4 DEF Facts, Waits
    <3>1. AgainFacts(m)'
      BY <1>1, <1>4, <1>5, <2>1, <2>2, <2>4 DEF AgainFacts, Facts
    <3>2. Unlaunched(m)' /\ PollFacts(m)'
      BY <1>1, <1>4, <1>5, <2>1, <2>4 DEF Unlaunched, PollFacts, Facts
    <3> QED BY <1>1, <1>4, <2>2, <2>4, <3>0, <3>1, <3>2 DEF Facts
  <2> QED BY <1>3, <2>3, <2>4
<1>7. Lanes'
  <2>2. ASSUME NEW m \in Names, Busy(m), m \in Active PROVE m \in Active'
    <3>1. tr'[m] = tr[m]
      BY <1>3, <1>4, <2>2 DEF Busy, InTester
    <3> QED BY <1>1, <2>2, <3>1 DEF Active, Settled
  <2>3. ASSUME NEW m \in Active' PROVE m \in Active
    <3>1. m \in launched /\ m \in Names /\ tr[m] \in Trackers /\ ~tr'[m].failed /\ ~tr'[m].done
      BY <1>1, <1>2, <2>3 DEF Active, Settled, Types
    <3>2. tr'[m] = tr[m]
      BY <1>3, <1>5, <3>1
    <3> QED BY <3>1, <3>2 DEF Active, Settled
  <2>4. \A m \in Names : Busy(m)' <=> Busy(m)
    BY <1>s, SameKeeps
  <2> QED BY <1>1, <1>2, <2>2, <2>3, <2>4 DEF IInv, Lanes, Lane
<1> QED BY <1>6, <1>7, MonitorKeepsEInv DEF IInv, Monitor

LEMMA GracePassesKeeps == ASSUME Timely, IInv, NEW n \in Names, GracePasses(n) PROVE IInv'
<1>1. /\ outcome = "none" /\ n \in Active /\ ~Coming(n)
      /\ \/ tr' = [tr EXCEPT ![n] = [tr[n] EXCEPT !.launchedAt = "old"]]
         \/ tr' = [tr EXCEPT ![n] = [tr[n] EXCEPT !.missingSince = "old"]]
      /\ UNCHANGED <<table, file, pending, launched, base, call, counts, pc, rows, todo, outcome,
                     collector, snap, subs>>
  BY DEF GracePasses, Blame, Timely
<1>2. Types /\ n \in launched /\ n \in names /\ Path[n] \in Paths
  BY <1>1 DEF IInv, EInv, CInv, Types, Active, Paths
<1>3. Idle(n)
  BY <1>1, <1>2 DEF Coming, CaughtUp, Idle, InTester, Quiet, Owns
<1>4. /\ tr'[n].seen = tr[n].seen /\ tr'[n].state = tr[n].state /\ tr'[n].polls = tr[n].polls
      /\ tr'[n].report = tr[n].report /\ tr'[n].done = tr[n].done /\ tr'[n].failed = tr[n].failed
      /\ tr'[n].attempts = tr[n].attempts
  BY <1>1, <1>2 DEF Types, Trackers
<1> USE DEF table, call, collector
<1>s. \A m \in Names : SameIn(m)
  BY <1>1 DEF SameIn
<1>5. ASSUME NEW m \in Names PROVE Facts(m)'
  <2>1. Facts(m)
    BY DEF IInv
  <2>2. CASE m # n
    <3>1. tr'[m] = tr[m]
      BY <1>1, <1>2, <2>2 DEF Types
    <3> QED BY <1>1, <1>s, <2>1, <3>1, FactsKept
  <2>3. CASE m = n
    <3>1. /\ TesterFacts(n)' /\ (Idle(n)' <=> Idle(n)) /\ (InTester(n)' <=> InTester(n))
          /\ (Quiet(n)' <=> Quiet(n))
      BY <1>s, <2>1, <2>3, SameKeeps DEF Facts
    <3>2. Waits(n)'
      BY <1>1, <1>2, <2>1, <2>3, <3>1 DEF Facts, Waits
    <3>3. AgainFacts(n)' /\ Unlaunched(n)' /\ PollFacts(n)'
      BY <1>1, <1>2, <1>3, <1>4, <2>1, <2>3, <3>1 DEF Facts, AgainFacts, Unlaunched, PollFacts
    <3> QED BY <1>1, <1>2, <2>3, <3>1, <3>2, <3>3 DEF Facts
  <2> QED BY <2>2, <2>3
<1>6. Lanes'
  <2>1. \A m \in launched : Settled(m)' <=> Settled(m)
    BY <1>1, <1>2, <1>4 DEF Settled, Types
  <2>2. Active' = Active
    BY <1>1, <2>1 DEF Active
  <2>3. \A m \in Names : Busy(m)' <=> Busy(m)
    BY <1>s, SameKeeps
  <2> QED BY <1>1, <2>2, <2>3 DEF IInv, Lanes, Lane
<1> QED BY <1>5, <1>6, RestKeepsEInv DEF IInv

\* A launch of a strategy that is not in the tester and whose lane is free, with a tracker that
\* has forgotten.
LaunchFrame == UNCHANGED <<row, running, owed, log, file, call, rows, collector>>
Forgotten(t) ==
    /\ t.report = None /\ t.polls = 0 /\ t.launchedAt = "set" /\ t.missingSince = "none"
    /\ ~t.seen /\ ~t.done /\ ~t.failed

LEMMA LaunchKeeps ==
    ASSUME IInv, NEW n \in names, ~InTester(n), row[n].state = "TEST" \/ Quiet(n),
           outcome = "none", pc \in {"submit", "retry"},
           \A m \in Active \ {n} : Lane(m) # Lane(n),
           NEW t \in Trackers, Forgotten(t), NEW next \in {"submit", "retry"},
           Launch(n, t, next), LaunchFrame, pending' \subseteq pending, n \notin pending'
    PROVE  Lanes' /\ \A m \in Names : Facts(m)'
<1>1. Types /\ n \in Names /\ subs[n] \in Nat
  BY DEF IInv, EInv, CInv, Types
<1>2. /\ tr' = [tr EXCEPT ![n] = t] /\ subs' = [subs EXCEPT ![n] = @ + 1]
      /\ snap' = [snap EXCEPT ![n] = None]
      /\ base' = [base EXCEPT ![n] = @ \cup ({tr[n].id} \ {None})]
  BY DEF Launch, Forget, Send
<1>3. /\ queue' = queue \/ queue' = [queue EXCEPT ![n] = @ \cup {subs'[n]}]
      /\ launched' \subseteq launched \cup {n} /\ launched \subseteq launched'
      /\ pc' \in {"submit", "retry", "end"}
      /\ outcome' = "none" => n \in launched'
  BY DEF Launch, Send
<1> USE DEF LaunchFrame, call, collector
<1>4. ASSUME NEW m \in Names, m # n
      PROVE  /\ SameIn(m) /\ tr'[m] = tr[m] /\ snap'[m] = snap[m] /\ base'[m] = base[m]
             /\ Facts(m)'
  <2>1. /\ SameIn(m) /\ tr'[m] = tr[m] /\ snap'[m] = snap[m] /\ base'[m] = base[m]
    BY <1>1, <1>2, <1>3, <1>4 DEF Types, SameIn
  <2>2. Facts(m) /\ names' = names
    BY DEF IInv
  <2> QED BY <1>3, <2>1, <2>2, FactsKept
<1>5. Facts(n)'
  <2>1. /\ Facts(n) /\ tr'[n] = t /\ subs'[n] = subs[n] + 1 /\ snap'[n] = None
        /\ queue'[n] \in {{}, {subs[n] + 1}} /\ queue[n] = {} /\ owed[n] = {} /\ running[n] = None
        /\ owed'[n] = {} /\ running'[n] = None /\ row' = row /\ rows' = rows
    BY <1>1, <1>2, <1>3 DEF IInv, Types, InTester
  <2>2. TesterFacts(n)'
    BY <2>1 DEF Facts, TesterFacts, Entries
  <2>3. Waits(n)'
    BY <1>3, <2>1 DEF Waits, Quiet
  <2>4. AgainFacts(n)' /\ Unlaunched(n)' /\ PollFacts(n)'
    BY <1>3, <2>1, <2>2 DEF AgainFacts, Unlaunched, PollFacts, Forgotten, TesterFacts
  <2> QED BY <2>2, <2>3, <2>4 DEF Facts
<1>6. Lanes'
  <2>1. ASSUME NEW m \in Names, Busy(m)', m # n PROVE Busy(m) /\ m \in Active
    BY <1>4, <2>1, SameKeeps DEF IInv, Lanes
  <2>2. \A m \in Names \ {n} : m \in Active' <=> m \in Active
    BY <1>1, <1>2, <1>3 DEF Active, Settled, Types
  <2>3. outcome' = "none" => n \in Active'
    BY <1>1, <1>2, <1>3 DEF Active, Settled, Types, Forgotten
  <2>4. Active \subseteq Names /\ Active' \subseteq Names
    BY <1>1, <1>3 DEF Active, Types
  <2>5. pending' \cap launched' = {}
    BY <1>3 DEF IInv, Lanes
  <2>6. \A m \in Names : Lane(m)' = Lane(m)
    BY DEF Lane
  <2>7. ASSUME NEW l \in Names, NEW m \in Names, Busy(l)', Busy(m)', Lane(l) = Lane(m)
        PROVE  l = m
    BY <2>1, <2>7 DEF IInv, Lanes
  <2>8. ASSUME NEW l \in Active', NEW m \in Active', Lane(l) = Lane(m)
        PROVE  l = m
    BY <2>2, <2>4, <2>8 DEF IInv, Lanes
  <2>9. outcome' = "none" => \A m \in Names : Busy(m)' => m \in Active'
    BY <2>1, <2>2, <2>3
  <2> QED BY <2>4, <2>5, <2>6, <2>7, <2>8, <2>9 DEF Lanes
<1> QED BY <1>4, <1>5, <1>6

LEMMA SubmitKeeps == ASSUME IInv, NEW n \in Names, Submit(n) PROVE IInv'
<1>1. /\ pc = "submit" /\ n \in pending /\ n \in names /\ n \notin launched
      /\ \A m \in Active : Lane(m) # Lane(n)
      /\ pending' = pending \ {n} /\ LaunchFrame
  BY DEF Submit, Free, IInv, EInv, CInv, Types, Lanes, LaunchFrame
<1>2. Types /\ outcome = "none" /\ Facts(n)
  BY <1>1 DEF IInv, EInv, CInv, Types
<1>3. EInv'
  BY MonitorKeepsEInv DEF IInv, Monitor
<1>4. CASE tr[n].attempts >= MaxAttempts
  <2>1. /\ pc' = "end" /\ outcome' = "exhausted"
        /\ UNCHANGED <<tr, base, snap, counts, subs, queue, launched, blame>>
    BY <1>4 DEF Submit
  <2> USE DEF LaunchFrame, call, collector
  <2>2. \A m \in Names : SameIn(m)
    BY <1>1, <2>1 DEF SameIn
  <2>3. ASSUME NEW m \in Names PROVE Facts(m)'
    BY <1>1, <2>1, <2>2, FactsKept DEF IInv
  <2>4. Lanes'
    BY <1>1, <2>1 DEF IInv, Lanes, Busy, Active, Settled, Lane
  <2> QED BY <1>3, <2>3, <2>4 DEF IInv
<1>5. CASE ~(tr[n].attempts >= MaxAttempts)
  <2>1. Unlaunched(n) /\ Idle(n)
    BY <1>1, <1>2 DEF Facts, Unlaunched
  <2>2. Launched(n) \in Trackers /\ Forgotten(Launched(n))
    BY <1>1, <1>2, <2>1, LaunchedValues DEF Forgotten, Unlaunched
  <2>3. Launch(n, Launched(n), "submit")
    BY <1>5 DEF Submit
  <2>4. ~InTester(n) /\ Quiet(n)
    BY <2>1 DEF Idle
  <2> QED BY <1>1, <1>2, <1>3, <2>2, <2>3, <2>4, LaunchKeeps DEF IInv
<1> QED BY <1>4, <1>5

LEMMA RetryKeeps == ASSUME IInv, NEW n \in Names, Retry(n) PROVE IInv'
<1>1. pc = "retry" /\ n \in names /\ pending' = pending /\ LaunchFrame
  BY DEF Retry, IInv, EInv, CInv, Types, LaunchFrame
<1>2. Types /\ outcome = "none" /\ Facts(n)
  BY <1>1 DEF IInv, EInv, CInv, Types
<1>3. EInv'
  BY MonitorKeepsEInv DEF IInv, Monitor
<1>4. CASE ~(Again(n) /\ tr[n].attempts < MaxAttempts)
  <2>1. UNCHANGED <<tr, base, snap, counts, subs, queue, launched, pc, outcome, blame>>
    BY <1>4 DEF Retry
  <2> USE DEF LaunchFrame, call, collector
  <2>2. \A m \in Names : SameIn(m)
    BY <1>1, <2>1 DEF SameIn
  <2>3. ASSUME NEW m \in Names PROVE Facts(m)'
    BY <1>1, <2>1, <2>2, FactsKept DEF IInv
  <2>4. Lanes'
    BY <1>1, <2>1 DEF IInv, Lanes, Busy, Active, Settled, Lane
  <2> QED BY <1>3, <2>3, <2>4 DEF IInv
<1>5. CASE Again(n) /\ tr[n].attempts < MaxAttempts
  <2>1. /\ ~InTester(n) /\ (row[n].state = "TEST" \/ Quiet(n)) /\ ~tr[n].done
        /\ n \in launched
    BY <1>1, <1>2, <1>5, AgainIsIdle
  <2>2. ~tr[n].failed
    BY <1>1, <1>2, <1>5 DEF Facts, PollFacts, Types, Trackers
  <2>3. Reset(n) \in Trackers /\ Forgotten(Reset(n))
    BY <1>1, <1>2, <2>2, ResetValues DEF Forgotten
  <2>4. Launch(n, Reset(n), "retry")
    BY <1>5 DEF Retry
  <2>5. n \in Active /\ n \notin pending
    BY <2>1, <2>2 DEF Active, Settled, IInv, Lanes
  <2>6. \A m \in Active \ {n} : Lane(m) # Lane(n)
    BY <1>2, <2>5 DEF IInv, Lanes
  <2> QED BY <1>1, <1>2, <1>3, <2>1, <2>3, <2>4, <2>5, <2>6, LaunchKeeps DEF IInv
<1> QED BY <1>4, <1>5

LEMMA StallKeeps == ASSUME IInv, Stall \/ UNCHANGED vars PROVE IInv'
<1>1. /\ outcome' = "none" => outcome = "none"
      /\ pc' = "examine" => pc = "examine"
      /\ UNCHANGED <<table, file, tr, pending, launched, base, call, counts, rows, todo,
                     collector, snap, subs, blame>>
  BY DEF Stall, vars
<1> USE DEF table, call, collector
<1>2. \A m \in Names : SameIn(m)
  BY <1>1 DEF SameIn
<1>3. ASSUME NEW m \in Names PROVE Facts(m)'
  BY <1>1, <1>2, FactsKept DEF IInv
<1>4. Lanes'
  BY <1>1 DEF IInv, Lanes, Busy, Active, Settled, Lane
<1> QED BY <1>3, <1>4, RestKeepsEInv DEF IInv

\* The restart of the bot begins a call with nothing under way.
LEMMA RestartKeeps == ASSUME IInv, Restart PROVE IInv'
<1>1. /\ outcome' = "none" /\ pc' = "submit" /\ names' = {n \in names : ~tr[n].done}
      /\ tr' = [n \in Names |-> IF n \in names' THEN Tracker(counts[n]) ELSE tr[n]]
      /\ pending' = names' /\ launched' = {}
      /\ queue' = [n \in Names |-> {}] /\ running' = [n \in Names |-> None]
      /\ owed' = [n \in Names |-> {}]
      /\ row' = [n \in Names |-> IF row[n].state = "RESULT" THEN row[n] ELSE Row("TEST", None)]
      /\ rows' = row' /\ base' = Baseline /\ inspected' = {file[p] : p \in Paths} \ {None}
      /\ inHand' = None /\ snap' = [n \in Names |-> None]
      /\ UNCHANGED <<log, file, subs>>
  BY DEF Restart, Seeded
<1>2. Types
  BY DEF IInv, EInv, CInv
<1>3. ASSUME NEW m \in Names PROVE Facts(m)'
  <2>1. Facts(m) /\ subs[m] \in Nat /\ counts[m] \in Nat /\ Path[m] \in Paths
    BY <1>2 DEF IInv, Types, Paths
  <2>2. /\ queue'[m] = {} /\ running'[m] = None /\ owed'[m] = {} /\ snap'[m] = None
        /\ rows'[m] = row'[m] /\ row'[m] \in {row[m], Row("TEST", None)}
        /\ row'[m] = row[m] => row[m].state = "RESULT" \/ row[m] = Row("TEST", None)
    BY <1>1
  <2>3. Row("TEST", None).state = "TEST" /\ Row("TEST", None).id = None
    BY DEF Row
  <2>4. TesterFacts(m)'
    <3>1. \A i : Entries(m, i)' = Entries(m, i)
      BY <1>1 DEF Entries
    <3> QED BY <2>1, <2>2, <2>3, <3>1 DEF Facts, TesterFacts
  <2>5. Idle(m)'
    BY <1>1, <2>1, <2>2 DEF Idle, InTester, Quiet, Owns
  <2>6. ASSUME m \in names'
        PROVE  Waits(m)' /\ AgainFacts(m)' /\ Unlaunched(m)' /\ PollFacts(m)'
    <3>1. row'[m].id \in base'[m] \cup {None}
      BY <1>1, <2>2, <2>3 DEF Baseline
    <3>2. tr'[m] = Tracker(counts[m])
      BY <1>1, <2>6
    <3>3. Waits(m)'
      BY <1>1, <2>2 DEF Waits
    <3> QED BY <1>1, <2>1, <2>2, <2>5, <3>1, <3>2, <3>3, TrackerValues
            DEF AgainFacts, Unlaunched, PollFacts
  <2>7. m \notin names' => ~tr'[m].failed
    BY <1>1, <2>1 DEF Facts, PollFacts
  <2> QED BY <2>4, <2>6, <2>7 DEF Facts
<1>4. Lanes'
  BY <1>1 DEF Lanes, Busy, Active
<1> QED BY <1>3, <1>4, RestKeepsEInv DEF IInv

LEMMA InitIInv == Init => IInv
<1> SUFFICES ASSUME Init PROVE IInv
  OBVIOUS
<1>1. /\ outcome = "none" /\ pc = "submit" /\ names = Names /\ launched = {} /\ inHand = None
      /\ tr = [n \in Names |-> Tracker(Used[n])] /\ rows = row /\ base = Baseline
      /\ inspected = {file[p] : p \in Paths} \ {None}
  BY DEF Init, Seeded
<1>2. ASSUME NEW m \in Names PROVE Facts(m)
  <2>1. /\ queue[m] = {} /\ running[m] = None /\ owed[m] = {} /\ snap[m] = None /\ subs[m] = 0
        /\ tr[m] = Tracker(Used[m]) /\ Used[m] \in Nat /\ Path[m] \in Paths
    BY DEF Init, Paths
  <2>2. \/ row[m].state = "RESULT" /\ row[m].id = Id(0) /\ Entries(m, Id(0)) # {}
        \/ row[m].state = "TEST" /\ row[m].id = None
    <3>1. row[m] = IF m \in Stale THEN Row("RESULT", Id(0)) ELSE Row("TEST", None)
      BY DEF Init
    <3>2. m \in Stale => Entries(m, Id(0)) # {}
      <4> DEFINE e == [name |-> m, id |-> Id(0), run |-> 0]
      <4>1. m \in Stale => e \in log
        BY DEF Init
      <4>2. e.name = m /\ e.id = Id(0)
        OBVIOUS
      <4> HIDE DEF e
      <4>3. m \in Stale => e \in Entries(m, Id(0))
        BY <4>1, <4>2 DEF Entries
      <4> QED BY <4>3
    <3> QED BY <3>1, <3>2 DEF Row
  <2>3. TesterFacts(m)
    <3>1. rows[m] = row[m] /\ (row[m].state = "RESULT" <=> row[m].id # None)
      BY <1>1, <2>2, RunIdValues
    <3>2. row[m].state = "RESULT" => Entries(m, row[m].id) # {}
      BY <2>2
    <3>3. row[m].state # "RUNNING"
      BY <2>2
    <3> QED BY <2>1, <3>1, <3>2, <3>3 DEF TesterFacts
  <2>5. Idle(m)
    BY <1>1, <2>1 DEF Idle, InTester, Quiet, Owns
  <2>6. row[m].id \in base[m] \cup {None}
    BY <1>1 DEF Baseline
  <2>7. Waits(m)
    BY <1>1, <2>1 DEF Waits
  <2> QED BY <1>1, <2>1, <2>3, <2>5, <2>6, <2>7, TrackerValues
          DEF Facts, AgainFacts, Unlaunched, PollFacts
<1>3. Lanes
  BY <1>1 DEF Init, Lanes, Busy, Active
<1> QED BY <1>2, <1>3, InitEInv DEF IInv

LEMMA NextIInv == ASSUME Timely, IInv, [Next]_vars PROVE IInv'
BY StartKeeps, WriteReportKeeps, FinishKeeps, DropKeeps, LoseReportKeeps,
   GracePassesKeeps, CollectorKeeps, LookKeeps, ExamineKeeps, JudgeKeeps,
   SubmitKeeps, RetryKeeps, StallKeeps, RestartKeeps
   DEF Next, Tester, Monitor, Done

LEMMA IInvHolds == ASSUME Timely PROVE Spec => []IInv
<1>1. IInv /\ [Next]_vars => IInv'
  BY NextIInv
<1> QED BY <1>1, InitIInv, PTL DEF Spec

\* As long as no run starts or reports later than the grace period, no two strategies of a lane
\* run in the tester together.
THEOREM LanesKept == ASSUME Timely PROVE Spec => []LaneKept
<1>1. IInv => LaneKept
  BY DEF IInv, Lanes, Busy, LaneKept
<1> QED BY <1>1, IInvHolds, PTL

-----------------------------------------------------------------------------
(* Whom a strategy that is given up can blame.                               *)

\* What a step leaves of the reports of a strategy that it neither writes nor submits.
LEMMA ReportsKept ==
    ASSUME WInv, NEW m \in Names, subs'[m] = subs[m],
           queue'[m] \cup owed'[m] \subseteq queue[m] \cup owed[m],
           \A k \in Nat :
               Report(m, k) \in inspected' \/ file'[Path[m]] = Report(m, k) =>
                   Report(m, k) \in inspected \/ file[Path[m]] = Report(m, k)
    PROVE  WrittenOnce(m)' /\ NoneAhead(m)'
<1>1. WrittenOnce(m) /\ NoneAhead(m) /\ subs[m] \in Nat
  BY DEF WInv, IInv, EInv, CInv, Types
<1>2. WrittenOnce(m)'
  BY <1>1 DEF WrittenOnce
<1>3. NoneAhead(m)'
  BY <1>1 DEF NoneAhead
<1> QED BY <1>2, <1>3

LEMMA LaunchKeepsReports ==
    ASSUME WInv, NEW n \in names, NEW t, NEW next, Launch(n, t, next),
           UNCHANGED <<owed, file, inspected>>, NEW m \in Names
    PROVE  WrittenOnce(m)' /\ NoneAhead(m)'
<1>1. Types /\ n \in Names /\ {subs[n], subs[m]} \subseteq Nat
  BY DEF WInv, IInv, EInv, CInv, Types
<1>2. /\ subs' = [subs EXCEPT ![n] = @ + 1]
      /\ queue' = queue \/ queue' = [queue EXCEPT ![n] = @ \cup {subs'[n]}]
  BY DEF Launch, Send
<1>3. CASE m # n
  <2>1. subs'[m] = subs[m] /\ queue'[m] = queue[m]
    BY <1>1, <1>2, <1>3 DEF Types
  <2> QED BY <2>1, ReportsKept
<1>4. CASE m = n
  <2>1. subs'[n] = subs[n] + 1 /\ NoneAhead(n)
    BY <1>1, <1>2 DEF Types, WInv
  <2>2. NoneAhead(n)'
    BY <1>1, <2>1 DEF NoneAhead
  <2>3. WrittenOnce(n)'
    BY <1>1, <2>1 DEF NoneAhead, WrittenOnce
  <2> QED BY <1>4, <2>2, <2>3
<1> QED BY <1>3, <1>4

LEMMA TesterKeepsReports ==
    ASSUME WInv, NEW n \in Names, Tester(n) \/ Drop(n) \/ LoseReport(n), NEW m \in Names
    PROVE  WrittenOnce(m)' /\ NoneAhead(m)'
<1>1. /\ Types /\ {subs[n], subs[m]} \subseteq Nat /\ Path[n] \in Paths /\ Path[m] \in Paths
      /\ TesterFrame /\ Facts(n)
  BY DEF WInv, IInv, EInv, CInv, Types, Paths, Tester, Start, WriteReport, Finish, Drop,
         LoseReport, TesterFrame
<1>2. CASE Start(n)
  <2>1. Min(queue[n]) \in queue[n]
    BY <1>1, <1>2, MinIsMember DEF Start, Types
  <2>2. /\ queue' = [queue EXCEPT ![n] = @ \ {Min(queue[n])}] /\ file' = file
        /\ owed' = [owed EXCEPT ![n] = @ \cup {Min(queue[n])}]
    BY <1>2 DEF Start
  <2>3. queue'[m] \cup owed'[m] \subseteq queue[m] \cup owed[m]
    BY <1>1, <2>1, <2>2 DEF Types
  <2> QED BY <1>1, <2>2, <2>3, ReportsKept DEF TesterFrame, collector
<1>3. CASE WriteReport(n)
  <2>1. owed[n] \subseteq {subs[n]} /\ owed[n] # {}
    BY <1>1, <1>3 DEF WriteReport, Facts, TesterFacts
  <2>2. Min(owed[n]) = subs[n]
    BY <1>1, <2>1, MinIsMember DEF Types
  <2>3. /\ file' = [file EXCEPT ![Path[n]] = Report(n, subs[n])]
        /\ owed' = [owed EXCEPT ![n] = @ \ {subs[n]}] /\ queue' = queue
    BY <1>3, <2>2 DEF WriteReport
  <2>4. CASE m # n
    <3>1. owed'[m] = owed[m] /\ file'[Path[m]] \in {file[Path[m]], Report(n, subs[n])}
      BY <1>1, <2>3, <2>4 DEF Types
    <3>2. \A k \in Nat : file'[Path[m]] = Report(m, k) => file[Path[m]] = Report(m, k)
      BY <2>4, <3>1, ReportValues
    <3> QED BY <1>1, <2>3, <3>1, <3>2, ReportsKept DEF TesterFrame, collector
  <2>5. CASE m = n
    <3>1. owed'[n] = {} /\ queue[n] = {} /\ file'[Path[n]] = Report(n, subs[n])
      BY <1>1, <2>1, <2>3 DEF Types, Facts, TesterFacts
    <3>2. WrittenOnce(n)'
      BY <2>3, <3>1 DEF WrittenOnce
    <3>3. NoneAhead(n)'
      <4>1. NoneAhead(n) /\ subs' = subs /\ inspected' = inspected
        BY <1>1 DEF WInv, TesterFrame, collector
      <4>2. \A k \in Nat : file'[Path[n]] = Report(n, k) => k = subs[n]
        <5>1. ASSUME NEW k, Report(n, subs[n]) = Report(n, k) PROVE k = subs[n]
          BY <5>1 DEF Report
        <5> QED BY <3>1, <5>1
      <4> QED BY <1>1, <4>1, <4>2 DEF NoneAhead
    <3> QED BY <2>5, <3>2, <3>3
  <2> QED BY <2>4, <2>5
<1>4. CASE Finish(n) \/ Drop(n) \/ LoseReport(n)
  <2>1. queue' = queue /\ file' = file /\ (owed' = owed \/ \E k : owed' = [owed EXCEPT ![n] = @ \ {k}])
    BY <1>4 DEF Finish, Drop, LoseReport
  <2>2. owed'[m] \subseteq owed[m]
    BY <1>1, <2>1 DEF Types
  <2> QED BY <1>1, <2>1, <2>2, ReportsKept DEF TesterFrame, collector
<1> QED BY <1>2, <1>3, <1>4 DEF Tester

LEMMA NextKeepsReports ==
    ASSUME WInv, [Next]_vars, NEW m \in Names
    PROVE  WrittenOnce(m)' /\ NoneAhead(m)'
<1>1. Types /\ FilesOwned /\ Path[m] \in Paths
  BY DEF WInv, IInv, EInv, CInv, Paths
<1>2. CASE \E n \in Names : Tester(n) \/ Drop(n) \/ LoseReport(n)
  BY <1>2, TesterKeepsReports
<1>3. CASE UNCHANGED <<subs, queue, owed, file, inspected>>
  BY <1>3, ReportsKept
<1>4. CASE \E p \in Paths : Inspect(p)
  <2>1. PICK p \in Paths : Inspect(p)
    BY <1>4
  <2>2. /\ inspected' = inspected \cup {file[p]} /\ file[p] # None
        /\ UNCHANGED <<subs, queue, owed, file>>
    BY <2>1 DEF Inspect, table
  <2>3. Path[file[p].name] = p
    BY <1>1, <2>2 DEF FilesOwned
  <2>4. \A k \in Nat : file[p] = Report(m, k) => p = Path[m]
    BY <2>3, ReportValues
  <2> QED BY <2>2, <2>4, ReportsKept
<1>5. CASE Restart
  <2>1. /\ inspected' = {file[p] : p \in Paths} \ {None} /\ UNCHANGED <<subs, file>>
        /\ queue'[m] = {} /\ owed'[m] = {}
    BY <1>5 DEF Restart, Seeded
  <2>2. \A k \in Nat, p \in Paths : file[p] = Report(m, k) => p = Path[m]
    BY <1>1, ReportValues DEF FilesOwned
  <2>3. \A k \in Nat : Report(m, k) \in inspected' => file[Path[m]] = Report(m, k)
    BY <2>1, <2>2
  <2> QED BY <2>1, <2>3, ReportsKept
<1>6. ASSUME NEW n \in Names, Submit(n) \/ Retry(n)
      PROVE  WrittenOnce(m)' /\ NoneAhead(m)'
  <2>1. n \in names /\ UNCHANGED <<owed, file, inspected>>
    BY <1>1, <1>6 DEF Submit, Retry, Free, Types, collector
  <2>2. \/ UNCHANGED <<subs, queue>>
        \/ \E t, next : Launch(n, t, next)
    BY <1>6 DEF Submit, Retry
  <2>3. ASSUME NEW t, NEW next, Launch(n, t, next) PROVE WrittenOnce(m)' /\ NoneAhead(m)'
    BY <2>1, <2>3, LaunchKeepsReports
  <2> QED BY <2>1, <2>2, <2>3, ReportsKept
<1>7. Copy \/ Look \/ Examine \/ Judge \/ Stall \/ UNCHANGED vars
        \/ (\E n \in Names : GracePasses(n)) => UNCHANGED <<subs, queue, owed, file, inspected>>
  BY DEF Copy, Look, Examine, Judge, Stall, vars, GracePasses, table, collector
<1> QED BY <1>2, <1>3, <1>4, <1>5, <1>6, <1>7 DEF Next, Collector, Monitor, Done

\* Where no runId is used again, the entry of a result is the only one.
LEMMA EntriesMatch ==
    ASSUME LInv, NEW n \in Names, NEW i, Entries(n, i) # {}
    PROVE  Matched(n, i)
<1>1. log \subseteq [name : Names, id : RunIds, run : Nat] /\ \A e \in log : e.id = Id(e.run)
  BY DEF LInv, WInv, IInv, EInv, CInv, Types
<1>2. \A e, f \in Entries(n, i) : e \in log /\ f \in log /\ e.name = f.name /\ e.id = f.id
                                 /\ e.run = f.run
  BY <1>1, RunIdValues DEF Entries
<1>3. \A e, f \in Entries(n, i) : e = f
  BY <1>1, <1>2
<1>4. PICK e : e \in Entries(n, i)
  OBVIOUS
<1>5. Entries(n, i) = {e}
  BY <1>3, <1>4
<1> QED BY <1>4, <1>5 DEF Matched

\* A poll of a report that is there changes the tracker.
LEMMA ReportIsSeen ==
    ASSUME Types, NEW n \in Names, rows[n].state = "RESULT",
           Matched(n, rows[n].id), snap[n] # None
    PROVE  Observed(n) # tr[n]
<1>1. tr[n] \in Trackers /\ tr[n].polls \in Nat
  BY DEF Types, Trackers
<1> DEFINE u == [tr[n] EXCEPT !.state = rows[n].state,
                              !.seen = @ \/ rows[n].state = "RUNNING",
                              !.launchedAt = IF rows[n].state = "RUNNING" THEN NoStamp ELSE @,
                              !.id = IF rows[n].id = None THEN @ ELSE rows[n].id]
           polls == IF u.report = snap[n] THEN u.polls + 1 ELSE 1
<1>2. u.report = tr[n].report /\ u.polls = tr[n].polls /\ DOMAIN u = DOMAIN tr[n]
      /\ {"report", "polls"} \subseteq DOMAIN u
  BY <1>1 DEF Trackers
<1>3. Observed(n) = [u EXCEPT !.missingSince = NoStamp, !.report = snap[n], !.polls = polls,
                              !.done = polls >= StablePolls]
  BY DEF Observed
<1> HIDE DEF u
<1>4. Observed(n).report = snap[n] /\ Observed(n).polls = polls
  BY <1>2, <1>3
<1> QED BY <1>1, <1>2, <1>4

\* What a step leaves as it was for a strategy, but for the account of its last attempt.
LEMMA JustifiedKept ==
    ASSUME Types, Types', NEW m \in Names, Justified(m), tr'[m] = tr[m], rows'[m] = rows[m],
           subs' = subs, restarts' = restarts, blame'[m] >= blame[m], names' = names,
           launched \subseteq launched', outcome' = "none" => outcome = "none",
           m \in names => Account(m)'
    PROVE  Justified(m)'
<1>1. {subs[m], restarts, blame[m], blame'[m]} \subseteq Nat
  BY DEF Types
<1>2. Blamed(m) => Blamed(m)'
  BY <1>1 DEF Blamed
<1> QED BY <1>1, <1>2 DEF Justified

\* The steps of the tester: what it does not do of an attempt adds to the blame.
LEMMA TesterJustified ==
    ASSUME JInv, WInv', NEW n \in Names,
           Tester(n) \/ Drop(n) \/ LoseReport(n), NEW m \in Names
    PROVE  Justified(m)'
<1>1. /\ Types /\ Types' /\ Justified(m) /\ Facts(n) /\ Facts(m) /\ Path[m] \in Paths
      /\ Path[n] \in Paths
  BY DEF JInv, LInv, WInv, IInv, EInv, CInv, Paths
<1>2. {subs[m], restarts, blame[m]} \subseteq Nat /\ {subs[n], from[n]} \subseteq Nat
  BY <1>1 DEF Types
<1>3. TesterFrame
  BY DEF Tester, Start, WriteReport, Finish, Drop, LoseReport, TesterFrame
<1> USE DEF TesterFrame, call, collector
<1>a. ASSUME blame'[m] >= blame[m], m \in names => Account(m)' PROVE Justified(m)'
  BY <1>1, <1>3, <1>a, JustifiedKept
<1>b. ASSUME blame'[m] = blame[m] + 1 PROVE Blamed(m)'
  BY <1>1, <1>2, <1>3, <1>b DEF Justified, Blamed
<1>c. ASSUME row'[m] = row[m], queue'[m] = queue[m], owed'[m] = owed[m], blame'[m] >= blame[m],
             Uncopied(file[Path[m]]) /\ file[Path[m]].name = m =>
                 file'[Path[m]] = file[Path[m]] \/ Blamed(m)',
             m \in names
      PROVE  Account(m)'
  <2>1. Blamed(m) => Blamed(m)'
    BY <1>1, <1>2, <1>3, <1>c DEF Blamed, Types
  <2>2. Account(m) /\ (m \in Active' <=> m \in Active)
    BY <1>1, <1>3, <1>c DEF Justified, Active, Settled
  <2> QED BY <1>3, <1>c, <2>1, <2>2 DEF Account, Uncopied
<1>4. CASE Start(n)
  <2>1. queue[n] \subseteq {subs[n]} /\ queue[n] # {}
    BY <1>1, <1>4 DEF Start, Facts, TesterFacts
  <2>2. Min(queue[n]) = subs[n]
    BY <1>1, <2>1, MinIsMember DEF Types
  <2>3. /\ owed' = [owed EXCEPT ![n] = @ \cup {subs[n]}]
        /\ queue' = [queue EXCEPT ![n] = @ \ {subs[n]}]
        /\ row' = [row EXCEPT ![n] = Row("RUNNING", None)]
        /\ blame' = blame /\ file' = file
    BY <1>4, <2>2 DEF Start
  <2>4. m = n => subs[m] \in owed'[m] /\ row'[m].state = "RUNNING"
    BY <1>1, <2>3 DEF Types, Row
  <2>5. m = n => Account(m)'
    BY <1>3, <2>4 DEF Account
  <2>6. m # n => row'[m] = row[m] /\ queue'[m] = queue[m] /\ owed'[m] = owed[m]
    BY <1>1, <2>3 DEF Types
  <2>7. blame'[m] >= blame[m]
    BY <1>2, <2>3
  <2> QED BY <1>a, <1>c, <2>3, <2>5, <2>6, <2>7
<1>5. CASE WriteReport(n)
  <2> DEFINE old == file[Path[n]]
             lost == Uncopied(old) /\ old.name # n
  <2>1. /\ owed[n] \subseteq {subs[n]} /\ owed[n] # {} /\ row[n].state # "TEST"
        /\ Report(n, subs[n]) \notin inspected /\ from[n] < subs[n]
    <3>1. owed[n] \subseteq {subs[n]} /\ owed[n] # {} /\ row[n].state # "TEST"
      BY <1>1, <1>5 DEF WriteReport, Facts, TesterFacts
    <3>2. WrittenOnce(n) /\ Recent(n)
      BY DEF JInv, LInv, WInv, IInv, EInv
    <3> QED BY <3>1, <3>2 DEF WrittenOnce, Recent
  <2>2. Min(owed[n]) = subs[n]
    BY <1>1, <2>1, MinIsMember DEF Types
  <2>3. /\ file' = [file EXCEPT ![Path[n]] = Report(n, subs[n])]
        /\ owed' = [owed EXCEPT ![n] = @ \ {subs[n]}]
        /\ blame' = IF lost THEN [blame EXCEPT ![old.name] = @ + 1] ELSE blame
        /\ UNCHANGED <<row, queue>>
    BY <1>5, <2>2 DEF WriteReport
  <2>4. file'[Path[n]] = Report(n, subs[n])
    BY <1>1, <2>3 DEF Types
  <2>5. lost => old.name \in Names
    BY <1>1, ReportValues DEF Uncopied, Types
  <2>6. /\ blame'[m] >= blame[m]
        /\ lost /\ old.name = m => blame'[m] = blame[m] + 1
    <3> HIDE DEF lost, old
    <3> QED BY <1>1, <1>2, <2>3, <2>5 DEF Types
  <2>7. m = n => Account(m)'
    <3> DEFINE w == Report(n, subs[n])
    <3>1. w.run = subs[n] /\ w.name = n /\ w # None
      BY ReportValues DEF Report
    <3>2. w \notin inspected' /\ file'[Path[n]] = w /\ subs' = subs /\ from' = from
      BY <1>3, <2>1, <2>4
    <3> HIDE DEF w
    <3>3. /\ Uncopied(file[Path[n]])' /\ file'[Path[n]].name = n
      BY <2>1, <3>1, <3>2 DEF Uncopied
    <3>4. row'[n].state # "TEST"
      BY <2>1, <2>3
    <3> QED BY <3>3, <3>4 DEF Account
  <2>8. m # n => owed'[m] = owed[m]
    BY <1>1, <2>3 DEF Types
  <2>9. m # n /\ Uncopied(file[Path[m]]) /\ file[Path[m]].name = m =>
            file'[Path[m]] = file[Path[m]] \/ Blamed(m)'
    <3>1. CASE Path[m] = Path[n]
      BY <1>b, <2>6, <3>1
    <3>2. CASE Path[m] # Path[n]
      BY <1>1, <2>3, <3>2 DEF Types
    <3> QED BY <3>1, <3>2
  <2> HIDE DEF lost, old
  <2> QED BY <1>a, <1>c, <2>3, <2>6, <2>7, <2>8, <2>9
<1>6. CASE Finish(n)
  <2>1. PICK i : row' = [row EXCEPT ![n] = Row("RESULT", i)]
    BY <1>6 DEF Finish
  <2>2. UNCHANGED <<queue, owed, file, blame>>
    BY <1>6 DEF Finish
  <2>3. row'[m] = row[m] \/ (m = n /\ row'[m].state = "RESULT")
    BY <1>1, <2>1 DEF Types, Row
  <2>4. blame'[m] >= blame[m]
    BY <1>2, <2>2
  <2>5. ASSUME m = n, row'[m].state = "RESULT", m \in names PROVE Account(m)'
    <3>1. row[n].state = "RUNNING"
      BY <1>1, <1>6 DEF Finish, Facts, TesterFacts
    <3>2. Account(m) /\ (m \in Active' <=> m \in Active) /\ (Blamed(m)' <=> Blamed(m))
      BY <1>1, <1>3, <2>2, <2>5 DEF Justified, Active, Settled, Blamed
    <3> QED BY <1>3, <2>2, <2>5, <3>1, <3>2 DEF Account, Uncopied
  <2> QED BY <1>a, <1>c, <2>2, <2>3, <2>4, <2>5
<1>7. CASE Drop(n) \/ LoseReport(n)
  <2>1. blame' = [blame EXCEPT ![n] = @ + 1] /\ UNCHANGED <<queue, file>>
    BY <1>7 DEF Drop, LoseReport, Blame
  <2>2. m # n => row'[m] = row[m] /\ owed'[m] = owed[m] /\ blame'[m] = blame[m]
    BY <1>1, <1>7, <2>1 DEF Types, Drop, LoseReport
  <2>3. blame'[m] >= blame[m]
    BY <1>1, <1>2, <2>1 DEF Types
  <2>4. m = n => Account(m)'
    BY <1>1, <1>b, <2>1 DEF Account, Types
  <2> QED BY <1>a, <1>c, <1>2, <2>1, <2>2, <2>3, <2>4
<1> QED BY <1>4, <1>5, <1>6, <1>7 DEF Tester

\* The collector takes a report from the file to the snapshot, or answers for its loss.
LEMMA CollectorJustified ==
    ASSUME JInv, WInv', inHand' # Ended, Collector, NEW m \in Names
    PROVE  Justified(m)'
<1>1. /\ Types /\ Types' /\ Justified(m) /\ Path[m] \in Paths /\ FilesOwned /\ FilesNew
      /\ {subs[m], restarts, blame[m]} \subseteq Nat
  BY DEF JInv, LInv, WInv, IInv, EInv, CInv, Paths, Types
<1>2. UNCHANGED <<table, file, tr, pending, launched, base, call, counts, pc, rows, todo,
                  outcome, subs>>
  BY DEF Collector, Copy, Inspect
<1> USE DEF table, call
<1>3. blame'[m] >= blame[m] /\ (blame'[m] = blame[m] + 1 => Blamed(m)')
  <2>1. blame' = blame \/ \E n : blame' = [blame EXCEPT ![n] = @ + 1]
    BY DEF Collector, Copy, Inspect, Blame
  <2> QED BY <1>1, <1>2, <2>1 DEF Types, Justified, Blamed
<1>4. ASSUME m \in names, ~Blamed(m)',
             snap[m] # None \/ (Uncopied(file[Path[m]]) /\ file[Path[m]].name = m)
      PROVE  snap'[m] # None \/ (Uncopied(file[Path[m]])' /\ file[Path[m]].name = m)
  <2> DEFINE r == file[Path[m]]
  <2>1. CASE Copy
    <3>1. inHand.name \in Names /\ inHand \notin {None, Ended} /\ inspected' = inspected
      BY <1>1, <2>1, ReportValues DEF Copy, Types
    <3>2. \/ snap' = IF file[Path[inHand.name]].name = inHand.name
                     THEN [snap EXCEPT ![inHand.name] = file[Path[inHand.name]]] ELSE snap
          \/ snap' = snap /\ blame' = [blame EXCEPT ![inHand.name] = @ + 1]
      BY <2>1 DEF Copy, Blame
    <3>3. file[Path[inHand.name]] # None
      BY <1>1, <3>1 DEF FilesNew, New
    <3>4. snap[m] # None => snap'[m] # None
      BY <1>1, <3>1, <3>2, <3>3 DEF Types
    <3>5. ASSUME r = inHand, r.name = m PROVE snap'[m] # None
      <4>1. inHand.name = m
        BY <3>5
      <4>2. snap' = IF r.name = m THEN [snap EXCEPT ![m] = r] ELSE snap
        <5>1. blame' # [blame EXCEPT ![m] = @ + 1]
          BY <1>1, <1>3, <1>4 DEF Types
        <5> QED BY <3>2, <4>1, <5>1
      <4> QED BY <1>1, <3>1, <3>5, <4>2 DEF Types
    <3>6. Uncopied(file[Path[m]]) /\ file[Path[m]] # inHand => Uncopied(file[Path[m]])'
      BY <1>2, <3>1 DEF Uncopied
    <3> QED BY <1>2, <1>4, <3>4, <3>5, <3>6
  <2>2. ASSUME NEW p \in Paths, Inspect(p)
        PROVE  snap'[m] # None \/ (Uncopied(file[Path[m]])' /\ file[Path[m]].name = m)
    <3>1. /\ inHand = None /\ inspected' = inspected \cup {file[p]} /\ snap' = snap
          /\ file[p].name \in names => inHand' = file[p]
      BY <2>2 DEF Inspect
    <3>2. Uncopied(r) => r # None /\ r \notin inspected
      BY <3>1 DEF Uncopied
    <3>3. r = file[p] /\ r.name = m => inHand' = r
      BY <1>4, <3>1
    <3>4. Uncopied(file[Path[m]]) /\ file[Path[m]].name = m => Uncopied(file[Path[m]])'
      BY <1>2, <3>1, <3>2, <3>3 DEF Uncopied
    <3> QED BY <1>2, <1>4, <3>1, <3>4
  <2> QED BY <2>1, <2>2 DEF Collector
<1>5. m \in names => Account(m)'
  <2>1. Blamed(m) => Blamed(m)'
    BY <1>1, <1>2, <1>3 DEF Blamed, Types
  <2>2. m \in names => Account(m)
    BY <1>1 DEF Justified
  <2>3. m \in Active' <=> m \in Active
    BY <1>2 DEF Active, Settled
  <2>4. ASSUME m \in names, ~Account(m)' PROVE FALSE
    <3>1. /\ m \in Active /\ outcome = "none" /\ ~Blamed(m)' /\ ~Blamed(m)
          /\ subs[m] \notin queue[m]
          /\ row[m].state # "TEST" => subs[m] \notin owed[m] /\ snap'[m] = None
                                   /\ ~(Uncopied(file[Path[m]])' /\ file[Path[m]].name = m)
      BY <1>2, <2>1, <2>3, <2>4 DEF Account
    <3>2. /\ row[m].state # "TEST"
          /\ snap[m] # None \/ (Uncopied(file[Path[m]]) /\ file[Path[m]].name = m)
      BY <2>2, <2>4, <3>1 DEF Account
    <3>3. snap'[m] # None \/ (Uncopied(file[Path[m]])' /\ file[Path[m]].name = m)
      BY <1>4, <2>4, <3>1, <3>2
    <3> QED BY <3>1, <3>2, <3>3
  <2> QED BY <2>4
<1> QED BY <1>1, <1>2, <1>3, <1>5, JustifiedKept

\* A strategy that a poll finds back in TEST has lost its last attempt.
LEMMA LookJustified ==
    ASSUME JInv, WInv', Look, NEW m \in Names
    PROVE  Justified(m)'
<1>1. /\ Types /\ Justified(m) /\ Facts(m) /\ subs[m] \in Nat /\ outcome = "none"
  BY DEF JInv, LInv, WInv, IInv, EInv, CInv, Types, Look
<1>2. /\ rows' = row
      /\ UNCHANGED <<table, file, tr, pending, launched, base, call, counts, outcome, collector,
                     snap, subs, blame>>
  BY DEF Look
<1> USE DEF table, call, collector
<1>3. Blamed(m)' <=> Blamed(m)
  BY <1>2 DEF Blamed
<1>4. m \in names => (Account(m)' <=> Account(m))
  BY <1>2, <1>3 DEF Account, Active, Settled, Uncopied
<1>5. ASSUME m \in names, tr[m].seen, row[m].state = "TEST", ~tr[m].done PROVE Blamed(m)
  <2>1. queue[m] = {}
    BY <1>1, <1>5 DEF Facts, AgainFacts
  <2>2. m \notin launched \/ tr[m].failed => Blamed(m)
    BY <1>1, <1>5 DEF Justified
  <2>3. m \in launched /\ ~tr[m].failed => m \in Active
    BY <1>5 DEF Active, Settled
  <2> QED BY <1>1, <1>5, <2>1, <2>2, <2>3 DEF Justified, Account
<1> QED BY <1>1, <1>2, <1>3, <1>4, <1>5 DEF Justified

LEMMA ExamineJustified ==
    ASSUME JInv, WInv', Examine, NEW m \in Names
    PROVE  Justified(m)'
<1>1. /\ Types /\ Justified(m) /\ subs[m] \in Nat
  BY DEF JInv, LInv, WInv, IInv, EInv, CInv, Types
<1>2. /\ tr' = [n \in Names |->
                  IF n \in names /\ tr[n].attempts > 0 /\ ~Settled(n) THEN Observed(n) ELSE tr[n]]
      /\ UNCHANGED <<table, file, pending, launched, base, call, counts, rows, outcome,
                     collector, snap, subs, blame>>
  BY DEF Examine
<1> USE DEF table, call, collector
<1>3. \/ tr'[m] = tr[m]
      \/ ~tr[m].done /\ ~tr[m].failed /\ tr'[m] = Observed(m)
  BY <1>2 DEF Settled
<1>4. /\ "old" \in {tr'[m].launchedAt, tr'[m].missingSince} =>
            "old" \in {tr[m].launchedAt, tr[m].missingSince}
      /\ tr'[m].failed = tr[m].failed
      /\ tr'[m].seen /\ "TEST" \in {rows[m].state, tr'[m].state} /\ ~tr'[m].done =>
            tr[m].seen /\ "TEST" \in {rows[m].state, tr[m].state} /\ ~tr[m].done
      /\ tr[m].done \/ tr[m].failed => tr'[m].done \/ tr'[m].failed
  BY <1>1, <1>3, ObservedValues
<1>5. (Blamed(m)' <=> Blamed(m)) /\ (Account(m) => Account(m)')
  BY <1>2, <1>4 DEF Blamed, Account, Active, Settled, Uncopied
<1> QED BY <1>1, <1>2, <1>4, <1>5 DEF Justified

\* Each attempt of a strategy that is to be tried again is answered for.
LEMMA AgainIsJust == ASSUME JInv, NEW n \in names, Again(n) PROVE Blamed(n)
<1>1. n \in Names /\ Justified(n)
  BY DEF JInv, LInv, WInv, IInv, EInv, CInv, Types
<1> QED BY <1>1 DEF Justified, Again, ReturnedToTest, MissingReport, NeverStarted

LEMMA JudgeJustified ==
    ASSUME JInv, WInv', Judge, NEW m \in Names
    PROVE  Justified(m)'
<1>1. /\ Types /\ Justified(m) /\ subs[m] \in Nat /\ tr[m] \in Trackers
  BY DEF JInv, LInv, WInv, IInv, EInv, CInv, Types
<1>2. /\ tr' = tr \/ tr' = [n \in Names |-> [tr[n] EXCEPT !.failed = @ \/ n \in Exhausted]]
      /\ outcome' = "none" => outcome = "none"
      /\ UNCHANGED <<table, file, pending, launched, base, call, counts, rows, collector,
                     snap, subs, blame>>
  <2>1. outcome = "none"
    BY DEF Judge, JInv, LInv, WInv, IInv, EInv, CInv, Types
  <2> QED BY <2>1 DEF Judge
<1> USE DEF table, call, collector
<1>3. /\ tr'[m].launchedAt = tr[m].launchedAt /\ tr'[m].missingSince = tr[m].missingSince
      /\ tr'[m].seen = tr[m].seen /\ tr'[m].state = tr[m].state /\ tr'[m].done = tr[m].done
      /\ tr[m].failed => tr'[m].failed
      /\ tr'[m].failed => tr[m].failed \/ m \in Exhausted
  BY <1>1, <1>2 DEF Trackers
<1>4. (Blamed(m)' <=> Blamed(m)) /\ (Account(m) => Account(m)')
  BY <1>2, <1>3 DEF Blamed, Account, Active, Settled, Uncopied
<1>5. m \in Exhausted => Blamed(m)
  BY AgainIsJust DEF Exhausted
<1> QED BY <1>1, <1>2, <1>3, <1>4, <1>5 DEF Justified

\* The grace period runs out on an attempt only when nothing of it is still to come.
LEMMA GracePassesJustified ==
    ASSUME Timely, JInv, WInv', NEW n \in Names, GracePasses(n), NEW m \in Names
    PROVE  Justified(m)'
<1>1. /\ outcome = "none" /\ n \in Active /\ ~Coming(n)
      /\ \/ tr' = [tr EXCEPT ![n] = [tr[n] EXCEPT !.launchedAt = "old"]]
         \/ tr' = [tr EXCEPT ![n] = [tr[n] EXCEPT !.missingSince = "old"]]
      /\ UNCHANGED <<table, file, pending, launched, base, call, counts, pc, rows, todo, outcome,
                     collector, snap, subs, blame>>
  BY DEF GracePasses, Blame, Timely
<1>2. /\ Types /\ Types' /\ Justified(m) /\ Justified(n) /\ Facts(n) /\ n \in names
      /\ Path[n] \in Paths /\ blame[m] \in Nat /\ subs[n] \in Nat
  BY <1>1 DEF JInv, LInv, WInv, IInv, EInv, CInv, Types, Active, Paths
<1> USE DEF table, call, collector
<1>3. Blamed(n)
  <2>1. /\ rows[n] = row[n] /\ Observed(n) = tr[n] /\ queue[n] = {} /\ running[n] = None
        /\ owed[n] = {} /\ inHand = None /\ \A p \in Paths : file[p] \in inspected \cup {None}
    BY <1>1 DEF Coming, CaughtUp, JInv
  <2>2. Account(n)
    BY <1>2 DEF Justified
  <2>3. ~Blamed(n) => row[n].state # "TEST" /\ snap[n] # None
    BY <1>1, <1>2, <2>1, <2>2 DEF Account, Uncopied
  <2>4. row[n].state # "RUNNING" /\ row[n].state \in {"TEST", "RUNNING", "RESULT"}
    BY <1>2, <2>1 DEF Facts, TesterFacts, Types, Rows
  <2>5. row[n].state = "RESULT" => Matched(n, row[n].id)
    BY <1>2, EntriesMatch DEF JInv, Facts, TesterFacts
  <2> QED BY <1>2, <2>1, <2>3, <2>4, <2>5, ReportIsSeen
<1>4. (Blamed(m)' <=> Blamed(m))
  BY <1>1 DEF Blamed
<1>5. /\ tr'[m].seen = tr[m].seen /\ tr'[m].state = tr[m].state
      /\ tr'[m].done = tr[m].done /\ tr'[m].failed = tr[m].failed
      /\ m # n => tr'[m] = tr[m]
  BY <1>1, <1>2 DEF Types, Trackers
<1>6. Account(m) => Account(m)'
  BY <1>1, <1>4, <1>5 DEF Account, Active, Settled, Uncopied
<1> QED BY <1>1, <1>2, <1>3, <1>4, <1>5, <1>6 DEF Justified

\* A launch makes one more attempt, which the tester has, or has lost.
LEMMA LaunchJustified ==
    ASSUME JInv, WInv', NEW n \in names, Blamed(n), outcome = "none",
           NEW t \in Trackers, Forgotten(t), NEW next \in {"submit", "retry"},
           Launch(n, t, next), LaunchFrame, NEW m \in Names
    PROVE  Justified(m)'
<1>1. /\ Types /\ Types' /\ n \in Names /\ Justified(m) /\ Justified(n)
      /\ {subs[m], subs[n], restarts, blame[m], blame[n]} \subseteq Nat
  BY DEF JInv, LInv, WInv, IInv, EInv, CInv, Types
<1>2. /\ tr' = [tr EXCEPT ![n] = t] /\ subs' = [subs EXCEPT ![n] = @ + 1]
      /\ snap' = [snap EXCEPT ![n] = None]
      /\ blame' = blame \/ blame' = [blame EXCEPT ![n] = @ + 1]
      /\ launched \subseteq launched' /\ launched' \subseteq launched \cup {n}
      /\ outcome' = "none" => n \in launched'
      /\ queue' = queue \/ queue' = [queue EXCEPT ![n] = @ \cup {subs'[n]}]
      /\ \/ queue' = [queue EXCEPT ![n] = @ \cup {subs'[n]}]
         \/ blame' = [blame EXCEPT ![n] = @ + 1]
  BY DEF Launch, Forget, Send, Blame
<1> USE DEF LaunchFrame, call, collector
<1>3. CASE m = n
  <2>1. /\ tr'[n] = t /\ subs'[n] = subs[n] + 1 /\ blame'[n] \in {blame[n], blame[n] + 1}
        /\ subs'[n] \in queue'[n] \/ blame'[n] = blame[n] + 1
    BY <1>1, <1>2 DEF Types
  <2>2. blame'[n] + restarts' >= subs'[n] - 1 /\ (blame'[n] = blame[n] + 1 => Blamed(n)')
    BY <1>1, <2>1 DEF Blamed
  <2>3. Account(n)'
    BY <2>1, <2>2 DEF Account
  <2> QED BY <1>2, <1>3, <2>1, <2>2, <2>3 DEF Justified, Forgotten
<1>4. CASE m # n
  <2>1. /\ tr'[m] = tr[m] /\ subs'[m] = subs[m] /\ blame'[m] = blame[m] /\ snap'[m] = snap[m]
        /\ queue'[m] = queue[m] /\ (m \in launched' <=> m \in launched)
    BY <1>1, <1>2, <1>4 DEF Types
  <2>2. (Blamed(m)' <=> Blamed(m)) /\ (Account(m) => Account(m)')
    BY <2>1 DEF Blamed, Account, Active, Settled, Uncopied
  <2> QED BY <1>1, <2>1, <2>2 DEF Justified
<1> QED BY <1>3, <1>4

LEMMA SubmitJustified ==
    ASSUME JInv, WInv', NEW n \in Names, Submit(n) \/ Retry(n), NEW m \in Names
    PROVE  Justified(m)'
<1>1. /\ Types /\ Types' /\ Justified(m) /\ Justified(n) /\ outcome = "none" /\ n \in names
      /\ blame[m] \in Nat
      /\ LaunchFrame /\ pc \in {"submit", "retry"}
  BY DEF JInv, LInv, WInv, IInv, EInv, CInv, Types, Submit, Retry, Free, LaunchFrame
<1>2. CASE /\ UNCHANGED <<tr, base, snap, counts, subs, queue, launched, blame>>
  <2>1. m \in names => Account(m)'
    BY <1>1, <1>2 DEF LaunchFrame, call, collector, Justified, Account, Blamed, Active, Settled, Uncopied
  <2> QED BY <1>1, <1>2, <2>1, JustifiedKept DEF LaunchFrame, call, collector
<1>3. CASE Submit(n) /\ ~(tr[n].attempts >= MaxAttempts)
  <2>1. n \notin launched /\ Launch(n, Launched(n), "submit")
    BY <1>3 DEF Submit, Free, JInv, LInv, WInv, IInv, Lanes
  <2>2. Blamed(n) /\ Unlaunched(n)
    BY <1>1, <2>1 DEF Justified, JInv, LInv, WInv, IInv, Facts
  <2>3. Launched(n) \in Trackers /\ Forgotten(Launched(n))
    BY <1>1, <2>1, <2>2, LaunchedValues DEF Forgotten, Unlaunched
  <2> QED BY <1>1, <2>1, <2>2, <2>3, LaunchJustified
<1>4. CASE Retry(n) /\ Again(n) /\ tr[n].attempts < MaxAttempts
  <2>1. Launch(n, Reset(n), "retry")
    BY <1>4 DEF Retry
  <2>2. Blamed(n)
    BY <1>1, <1>4, AgainIsJust
  <2>3. ~tr[n].failed
    BY <1>1, <1>4 DEF JInv, LInv, WInv, IInv, Facts, PollFacts, Types, Trackers
  <2>4. Reset(n) \in Trackers /\ Forgotten(Reset(n))
    BY <1>1, <2>3, ResetValues DEF Forgotten
  <2> QED BY <1>1, <2>1, <2>2, <2>4, LaunchJustified
<1> QED BY <1>2, <1>3, <1>4 DEF Submit, Retry

LEMMA RestartJustified ==
    ASSUME JInv, WInv', Stall \/ Restart \/ UNCHANGED vars, NEW m \in Names
    PROVE  Justified(m)'
<1>1. /\ Types /\ Types' /\ Justified(m) /\ {subs[m], restarts, blame[m], counts[m]} \subseteq Nat
  BY DEF JInv, LInv, WInv, IInv, EInv, CInv, Types
<1>2. CASE Stall
  <2>1. /\ outcome' # "none"
        /\ UNCHANGED <<tr, rows, subs, restarts, blame, names, launched>>
    BY <1>2 DEF Stall, call
  <2> QED BY <1>1, <2>1, JustifiedKept DEF Account
<1>3. CASE UNCHANGED vars
  <2> USE DEF vars, table, call, collector
  <2>1. m \in names => Account(m)'
    BY <1>1, <1>3 DEF Justified, Account, Blamed, Active, Settled, Uncopied
  <2> QED BY <1>1, <1>3, <2>1, JustifiedKept
<1>4. CASE Restart
  <2>1. /\ launched' = {} /\ restarts' = restarts + 1 /\ UNCHANGED <<subs, blame>>
        /\ m \in names' => tr'[m] = Tracker(counts[m])
    BY <1>4 DEF Restart
  <2>2. Blamed(m)' /\ blame'[m] + restarts' >= subs'[m] - 1
    BY <1>1, <2>1 DEF Justified, Blamed
  <2> QED BY <1>1, <2>1, <2>2, TrackerValues DEF Justified, Account, Active
<1> QED BY <1>2, <1>3, <1>4

LEMMA NextJInv == ASSUME Timely, JInv, WInv', inHand' # Ended, [Next]_vars, NEW m \in Names
                  PROVE  Justified(m)'
BY TesterJustified, CollectorJustified, LookJustified, ExamineJustified, JudgeJustified,
   GracePassesJustified, SubmitJustified, RestartJustified
   DEF Next, Monitor, Done

\* What the log and the collector's thread keep.
LEMMA NextLInv == ASSUME Timely, "reused" \notin Faults, LInv, [Next]_vars PROVE LInv'
<1>1. Types /\ IInv /\ WInv
  BY DEF LInv, WInv, IInv, EInv, CInv
<1>2. WInv'
  BY <1>1, NextIInv, NextKeepsReports DEF WInv
<1>3. \A e \in log' : e.id = Id(e.run)
  <2>1. CASE log' = log
    BY <2>1 DEF LInv
  <2>2. ASSUME NEW n \in Names, Finish(n) PROVE \A e \in log' : e.id = Id(e.run)
    <3>1. running[n] = Id(running[n].k)
      <4>1. running[n] = Id(subs[n])
        BY <1>1, <2>2 DEF Finish, IInv, Facts, TesterFacts
      <4> QED BY <4>1, RunIdValues
    <3>2. PICK kept \in {log, log \ Entries(n, running[n])} :
              log' = kept \cup {[name |-> n, id |-> running[n], run |-> running[n].k]}
      BY <2>2 DEF Finish
    <3>3. ASSUME NEW e \in log' PROVE e.id = Id(e.run)
      <4>1. e \in log \/ e = [name |-> n, id |-> running[n], run |-> running[n].k]
        BY <3>2
      <4> QED BY <3>1, <4>1 DEF LInv
    <3> QED BY <3>3
  <2>3. log' = log \/ \E n \in Names : Finish(n)
    BY DEF Next, Tester, Start, WriteReport, Drop, LoseReport, GracePasses, Collector, Copy,
           Inspect, Monitor, Look, Examine, Judge, Submit, Retry, Stall, Restart, Done, vars, table
  <2> QED BY <2>1, <2>2, <2>3
<1>4. inHand' = Ended => crashed'
  <2>1. CASE UNCHANGED <<inHand, crashed>>
    BY <2>1 DEF LInv
  <2>2. Copy \/ Restart => (inHand' = Ended => crashed')
    BY ReportValues DEF Copy, Restart
  <2>3. ASSUME NEW p \in Paths, Inspect(p) PROVE inHand' = Ended => crashed'
    BY <1>1, <2>3, ReportValues DEF Inspect, Types
  <2>4. \/ UNCHANGED <<inHand, crashed>> \/ Copy \/ Restart \/ \E p \in Paths : Inspect(p)
    BY DEF Next, Tester, Start, WriteReport, Finish, Drop, LoseReport, GracePasses, Collector,
           Monitor, Look, Examine, Judge, Submit, Retry, Stall, Done, vars, collector
  <2> QED BY <2>1, <2>2, <2>3, <2>4
<1> QED BY <1>2, <1>3, <1>4 DEF LInv

LEMMA JInvHolds ==
    ASSUME Timely, "reused" \notin Faults
    PROVE  Spec => [](LInv /\ (crashed \/ JInv))
<1>1. Init => LInv /\ JInv
  <2> SUFFICES ASSUME Init PROVE LInv /\ JInv
    OBVIOUS
  <2>1. IInv /\ inHand = None
    BY InitIInv DEF Init
  <2>2. ASSUME NEW m \in Names PROVE WrittenOnce(m) /\ NoneAhead(m) /\ Justified(m)
    <3>1. /\ subs[m] = 0 /\ blame[m] = 0 /\ restarts = 0 /\ queue[m] = {} /\ owed[m] = {}
          /\ Path[m] \in Paths
      BY DEF Init, Paths
    <3>2. \A p \in Paths : file[p] = None \/ \E n \in Names : file[p] = Report(n, 0)
      BY DEF Init
    <3>3. inspected \subseteq {file[p] : p \in Paths} \ {None}
      BY DEF Init, Seeded
    <3>4. \A k \in Nat, p \in Paths : file[p] = Report(m, k) => k = 0
      BY <3>2, ReportValues
    <3>5. NoneAhead(m)
      BY <3>1, <3>3, <3>4 DEF NoneAhead
    <3> QED BY <3>1, <3>5 DEF WrittenOnce, Justified, Blamed, Account
  <2>3. \A e \in log : e.id = Id(e.run)
    BY DEF Init
  <2> QED BY <2>1, <2>2, <2>3, ReportValues DEF LInv, JInv, WInv
<1>2. ASSUME LInv /\ (crashed \/ JInv), [Next]_vars PROVE (LInv /\ (crashed \/ JInv))'
  <2>1. LInv'
    BY <1>2, NextLInv
  <2>2. crashed => crashed'
    BY <1>2 DEF Next, Tester, Start, WriteReport, Finish, Drop, LoseReport, GracePasses,
         Collector, Copy, Inspect, Monitor, Look, Examine, Judge, Submit, Retry, Stall, Restart,
         Done, vars, collector
  <2>3. JInv /\ ~crashed' => JInv'
    BY <1>2, <2>1, NextJInv DEF LInv, JInv
  <2> QED BY <1>2, <2>1, <2>2, <2>3
<1> QED BY <1>1, <1>2, PTL DEF Spec

\* No strategy is given up unless each attempt of the limit was lost by the tester, by a failed
\* copy or under the report of another strategy, or ended by a restart of the bot, as long as
\* no run is later than the grace period, no runId is used again and no collector has ended.
THEOREM GivenUpForCause ==
    ASSUME Timely, "reused" \notin Faults
    PROVE  Spec => []GivenUpJustly
<1>1. ASSUME JInv PROVE GivenUpJustly
  <2> SUFFICES ASSUME NEW n \in Names, tr[n].failed \/ n \in Exhausted
               PROVE  Used[n] + blame[n] + restarts >= MaxAttempts
    BY DEF GivenUpJustly
  <2>1. /\ Facts(n) /\ Justified(n) /\ Counted
        /\ {subs[n], blame[n], restarts, Used[n], MaxAttempts} \subseteq Nat
    BY <1>1 DEF JInv, LInv, WInv, IInv, EInv, CInv, Types
  <2>2. n \in names /\ Blamed(n) /\ tr[n].attempts >= MaxAttempts
    BY <1>1, <2>1, AgainIsJust DEF Facts, PollFacts, Justified, Exhausted
  <2> QED BY <2>1, <2>2 DEF Counted, Blamed
<1>2. crashed => GivenUpJustly
  BY DEF GivenUpJustly
<1> QED BY <1>1, <1>2, JInvHolds, PTL
=============================================================================
