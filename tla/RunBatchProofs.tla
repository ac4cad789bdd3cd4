--------------------------- MODULE RunBatchProofs ---------------------------
(***************************************************************************)
(* Whatever the runs of RunBatch do, and whatever fails: a run tests its   *)
(* own strategies with the settings it installed, nobody replaces settings *)
(* under a running tester, a lease that is given back leaves the tester as *)
(* it was found, and saved results are kept.                               *)
(***************************************************************************)
EXTENDS RunBatch, TLAPS

\* Points of the Panel's job outside run_batch, of an installation, and those at which the
\* call has the lease.
JobPoints == {"claim", "jobcapture", "jobprepare", "jobstop", "jobrestore", "jobrestoring",
    "jobrelease"}
Installing == {"install", "copy", "dropbackup"}
Held(r) ==
    IF r \in FromPanel THEN Points \ {"idle", "claim"}
    ELSE Points \ ({"idle", "lock", "acquire"} \cup JobPoints)

\* The call is installing for run_batch, or for the Panel's job.
ForChunk(r) == pc[r] \in Installing /\ mem[r].inside
ForJob(r) == pc[r] \in Installing /\ ~mem[r].inside

Place(r) ==
    /\ r \notin FromPanel => pc[r] \notin JobPoints /\ ~ForJob(r)
    /\ pc[r] \in Held(r) => lease = r /\ holderUp
    /\ pc[r] \in JobPoints \cup {"idle", "lock"} => ~mem[r].inside
    /\ pc[r] \notin JobPoints \cup Installing \cup {"idle", "lock"} => mem[r].inside

\* What the call knows of the settings it found.
Uncaptured == {"idle", "claim", "jobcapture", "jobprepare", "lock", "acquire", "baseline",
    "firststop", "capture"}
Captured == {"hydrate", "start", "test", "verify", "close", "recover", "salvage", "next",
    "resumed", "publish", "laststop", "inbox", "manifest", "complete", "restore", "restoring"}

Snapshots(r) ==
    /\ pc[r] \in Uncaptured \/ ForJob(r) => mem[r].snap = Nothing
    /\ pc[r] \in Captured \/ ForChunk(r) => mem[r].snap # Nothing

OfPanel(r) ==
    r \in FromPanel /\ pc[r] \in Held(r) =>
        /\ pc[r] = "jobcapture" => settings = found.settings
        /\ pc[r] # "jobcapture" => mem[r].outer = found.settings
        /\ pc[r] = "jobrelease" => settings = found.settings

OfCommandLine(r) ==
    r \notin FromPanel /\ pc[r] \in Held(r) =>
        /\ mem[r].snap = Nothing => settings = found.settings /\ bot \in {Nothing, found.bot}
        /\ mem[r].snap # Nothing => mem[r].snap = found.settings
        /\ pc[r] = "release" => settings = found.settings

\* The points at which the tester is stopped, and how the way back knows that it is.
Stopped == {"capture", "hydrate", "install", "copy", "dropbackup", "start", "salvage", "next",
    "resumed", "publish", "laststop", "inbox", "manifest", "complete", "restore", "restoring",
    "jobrestore", "jobrestoring", "jobrelease"}

BotFacts(r) ==
    /\ pc[r] \in Stopped => bot = Nothing
    /\ pc[r] \in {"test", "verify", "close", "recover"} => mem[r].started
    /\ mem[r].snap # Nothing =>
        /\ pc[r] = "handler" /\ ~mem[r].started => bot = Nothing
        /\ pc[r] = "finally" /\ mem[r].quiesced => bot = Nothing
        /\ pc[r] = "release" => bot = Nothing

\* What is installed while a chunk is prepared and tested.
ChunkFacts(r) ==
    /\ pc[r] \in {"copy", "dropbackup"} => backup # Nothing
    /\ pc[r] = "dropbackup" => settings = Content(r, Chunk(r))
    /\ pc[r] \in {"start", "test", "verify", "recover", "salvage"} =>
            settings.of = r /\ mem[r].todo \subseteq settings.names
    /\ pc[r] \in {"test", "verify"} => bot = settings
    /\ pc[r] = "verify" => \A n \in mem[r].todo : log[n] = r

\* Between two saves the results at hand are the saved ones, where a report backs them, and
\* what is being tested has none yet, unless it collided.
KeptFacts(r) ==
    /\ pc[r] \in {"start", "test", "verify", "close", "recover", "salvage", "next"} \/ ForChunk(r)
         => \A n \in Strategies \ unbacked[r] : mem[r].got[n] = saved[r][n]
    /\ pc[r] \in {"start", "test", "verify", "recover", "salvage"}
         => \A n \in mem[r].todo \ mem[r].forced : mem[r].got[n] = Nobody

Facts(r) ==
    /\ Place(r) /\ Snapshots(r) /\ OfPanel(r) /\ OfCommandLine(r)
    /\ BotFacts(r) /\ ChunkFacts(r) /\ KeptFacts(r)

Locals ==
    [snap : Contents, outer : Contents, inside : BOOLEAN, started : BOOLEAN,
     quiesced : BOOLEAN, restarts : 0..MaxRestarts, todo : SUBSET Strategies, got : Results,
     forced : SUBSET Strategies, moved : BOOLEAN]

Types ==
    /\ settings \in Contents /\ backup \in Contents /\ bot \in Contents /\ log \in Results
    /\ found \in [settings : Contents, bot : Contents]
    /\ lease \in Runs \cup {Nobody} /\ holderUp \in BOOLEAN
    /\ locked \subseteq Runs /\ done \subseteq Runs
    /\ pc \in [Runs -> Points] /\ mem \in [Runs -> Locals]
    /\ \A r \in Runs : mem[r].todo \subseteq StrategiesOf[r] /\ mem[r].forced \subseteq StrategiesOf[r]
    /\ saved \in [Runs -> Results] /\ inbox \in [Runs -> {"none", "partial", "whole"}]
    /\ unbacked \in [Runs -> SUBSET Strategies]
    /\ faults \in 0..MaxFaults /\ kills \in 0..MaxKills

\* Some settings are installed at any time, and were when the lease was granted.
Installed == settings # Nothing /\ found.settings # Nothing

IInv == Types /\ Installed /\ \A r \in Runs : Facts(r)

USE DEF At, Goto, Fine, Fault, StopBot, files, tester, locks, counts

-----------------------------------------------------------------------------
(* The types.                                                              *)

LEMMA ContentTypes ==
    /\ {Users, Partial, Nothing, Blank.snap, Blank.outer} \subseteq Contents
    /\ NoResults \in Results /\ Blank \in Locals
    /\ Users # Nothing /\ Partial # Nothing
    /\ \A r \in Runs, S \in SUBSET Strategies :
            Content(r, S) \in Contents /\ Content(r, S) # Nothing
            /\ Content(r, S).of = r /\ Content(r, S).names = S
<1>1. {Users, Partial, Nothing} \subseteq Contents /\ Users # Nothing /\ Partial # Nothing
  BY DEF Users, Partial, Nothing, Content, Contents
<1>2. NoResults \in Results
  BY DEF NoResults, Results
<1>3. Blank \in Locals
  BY <1>1, <1>2, ConstantsAssumption DEF Blank, Locals
<1>4. ASSUME NEW r \in Runs, NEW S, S \subseteq Strategies
      PROVE /\ Content(r, S) \in Contents /\ Content(r, S) # Nothing
            /\ Content(r, S).of = r /\ Content(r, S).names = S
  BY <1>4, ConstantsAssumption DEF Content, Contents, Nothing
<1> QED BY <1>1, <1>2, <1>3, <1>4 DEF Blank

\* A call that ends is at the Panel's job again, or forgotten.
LEMMA Leaving ==
    ASSUME Types, NEW r \in Runs, Leave(r)
    PROVE  /\ pc' = [pc EXCEPT ![r] = IF r \in FromPanel THEN "jobstop" ELSE "idle"]
           /\ mem' = [mem EXCEPT ![r] = IF r \in FromPanel
                                          THEN [mem[r] EXCEPT !.inside = FALSE] ELSE Blank]
           /\ mem'[r] \in Locals
           /\ mem'[r].todo \subseteq StrategiesOf[r] /\ mem'[r].forced \subseteq StrategiesOf[r]
<1>t. pc \in [Runs -> Points] /\ mem \in [Runs -> Locals] /\ Blank \in Locals
  BY ContentTypes DEF Types
<1>1. CASE r \in FromPanel
  <2>1. mem' = [mem EXCEPT ![r] = [mem[r] EXCEPT !.inside = FALSE]]
    BY <1>1 DEF Leave
  <2>2. mem'[r] = [mem[r] EXCEPT !.inside = FALSE]
    BY <1>t, <2>1
  <2>3. mem[r] \in Locals
    BY <1>t
  <2>4. mem'[r] \in Locals /\ mem'[r].todo = mem[r].todo /\ mem'[r].forced = mem[r].forced
    BY <2>2, <2>3 DEF Locals
  <2> QED BY <1>1, <2>1, <2>4 DEF Leave, Types
<1>2. CASE r \notin FromPanel
  <2>1. mem' = [mem EXCEPT ![r] = Blank] /\ pc' = [pc EXCEPT ![r] = "idle"]
    BY <1>2 DEF Leave
  <2>2. Blank.todo = {} /\ Blank.forced = {}
    BY DEF Blank
  <2> QED BY <1>t, <1>2, <2>1, <2>2
<1> QED BY <1>1, <1>2

\* A chunk is of the run's own strategies, and depends on the results at hand only.
LEMMA Chunks ==
    ASSUME Types, NEW r \in Runs
    PROVE  /\ Chunk(r) \subseteq StrategiesOf[r] /\ Chunk(r) \subseteq Strategies
           /\ Content(r, Chunk(r)) \in Contents /\ Content(r, Chunk(r)) # Nothing
           /\ Content(r, Chunk(r)).of = r /\ Content(r, Chunk(r)).names = Chunk(r)
           /\ mem'[r].inside = mem[r].inside /\ mem'[r].got = mem[r].got => Chunk(r)' = Chunk(r)
<1>1. Chunk(r) \subseteq StrategiesOf[r] /\ StrategiesOf[r] \subseteq Strategies
  BY DEF Chunk, Missing, Strategies
<1>2. mem'[r].inside = mem[r].inside /\ mem'[r].got = mem[r].got => Chunk(r)' = Chunk(r)
  BY DEF Chunk, Missing, Have
<1> QED BY <1>1, <1>2, ContentTypes

\* What a recovery takes from the log, what is left to test, whether it tests again, and the
\* results it cannot write because the paths of their reports are not known.
SalvageKept(r, V) ==
    [n \in Strategies |-> IF n \in mem[r].forced THEN Nobody
                          ELSE IF n \in V THEN log[n] ELSE mem[r].got[n]]
SalvageLeft(r, V) ==
    {n \in mem[r].todo : n \notin Have(SalvageKept(r, V)) \/ n \in mem[r].forced}
SalvageAgain(r, V) == SalvageLeft(r, V) # {} /\ mem[r].restarts < MaxRestarts
Gone(r, V, unknown) == (unbacked[r] \ V) \cup unknown
Salvages(r, V, unknown) ==
    /\ saved' = [saved EXCEPT ![r] = Without(SalvageKept(r, V), Gone(r, V, unknown))]
    /\ unbacked' = [unbacked EXCEPT ![r] = Gone(r, V, unknown)]
    /\ mem' = [mem EXCEPT ![r].got = SalvageKept(r, V), ![r].todo = SalvageLeft(r, V),
                          ![r].restarts = IF SalvageAgain(r, V) THEN @ + 1 ELSE @]
    /\ Goto(r, IF SalvageLeft(r, V) = {} THEN "next"
               ELSE IF SalvageAgain(r, V) THEN "start" ELSE "handler")

\* Writing results without their reports keeps their type, and all the others.
LEMMA Written ==
    ASSUME NEW results \in Results, NEW gone
    PROVE  /\ Without(results, gone) \in Results
           /\ \A n \in Strategies : n \notin gone => Without(results, gone)[n] = results[n]
BY DEF Without, Results

LEMMA SalvageFrame ==
    ASSUME NEW r \in Runs, Salvage(r)
    PROVE  /\ pc[r] = "salvage" /\ (Fine \/ Fault)
           /\ UNCHANGED <<settings, backup, bot, log, lease, holderUp, locked, inbox, done, found>>
BY Zenon DEF Salvage

LEMMA SalvageWrites ==
    ASSUME NEW r \in Runs, Salvage(r)
    PROVE  \/ Goto(r, "handler") /\ UNCHANGED <<mem, saved, unbacked>>
           \/ \E V \in Validated(r) : \E unknown \in SUBSET V : Salvages(r, V, unknown)
BY Zenon DEF Salvage, Salvages, SalvageKept, SalvageLeft, SalvageAgain, Gone

LEMMA SalvageMemory ==
    ASSUME Types, NEW r \in Runs, NEW V \in Validated(r), NEW unknown \in SUBSET V,
           Salvages(r, V, unknown)
    PROVE  /\ mem' = [mem EXCEPT ![r] = mem'[r]] /\ mem'[r] \in Locals
           /\ mem'[r].got = SalvageKept(r, V) /\ SalvageKept(r, V) \in Results
           /\ saved'[r] = Without(SalvageKept(r, V), Gone(r, V, unknown))
           /\ unbacked'[r] = Gone(r, V, unknown) /\ unbacked'[r] \subseteq Strategies
           /\ mem'[r].todo = SalvageLeft(r, V) /\ mem'[r].todo \subseteq mem[r].todo
           /\ mem'[r].snap = mem[r].snap /\ mem'[r].outer = mem[r].outer
           /\ mem'[r].inside = mem[r].inside /\ mem'[r].started = mem[r].started
           /\ mem'[r].quiesced = mem[r].quiesced /\ mem'[r].forced = mem[r].forced
           /\ mem'[r].moved = mem[r].moved
           /\ mem'[r].restarts \in 0..MaxRestarts
           /\ pc'[r] \in {"next", "start", "handler"} /\ (mem'[r].todo # {} => pc'[r] # "next")
           /\ pc' = [pc EXCEPT ![r] = pc'[r]] /\ saved' = [saved EXCEPT ![r] = saved'[r]]
           /\ unbacked' = [unbacked EXCEPT ![r] = unbacked'[r]]
<1>t. /\ mem \in [Runs -> Locals] /\ saved \in [Runs -> Results] /\ pc \in [Runs -> Points]
      /\ mem[r] \in Locals /\ mem[r].restarts \in 0..MaxRestarts
      /\ mem[r].got \in Results /\ mem[r].todo \subseteq Strategies /\ log \in Results
      /\ unbacked \in [Runs -> SUBSET Strategies]
      /\ unbacked[r] \subseteq Strategies /\ V \subseteq Strategies
  BY DEF Types, Locals, Validated
<1>u. Gone(r, V, unknown) \subseteq Strategies
  BY <1>t DEF Gone
<1>1. SalvageLeft(r, V) \subseteq mem[r].todo
  BY DEF SalvageLeft
<1>a. SalvageKept(r, V) \in Results
  BY <1>t DEF SalvageKept, Results
<1> DEFINE kept == SalvageKept(r, V)
           left == SalvageLeft(r, V)
           again == SalvageAgain(r, V)
           gone == Gone(r, V, unknown)
<1>2. again => mem[r].restarts < MaxRestarts
  BY DEF SalvageAgain
<1>3. /\ saved' = [saved EXCEPT ![r] = Without(kept, gone)]
      /\ unbacked' = [unbacked EXCEPT ![r] = gone]
      /\ mem' = [mem EXCEPT ![r].got = kept, ![r].todo = left,
                            ![r].restarts = IF again THEN @ + 1 ELSE @]
      /\ Goto(r, IF left = {} THEN "next" ELSE IF again THEN "start" ELSE "handler")
  BY DEF Salvages
<1> HIDE DEF kept, left, again, gone
<1>4. /\ saved'[r] = Without(kept, gone) /\ saved' = [saved EXCEPT ![r] = saved'[r]]
      /\ unbacked'[r] = gone /\ unbacked' = [unbacked EXCEPT ![r] = unbacked'[r]]
  BY <1>t, <1>3
<1>5. /\ pc'[r] \in {"next", "start", "handler"} /\ (left # {} => pc'[r] # "next")
      /\ pc' = [pc EXCEPT ![r] = pc'[r]]
  BY <1>t, <1>3
<1>6. /\ mem' = [mem EXCEPT ![r] = mem'[r]]
      /\ mem'[r] = [mem[r] EXCEPT !.got = kept, !.todo = left,
                                  !.restarts = IF again THEN @ + 1 ELSE @]
  BY <1>t, <1>3
<1>7. /\ mem'[r].got = kept /\ mem'[r].todo = left
      /\ mem'[r].restarts = IF again THEN mem[r].restarts + 1 ELSE mem[r].restarts
      /\ mem'[r].snap = mem[r].snap /\ mem'[r].outer = mem[r].outer
      /\ mem'[r].inside = mem[r].inside /\ mem'[r].started = mem[r].started
      /\ mem'[r].quiesced = mem[r].quiesced /\ mem'[r].forced = mem[r].forced
      /\ mem'[r].moved = mem[r].moved
  BY <1>t, <1>6 DEF Locals
<1>8. mem'[r].restarts \in 0..MaxRestarts
  BY <1>t, <1>2, <1>7, ConstantsAssumption
<1>9. kept \in Results /\ left \subseteq Strategies
  BY <1>t, <1>1, <1>a DEF kept, left
<1>10. mem'[r] \in Locals
  <2> DEFINE n == IF again THEN mem[r].restarts + 1 ELSE mem[r].restarts
  <2>1. n \in 0..MaxRestarts
    BY <1>7, <1>8
  <2>2. mem'[r] = [mem[r] EXCEPT !.got = kept, !.todo = left, !.restarts = n]
    BY <1>t, <1>6
  <2> HIDE DEF n
  <2> QED BY <1>t, <1>9, <2>1, <2>2 DEF Locals
<1> QED BY <1>a, <1>u, <1>1, <1>4, <1>5, <1>6, <1>7, <1>8, <1>10 DEF kept, left, gone

LEMMA SalvageOwn ==
    ASSUME Types, NEW r \in Runs, Salvage(r)
    PROVE  /\ pc' = [pc EXCEPT ![r] = pc'[r]] /\ pc'[r] \in {"next", "start", "handler"}
           /\ mem' = [mem EXCEPT ![r] = mem'[r]] /\ saved' = [saved EXCEPT ![r] = saved'[r]]
           /\ unbacked' = [unbacked EXCEPT ![r] = unbacked'[r]]
           /\ unbacked'[r] \subseteq Strategies
<1>1. CASE Goto(r, "handler") /\ UNCHANGED <<mem, saved, unbacked>>
  BY <1>1 DEF Types
<1>2. ASSUME NEW V \in Validated(r), NEW unknown \in SUBSET V, Salvages(r, V, unknown)
      PROVE  /\ pc' = [pc EXCEPT ![r] = pc'[r]] /\ pc'[r] \in {"next", "start", "handler"}
             /\ mem' = [mem EXCEPT ![r] = mem'[r]] /\ saved' = [saved EXCEPT ![r] = saved'[r]]
             /\ unbacked' = [unbacked EXCEPT ![r] = unbacked'[r]]
             /\ unbacked'[r] \subseteq Strategies
  BY <1>2, SalvageMemory
<1> QED BY <1>1, <1>2, SalvageWrites

LEMMA JobSteps ==
    ASSUME IInv, NEW r \in Runs,
           Start(r) \/ Claim(r) \/ JobCapture(r) \/ JobPrepare(r) \/ JobStop(r)
    PROVE  Facts(r)' /\ Installed'
<1> USE DEF Facts, Place, Snapshots, OfPanel, OfCommandLine, BotFacts, ChunkFacts, KeptFacts,
            ForChunk, ForJob, Uncaptured, Captured, Stopped, Installing, JobPoints, Held, Points,
            Locals, Installed
<1>t. Types /\ Installed /\ Facts(r)
  BY DEF IInv
<1>1. CASE Start(r)
  BY <1>t, <1>1 DEF Start, Types
<1>2. CASE Claim(r)
  BY <1>t, <1>2 DEF Claim, TakeLease, Types
<1>3. CASE JobCapture(r)
  BY <1>t, <1>3 DEF JobCapture, EndJob, Blank, Types
<1>4. CASE JobPrepare(r)
  BY <1>t, <1>4 DEF JobPrepare, Types
<1>5. CASE JobStop(r)
  BY <1>t, <1>5 DEF JobStop, EndJob, Blank, Types
<1> QED BY <1>1, <1>2, <1>3, <1>4, <1>5

LEMMA EntrySteps ==
    ASSUME IInv, NEW r \in Runs,
           Lock(r) \/ Acquire(r) \/ Baseline(r) \/ FirstStop(r) \/ Capture(r) \/ Hydrate(r)
    PROVE  Facts(r)' /\ Installed'
<1> USE DEF Facts, Place, Snapshots, OfPanel, OfCommandLine, BotFacts, ChunkFacts, KeptFacts,
            ForChunk, ForJob, Uncaptured, Captured, Stopped, Installing, JobPoints, Held, Points,
            Locals, Installed
<1>t. Types /\ Installed /\ Facts(r)
  BY DEF IInv
<1>1. CASE Lock(r)
  BY <1>t, <1>1, Leaving, ContentTypes DEF Lock, Blank, Types
<1>2. CASE Acquire(r)
  BY <1>t, <1>2, Leaving, ContentTypes DEF Acquire, Blank, TakeLease, Types
<1>3. CASE Baseline(r)
  BY <1>t, <1>3, Leaving, ContentTypes DEF Baseline, Blank, Types
<1>4. CASE FirstStop(r)
  <2>1. CASE bot' = Nothing /\ Goto(r, "capture") /\ UNCHANGED mem
    BY <1>t, <1>4, <2>1 DEF FirstStop, Types
  <2>2. CASE UNCHANGED bot /\ Goto(r, "handler") /\ \E q \in BOOLEAN : mem' = [mem EXCEPT ![r].quiesced = q]
    BY <1>t, <1>4, <2>2 DEF FirstStop, Types
  <2> QED BY <1>4, <2>1, <2>2 DEF FirstStop
<1>5. CASE Capture(r)
  BY <1>t, <1>5 DEF Capture, Types
<1>6. CASE Hydrate(r)
  <2>1. ASSUME NEW n \in Strategies \ unbacked[r]
        PROVE  Without(saved[r], unbacked[r])[n] = saved[r][n]
    BY DEF Without
  <2>2. CASE /\ mem' = [mem EXCEPT ![r].got = Without(saved[r], unbacked[r])]
             /\ Goto(r, "resumed") \/ Goto(r, "install")
    BY <1>t, <1>6, <2>1, <2>2 DEF Hydrate, Types
  <2>3. CASE Goto(r, "handler") /\ UNCHANGED mem
    BY <1>t, <1>6, <2>3 DEF Hydrate, Types
  <2> QED BY <1>6, <2>2, <2>3 DEF Hydrate
<1> QED BY <1>1, <1>2, <1>3, <1>4, <1>5, <1>6

LEMMA InstallSteps ==
    ASSUME IInv, NEW r \in Runs,
           Install(r) \/ Copy(r) \/ DropBackup(r)
    PROVE  Facts(r)' /\ Installed'
<1> USE DEF Facts, Place, Snapshots, OfPanel, OfCommandLine, BotFacts, ChunkFacts, KeptFacts,
            ForChunk, ForJob, Uncaptured, Captured, Stopped, Installing, JobPoints, Held, Points,
            Locals, Installed
<1>t. Types /\ Installed /\ Facts(r)
  BY DEF IInv
<1>1. CASE Install(r)
  BY <1>t, <1>1, ContentTypes DEF Install, Failed, Types
<1>2. CASE Copy(r)
  <2>1. CASE RollBack /\ Failed(r)
    BY <1>t, <1>2, <2>1, ContentTypes DEF Copy, Failed, RollBack, Types
  <2>2. CASE settings' = Content(r, Chunk(r)) /\ Goto(r, "dropbackup") /\ UNCHANGED backup
    BY <1>t, <1>2, <2>2, Chunks DEF Copy, Types
  <2> QED BY <1>2, <2>1, <2>2 DEF Copy
<1>3. CASE DropBackup(r)
  <2>1. CASE RollBack /\ Failed(r) /\ UNCHANGED mem
    BY <1>t, <1>3, <2>1, ContentTypes DEF DropBackup, Failed, RollBack, Types
  <2>2. CASE mem[r].inside /\ mem' = [mem EXCEPT ![r].todo = Chunk(r)] /\ Goto(r, "start")
            /\ UNCHANGED settings
    <3>1. \A n \in Chunk(r) : mem[r].got[n] = Nobody
      BY <2>2 DEF Chunk, Missing, Have, Strategies
    <3> QED BY <1>t, <1>3, <2>2, <3>1, Chunks DEF DropBackup, Types
  <2>3. CASE ~mem[r].inside /\ UNCHANGED mem /\ Goto(r, "lock") /\ UNCHANGED settings
    BY <1>t, <1>3, <2>3 DEF DropBackup, Types
  <2> QED BY <1>3, <2>1, <2>2, <2>3 DEF DropBackup
<1> QED BY <1>1, <1>2, <1>3

LEMMA TestSteps ==
    ASSUME IInv, NEW r \in Runs,
           StartBot(r) \/ Monitor(r) \/ Verify(r) \/ Close(r) \/ Recover(r) \/ Salvage(r) \/ NextChunk(r)
    PROVE  Facts(r)' /\ Installed'
<1> USE DEF Facts, Place, Snapshots, OfPanel, OfCommandLine, BotFacts, ChunkFacts, KeptFacts,
            ForChunk, ForJob, Uncaptured, Captured, Stopped, Installing, JobPoints, Held, Points,
            Locals, Installed
<1>t. Types /\ Installed /\ Facts(r)
  BY DEF IInv
<1>1. CASE StartBot(r)
  BY <1>t, <1>1 DEF StartBot, Types
<1>2. CASE Monitor(r)
  BY <1>t, <1>2 DEF Monitor, Types
<1>3. CASE Verify(r)
  <2>1. /\ pc[r] = "verify"
        /\ UNCHANGED <<settings, backup, bot, log, lease, holderUp, found>>
    BY <1>3 DEF Verify
  <2>2. ASSUME NEW kept \in Results, NEW gone \in SUBSET Strategies, Goto(r, "close"),
               saved' = [saved EXCEPT ![r] = Without(kept, gone)],
               unbacked' = [unbacked EXCEPT ![r] = gone],
               mem' = [mem EXCEPT ![r].got = kept, ![r].forced = @ \ mem[r].todo]
        PROVE  Facts(r)' /\ Installed'
    <3>1. /\ saved'[r] = Without(kept, gone) /\ unbacked'[r] = gone /\ pc'[r] = "close"
          /\ mem'[r] = [mem[r] EXCEPT !.got = kept, !.forced = @ \ mem[r].todo]
      BY <1>t, <2>2 DEF Types
    <3>2. \A n \in Strategies \ unbacked'[r] : mem'[r].got[n] = saved'[r][n]
      BY <1>t, <3>1, Written DEF Types
    <3>3. /\ mem'[r].snap = mem[r].snap /\ mem'[r].outer = mem[r].outer
          /\ mem'[r].inside = mem[r].inside /\ mem'[r].started = mem[r].started
          /\ mem'[r].quiesced = mem[r].quiesced
      BY <1>t, <3>1 DEF Types
    <3> QED BY <1>t, <2>1, <3>1, <3>2, <3>3
  <2>3. ASSUME NEW collided \in SUBSET mem[r].todo, Goto(r, "recover"),
               UNCHANGED <<saved, unbacked>>, mem' = [mem EXCEPT ![r].forced = @ \cup collided]
        PROVE  Facts(r)' /\ Installed'
    BY <1>t, <2>1, <2>3 DEF Types
  <2>4. CASE Goto(r, "handler") /\ UNCHANGED <<saved, unbacked, mem>>
    BY <1>t, <2>1, <2>4 DEF Types
  <2>5. Take(mem[r].got, mem[r].todo) \in Results /\ unbacked[r] \ mem[r].todo \subseteq Strategies
    BY <1>t DEF Take, Results, Types
  <2> QED BY <1>3, <2>2, <2>3, <2>4, <2>5 DEF Verify
<1>4. CASE Close(r)
  <2>1. /\ pc[r] = "close"
        /\ UNCHANGED <<settings, backup, log, lease, holderUp, saved, unbacked, found>>
    BY <1>4 DEF Close
  <2>2. CASE Goto(r, "next") /\ StopBot /\ mem' = [mem EXCEPT ![r].started = FALSE]
    BY <1>t, <2>1, <2>2 DEF Types
  <2>3. CASE Goto(r, "handler") /\ UNCHANGED <<bot, mem>>
    BY <1>t, <2>1, <2>3 DEF Types
  <2> QED BY <1>4, <2>2, <2>3 DEF Close
<1>5. CASE Recover(r)
  <2>1. /\ pc[r] = "recover"
        /\ UNCHANGED <<settings, backup, log, lease, holderUp, saved, unbacked, found>>
    BY <1>5 DEF Recover
  <2>2. CASE Goto(r, "salvage") /\ StopBot /\ mem' = [mem EXCEPT ![r].started = FALSE]
    BY <1>t, <2>1, <2>2 DEF Types
  <2>3. CASE Goto(r, "handler") /\ UNCHANGED <<bot, mem>>
    BY <1>t, <2>1, <2>3 DEF Types
  <2> QED BY <1>5, <2>2, <2>3 DEF Recover
<1>6. CASE Salvage(r)
  <2>1. /\ pc[r] = "salvage"
        /\ UNCHANGED <<settings, backup, bot, log, lease, holderUp, found>>
    BY <1>6, SalvageFrame
  <2>2. CASE Goto(r, "handler") /\ UNCHANGED <<mem, saved, unbacked>>
    BY <1>t, <2>1, <2>2 DEF Types
  <2>3. ASSUME NEW V \in Validated(r), NEW unknown \in SUBSET V, Salvages(r, V, unknown)
        PROVE  Facts(r)' /\ Installed'
    <3>1. /\ mem'[r].todo \subseteq mem[r].todo
          /\ mem'[r].snap = mem[r].snap /\ mem'[r].outer = mem[r].outer
          /\ mem'[r].inside = mem[r].inside /\ mem'[r].started = mem[r].started
          /\ mem'[r].quiesced = mem[r].quiesced
          /\ pc'[r] \in {"next", "start", "handler"}
      BY <1>t, <2>3, SalvageMemory
    <3>2. \A n \in Strategies \ unbacked'[r] : mem'[r].got[n] = saved'[r][n]
      BY <1>t, <2>3, SalvageMemory, Written
    <3>3. \A n \in mem'[r].todo \ mem'[r].forced : mem'[r].got[n] = Nobody
      <4>1. /\ mem'[r].todo = SalvageLeft(r, V) /\ mem'[r].got = SalvageKept(r, V)
            /\ mem'[r].forced = mem[r].forced /\ mem[r].todo \subseteq Strategies
        BY <1>t, <2>3, SalvageMemory DEF Types
      <4> QED BY <4>1 DEF SalvageLeft, Have
    <3> QED BY <1>t, <2>1, <3>1, <3>2, <3>3
  <2> QED BY <1>6, <2>2, <2>3, SalvageWrites
<1>7. CASE NextChunk(r)
  BY <1>t, <1>7 DEF NextChunk, Types
<1> QED BY <1>1, <1>2, <1>3, <1>4, <1>5, <1>6, <1>7

LEMMA EndSteps ==
    ASSUME IInv, NEW r \in Runs,
           Publish(r) \/ LastStop(r) \/ CaptureInbox(r) \/ WriteManifest(r) \/ Complete(r) \/ Handler(r)
    PROVE  Facts(r)' /\ Installed'
<1> USE DEF Facts, Place, Snapshots, OfPanel, OfCommandLine, BotFacts, ChunkFacts, KeptFacts,
            ForChunk, ForJob, Uncaptured, Captured, Stopped, Installing, JobPoints, Held, Points,
            Locals, Installed
<1>t. Types /\ Installed /\ Facts(r)
  BY DEF IInv
<1>1. CASE Publish(r)
  BY <1>t, <1>1 DEF Publish, Types
<1>2. CASE LastStop(r)
  BY <1>t, <1>2 DEF LastStop, Types
<1>3. CASE CaptureInbox(r)
  BY <1>t, <1>3 DEF CaptureInbox, Types
<1>4. CASE WriteManifest(r)
  BY <1>t, <1>4 DEF WriteManifest, Types
<1>5. CASE Complete(r)
  BY <1>t, <1>5 DEF Complete, Types
<1>6. CASE Handler(r)
  <2>1. /\ pc[r] = "handler" /\ pc' = [pc EXCEPT ![r] = "finally"]
        /\ UNCHANGED <<settings, backup, log, lease, holderUp, saved, unbacked, found>>
    BY <1>6 DEF Handler
  <2>2. CASE mem' = [mem EXCEPT ![r].started = FALSE] /\ mem[r].started /\ StopBot
    BY <1>t, <2>1, <2>2 DEF Types
  <2>3. CASE mem' = [mem EXCEPT ![r].started = FALSE] /\ ~mem[r].started /\ UNCHANGED bot
    BY <1>t, <2>1, <2>3 DEF Types
  <2>4. CASE mem' = [mem EXCEPT ![r].quiesced = FALSE] /\ UNCHANGED bot
    BY <1>t, <2>1, <2>4 DEF Types
  <2> QED BY <1>6, <2>2, <2>3, <2>4 DEF Handler
<1> QED BY <1>1, <1>2, <1>3, <1>4, <1>5, <1>6

LEMMA WayBack ==
    ASSUME IInv, NEW r \in Runs,
           Finally(r) \/ Restore(r) \/ Restored(r) \/ Release(r)
    PROVE  Facts(r)' /\ Installed'
<1> USE DEF Facts, Place, Snapshots, OfPanel, OfCommandLine, BotFacts, ChunkFacts, KeptFacts,
            ForChunk, ForJob, Uncaptured, Captured, Stopped, Installing, JobPoints, Held, Points,
            Locals, Installed
<1>t. Types /\ Installed /\ Facts(r)
  BY DEF IInv
<1>1. CASE Finally(r)
  BY <1>t, <1>1, Leaving, ContentTypes DEF Finally, Blank, Types
<1>2. CASE Restore(r)
  BY <1>t, <1>2, ContentTypes DEF Restore, Types
<1>3. CASE Restored(r)
  BY <1>t, <1>3, Leaving, ContentTypes DEF Restored, EndJob, Blank, Types
<1>4. CASE Release(r)
  BY <1>t, <1>4, Leaving, ContentTypes DEF Release, EndJob, GiveBack, Blank, Types
<1> QED BY <1>1, <1>2, <1>3, <1>4

LEMMA Endings ==
    ASSUME IInv, NEW r \in Runs,
           Exit(r) \/ Kill(r)
    PROVE  Facts(r)' /\ Installed'
<1> USE DEF Facts, Place, Snapshots, OfPanel, OfCommandLine, BotFacts, ChunkFacts, KeptFacts,
            ForChunk, ForJob, Uncaptured, Captured, Stopped, Installing, JobPoints, Held, Points,
            Locals, Installed
<1>t. Types /\ Installed /\ Facts(r)
  BY DEF IInv
<1>1. CASE Exit(r)
  BY <1>t, <1>1 DEF Exit, Forget, Types
<1>2. CASE Kill(r)
  BY <1>t, <1>2, ContentTypes DEF Kill, EndJob, Forget, Blank, Types
<1> QED BY <1>1, <1>2

-----------------------------------------------------------------------------
(* The other runs.                                                         *)

\* What a run does leaves the place, the memory and the results of the others alone.
LEMMA OthersKeepTheirs ==
    ASSUME NEW r \in Runs, NEW q \in Runs \ {r}, Start(r) \/ Step(r) \/ Exit(r) \/ Kill(r),
           Types
    PROVE  /\ pc'[q] = pc[q] /\ mem'[q] = mem[q] /\ saved'[q] = saved[q]
           /\ unbacked'[q] = unbacked[q]
<1>t. /\ pc \in [Runs -> Points] /\ mem \in [Runs -> Locals] /\ saved \in [Runs -> Results]
      /\ unbacked \in [Runs -> SUBSET Strategies]
  BY DEF Types
<1>1. CASE Start(r) \/ Claim(r) \/ JobCapture(r) \/ JobPrepare(r) \/ JobStop(r)
  BY <1>t, <1>1 DEF Start, Claim, JobCapture, JobPrepare, JobStop, EndJob
<1>2. CASE Lock(r) \/ Acquire(r) \/ Baseline(r)
       \/ FirstStop(r) \/ Capture(r) \/ Hydrate(r)
  BY <1>t, <1>2 DEF Lock, Acquire, Baseline, FirstStop, Capture, Hydrate, Leave
<1>3. CASE Install(r) \/ Copy(r) \/ DropBackup(r)
  BY <1>t, <1>3 DEF Install, Copy, DropBackup, Failed
<1>4. CASE StartBot(r) \/ Monitor(r) \/ Verify(r) \/ Close(r) \/ Recover(r) \/ NextChunk(r)
  BY <1>t, <1>4 DEF StartBot, Monitor, Verify, Close, Recover, NextChunk
<1>s. CASE Salvage(r)
  BY <1>t, <1>s, SalvageOwn
<1>5. CASE Publish(r) \/ LastStop(r) \/ CaptureInbox(r)
       \/ WriteManifest(r) \/ Complete(r) \/ Handler(r)
  BY <1>t, <1>5 DEF Publish, LastStop, CaptureInbox, WriteManifest, Complete, Handler
<1>6. CASE Finally(r) \/ Restore(r) \/ Restored(r) \/ Release(r)
  BY <1>t, <1>6 DEF Finally, Restore, Restored, Release, Leave, EndJob
<1>7. CASE Exit(r) \/ Kill(r)
  BY <1>t, <1>7 DEF Exit, Kill, EndJob
<1> QED BY <1>s, <1>1, <1>2, <1>3, <1>4, <1>5, <1>6, <1>7 DEF Step

\* While one call has the lease, no other one touches the tester or the lease.
LEMMA LeaseExcludes ==
    ASSUME IInv, NEW r \in Runs, NEW q \in Runs \ {r}, pc[q] \in Held(q),
           Start(r) \/ Step(r) \/ Exit(r) \/ Kill(r)
    PROVE  UNCHANGED <<settings, backup, bot, log, lease, holderUp, found>>
<1>1. lease = q /\ holderUp = TRUE /\ ~Free
  BY ConstantsAssumption DEF IInv, Types, Facts, Place, Free
<1>2. pc[r] \in {"idle", "claim", "lock", "acquire"} /\ (pc[r] = "acquire" => r \notin FromPanel)
  BY <1>1 DEF IInv, Types, Facts, Place, Held, Points, JobPoints
<1>3. CASE Start(r) \/ Claim(r) \/ JobCapture(r) \/ JobPrepare(r) \/ JobStop(r)
  BY <1>1, <1>2, <1>3 DEF Start, Claim, JobCapture, JobPrepare, JobStop
<1>4. CASE Lock(r) \/ Acquire(r) \/ Baseline(r)
       \/ FirstStop(r) \/ Capture(r) \/ Hydrate(r)
  BY <1>1, <1>2, <1>4 DEF Lock, Acquire, Baseline, FirstStop, Capture, Hydrate, Leave
<1>5. CASE Install(r) \/ Copy(r) \/ DropBackup(r)
  BY <1>1, <1>2, <1>5 DEF Install, Copy, DropBackup
<1>6. CASE StartBot(r) \/ Monitor(r) \/ Verify(r) \/ Close(r) \/ Recover(r) \/ NextChunk(r)
  BY <1>1, <1>2, <1>6 DEF StartBot, Monitor, Verify, Close, Recover, NextChunk
<1>s. CASE Salvage(r)
  BY <1>1, <1>2, <1>s, SalvageFrame
<1>7. CASE Publish(r) \/ LastStop(r) \/ CaptureInbox(r)
       \/ WriteManifest(r) \/ Complete(r) \/ Handler(r)
  BY <1>1, <1>2, <1>7 DEF Publish, LastStop, CaptureInbox, WriteManifest, Complete, Handler
<1>8. CASE Finally(r) \/ Restore(r) \/ Restored(r) \/ Release(r)
  BY <1>1, <1>2, <1>8 DEF Finally, Restore, Restored, Release
<1>9. CASE Exit(r) \/ Kill(r)
  BY <1>1, <1>2, <1>9 DEF Exit, Kill, Forget, EndJob
<1> QED BY <1>s, <1>3, <1>4, <1>5, <1>6, <1>7, <1>8, <1>9 DEF Step

LEMMA OthersKeepFacts ==
    ASSUME IInv, NEW r \in Runs, NEW q \in Runs \ {r},
           Start(r) \/ Step(r) \/ Exit(r) \/ Kill(r)
    PROVE  Facts(q)'
<1>t. Types /\ Facts(q)
  BY DEF IInv
<1>1. /\ pc'[q] = pc[q] /\ mem'[q] = mem[q] /\ saved'[q] = saved[q] /\ unbacked'[q] = unbacked[q]
      /\ Chunk(q)' = Chunk(q)
  BY <1>t, OthersKeepTheirs, Chunks
<1>2. pc[q] \in Held(q) =>
            UNCHANGED <<settings, backup, bot, log, lease, holderUp, found>>
  BY LeaseExcludes
<1> USE DEF Facts, Place, Snapshots, OfPanel, OfCommandLine, BotFacts, ChunkFacts, KeptFacts,
            ForChunk, ForJob, Uncaptured, Captured, Stopped, Installing, JobPoints, Held, Points
<1>3. CASE pc[q] \in Held(q)
  <2>1. UNCHANGED <<settings, backup, bot, log, lease, holderUp, found>>
    BY <1>2, <1>3
  <2>2. Place(q)' /\ Snapshots(q)' /\ OfPanel(q)' /\ OfCommandLine(q)'
    BY <1>t, <1>1, <2>1
  <2>3. BotFacts(q)' /\ KeptFacts(q)'
    BY <1>t, <1>1, <2>1
  <2>4. ChunkFacts(q)'
    BY <1>t, <1>1, <2>1
  <2> QED BY <2>2, <2>3, <2>4
<1>4. CASE pc[q] \notin Held(q)
  BY <1>t, <1>1, <1>4 DEF Types
<1> QED BY <1>3, <1>4

-----------------------------------------------------------------------------
(* The types of the next state.                                            *)

LEMMA ContentsTyped ==
    ASSUME IInv, NEW r \in Runs, Start(r) \/ Step(r) \/ Exit(r) \/ Kill(r)
    PROVE  /\ settings' \in Contents /\ backup' \in Contents /\ bot' \in Contents
           /\ found' \in [settings : Contents, bot : Contents]
<1>t. /\ settings \in Contents /\ backup \in Contents /\ bot \in Contents
      /\ found \in [settings : Contents, bot : Contents]
      /\ mem[r].snap \in Contents /\ mem[r].outer \in Contents
      /\ Nothing \in Contents /\ Partial \in Contents /\ Content(r, Chunk(r)) \in Contents
  BY ContentTypes, Chunks DEF IInv, Types, Locals
<1>1. CASE Start(r) \/ Claim(r) \/ JobCapture(r) \/ JobPrepare(r) \/ JobStop(r)
  BY <1>t, <1>1 DEF Start, Claim, JobCapture, JobPrepare, JobStop, TakeLease
<1>2. CASE Lock(r) \/ Acquire(r) \/ Baseline(r)
       \/ FirstStop(r) \/ Capture(r) \/ Hydrate(r)
  BY <1>t, <1>2 DEF Lock, Acquire, Baseline, FirstStop, Capture, Hydrate, TakeLease
<1>3. CASE Install(r) \/ Copy(r) \/ DropBackup(r)
  BY <1>t, <1>3 DEF Install, Copy, DropBackup, RollBack
<1>4. CASE StartBot(r) \/ Monitor(r) \/ Verify(r) \/ Close(r) \/ Recover(r) \/ NextChunk(r)
  BY <1>t, <1>4 DEF StartBot, Monitor, Verify, Close, Recover, NextChunk
<1>s. CASE Salvage(r)
  BY <1>t, <1>s, SalvageFrame
<1>5. CASE Publish(r) \/ LastStop(r) \/ CaptureInbox(r)
       \/ WriteManifest(r) \/ Complete(r) \/ Handler(r)
  BY <1>t, <1>5 DEF Publish, LastStop, CaptureInbox, WriteManifest, Complete, Handler
<1>6. CASE Finally(r) \/ Restore(r) \/ Restored(r) \/ Release(r)
  BY <1>t, <1>6 DEF Finally, Restore, Restored, Release
<1>7. CASE Exit(r) \/ Kill(r)
  BY <1>t, <1>7 DEF Exit, Kill
<1> QED BY <1>s, <1>1, <1>2, <1>3, <1>4, <1>5, <1>6, <1>7 DEF Step

LEMMA LogTyped ==
    ASSUME IInv, NEW r \in Runs, Start(r) \/ Step(r) \/ Exit(r) \/ Kill(r)
    PROVE  log' \in Results
<1>t. log \in Results
  BY DEF IInv, Types
<1>1. CASE Start(r) \/ Claim(r) \/ JobCapture(r) \/ JobPrepare(r) \/ JobStop(r)
  BY <1>t, <1>1 DEF Start, Claim, JobCapture, JobPrepare, JobStop
<1>2. CASE Lock(r) \/ Acquire(r) \/ Baseline(r)
       \/ FirstStop(r) \/ Capture(r) \/ Hydrate(r)
  BY <1>t, <1>2 DEF Lock, Acquire, Baseline, FirstStop, Capture, Hydrate
<1>3. CASE Install(r) \/ Copy(r) \/ DropBackup(r)
  BY <1>t, <1>3 DEF Install, Copy, DropBackup
<1>4. CASE StartBot(r) \/ Monitor(r) \/ Verify(r) \/ Close(r)
       \/ Recover(r) \/ Salvage(r) \/ NextChunk(r)
  <2>1. CASE Monitor(r)
    <3>1. bot.of = r
      BY <2>1 DEF IInv, Facts, ChunkFacts, Monitor
    <3> QED BY <1>t, <2>1, <3>1 DEF Monitor, Results
  <2>2. CASE Salvage(r)
    BY <1>t, <2>2, SalvageFrame
  <2> QED BY <1>t, <1>4, <2>1, <2>2 DEF StartBot, Verify, Close, Recover, NextChunk
<1>5. CASE Publish(r) \/ LastStop(r) \/ CaptureInbox(r)
       \/ WriteManifest(r) \/ Complete(r) \/ Handler(r)
  BY <1>t, <1>5 DEF Publish, LastStop, CaptureInbox, WriteManifest, Complete, Handler
<1>6. CASE Finally(r) \/ Restore(r) \/ Restored(r) \/ Release(r)
  BY <1>t, <1>6 DEF Finally, Restore, Restored, Release
<1>7. CASE Exit(r) \/ Kill(r)
  BY <1>t, <1>7 DEF Exit, Kill
<1> QED BY <1>1, <1>2, <1>3, <1>4, <1>5, <1>6, <1>7 DEF Step

LEMMA PointsTyped ==
    ASSUME IInv, NEW r \in Runs, Start(r) \/ Step(r) \/ Exit(r) \/ Kill(r)
    PROVE  pc' \in [Runs -> Points]
<1>t. pc \in [Runs -> Points]
  BY DEF IInv, Types
<1> USE DEF Points
<1>1. CASE Start(r) \/ Claim(r) \/ JobCapture(r) \/ JobPrepare(r) \/ JobStop(r)
  BY <1>t, <1>1 DEF Start, Claim, JobCapture, JobPrepare, JobStop, EndJob
<1>2. CASE Lock(r) \/ Acquire(r) \/ Baseline(r)
       \/ FirstStop(r) \/ Capture(r) \/ Hydrate(r)
  BY <1>t, <1>2 DEF Lock, Acquire, Baseline, FirstStop, Capture, Hydrate, Leave
<1>3. CASE Install(r) \/ Copy(r) \/ DropBackup(r)
  BY <1>t, <1>3 DEF Install, Copy, DropBackup, Failed
<1>4. CASE StartBot(r) \/ Monitor(r) \/ Verify(r) \/ Close(r) \/ Recover(r) \/ NextChunk(r)
  BY <1>t, <1>4 DEF StartBot, Monitor, Verify, Close, Recover, NextChunk
<1>s. CASE Salvage(r)
  BY <1>t, <1>s, SalvageOwn DEF IInv
<1>5. CASE Publish(r) \/ LastStop(r) \/ CaptureInbox(r)
       \/ WriteManifest(r) \/ Complete(r) \/ Handler(r)
  BY <1>t, <1>5 DEF Publish, LastStop, CaptureInbox, WriteManifest, Complete, Handler
<1>6. CASE Finally(r) \/ Restore(r) \/ Restored(r) \/ Release(r)
  BY <1>t, <1>6 DEF Finally, Restore, Restored, Release, Leave, EndJob
<1>7. CASE Exit(r) \/ Kill(r)
  BY <1>t, <1>7 DEF Exit, Kill, EndJob
<1> QED BY <1>s, <1>1, <1>2, <1>3, <1>4, <1>5, <1>6, <1>7 DEF Step

LEMMA LocksTyped ==
    ASSUME IInv, NEW r \in Runs, Start(r) \/ Step(r) \/ Exit(r) \/ Kill(r)
    PROVE  lease' \in Runs \cup {Nobody} /\ holderUp' \in BOOLEAN /\ locked' \subseteq Runs
<1>t. lease \in Runs \cup {Nobody} /\ holderUp \in BOOLEAN /\ locked \subseteq Runs
  BY DEF IInv, Types
<1>1. CASE Start(r) \/ Claim(r) \/ JobCapture(r) \/ JobPrepare(r) \/ JobStop(r)
  BY <1>t, <1>1 DEF Start, Claim, JobCapture, JobPrepare, JobStop, TakeLease
<1>2. CASE Lock(r) \/ Acquire(r) \/ Baseline(r)
       \/ FirstStop(r) \/ Capture(r) \/ Hydrate(r)
  BY <1>t, <1>2 DEF Lock, Acquire, Baseline, FirstStop, Capture, Hydrate, TakeLease
<1>3. CASE Install(r) \/ Copy(r) \/ DropBackup(r)
  BY <1>t, <1>3 DEF Install, Copy, DropBackup
<1>4. CASE StartBot(r) \/ Monitor(r) \/ Verify(r) \/ Close(r) \/ Recover(r) \/ NextChunk(r)
  BY <1>t, <1>4 DEF StartBot, Monitor, Verify, Close, Recover, NextChunk
<1>s. CASE Salvage(r)
  BY <1>t, <1>s, SalvageFrame
<1>5. CASE Publish(r) \/ LastStop(r) \/ CaptureInbox(r)
       \/ WriteManifest(r) \/ Complete(r) \/ Handler(r)
  BY <1>t, <1>5 DEF Publish, LastStop, CaptureInbox, WriteManifest, Complete, Handler
<1>6. CASE Finally(r) \/ Restore(r) \/ Restored(r) \/ Release(r)
  BY <1>t, <1>6 DEF Finally, Restore, Restored, Release, GiveBack
<1>7. CASE Exit(r) \/ Kill(r)
  BY <1>t, <1>7 DEF Exit, Kill, Forget
<1> QED BY <1>s, <1>1, <1>2, <1>3, <1>4, <1>5, <1>6, <1>7 DEF Step

LEMMA DiskTyped ==
    ASSUME IInv, NEW r \in Runs, Start(r) \/ Step(r) \/ Exit(r) \/ Kill(r)
    PROVE  done' \subseteq Runs /\ inbox' \in [Runs -> {"none", "partial", "whole"}]
<1>t. done \subseteq Runs /\ inbox \in [Runs -> {"none", "partial", "whole"}]
  BY DEF IInv, Types
<1>1. CASE Start(r) \/ Claim(r) \/ JobCapture(r) \/ JobPrepare(r) \/ JobStop(r)
  BY <1>t, <1>1 DEF Start, Claim, JobCapture, JobPrepare, JobStop
<1>2. CASE Lock(r) \/ Acquire(r) \/ Baseline(r)
       \/ FirstStop(r) \/ Capture(r) \/ Hydrate(r)
  BY <1>t, <1>2 DEF Lock, Acquire, Baseline, FirstStop, Capture, Hydrate
<1>3. CASE Install(r) \/ Copy(r) \/ DropBackup(r)
  BY <1>t, <1>3 DEF Install, Copy, DropBackup
<1>4. CASE StartBot(r) \/ Monitor(r) \/ Verify(r) \/ Close(r) \/ Recover(r) \/ NextChunk(r)
  BY <1>t, <1>4 DEF StartBot, Monitor, Verify, Close, Recover, NextChunk
<1>s. CASE Salvage(r)
  BY <1>t, <1>s, SalvageFrame
<1>5. CASE Publish(r) \/ LastStop(r) \/ CaptureInbox(r)
       \/ WriteManifest(r) \/ Complete(r) \/ Handler(r)
  BY <1>t, <1>5 DEF Publish, LastStop, CaptureInbox, WriteManifest, Complete, Handler
<1>6. CASE Finally(r) \/ Restore(r) \/ Restored(r) \/ Release(r)
  BY <1>t, <1>6 DEF Finally, Restore, Restored, Release
<1>7. CASE Exit(r) \/ Kill(r)
  BY <1>t, <1>7 DEF Exit, Kill
<1> QED BY <1>s, <1>1, <1>2, <1>3, <1>4, <1>5, <1>6, <1>7 DEF Step

LEMMA CountsTyped ==
    ASSUME IInv, NEW r \in Runs, Start(r) \/ Step(r) \/ Exit(r) \/ Kill(r)
    PROVE  faults' \in 0..MaxFaults /\ kills' \in 0..MaxKills
<1>t. /\ faults \in 0..MaxFaults /\ kills \in 0..MaxKills
      /\ MaxFaults \in Nat /\ MaxKills \in Nat
  BY ConstantsAssumption DEF IInv, Types
<1>a. Fault \/ Fine => faults' \in 0..MaxFaults /\ kills' \in 0..MaxKills
  BY <1>t
<1>b. kills < MaxKills /\ kills' = kills + 1 /\ UNCHANGED faults =>
            faults' \in 0..MaxFaults /\ kills' \in 0..MaxKills
  BY <1>t
<1> HIDE DEF Fault, Fine
<1>1. CASE Start(r) \/ Claim(r) \/ JobCapture(r) \/ JobPrepare(r) \/ JobStop(r)
  BY <1>a, <1>b, <1>1 DEF Start, Claim, JobCapture, JobPrepare, JobStop
<1>2. CASE Lock(r) \/ Acquire(r) \/ Baseline(r)
       \/ FirstStop(r) \/ Capture(r) \/ Hydrate(r)
  BY <1>a, <1>b, <1>2 DEF Lock, Acquire, Baseline, FirstStop, Capture, Hydrate
<1>3. CASE Install(r) \/ Copy(r) \/ DropBackup(r)
  BY <1>a, <1>b, <1>3 DEF Install, Copy, DropBackup
<1>4. CASE StartBot(r) \/ Monitor(r) \/ Verify(r) \/ Close(r) \/ Recover(r) \/ NextChunk(r)
  BY <1>a, <1>b, <1>4 DEF StartBot, Monitor, Verify, Close, Recover, NextChunk
<1>s. CASE Salvage(r)
  BY <1>a, <1>b, <1>s, SalvageFrame
<1>5. CASE Publish(r) \/ LastStop(r) \/ CaptureInbox(r)
       \/ WriteManifest(r) \/ Complete(r) \/ Handler(r)
  BY <1>a, <1>b, <1>5 DEF Publish, LastStop, CaptureInbox, WriteManifest, Complete, Handler
<1>6. CASE Finally(r) \/ Restore(r) \/ Restored(r) \/ Release(r)
  BY <1>a, <1>b, <1>6 DEF Finally, Restore, Restored, Release
<1>7. CASE Exit(r) \/ Kill(r)
  BY <1>a, <1>b, <1>7 DEF Exit, Kill
<1> QED BY <1>s, <1>1, <1>2, <1>3, <1>4, <1>5, <1>6, <1>7 DEF Step

LEMMA SavedTyped ==
    ASSUME IInv, NEW r \in Runs, Start(r) \/ Step(r) \/ Exit(r) \/ Kill(r)
    PROVE  /\ saved' \in [Runs -> Results] /\ unbacked' \in [Runs -> SUBSET Strategies]
<1>t. /\ saved \in [Runs -> Results] /\ mem[r].got \in Results /\ log \in Results
      /\ unbacked \in [Runs -> SUBSET Strategies] /\ unbacked[r] \subseteq Strategies
  BY DEF IInv, Types, Locals
<1>1. ASSUME NEW results \in Results, NEW gone \in SUBSET Strategies,
             saved' = [saved EXCEPT ![r] = results], unbacked' = [unbacked EXCEPT ![r] = gone]
      PROVE  /\ saved' \in [Runs -> Results] /\ unbacked' \in [Runs -> SUBSET Strategies]
  BY <1>t, <1>1
<1>2. CASE UNCHANGED <<saved, unbacked>>
  BY <1>t, <1>2
<1>3. CASE Verify(r)
  <2> DEFINE kept == Take(mem[r].got, mem[r].todo)
             gone == unbacked[r] \ mem[r].todo
  <2>1. kept \in Results
    BY <1>t DEF Take, Results
  <2>2. gone \in SUBSET Strategies /\ Without(kept, gone) \in Results
    <3>1. gone \in SUBSET Strategies
      BY <1>t
    <3> HIDE DEF kept, gone
    <3> QED BY <2>1, <3>1, Written
  <2>3. \/ UNCHANGED <<saved, unbacked>>
        \/ /\ saved' = [saved EXCEPT ![r] = Without(kept, gone)]
           /\ unbacked' = [unbacked EXCEPT ![r] = gone]
    BY <1>3 DEF Verify
  <2> HIDE DEF kept, gone
  <2> QED BY <1>1, <1>2, <2>2, <2>3
<1>4. CASE Salvage(r)
  <2>1. ASSUME NEW V \in Validated(r), NEW unknown \in SUBSET V, Salvages(r, V, unknown)
        PROVE  /\ saved' \in [Runs -> Results] /\ unbacked' \in [Runs -> SUBSET Strategies]
    <3>1. /\ saved' = [saved EXCEPT ![r] = saved'[r]] /\ SalvageKept(r, V) \in Results
          /\ saved'[r] = Without(SalvageKept(r, V), Gone(r, V, unknown))
          /\ unbacked' = [unbacked EXCEPT ![r] = unbacked'[r]]
          /\ unbacked'[r] \in SUBSET Strategies
      BY <2>1, SalvageMemory DEF IInv
    <3>2. saved'[r] \in Results
      BY <3>1, Written
    <3> QED BY <1>1, <3>1, <3>2
  <2> QED BY <1>2, <1>4, <2>1, SalvageWrites
<1> QED BY <1>2, <1>3, <1>4 DEF Step, Start, Claim, JobCapture, JobPrepare, JobStop, Lock, Acquire,
    Baseline, FirstStop, Capture, Hydrate, Install, Copy, DropBackup, StartBot, Monitor, Close,
    Recover, NextChunk, Publish, LastStop, CaptureInbox, WriteManifest, Complete, Handler,
    Finally, Restore, Restored, Release, Exit, Kill

LEMMA LocalsTyped ==
    ASSUME IInv, NEW r \in Runs, Start(r) \/ Step(r) \/ Exit(r) \/ Kill(r)
    PROVE  /\ mem' \in [Runs -> Locals] /\ mem'[r].todo \subseteq StrategiesOf[r]
           /\ mem'[r].forced \subseteq StrategiesOf[r]
<1>t. /\ mem \in [Runs -> Locals] /\ mem[r] \in Locals /\ StrategiesOf[r] \subseteq Strategies
      /\ mem[r].todo \subseteq StrategiesOf[r] /\ mem[r].forced \subseteq StrategiesOf[r]
      /\ settings \in Contents /\ log \in Results /\ saved[r] \in Results /\ MaxRestarts \in Nat
  BY ConstantsAssumption DEF IInv, Types, Strategies
<1>1. CASE UNCHANGED mem
  BY <1>t, <1>1
<1>2. CASE mem' = [mem EXCEPT ![r] = Blank]
  BY <1>t, <1>2, ContentTypes DEF Blank
<1>3. CASE Leave(r)
  <2>1. mem' = [mem EXCEPT ![r] = mem'[r]]
    BY <1>t, <1>3, Leaving DEF IInv
  <2> QED BY <1>t, <1>3, <2>1, Leaving DEF IInv
<1>4. ASSUME NEW m, mem' = [mem EXCEPT ![r] = m], m \in Locals,
             m.todo \subseteq StrategiesOf[r], m.forced \subseteq StrategiesOf[r]
      PROVE  /\ mem' \in [Runs -> Locals] /\ mem'[r].todo \subseteq StrategiesOf[r]
             /\ mem'[r].forced \subseteq StrategiesOf[r]
  BY <1>t, <1>4
<1>5. CASE JobCapture(r)
  <2>1. CASE mem' = [mem EXCEPT ![r].outer = settings]
    <3>1. [mem[r] EXCEPT !.outer = settings] \in Locals
      BY <1>t DEF Locals
    <3> QED BY <1>t, <1>4, <2>1, <3>1 DEF Locals
  <2> QED BY <1>2, <1>5, <2>1 DEF JobCapture, EndJob
<1>6. CASE Capture(r)
  <2>1. CASE mem' = [mem EXCEPT ![r].snap = settings]
    <3>1. [mem[r] EXCEPT !.snap = settings] \in Locals
      BY <1>t DEF Locals
    <3> QED BY <1>t, <1>4, <2>1, <3>1 DEF Locals
  <2> QED BY <1>1, <1>6, <2>1 DEF Capture
<1>7. CASE Lock(r)
  <2>1. CASE mem' = [mem EXCEPT ![r].inside = TRUE]
    <3>1. [mem[r] EXCEPT !.inside = TRUE] \in Locals
      BY <1>t DEF Locals
    <3> QED BY <1>t, <1>4, <2>1, <3>1 DEF Locals
  <2> QED BY <1>3, <1>7, <2>1 DEF Lock
<1>8. CASE FirstStop(r) \/ Handler(r) \/ StartBot(r) \/ Close(r) \/ Recover(r) \/ Monitor(r)
  <2>1. ASSUME NEW b \in BOOLEAN,
               \/ mem' = [mem EXCEPT ![r].quiesced = b]
               \/ mem' = [mem EXCEPT ![r].started = b]
               \/ mem' = [mem EXCEPT ![r].moved = b]
        PROVE  /\ mem' \in [Runs -> Locals] /\ mem'[r].todo \subseteq StrategiesOf[r]
               /\ mem'[r].forced \subseteq StrategiesOf[r]
    <3>1. /\ [mem[r] EXCEPT !.quiesced = b] \in Locals
          /\ [mem[r] EXCEPT !.started = b] \in Locals
          /\ [mem[r] EXCEPT !.moved = b] \in Locals
      BY <1>t DEF Locals
    <3> QED BY <1>t, <1>4, <2>1, <3>1 DEF Locals
  <2>2. \/ UNCHANGED mem
        \/ \E b \in BOOLEAN :
              \/ mem' = [mem EXCEPT ![r].quiesced = b]
              \/ mem' = [mem EXCEPT ![r].started = b]
              \/ mem' = [mem EXCEPT ![r].moved = b]
    BY <1>8 DEF FirstStop, Handler, StartBot, Close, Recover, Monitor
  <2> QED BY <1>1, <2>1, <2>2
<1>9. CASE Hydrate(r)
  <2> DEFINE backed == Without(saved[r], unbacked[r])
  <2>1. CASE mem' = [mem EXCEPT ![r].got = backed]
    <3>1. backed \in Results
      BY <1>t, Written
    <3> HIDE DEF backed
    <3>2. [mem[r] EXCEPT !.got = backed] \in Locals
      BY <1>t, <3>1 DEF Locals
    <3> QED BY <1>t, <1>4, <2>1, <3>2 DEF Locals
  <2> QED BY <1>1, <1>9, <2>1 DEF Hydrate
<1>10. CASE DropBackup(r)
  <2>1. CASE mem' = [mem EXCEPT ![r].todo = Chunk(r)]
    <3>1. [mem[r] EXCEPT !.todo = Chunk(r)] \in Locals
      BY <1>t, Chunks DEF Locals, IInv
    <3> QED BY <1>t, <1>4, <2>1, <3>1, Chunks DEF Locals, IInv
  <2> QED BY <1>1, <1>10, <2>1 DEF DropBackup
<1>11. CASE Verify(r)
  <2> DEFINE kept == Take(mem[r].got, mem[r].todo)
  <2>1. CASE mem' = [mem EXCEPT ![r].got = kept, ![r].forced = @ \ mem[r].todo]
    <3>1. kept \in Results
      BY <1>t DEF Take, Results, Locals
    <3> HIDE DEF kept
    <3>2. [mem[r] EXCEPT !.got = kept, !.forced = @ \ mem[r].todo] \in Locals
      BY <1>t, <3>1 DEF Locals
    <3> QED BY <1>t, <1>4, <2>1, <3>2 DEF Locals
  <2>2. ASSUME NEW collided \in SUBSET mem[r].todo,
               mem' = [mem EXCEPT ![r].forced = @ \cup collided]
        PROVE  /\ mem' \in [Runs -> Locals] /\ mem'[r].todo \subseteq StrategiesOf[r]
               /\ mem'[r].forced \subseteq StrategiesOf[r]
    <3>1. [mem[r] EXCEPT !.forced = @ \cup collided] \in Locals
      BY <1>t DEF Locals
    <3> QED BY <1>t, <1>4, <2>2, <3>1 DEF Locals
  <2> QED BY <1>1, <1>11, <2>1, <2>2 DEF Verify
<1>12. CASE Salvage(r)
  <2>1. CASE UNCHANGED mem
    BY <1>1, <2>1
  <2>2. ASSUME NEW V \in Validated(r), NEW unknown \in SUBSET V, Salvages(r, V, unknown)
        PROVE  /\ mem' \in [Runs -> Locals] /\ mem'[r].todo \subseteq StrategiesOf[r]
               /\ mem'[r].forced \subseteq StrategiesOf[r]
    <3>1. /\ mem' = [mem EXCEPT ![r] = mem'[r]] /\ mem'[r] \in Locals
          /\ mem'[r].todo \subseteq mem[r].todo /\ mem'[r].forced = mem[r].forced
      BY <2>2, SalvageMemory DEF IInv
    <3> QED BY <1>t, <3>1
  <2> QED BY <1>12, <2>1, <2>2, SalvageWrites
<1> QED BY <1>1, <1>2, <1>3, <1>5, <1>6, <1>7, <1>8, <1>9, <1>10, <1>11, <1>12 DEF Step, Start,
    Claim, JobPrepare, JobStop, Acquire, Baseline, Install, Copy, NextChunk, Publish, LastStop,
    CaptureInbox, WriteManifest, Complete, Finally, Restore, Restored, Release, Exit, Kill, EndJob

-----------------------------------------------------------------------------
(* The invariant.                                                          *)

LEMMA InitInvariant == Init => IInv
<1> SUFFICES ASSUME Init PROVE IInv
  OBVIOUS
<1>1. Types
  <2>1. mem \in [Runs -> Locals] /\ \A r \in Runs : mem[r].todo = {} /\ mem[r].forced = {}
    BY ContentTypes DEF Init, Blank
  <2>2. /\ pc \in [Runs -> Points] /\ saved \in [Runs -> Results]
        /\ unbacked \in [Runs -> SUBSET Strategies]
        /\ inbox \in [Runs -> {"none", "partial", "whole"}]
    BY ContentTypes DEF Init, Points
  <2>3. /\ settings \in Contents /\ backup \in Contents /\ bot \in Contents /\ log \in Results
        /\ found \in [settings : Contents, bot : Contents]
    BY ContentTypes DEF Init
  <2>4. 0 \in 0..MaxFaults /\ 0 \in 0..MaxKills
    BY ConstantsAssumption
  <2>5. /\ lease \in Runs \cup {Nobody} /\ holderUp \in BOOLEAN /\ locked \subseteq Runs
        /\ done \subseteq Runs /\ faults \in 0..MaxFaults /\ kills \in 0..MaxKills
    BY <2>4 DEF Init
  <2> QED BY <2>1, <2>2, <2>3, <2>5 DEF Types
<1>2. Installed
  BY ContentTypes DEF Init, Installed
<1>3. ASSUME NEW r \in Runs PROVE Facts(r)
  BY DEF Init, Blank, Facts, Place, Snapshots, OfPanel, OfCommandLine, BotFacts, ChunkFacts,
         KeptFacts, ForChunk, ForJob, Held, Uncaptured, Captured, Stopped, Installing, JobPoints
<1> QED BY <1>1, <1>2, <1>3 DEF IInv

\* A report that is lost makes its result one that is not backed, and that is all.
LEMMA LostReport ==
    ASSUME IInv, NEW r \in Runs, LoseReport(r)
    PROVE  IInv'
<1>t. Types /\ Installed /\ \A q \in Runs : Facts(q)
  BY DEF IInv
<1>1. PICK n \in Have(saved[r]) \ unbacked[r] : unbacked' = [unbacked EXCEPT ![r] = @ \cup {n}]
  BY DEF LoseReport
<1>2. /\ UNCHANGED <<settings, backup, bot, log, lease, holderUp, locked, pc, mem, saved>>
      /\ UNCHANGED <<inbox, done, found, kills>> /\ faults < MaxFaults /\ faults' = faults + 1
  BY DEF LoseReport
<1>3. n \in Strategies /\ saved[r][n] # Nobody
  BY <1>1 DEF Have
<1>4. /\ unbacked' \in [Runs -> SUBSET Strategies]
      /\ \A q \in Runs : unbacked[q] \subseteq unbacked'[q]
  BY <1>t, <1>1, <1>3 DEF Types
<1>5. faults' \in 0..MaxFaults /\ kills' \in 0..MaxKills
  BY <1>t, <1>2, ConstantsAssumption DEF Types
<1>6. Types'
  BY <1>t, <1>2, <1>4, <1>5 DEF Types
<1>7. ASSUME NEW q \in Runs PROVE Facts(q)'
  <2>1. Chunk(q)' = Chunk(q)
    BY <1>2 DEF Chunk, Missing, Have
  <2>2. Place(q)' /\ Snapshots(q)' /\ OfPanel(q)' /\ OfCommandLine(q)'
    BY <1>t, <1>2 DEF Facts, Place, Snapshots, OfPanel, OfCommandLine, ForChunk, ForJob
  <2>3. BotFacts(q)' /\ ChunkFacts(q)'
    BY <1>t, <1>2, <2>1 DEF Facts, BotFacts, ChunkFacts
  <2>4. KeptFacts(q)'
    BY <1>t, <1>2, <1>4 DEF Facts, KeptFacts, ForChunk
  <2> QED BY <2>2, <2>3, <2>4 DEF Facts
<1>8. Installed'
  BY <1>t, <1>2 DEF Installed
<1> QED BY <1>6, <1>7, <1>8 DEF IInv

LEMMA NextInvariant == IInv /\ [Next]_vars => IInv'
<1> SUFFICES ASSUME IInv, [Next]_vars PROVE IInv'
  OBVIOUS
<1>1. CASE UNCHANGED vars
  <2>1. ASSUME NEW r \in Runs PROVE Chunk(r)' = Chunk(r)
    BY <1>1 DEF vars, Chunk, Missing, Have
  <2>2. ASSUME NEW r \in Runs PROVE Facts(r)'
    BY <1>1, <2>1 DEF vars, IInv, Facts, Place, Snapshots, OfPanel, OfCommandLine, BotFacts,
       ChunkFacts, KeptFacts, ForChunk, ForJob
  <2>3. Types' /\ Installed'
    BY <1>1 DEF vars, IInv, Types, Installed
  <2> QED BY <2>2, <2>3 DEF IInv
<1>2. ASSUME NEW r \in Runs, Start(r) \/ Step(r) \/ Exit(r) \/ Kill(r) PROVE IInv'
  <2>1. Facts(r)' /\ Installed'
    BY <1>2, JobSteps, EntrySteps, InstallSteps, TestSteps, EndSteps, WayBack, Endings DEF Step
  <2>2. ASSUME NEW q \in Runs \ {r} PROVE Facts(q)'
    BY <1>2, OthersKeepFacts
  <2>3. ASSUME NEW q \in Runs
        PROVE  /\ mem'[q].todo \subseteq StrategiesOf[q]
               /\ mem'[q].forced \subseteq StrategiesOf[q]
    <3>1. CASE q = r
      BY <1>2, <3>1, LocalsTyped
    <3>2. CASE q # r
      BY <1>2, <3>2, OthersKeepTheirs DEF IInv, Types
    <3> QED BY <3>1, <3>2
  <2>4. Types'
    BY <1>2, <2>3, ContentsTyped, LogTyped, PointsTyped, LocksTyped, DiskTyped, CountsTyped,
       SavedTyped, LocalsTyped DEF Types
  <2> QED BY <2>1, <2>2, <2>4 DEF IInv
<1> QED BY <1>1, <1>2, LostReport DEF Next

LEMMA Invariant == Spec => []IInv
<1> QED BY InitInvariant, NextInvariant, PTL DEF Spec

-----------------------------------------------------------------------------
(* What follows.                                                           *)

\* The variables keep to their types, and a call has only its own run's strategies in hand.
THEOREM TypeCorrect == Spec => []TypeOK
<1>1. IInv => TypeOK
  BY DEF IInv, Types, Locals, TypeOK
<1> QED BY <1>1, Invariant, PTL

\* The running tester has the settings of the run that tests, and every strategy of the chunk
\* is among them, whatever other runs start, fail or are killed.
THEOREM OwnChunkTested == Spec => []TestsItsOwn
<1>1. IInv => TestsItsOwn
  BY DEF IInv, Facts, ChunkFacts, TestsItsOwn
<1> QED BY <1>1, Invariant, PTL

\* Neither an installation, nor its rollback, nor a restore replaces settings under a tester
\* that runs.
THEOREM SwapsAreQuiet == Spec => NoSwapUnderTest
<1>1. ASSUME IInv, NEW r \in Runs, Start(r) \/ Step(r) \/ Exit(r) \/ Kill(r), settings' # settings
      PROVE  bot = Nothing
  <2>1. Facts(r)
    BY <1>1 DEF IInv
  <2>2. pc[r] \in Installing \cup {"restore", "jobrestore", "restoring", "jobrestoring"}
    BY <1>1, SalvageFrame DEF Installing, Step, Start, Claim, JobCapture, JobPrepare, JobStop, Lock, Acquire,
      Baseline, FirstStop, Capture, Hydrate, Install, Copy, DropBackup, StartBot, Monitor, Verify,
      Close, Recover, NextChunk, Publish, LastStop, CaptureInbox, WriteManifest,
      Complete, Handler, Finally, Restore, Restored, Release, Exit, Kill
  <2> QED BY <2>1, <2>2 DEF Facts, BotFacts, Stopped, Installing
<1>2. IInv /\ [Next]_vars => [settings' # settings => bot = Nothing]_vars
  BY <1>1 DEF Next, LoseReport
<1> QED BY <1>2, Invariant, PTL DEF Spec, NoSwapUnderTest

\* A lease is given back only over the settings that were found, and over a tester that is
\* stopped or still runs as it was found; after a failed stop or restore it is kept.
THEOREM GivenBackAsFound == Spec => LeftAsFound
<1> DEFINE Kept == lease # Nobody /\ lease' = Nobody =>
                     settings' = found.settings /\ bot' \in {Nothing, found.bot}
<1>1. ASSUME IInv, NEW r \in Runs, Start(r) \/ Step(r) \/ Exit(r) \/ Kill(r),
             lease # Nobody, lease' = Nobody
      PROVE  settings' = found.settings /\ bot' \in {Nothing, found.bot}
  <2>1. Facts(r) /\ r # Nobody
    BY <1>1, ConstantsAssumption DEF IInv
  <2>2. Release(r)
    BY <1>1, <2>1, SalvageFrame DEF Step, Start, Claim, JobCapture, JobPrepare, JobStop, Lock, Acquire,
      Baseline, FirstStop, Capture, Hydrate, Install, Copy, DropBackup, StartBot, Monitor, Verify,
      Close, Recover, NextChunk, Publish, LastStop, CaptureInbox, WriteManifest,
      Complete, Handler, Finally, Restore, Restored, Exit, Kill, TakeLease, Forget
  <2>3. settings' = settings /\ bot' = bot
    BY <2>2 DEF Release
  <2>4. CASE pc[r] = "jobrelease"
    BY <2>1, <2>3, <2>4 DEF Facts, Place, JobPoints, Held, Points, OfPanel, BotFacts, Stopped
  <2>5. CASE pc[r] = "release" /\ r \notin FromPanel
    BY <2>1, <2>3, <2>5 DEF Facts, JobPoints, Held, Points, OfCommandLine, BotFacts, Stopped
  <2> QED BY <1>1, <2>2, <2>4, <2>5 DEF Release
<1>2. IInv /\ [Next]_vars => [Kept]_vars
  BY <1>1 DEF Next, LoseReport
<1> QED BY <1>2, Invariant, PTL DEF Spec, LeftAsFound

\* No failure, kill or later call loses a saved result of a strategy that did not collide,
\* as long as its report is there.
THEOREM ResultsKept == Spec => SavedKept
<1> DEFINE Kept(q) == Have(saved[q]) \ (mem[q].forced \cup unbacked[q]) \subseteq Have(saved'[q])
<1>1. ASSUME IInv, NEW r \in Runs, Start(r) \/ Step(r) \/ Exit(r) \/ Kill(r)
      PROVE  Kept(r)
  <2>t. Facts(r) /\ Types /\ saved \in [Runs -> Results] /\ mem[r].got \in Results
        /\ log \in Results /\ mem[r].todo \subseteq Strategies
    BY <1>1 DEF IInv, Types, Locals
  <2>1. CASE Verify(r)
    <3> DEFINE kept == Take(mem[r].got, mem[r].todo)
               gone == unbacked[r] \ mem[r].todo
    <3>1. CASE saved' = [saved EXCEPT ![r] = Without(kept, gone)]
      <4>1. \A n \in Strategies \ unbacked[r] : mem[r].got[n] = saved[r][n]
        BY <2>t, <2>1 DEF Facts, KeptFacts, Verify
      <4>2. \A n \in mem[r].todo : log[n] # Nobody
        BY <2>t, <2>1, ConstantsAssumption DEF Facts, ChunkFacts, Verify
      <4>3. kept \in Results
        BY <2>t DEF Take, Results
      <4>4. \A n \in Have(saved[r]) \ unbacked[r] : kept[n] # Nobody
        BY <4>1, <4>2 DEF Take, Have
      <4>5. \A n \in Strategies \ unbacked[r] : n \notin gone
        OBVIOUS
      <4> HIDE DEF kept, gone
      <4>6. saved'[r] = Without(kept, gone)
        BY <2>t, <3>1
      <4> QED BY <4>3, <4>4, <4>5, <4>6, Written DEF Have
    <3>2. CASE UNCHANGED saved
      BY <3>2 DEF Have
    <3> QED BY <2>1, <3>1, <3>2 DEF Verify
  <2>2. CASE Salvage(r)
    <3>1. CASE UNCHANGED saved
      BY <3>1 DEF Have
    <3>2. ASSUME NEW V \in Validated(r), NEW unknown \in SUBSET V, Salvages(r, V, unknown)
          PROVE  Kept(r)
      <4>1. /\ saved'[r] = Without(SalvageKept(r, V), Gone(r, V, unknown)) /\ pc[r] = "salvage"
            /\ SalvageKept(r, V) \in Results
        BY <2>t, <2>2, <3>2, SalvageMemory, SalvageFrame
      <4>2. \A n \in Strategies \ unbacked[r] : mem[r].got[n] = saved[r][n]
        BY <2>t, <4>1 DEF Facts, KeptFacts
      <4>3. \A n \in V : log[n] # Nobody /\ n \in mem[r].todo
        BY DEF Validated
      <4>4. ASSUME NEW n \in Have(saved[r]), n \notin mem[r].forced, n \notin unbacked[r]
            PROVE  n \notin V
        BY <2>t, <4>1, <4>2, <4>3, <4>4 DEF Have, Facts, KeptFacts
      <4>5. ASSUME NEW n \in Have(saved[r]), n \notin mem[r].forced, n \notin unbacked[r]
            PROVE  n \in Have(saved'[r])
        <5>1. n \in Strategies /\ n \notin Gone(r, V, unknown)
          BY <4>4, <4>5 DEF Gone, Have
        <5>2. SalvageKept(r, V)[n] = saved[r][n] /\ saved[r][n] # Nobody
          BY <4>2, <4>4, <4>5 DEF SalvageKept, Have
        <5> QED BY <4>1, <5>1, <5>2, Written DEF Have
      <4> QED BY <4>5
    <3> QED BY <2>2, <3>1, <3>2, SalvageWrites
  <2>3. CASE UNCHANGED saved
    BY <2>3 DEF Have
  <2> QED BY <1>1, <2>1, <2>2, <2>3 DEF Step, Start, Claim, JobCapture, JobPrepare, JobStop, Lock,
    Acquire, Baseline, FirstStop, Capture, Hydrate, Install, Copy, DropBackup, StartBot, Monitor,
    Close, Recover, NextChunk, Publish, LastStop, CaptureInbox, WriteManifest, Complete, Handler,
    Finally, Restore, Restored, Release, Exit, Kill
<1>2. ASSUME IInv, NEW r \in Runs, NEW q \in Runs \ {r}, Start(r) \/ Step(r) \/ Exit(r) \/ Kill(r)
      PROVE  Kept(q)
  <2>1. saved'[q] = saved[q]
    BY <1>2, OthersKeepTheirs DEF IInv
  <2> QED BY <2>1 DEF Have
<1>3. ASSUME NEW r \in Runs, LoseReport(r) PROVE \A q \in Runs : Kept(q)
  BY <1>3 DEF LoseReport, Have
<1>4. IInv /\ [Next]_vars =>
        [\A r \in Runs :
           Have(saved[r]) \ (mem[r].forced \cup unbacked[r]) \subseteq Have(saved'[r])]_vars
  BY <1>1, <1>2, <1>3 DEF Next
<1> HIDE DEF Kept
<1> QED BY <1>4, Invariant, PTL DEF Spec, SavedKept, Have

=============================================================================
