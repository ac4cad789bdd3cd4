--------------------------- MODULE CollectorProofs ---------------------------
(***************************************************************************)
(* The two halves of the Bybit collector.  The exporter of MinuteArchive   *)
(* implements HourlyArchive, and no row of a published hour is missing     *)
(* without being recorded as late: for every length of an hour, delay and  *)
(* horizon, and any number of faults.  A valid book of BookFeed has missed *)
(* nothing of the exchange's stream: for any set of symbols, and any       *)
(* number of updates, edits and faults.                                    *)
(***************************************************************************)
EXTENDS BookFeed, MinuteArchive, FiniteSetTheorems, TLAPS

-----------------------------------------------------------------------------
(* The archive.                                                            *)

\* The types the arguments below need.
Types ==
    /\ now \in Minutes /\ next \in Nat /\ listed \in BOOLEAN
    /\ agg \subseteq Minutes /\ rows \subseteq Minutes
    /\ marked \subseteq Hours /\ todo \subseteq Hours
    /\ file \in [Hours -> [exists : BOOLEAN, minutes : SUBSET Minutes]]
    /\ hour = Nobody \/ hour \in Exports

\* What the exporter has established of the hour in hand: it works while the main loop does
\* not poll; an hour written to a temporary file has neither file nor marker; one about to be
\* marked has its file, which lacks nothing unless it was taken over.
HourFacts ==
    /\ hour # Nobody => pc \in {"hours", "stopping"}
    /\ hour.at = "tmp" => ~file[hour.h].exists /\ hour.h \notin marked
    /\ hour.at = "mark" => file[hour.h].exists
    /\ hour.at = "mark" /\ hour.h \notin adopted => Missing(hour.h) = {}

IInv == Types /\ HourFacts /\ MarkedAccounted

USE ArchiveAssumption

-----------------------------------------------------------------------------
\* The larger of two numbers is one of them.
LEMMA MaxOfTwo == ASSUME NEW i \in Nat, NEW j \in Nat PROVE Max({i, j}) \in Nat
<1>1. CASE i >= j
  <2>1. \A y \in {i, j} : i >= y
    BY <1>1
  <2> QED BY <2>1 DEF Max
<1>2. CASE j >= i
  <2>1. \A y \in {i, j} : j >= y
    BY <1>2
  <2> QED BY <2>1 DEF Max
<1> QED BY <1>1, <1>2

LEMMA InitInv == Init => IInv
BY DEF Init, IInv, Types, HourFacts, MarkedAccounted, Nobody, Exports, Minutes, Hours, NoFile

\* Writing rows keeps what is published accounted for: a row of a published hour that is not
\* known is recorded as late.
LEMMA InsertAccounted ==
    ASSUME Types, NEW new \in SUBSET Minutes, Insert(new), UNCHANGED <<marked, file, damaged, adopted>>,
           MarkedAccounted
    PROVE  MarkedAccounted' /\ rows' \subseteq Minutes
BY DEF Types, Insert, MarkedAccounted, Missing, MinutesOf

\* A step of the archive, or none.
Mapped == Archive!Next \/ UNCHANGED <<rows, file, marked>>

-----------------------------------------------------------------------------
(* One lemma per group of steps: the invariant is kept, and the step is one *)
(* of the archive or none.                                                  *)

\* Steps that touch neither the spool nor what is published.
LEMMA QuietStep ==
    ASSUME IInv, Tick \/ Jump \/ Anchor \/ List \/ Start \/ Recover
    PROVE  IInv' /\ Mapped
<1>1. UNCHANGED <<rows, late, marked, file, damaged, adopted, hour>>
  BY DEF Tick, Jump, Anchor, List, Start, Recover, spool, published, exporter
<1>2. Types'
  <2>1. CASE Tick \/ Jump \/ List \/ Start \/ Recover
    <3>1. now' \in Minutes
      BY <2>1 DEF IInv, Types, Tick, Jump, List, Start, Recover, Minutes, clock
    <3>2. todo' \subseteq Hours
      BY <2>1 DEF IInv, Types, Tick, Jump, List, Start, Recover, Due, exporter
    <3>3. next' = next /\ agg' = agg /\ listed' \in BOOLEAN
      BY <2>1 DEF IInv, Types, Tick, Jump, List, Start, Recover, memory
    <3> QED BY <1>1, <3>1, <3>2, <3>3 DEF IInv, Types
  <2>2. CASE Anchor
    <3>1. now \in Nat
      BY DEF IInv, Types, Minutes
    <3>2. Max({now, next}) \in Nat
      BY <3>1, MaxOfTwo DEF IInv, Types
    <3>3. next' \in Nat
      BY <2>2, <3>1, <3>2 DEF Anchor
    <3> QED BY <1>1, <2>2, <3>3 DEF IInv, Types, Anchor
  <2> QED BY <2>1, <2>2
<1>3. HourFacts'
  BY <1>1 DEF IInv, HourFacts, Missing, Tick, Jump, Anchor, List, Start, Recover, exporter
<1>4. MarkedAccounted'
  BY <1>1 DEF IInv, MarkedAccounted, Missing
<1> QED BY <1>1, <1>2, <1>3, <1>4 DEF IInv, Mapped

\* The end of the process forgets the memory and the hour in hand.
LEMMA GoneKeeps ==
    ASSUME IInv, Gone, rows' \subseteq Minutes, MarkedAccounted'
    PROVE  IInv'
BY DEF IInv, Gone, Types, HourFacts, Nobody, published, Minutes, Hours

\* Rows are written while no hour is in hand; the archive records them.
LEMMA WriteStep ==
    ASSUME IInv, NEW new \in SUBSET Minutes, Insert(new), UNCHANGED published
    PROVE  Mapped /\ MarkedAccounted' /\ rows' \subseteq Minutes
<1>1. MarkedAccounted' /\ rows' \subseteq Minutes
  BY InsertAccounted DEF IInv, published
<1>2. Archive!Record
  BY DEF Archive!Record, Insert, published
<1> QED BY <1>1, <1>2 DEF Mapped, Archive!Next

\* What a poll or a reload finalizes.
LEMMA FinalizeStep ==
    ASSUME IInv, NEW open \in SUBSET Minutes, NEW over \in SUBSET open, Finalize(over, open),
           UNCHANGED published
    PROVE  /\ Mapped /\ MarkedAccounted' /\ rows' \subseteq Minutes
           /\ agg' \subseteq Minutes
<1>1. CASE Insert(over) /\ agg' = open \ over
  <2>1. Mapped /\ MarkedAccounted' /\ rows' \subseteq Minutes
    BY <1>1, WriteStep
  <2> QED BY <1>1, <2>1 DEF Insert
<1>2. ASSUME NEW m \in over, Insert(over \ {m}), agg' = (open \ over) \cup {m}
      PROVE  /\ Mapped /\ MarkedAccounted' /\ rows' \subseteq Minutes
             /\ agg' \subseteq Minutes
  <2>1. Mapped /\ MarkedAccounted' /\ rows' \subseteq Minutes
    BY <1>2, WriteStep
  <2> QED BY <1>2, <2>1 DEF Insert
<1> QED BY <1>1, <1>2 DEF Finalize

LEMMA PollStep == ASSUME IInv, Poll PROVE IInv' /\ Mapped
<1>1. PICK label \in IF now >= next THEN {now} ELSE {next, next + 1} \cap Minutes :
        LET open == IF listed THEN agg \cup next..label ELSE agg
        IN  Finalize({m \in open : m < label}, open) /\ next' = label
  BY DEF Poll
<1> DEFINE open == IF listed THEN agg \cup next..label ELSE agg
<1>2. label \in Minutes
  BY <1>1 DEF IInv, Types
<1>3. open \in SUBSET Minutes
  BY <1>2 DEF IInv, Types, Minutes
<1>4. UNCHANGED <<published, now, listed, todo, hour>> /\ hour = Nobody /\ pc' \in {"poll", "export"}
  BY DEF Poll, ThenExport, clock, IInv, HourFacts
<1>5. /\ Mapped /\ MarkedAccounted' /\ rows' \subseteq Minutes
      /\ agg' \subseteq Minutes
  BY <1>1, <1>3, <1>4, FinalizeStep
<1>6. Types' /\ HourFacts'
  BY <1>1, <1>2, <1>4, <1>5 DEF IInv, Types, HourFacts, published, Nobody, Minutes
<1> QED BY <1>5, <1>6 DEF IInv

LEMMA UnlistStep == ASSUME IInv, Unlist PROVE IInv' /\ Mapped
<1>1. UNCHANGED <<published, now, next, pc, todo, hour>> /\ hour = Nobody /\ listed' \in BOOLEAN
  BY DEF Unlist, clock, exporter, IInv, HourFacts
<1>2. /\ Mapped /\ MarkedAccounted' /\ rows' \subseteq Minutes
      /\ agg' \subseteq Minutes
  BY <1>1, FinalizeStep DEF Unlist, IInv, Types
<1>3. Types' /\ HourFacts'
  BY <1>1, <1>2 DEF IInv, Types, HourFacts, published, Nobody
<1> QED BY <1>2, <1>3 DEF IInv

\* The orderly stop writes all that is aggregated and is followed by the exporter; when a
\* row cannot be written, the process ends.
LEMMA StopStep == ASSUME IInv, Stop PROVE IInv' /\ Mapped
<1>1. CASE Insert(agg) /\ pc' = "stopping" /\ todo' = Due /\ agg' = {}
           /\ UNCHANGED <<clock, up, listed, next, published, hour>>
  <2>1. Mapped /\ MarkedAccounted' /\ rows' \subseteq Minutes
    BY <1>1, WriteStep DEF IInv, Types
  <2>2. hour = Nobody
    BY DEF Stop, IInv, HourFacts
  <2>3. Types' /\ HourFacts'
    BY <1>1, <2>1, <2>2 DEF IInv, Types, HourFacts, Nobody, published, clock, Due
  <2> QED BY <2>1, <2>2, <2>3 DEF IInv
<1>2. CASE Gone /\ \E lost \in SUBSET agg : Insert(agg \ lost)
  <2>1. UNCHANGED published /\ ~up'
    BY <1>2 DEF Gone
  <2>2. Mapped /\ MarkedAccounted' /\ rows' \subseteq Minutes
    BY <1>2, <2>1, WriteStep DEF IInv, Types
  <2> QED BY <1>2, <2>1, <2>2, GoneKeeps
<1> QED BY <1>1, <1>2 DEF Stop

\* A kill, and the end of the exporter.
LEMMA EndStep == ASSUME IInv, Kill \/ Recovered PROVE IInv' /\ Mapped
<1>1. UNCHANGED <<rows, late, marked, file, damaged, adopted>>
  BY DEF Kill, Recovered, Gone, spool, published
<1>2. MarkedAccounted' /\ rows' \subseteq Minutes
  BY <1>1 DEF IInv, Types, MarkedAccounted, Missing
<1>3. CASE Gone
  BY <1>1, <1>2, <1>3, GoneKeeps DEF Mapped, Gone
<1>4. CASE pc' = "poll" /\ hour = Nobody /\ UNCHANGED <<clock, up, listed, memory, todo, hour>>
  BY <1>1, <1>2, <1>4 DEF IInv, Types, HourFacts, Nobody, Mapped, clock, memory
<1> QED BY <1>3, <1>4 DEF Kill, Recovered

\* Somebody removes a file the exporter is not at work on.
LEMMA DeleteStep == ASSUME IInv, NEW h \in Hours, Delete(h) PROVE IInv' /\ Mapped
<1>1. hour # Nobody => hour.h # h /\ hour \in Exports
  BY DEF Delete, IInv, Types
<1>2. Archive!Remove(h)
  BY DEF Delete, Archive!Remove, Archive!NoFile, NoFile, spool
<1>3. Types'
  BY DEF Delete, IInv, Types, clock, memory, spool, exporter, NoFile
<1>4. HourFacts'
  BY <1>1 DEF Delete, IInv, Types, HourFacts, Missing, Nobody, Exports, spool, exporter
<1>5. MarkedAccounted'
  BY DEF Delete, IInv, Types, MarkedAccounted, Missing, NoFile, spool
<1> QED BY <1>2, <1>3, <1>4, <1>5 DEF IInv, Mapped, Archive!Next

\* A damaged file is still what it was made of.
LEMMA DamageStep == ASSUME IInv, NEW h \in Hours, Damage(h) PROVE IInv' /\ Mapped
<1>1. UNCHANGED <<now, next, listed, agg, rows, late, marked, file, adopted, pc, todo, hour>>
  BY DEF Damage, clock, memory, spool, exporter
<1>2. damaged \subseteq damaged'
  BY DEF Damage
<1>3. Types' /\ HourFacts'
  BY <1>1 DEF IInv, Types, HourFacts, Missing
<1>4. MarkedAccounted'
  BY <1>1, <1>2 DEF IInv, MarkedAccounted, Missing
<1> QED BY <1>1, <1>3, <1>4 DEF IInv, Mapped

-----------------------------------------------------------------------------
(* The exporter.                                                           *)

\* An export that fails at its beginning only leaves hours out.
LEMMA FailsStep ==
    ASSUME IInv, NEW h \in Hours, Fails(h), pc' = pc,
           UNCHANGED <<clock, up, listed, memory, spool, published>>
    PROVE  IInv' /\ Mapped
<1>1. UNCHANGED <<now, next, listed, agg, rows, late, marked, file, damaged, adopted, pc, hour>>
  BY DEF Fails, clock, memory, spool, published
<1>2. todo' \subseteq Hours
  BY DEF Fails, IInv, Types
<1>3. Types' /\ HourFacts' /\ MarkedAccounted'
  BY <1>1, <1>2 DEF IInv, Types, HourFacts, MarkedAccounted, Missing
<1> QED BY <1>1, <1>3 DEF IInv, Mapped

LEMMA ClearStep == ASSUME IInv, NEW h \in Hours, Clear(h) PROVE IInv' /\ Mapped
<1>1. CASE Fails(h) /\ UNCHANGED marked
  BY <1>1, FailsStep DEF Clear, published
<1>2. CASE marked' = marked \ {h} /\ UNCHANGED <<todo, hour>>
  <2>1. Archive!Withdraw(h)
    BY <1>2 DEF Clear, Archive!Withdraw, spool
  <2>2. Types' /\ HourFacts' /\ MarkedAccounted'
    BY <1>2 DEF Clear, Begins, IInv, Types, HourFacts, MarkedAccounted, Missing, Nobody, clock, memory, spool
  <2> QED BY <2>1, <2>2 DEF IInv, Mapped, Archive!Next
<1> QED BY <1>1, <1>2 DEF Clear

LEMMA AdoptStep == ASSUME IInv, NEW h \in Hours, Adopt(h) PROVE IInv' /\ Mapped
<1>1. CASE Fails(h) /\ UNCHANGED adopted
  BY <1>1, FailsStep DEF Adopt, published
<1>2. CASE hour' = [h |-> h, at |-> "mark"] /\ adopted' = adopted \cup {h} /\ UNCHANGED todo
  BY <1>2 DEF Adopt, Begins, IInv, Types, HourFacts, MarkedAccounted, Missing, Nobody, Exports, Mapped, clock,
     memory, spool
<1> QED BY <1>1, <1>2 DEF Adopt

LEMMA RefuseStep == ASSUME IInv, NEW h \in Hours, Refuse(h) PROVE IInv' /\ Mapped
BY DEF Refuse, IInv, Types, HourFacts, MarkedAccounted, Missing, Mapped, clock, memory, spool, published

LEMMA WriteTmpStep == ASSUME IInv, NEW h \in Hours, WriteTmp(h) PROVE IInv' /\ Mapped
<1>1. CASE Fails(h)
  BY <1>1, FailsStep DEF WriteTmp
<1>2. CASE hour' = [h |-> h, at |-> "tmp"] /\ UNCHANGED todo
  BY <1>2 DEF WriteTmp, Begins, IInv, Types, HourFacts, MarkedAccounted, Missing, Nobody, Exports, Mapped, clock,
     memory, spool, published
<1> QED BY <1>1, <1>2 DEF WriteTmp

\* The file that appears is the hour as the spool has it: nothing is missing from it.
LEMMA PublishStep == ASSUME IInv, Publish PROVE IInv' /\ Mapped
<1>1. PICK h \in Hours : /\ h = hour.h /\ hour \in Exports /\ pc \in {"hours", "stopping"}
                         /\ ~file[h].exists /\ h \notin marked
  BY DEF Publish, IInv, Types, HourFacts, Nobody, Exports
<1>2. Archive!Seal(h)
  BY <1>1 DEF Publish, Archive!Seal, Archive!File, File, spool
<1>3. file'[h].exists /\ Missing(h)' = {} /\ \A g \in Hours \ {h} : file'[g] = file[g] /\ Missing(g)' = Missing(g)
  BY <1>1 DEF Publish, Missing, File, spool, IInv, Types
<1>4. Types'
  BY <1>1 DEF Publish, IInv, Types, Exports, Nobody, File, clock, memory, spool, Hours, Minutes
<1>5. HourFacts'
  BY <1>1, <1>3 DEF Publish, HourFacts, Exports, Nobody
<1>6. MarkedAccounted'
  BY <1>1, <1>3 DEF Publish, IInv, Types, MarkedAccounted
<1> QED BY <1>1, <1>2, <1>4, <1>5, <1>6 DEF IInv, Mapped, Archive!Next

LEMMA MarkStep == ASSUME IInv, Mark PROVE IInv' /\ Mapped
<1>1. PICK h \in Hours : /\ h = hour.h /\ file[h].exists
                         /\ h \notin adopted => Missing(h) = {}
  BY DEF Mark, IInv, Types, HourFacts, Nobody, Exports
<1>2. Archive!Announce(h) \/ UNCHANGED <<rows, file, marked>>
  BY <1>1 DEF Mark, Archive!Announce, spool
<1>3. Types' /\ HourFacts'
  BY <1>1 DEF Mark, IInv, Types, HourFacts, Nobody, clock, memory, spool
<1>4. MarkedAccounted'
  BY <1>1 DEF Mark, IInv, MarkedAccounted, Missing, spool
<1> QED BY <1>1, <1>2, <1>3, <1>4 DEF IInv, Mapped, Archive!Next

-----------------------------------------------------------------------------
\* Every step keeps the invariant, and is a step of the archive or none.
LEMMA StepMaps == IInv /\ [Next]_vars => IInv' /\ Mapped
<1> SUFFICES ASSUME IInv, [Next]_vars
             PROVE  IInv' /\ Mapped
  OBVIOUS
<1>1. CASE UNCHANGED vars
  BY <1>1 DEF vars, IInv, Types, HourFacts, MarkedAccounted, Missing, Mapped
<1>2. CASE Tick \/ Jump \/ Anchor \/ List \/ Start \/ Recover
  BY <1>2, QuietStep
<1>3. CASE Poll \/ Unlist \/ Stop
  BY <1>3, PollStep, UnlistStep, StopStep
<1>4. CASE Kill \/ Recovered
  BY <1>4, EndStep
<1>5. CASE Publish \/ Mark
  BY <1>5, PublishStep, MarkStep
<1>6. CASE \E h \in Hours : Clear(h) \/ Adopt(h) \/ Refuse(h) \/ WriteTmp(h)
  BY <1>6, ClearStep, AdoptStep, RefuseStep, WriteTmpStep
<1>7. CASE \E h \in Hours : Delete(h) \/ Damage(h)
  BY <1>7, DeleteStep, DamageStep
<1> QED BY <1>1, <1>2, <1>3, <1>4, <1>5, <1>6, <1>7 DEF Next, Exporting

-----------------------------------------------------------------------------
\* No row of a published hour is missing without being recorded as late, whatever is killed,
\* fails or jumps (storage.py write_minute, archive.py export_hour).
THEOREM NothingMissing == Spec => []MarkedAccounted
<1>1. IInv => MarkedAccounted
  BY DEF IInv
<1>2. IInv /\ [Next]_vars => IInv'
  BY StepMaps
<1> QED BY <1>1, <1>2, InitInv, PTL DEF Spec

\* The spool, the hourly files and the reader index implement the abstract archive: a file
\* is the whole hour as recorded at one moment, it is announced once it is there, and does not
\* change while it is there.
THEOREM ArchiveImplemented == Spec => ImplementsArchive
<1>1. Init => Archive!Init
  BY DEF Init, Archive!Init, Archive!NoFile, NoFile
<1>2. IInv /\ [Next]_vars => IInv' /\ [Archive!Next]_<<rows, file, marked>>
  BY StepMaps DEF Mapped
<1> QED BY <1>1, <1>2, InitInv, PTL DEF Spec, ImplementsArchive, Archive!Spec, Archive!archive

-----------------------------------------------------------------------------
(* The order books.                                                        *)

\* The frames of s beyond the k-th of a pipe.
Beyond(q, s, k) == {i \in DOMAIN q : i > k /\ q[i].sym = s}
Left(q, s, k) == Cardinality(Beyond(q, s, k))

\* The types the arguments below need.
FeedTypes ==
    /\ exchange \in [Symbols -> 1..MaxUpdates]
    /\ link \in [state : {"none", "up", "broken"}, subs : SUBSET Symbols, pipe : Seq(Frames)]
    /\ ws \in {"idle", "open", "connected", "acking", "reading"} /\ connected \in BOOLEAN
    /\ hand = Nothing \/ hand \in InHand
    /\ DOMAIN books \subseteq Symbols /\ books \in [DOMAIN books -> Books]
    /\ wanted \subseteq Symbols /\ named \subseteq Symbols /\ config \subseteq Symbols
    /\ edits \in 0..MaxEdits

\* Books are valid, and a frame is in hand, only after the subscription; frames are under
\* way only then, and on a connection that works.
Connection ==
    /\ connected <=> ws \in {"connected", "acking", "reading"}
    /\ ws \notin {"acking", "reading"} =>
            /\ hand = Nothing /\ link.pipe = <<>> /\ link.subs = {}
            /\ \A s \in DOMAIN books : ~books[s].valid
    /\ link.state # "up" => link.pipe = <<>>

\* The frames under way, and the one in hand, end with the exchange's version.
Stream ==
    link.state = "up" =>
        /\ \A i \in DOMAIN link.pipe :
            /\ link.pipe[i].sym \in link.subs
            /\ exchange[link.pipe[i].sym] = link.pipe[i].u + Left(link.pipe, link.pipe[i].sym, i)
        /\ hand # Nothing =>
            /\ hand.sym \in link.subs
            /\ exchange[hand.sym] = hand.u + Left(link.pipe, hand.sym, 0)

\* One snapshot of a symbol is under way or in hand, and its book not valid until then.
Snapshots ==
    /\ \A i \in DOMAIN link.pipe : link.pipe[i].kind = "snapshot" =>
        /\ \A j \in DOMAIN link.pipe \ {i} :
                link.pipe[j].kind = "snapshot" => link.pipe[j].sym # link.pipe[i].sym
        /\ link.pipe[i].sym \in DOMAIN books => ~books[link.pipe[i].sym].valid
        /\ hand # Nothing /\ hand.kind = "snapshot" => hand.sym # link.pipe[i].sym

\* A book that was removed and added again is not the one of the frame in hand.
Generations ==
    /\ \A s \in DOMAIN books : books[s].gen <= edits
    /\ hand # Nothing => /\ hand.gen <= edits
                         /\ hand.sym \in named \ DOMAIN books => hand.gen < edits

\* How far the frame in hand has been applied to its book.
Applying ==
    \A s \in DOMAIN books : Held(s) =>
        /\ hand.kind = "snapshot" =>
            /\ ~books[s].valid
            /\ hand.at # "bids" => books[s].bids = hand.u
            /\ hand.at = "valid" => books[s].asks = hand.u
        /\ hand.kind = "delta" /\ books[s].valid =>
            /\ hand.u = books[s].last + 1
            /\ books[s].bids = IF hand.at = "bids" THEN books[s].last ELSE hand.u
            /\ books[s].asks = IF hand.at = "valid" THEN hand.u ELSE books[s].last

\* A valid book, with its frames under way, is the exchange's.
Following ==
    \A s \in DOMAIN books : books[s].valid =>
        /\ ~Held(s) => books[s].bids = books[s].last /\ books[s].asks = books[s].last
        /\ link.state = "up" =>
            /\ s \in link.subs
            /\ exchange[s] = books[s].last + Left(link.pipe, s, 0) + (IF Held(s) THEN 1 ELSE 0)

FeedInv == FeedTypes /\ Connection /\ Stream /\ Snapshots /\ Generations /\ Applying /\ Following

HIDE ArchiveAssumption
USE FeedAssumption

-----------------------------------------------------------------------------
(* Counting the frames of a symbol in a pipe.                              *)

LEMMA LeftType ==
    ASSUME NEW q \in Seq(Frames), NEW s, NEW k \in Nat
    PROVE  IsFiniteSet(Beyond(q, s, k)) /\ Left(q, s, k) \in Nat
<1>1. Len(q) \in Int /\ Beyond(q, s, k) \in SUBSET (1..Len(q))
  BY DEF Beyond
<1>2. IsFiniteSet(1..Len(q))
  BY <1>1, FS_Interval
<1> QED BY <1>1, <1>2, FS_Subset, FS_CardinalityType DEF Left

LEMMA LeftEmpty == ASSUME NEW s, NEW k \in Nat PROVE Left(<<>>, s, k) = 0
<1>1. Beyond(<<>>, s, k) = {}
  BY DEF Beyond
<1> QED BY <1>1, FS_EmptySet DEF Left

LEMMA LeftAppend ==
    ASSUME NEW q \in Seq(Frames), NEW f \in Frames, NEW s, NEW k \in 0..Len(q)
    PROVE  Left(Append(q, f), s, k) = Left(q, s, k) + (IF f.sym = s THEN 1 ELSE 0)
<1>1. IsFiniteSet(Beyond(q, s, k)) /\ Left(q, s, k) \in Nat /\ Len(q) \in Nat
  BY LeftType
<1>2. DOMAIN Append(q, f) = 1..(Len(q) + 1) /\ DOMAIN q = 1..Len(q)
  OBVIOUS
<1>3. /\ \A i \in 1..Len(q) : Append(q, f)[i] = q[i]
      /\ Append(q, f)[Len(q) + 1] = f
  OBVIOUS
<1>4. CASE f.sym = s
  <2>1. Beyond(Append(q, f), s, k) = Beyond(q, s, k) \cup {Len(q) + 1}
    BY <1>1, <1>2, <1>3, <1>4 DEF Beyond
  <2>2. Len(q) + 1 \notin Beyond(q, s, k)
    BY <1>1, <1>2 DEF Beyond
  <2>3. Cardinality(Beyond(q, s, k) \cup {Len(q) + 1}) = Cardinality(Beyond(q, s, k)) + 1
    BY <1>1, <2>2, FS_AddElement
  <2> QED BY <1>4, <2>1, <2>3 DEF Left
<1>5. CASE f.sym # s
  <2>1. Beyond(Append(q, f), s, k) = Beyond(q, s, k)
    BY <1>1, <1>2, <1>3, <1>5 DEF Beyond
  <2> QED BY <1>1, <1>5, <2>1 DEF Left
<1> QED BY <1>4, <1>5

LEMMA LeftHead ==
    ASSUME NEW q \in Seq(Frames), q # <<>>, NEW s
    PROVE  Left(q, s, 0) = Left(q, s, 1) + (IF Head(q).sym = s THEN 1 ELSE 0)
<1>1. IsFiniteSet(Beyond(q, s, 1)) /\ Left(q, s, 1) \in Nat
  BY LeftType
<1>2. Len(q) \in Nat \ {0} /\ DOMAIN q = 1..Len(q) /\ Head(q) = q[1]
  OBVIOUS
<1>3. 1 \notin Beyond(q, s, 1)
  BY DEF Beyond
<1>4. CASE Head(q).sym = s
  <2>1. Beyond(q, s, 0) = Beyond(q, s, 1) \cup {1}
    BY <1>2, <1>4 DEF Beyond
  <2> QED BY <1>1, <1>3, <1>4, <2>1, FS_AddElement DEF Left
<1>5. CASE Head(q).sym # s
  <2>1. Beyond(q, s, 0) = Beyond(q, s, 1)
    BY <1>2, <1>5 DEF Beyond
  <2> QED BY <1>1, <1>5, <2>1 DEF Left
<1> QED BY <1>4, <1>5

LEMMA LeftTail ==
    ASSUME NEW q \in Seq(Frames), q # <<>>, NEW s, NEW k \in Nat
    PROVE  Left(Tail(q), s, k) = Left(q, s, k + 1)
<1> DEFINE A == Beyond(Tail(q), s, k)
           B == Beyond(q, s, k + 1)
           f == [i \in A |-> i + 1]
<1>1. /\ Tail(q) \in Seq(Frames) /\ Len(q) \in Nat \ {0}
      /\ DOMAIN Tail(q) = 1..(Len(q) - 1) /\ DOMAIN q = 1..Len(q)
      /\ \A i \in 1..(Len(q) - 1) : Tail(q)[i] = q[i + 1]
  OBVIOUS
<1>2. IsFiniteSet(A)
  BY <1>1, LeftType
<1>3. A \subseteq Nat /\ \A i \in A : i + 1 \in B
  BY <1>1 DEF Beyond
<1>4. \A j \in B : j - 1 \in A /\ j = (j - 1) + 1
  BY <1>1 DEF Beyond
<1> HIDE DEF A, B
<1>5. f \in [A -> B] /\ \A i, j \in A : f[i] = f[j] => i = j
  BY <1>3
<1>6. \A j \in B : \E i \in A : f[i] = j
  BY <1>4
<1>7. f \in Bijection(A, B)
  BY <1>5, <1>6 DEF Bijection, Injection, Surjection, IsInjective
<1>8. ExistsBijection(A, B)
  BY <1>7 DEF ExistsBijection
<1> QED BY <1>2, <1>8, FS_Bijection DEF Left, A, B

-----------------------------------------------------------------------------
(* Books, invalidated ones, and the frame in hand.                         *)

LEMMA BookTypes ==
    ASSUME NEW b \in Books
    PROVE  /\ b.gen \in 0..MaxEdits /\ b.valid \in BOOLEAN /\ b.has \in BOOLEAN
           /\ b.bids \in Nat /\ b.asks \in Nat /\ b.last \in Nat
BY DEF Books, Levels, Mixed

LEMMA Invalidated ==
    ASSUME NEW b \in Books, NEW cause \in Causes
    PROVE  /\ Invalid(b, cause) \in Books /\ ~Invalid(b, cause).valid
           /\ Invalid(b, cause).gen = b.gen /\ Invalid(b, cause).last = b.last
           /\ Invalid(b, cause).bids = b.bids /\ Invalid(b, cause).asks = b.asks
BY DEF Books, Invalid

LEMMA FreshBook ==
    ASSUME NEW gen \in 0..MaxEdits
    PROVE  Fresh(gen) \in Books /\ Fresh(gen).gen = gen /\ ~Fresh(gen).valid
BY DEF Fresh, Books, Levels, Mixed, Causes

LEMMA HandTypes ==
    ASSUME FeedTypes
    PROVE  /\ hand # Nothing => hand \in InHand
           /\ \A h \in InHand :
                /\ h # Nothing /\ h.sym \in Symbols /\ h.gen \in 0..MaxEdits
                /\ h.kind \in {"snapshot", "delta"} /\ h.u \in 1..MaxUpdates
                /\ h.at \in {"bids", "asks", "valid"}
<1>1. \A h \in InHand : /\ h.sym \in Symbols /\ h.gen \in 0..MaxEdits
                        /\ h.kind \in {"snapshot", "delta"} /\ h.u \in 1..MaxUpdates
                        /\ h.at \in {"bids", "asks", "valid"}
  BY DEF InHand
<1>2. Nothing.at = "none"
  BY DEF Nothing
<1> QED BY <1>1, <1>2 DEF FeedTypes

\* books' is books with some of them invalidated.
OnlyInvalid(new) ==
    /\ DOMAIN new = DOMAIN books /\ new \in [DOMAIN books -> Books]
    /\ \A s \in DOMAIN books :
        /\ new[s].gen = books[s].gen /\ new[s].last = books[s].last
        /\ new[s].bids = books[s].bids /\ new[s].asks = books[s].asks
        /\ new[s].valid => books[s].valid

LEMMA AllInvalidated ==
    ASSUME FeedTypes, NEW cause \in Causes
    PROVE  OnlyInvalid(AllInvalid(cause)) /\ \A s \in DOMAIN books : ~AllInvalid(cause)[s].valid
<1>1. \A s \in DOMAIN books : books[s] \in Books
  BY DEF FeedTypes
<1>2. \A s \in DOMAIN books : AllInvalid(cause)[s] = Invalid(books[s], cause)
  BY DEF AllInvalid
<1>3. DOMAIN AllInvalid(cause) = DOMAIN books /\ AllInvalid(cause) \in [DOMAIN books -> Books]
  BY <1>1, Invalidated DEF AllInvalid
<1>4. \A s \in DOMAIN books :
        LET b == AllInvalid(cause)[s] IN
        /\ ~b.valid /\ b.gen = books[s].gen /\ b.last = books[s].last
        /\ b.bids = books[s].bids /\ b.asks = books[s].asks
  BY <1>1, <1>2, Invalidated
<1> QED BY <1>3, <1>4 DEF OnlyInvalid

LEMMA SameHeld ==
    ASSUME hand' = hand, OnlyInvalid(books')
    PROVE  \A s \in DOMAIN books : Held(s)' <=> Held(s)
BY DEF Held, Mine, OnlyInvalid

\* A step that invalidates books, and touches no frame.
LEMMA InvalidKeeps ==
    ASSUME FeedInv, OnlyInvalid(books'),
           wanted' \subseteq Symbols, config' \subseteq Symbols,
           UNCHANGED <<exchange, link, hand, named, edits, ws, connected>>
    PROVE  FeedInv'
<1>1. FeedTypes'
  BY DEF FeedInv, FeedTypes, OnlyInvalid
<1>2. Connection' /\ Stream'
  BY DEF FeedInv, Connection, Stream, OnlyInvalid, Left, Beyond
<1>3. Snapshots' /\ Generations'
  BY DEF FeedInv, Snapshots, Generations, OnlyInvalid
<1>4. Applying'
  BY SameHeld DEF FeedInv, Applying, OnlyInvalid
<1>5. Following'
  <2>1. \A s : Left(link.pipe, s, 0)' = Left(link.pipe, s, 0)
    BY DEF Left, Beyond
  <2> QED BY <2>1, SameHeld DEF FeedInv, Following, OnlyInvalid
<1> QED BY <1>1, <1>2, <1>3, <1>4, <1>5 DEF FeedInv

LEMMA FeedInitInv == FeedInit => FeedInv
<1> SUFFICES ASSUME FeedInit PROVE FeedInv
  OBVIOUS
<1>1. /\ \A s \in DOMAIN books : books[s] = Fresh(0)
      /\ DOMAIN books = named /\ named \subseteq Symbols /\ edits = 0 /\ hand = Nothing /\ ws = "idle"
      /\ link = NoLink /\ ~connected
  BY DEF FeedInit
<1>2. 0 \in 0..MaxEdits
  OBVIOUS
<1>3. \A s \in DOMAIN books : books[s] \in Books /\ ~books[s].valid /\ books[s].gen = 0
  BY <1>1, <1>2, FreshBook
<1>4. link.state = "none" /\ link.pipe = <<>> /\ link.subs = {}
  BY <1>1 DEF NoLink
<1>5. FeedTypes
  <2>1. exchange \in [Symbols -> 1..MaxUpdates]
    BY DEF FeedInit
  <2>2. link \in [state : {"none", "up", "broken"}, subs : SUBSET Symbols, pipe : Seq(Frames)]
    BY <1>1 DEF NoLink
  <2>3. books \in [DOMAIN books -> Books]
    BY <1>3 DEF FeedInit
  <2> QED BY <1>1, <1>2, <2>1, <2>2, <2>3 DEF FeedInit, FeedTypes
<1>6. Connection /\ Stream /\ Snapshots
  BY <1>1, <1>3, <1>4 DEF Connection, Stream, Snapshots
<1>7. Generations /\ Applying /\ Following
  BY <1>1, <1>3 DEF Generations, Applying, Following, Held
<1> QED BY <1>5, <1>6, <1>7 DEF FeedInv

-----------------------------------------------------------------------------
(* The exchange, and the connection.                                       *)

Links == [state : {"none", "up", "broken"}, subs : SUBSET Symbols, pipe : Seq(Frames)]

LEMMA LinkSet ==
    ASSUME NEW l \in Links, NEW q \in Seq(Frames)
    PROVE  LET new == [l EXCEPT !.pipe = q] IN
           new \in Links /\ new.state = l.state /\ new.subs = l.subs /\ new.pipe = q
BY DEF Links

LEMMA NoLinks ==
    ASSUME NEW state \in {"none", "up", "broken"}
    PROVE  LET new == [NoLink EXCEPT !.state = state] IN
           /\ new \in Links /\ new.state = state /\ new.subs = {} /\ new.pipe = <<>>
           /\ NoLink \in Links /\ NoLink.state = "none" /\ NoLink.subs = {} /\ NoLink.pipe = <<>>
<1>1. NoLink \in Links /\ NoLink.state = "none" /\ NoLink.subs = {} /\ NoLink.pipe = <<>>
  <2>1. <<>> \in Seq(Frames)
    OBVIOUS
  <2> QED BY <2>1 DEF NoLink, Links
<1> QED BY <1>1 DEF Links

LEMMA LinkTypes ==
    ASSUME FeedTypes
    PROVE  /\ link \in Links /\ link.pipe \in Seq(Frames) /\ link.subs \subseteq Symbols
           /\ \A i \in DOMAIN link.pipe :
                /\ link.pipe[i] \in Frames /\ link.pipe[i].sym \in Symbols
                /\ link.pipe[i].u \in 1..MaxUpdates
                /\ i \in Nat /\ Left(link.pipe, link.pipe[i].sym, i) \in Nat
           /\ \A s : Left(link.pipe, s, 0) \in Nat
<1>1. link \in Links /\ link.pipe \in Seq(Frames) /\ link.subs \subseteq Symbols
  BY DEF FeedTypes, Links
<1>2. \A i \in DOMAIN link.pipe : link.pipe[i] \in Frames /\ i \in Nat
  BY <1>1
<1>3. \A f \in Frames : f.sym \in Symbols /\ f.u \in 1..MaxUpdates
  BY DEF Frames
<1> QED BY <1>1, <1>2, <1>3, LeftType

\* An update of a subscribed book adds a frame; another book is not valid, or not connected.
LEMMA UpdateKeeps == ASSUME FeedInv, NEW s \in Symbols, Update(s) PROVE FeedInv'
<1>1. /\ exchange[s] < MaxUpdates /\ exchange' = [exchange EXCEPT ![s] = @ + 1]
      /\ UNCHANGED <<ws, hand, wanted, connected, books, config, named, edits>>
  BY DEF Update, session, operator
<1>t. FeedTypes /\ exchange \in [Symbols -> 1..MaxUpdates]
  BY DEF FeedInv, FeedTypes
<1>2. /\ \A t \in Symbols : exchange'[t] = exchange[t] + (IF t = s THEN 1 ELSE 0)
      /\ exchange' \in [Symbols -> 1..MaxUpdates]
  BY <1>1, <1>t
<1>3. \A t : Held(t)' <=> Held(t)
  BY <1>1 DEF Held, Mine
<1>4. CASE s \in link.subs /\ link.state = "up"
  <2>1. PICK kind \in {"delta", "bad"} :
            link' = [link EXCEPT !.pipe = Append(@, [sym |-> s, kind |-> kind, u |-> exchange'[s]])]
    BY <1>4 DEF Update
  <2> DEFINE f == [sym |-> s, kind |-> kind, u |-> exchange'[s]]
             q == Append(link.pipe, f)
             n == Len(link.pipe)
  <2>2. f \in Frames /\ f.sym = s /\ f.kind # "snapshot" /\ f.u = exchange'[s]
    BY <1>2 DEF Frames
  <2>3. link' = [link EXCEPT !.pipe = q]
    BY <2>1
  <2> HIDE DEF f
  <2>4. /\ q \in Seq(Frames) /\ n \in Nat /\ DOMAIN q = 1..(n + 1) /\ DOMAIN link.pipe = 1..n
        /\ \A i \in 1..n : q[i] = link.pipe[i]
        /\ q[n + 1] = f
    BY <1>t, <2>2, LinkTypes
  <2>5. \A t, k : k \in 0..n => Left(q, t, k) = Left(link.pipe, t, k) + (IF t = s THEN 1 ELSE 0)
    BY <1>t, <2>2, LinkTypes, LeftAppend
  <2>6. Left(q, s, n + 1) = 0
    <3>1. Beyond(q, s, n + 1) = {}
      BY <2>4 DEF Beyond
    <3> QED BY <3>1, FS_EmptySet DEF Left
  <2> HIDE DEF q, n
  <2>7. link' \in Links /\ link'.state = "up" /\ link'.subs = link.subs /\ link'.pipe = q
    BY <1>t, <1>4, <2>3, <2>4, LinkTypes, LinkSet
  <2>8. FeedTypes'
    BY <1>1, <1>2, <1>t, <2>7 DEF FeedTypes, Links
  <2>9. Connection'
    BY <1>1, <1>4, <2>7 DEF FeedInv, Connection
  <2>10. Stream'
    <3>1. ASSUME NEW i \in DOMAIN q
          PROVE  q[i].sym \in link.subs /\ exchange'[q[i].sym] = q[i].u + Left(q, q[i].sym, i)
      <4>1. CASE i = n + 1
        BY <1>4, <2>2, <2>4, <2>6, <4>1, <1>2
      <4>2. CASE i \in 1..n
        <5>1. /\ link.pipe[i].sym \in link.subs
              /\ exchange[link.pipe[i].sym] = link.pipe[i].u + Left(link.pipe, link.pipe[i].sym, i)
          BY <1>4, <2>4, <4>2 DEF FeedInv, Stream
        <5>2. /\ link.pipe[i].sym \in Symbols /\ link.pipe[i].u \in Nat
              /\ Left(link.pipe, link.pipe[i].sym, i) \in Nat
          BY <1>t, <2>4, <4>2, LinkTypes
        <5>3. i \in 0..n
          BY <2>4, <4>2
        <5> DEFINE x == link.pipe[i].sym
        <5>4. q[i] = link.pipe[i]
          BY <2>4, <4>2
        <5>5. Left(q, x, i) = Left(link.pipe, x, i) + (IF x = s THEN 1 ELSE 0)
          BY <2>5, <5>3
        <5>6. exchange'[x] = exchange[x] + (IF x = s THEN 1 ELSE 0)
          BY <1>2, <5>2
        <5> QED BY <5>1, <5>2, <5>4, <5>5, <5>6
      <4> QED BY <2>4, <4>1, <4>2
    <3>2. hand # Nothing => hand.sym \in link.subs /\ exchange'[hand.sym] = hand.u + Left(q, hand.sym, 0)
      <4> SUFFICES ASSUME hand # Nothing
                   PROVE  hand.sym \in link.subs /\ exchange'[hand.sym] = hand.u + Left(q, hand.sym, 0)
        OBVIOUS
      <4>1. hand.sym \in link.subs /\ exchange[hand.sym] = hand.u + Left(link.pipe, hand.sym, 0)
        BY <1>4 DEF FeedInv, Stream
      <4>2. hand.sym \in Symbols /\ hand.u \in Nat /\ Left(link.pipe, hand.sym, 0) \in Nat
        BY <1>t, HandTypes, LinkTypes
      <4>3. 0 \in 0..n
        BY <2>4
      <4> QED BY <1>2, <2>5, <4>1, <4>2, <4>3
    <3> QED BY <1>1, <2>7, <3>1, <3>2 DEF Stream
  <2>11. Snapshots'
    <3>1. \A i \in DOMAIN q : q[i].kind = "snapshot" => i \in DOMAIN link.pipe /\ q[i] = link.pipe[i]
      BY <2>2, <2>4
    <3> QED BY <1>1, <2>7, <3>1 DEF FeedInv, Snapshots
  <2>12. Generations' /\ Applying'
    BY <1>1, <1>3 DEF FeedInv, Generations, Applying
  <2>13. Following'
    <3> SUFFICES ASSUME NEW t \in DOMAIN books, books[t].valid
                 PROVE  /\ ~Held(t) => books[t].bids = books[t].last /\ books[t].asks = books[t].last
                        /\ t \in link.subs
                        /\ exchange'[t] = books[t].last + Left(q, t, 0) + (IF Held(t) THEN 1 ELSE 0)
      BY <1>1, <1>3, <2>7 DEF Following
    <3>1. /\ ~Held(t) => books[t].bids = books[t].last /\ books[t].asks = books[t].last
          /\ t \in link.subs
          /\ exchange[t] = books[t].last + Left(link.pipe, t, 0) + (IF Held(t) THEN 1 ELSE 0)
      BY <1>4 DEF FeedInv, Following
    <3>2. t \in Symbols /\ books[t].last \in Nat /\ Left(link.pipe, t, 0) \in Nat /\ 0 \in 0..n
      BY <1>t, <2>4, LinkTypes, BookTypes DEF FeedTypes
    <3> QED BY <1>2, <2>5, <3>1, <3>2
  <2> QED BY <2>8, <2>9, <2>10, <2>11, <2>12, <2>13 DEF FeedInv
<1>5. CASE ~(s \in link.subs /\ link.state = "up")
  <2>1. link' = link
    BY <1>5 DEF Update
  <2>2. FeedTypes' /\ Connection' /\ Snapshots' /\ Generations' /\ Applying'
    BY <1>1, <1>2, <1>3, <1>t, <2>1 DEF FeedInv, FeedTypes, Connection, Snapshots, Generations, Applying
  <2>3. \A t, k : Left(link.pipe, t, k)' = Left(link.pipe, t, k)
    BY <2>1 DEF Left, Beyond
  <2>4. link.state = "up" => \A t \in link.subs : exchange'[t] = exchange[t]
    BY <1>2, <1>5, <1>t, LinkTypes
  <2>5. Stream'
    BY <1>1, <2>1, <2>3, <2>4 DEF FeedInv, Stream
  <2>6. Following'
    BY <1>1, <1>3, <2>1, <2>3, <2>4 DEF FeedInv, Following
  <2> QED BY <2>2, <2>5, <2>6 DEF FeedInv
<1> QED BY <1>4, <1>5

\* A connection that is new, or broken: there are no frames, and no account of them.
LEMMA NoFrames ==
    ASSUME FeedInv, link'.pipe = <<>>, link' \in Links, hand = Nothing \/ link'.state # "up",
           link'.state = "up" => \A s \in DOMAIN books : ~books'[s].valid,
           OnlyInvalid(books'), UNCHANGED <<exchange, hand, wanted, named, config, edits>>,
           connected' \in BOOLEAN, ws' \in {"idle", "open", "connected", "acking", "reading"}
    PROVE  FeedTypes' /\ Stream' /\ Snapshots' /\ Generations' /\ Applying' /\ Following'
<1>1. FeedTypes'
  BY DEF FeedInv, FeedTypes, Links, OnlyInvalid
<1>2. Stream' /\ Snapshots'
  BY DEF Stream, Snapshots
<1>3. Generations'
  BY DEF FeedInv, Generations, OnlyInvalid
<1>4. Applying'
  BY SameHeld DEF FeedInv, Applying, OnlyInvalid
<1>5. Following'
  BY SameHeld DEF FeedInv, Following, OnlyInvalid
<1> QED BY <1>1, <1>2, <1>3, <1>4, <1>5

LEMMA SessionKeeps == ASSUME FeedInv, Break \/ Open \/ OnConnect \/ Ack \/ Leave PROVE FeedInv'
<1>t. FeedTypes /\ Connection
  BY DEF FeedInv
<1>o. OnlyInvalid(books)
  BY <1>t DEF OnlyInvalid, FeedTypes
<1>1. CASE Break
  <2>1. /\ link' = [NoLink EXCEPT !.state = "broken"]
        /\ UNCHANGED <<exchange, ws, hand, wanted, connected, books, config, named, edits>>
    BY <1>1 DEF Break, session, operator
  <2>2. link'.pipe = <<>> /\ link' \in Links /\ link'.state = "broken" /\ link'.subs = {}
    BY <2>1, NoLinks
  <2>3. Connection'
    BY <1>t, <2>1, <2>2 DEF Connection
  <2> QED BY <1>o, <1>t, <2>1, <2>2, <2>3, NoFrames DEF FeedInv, FeedTypes
<1>2. CASE Open
  <2>1. /\ link' = [NoLink EXCEPT !.state = "up"] /\ ws = "idle" /\ ws' = "open"
        /\ UNCHANGED <<exchange, hand, wanted, connected, books, config, named, edits>>
    BY <1>2 DEF Open, session, operator, wsRest
  <2>2. link'.pipe = <<>> /\ link' \in Links /\ link'.state = "up" /\ link'.subs = {}
    BY <2>1, NoLinks
  <2>3. Connection' /\ hand = Nothing /\ \A s \in DOMAIN books : ~books[s].valid
    BY <1>t, <2>1, <2>2 DEF Connection
  <2> QED BY <1>o, <1>t, <2>1, <2>2, <2>3, NoFrames DEF FeedInv, FeedTypes
<1>3. CASE OnConnect
  <2>1. /\ ws = "open" /\ ws' = "connected" /\ connected' = TRUE
        /\ UNCHANGED <<exchange, link, hand, wanted, config, named, edits>>
    BY <1>3 DEF OnConnect, session, operator, wsRest
  <2>2. ~connected /\ hand = Nothing /\ link.pipe = <<>> /\ link.subs = {}
    BY <1>t, <2>1 DEF Connection
  <2>3. OnlyInvalid(books') /\ \A s \in DOMAIN books : ~books'[s].valid
    BY <1>3, <1>t, <2>2, AllInvalidated DEF OnConnect, Causes
  <2>4. Connection'
    BY <1>t, <2>1, <2>2, <2>3 DEF Connection, OnlyInvalid
  <2> QED BY <1>t, <2>1, <2>2, <2>3, <2>4, NoFrames, LinkTypes DEF FeedInv, FeedTypes
<1>4. CASE Ack
  <2>1. /\ ws = "acking" /\ ws' = "reading"
        /\ UNCHANGED <<exchange, link, hand, wanted, connected, books, config, named, edits>>
    BY <1>4 DEF Ack, session, operator, wsRest
  <2>2. Connection' /\ FeedTypes'
    BY <1>t, <2>1 DEF Connection, FeedTypes
  <2>3. Stream'
    BY <2>1 DEF FeedInv, Stream, Left, Beyond
  <2>4. Snapshots' /\ Generations'
    BY <2>1 DEF FeedInv, Snapshots, Generations
  <2>5. Applying'
    BY <2>1 DEF FeedInv, Applying, Held, Mine
  <2>6. Following'
    BY <2>1 DEF FeedInv, Following, Held, Mine, Left, Beyond
  <2> QED BY <2>2, <2>3, <2>4, <2>5, <2>6 DEF FeedInv
<1>5. CASE Leave
  <2>1. /\ ws' = "idle" /\ link' = NoLink /\ connected' = FALSE /\ hand = Nothing
        /\ UNCHANGED <<exchange, hand, wanted, config, named, edits>>
    BY <1>5 DEF Leave, session, operator, wsRest
  <2>2. link'.pipe = <<>> /\ link' \in Links /\ link'.state = "none" /\ link'.subs = {}
    BY <2>1, NoLinks
  <2>3. OnlyInvalid(books') /\ \A s \in DOMAIN books : ~books'[s].valid
    <3>1. CASE connected
      BY <1>5, <1>t, <3>1, AllInvalidated DEF Leave, Causes
    <3>2. CASE ~connected
      <4>1. books' = books
        BY <1>5, <3>2 DEF Leave
      <4> QED BY <1>o, <1>t, <3>2, <4>1 DEF Connection
    <3> QED BY <3>1, <3>2
  <2>4. Connection'
    BY <2>1, <2>2, <2>3 DEF Connection, OnlyInvalid
  <2> QED BY <2>1, <2>2, <2>3, <2>4, NoFrames DEF FeedInv
<1> QED BY <1>1, <1>2, <1>3, <1>4, <1>5

\* One snapshot of each symbol is under way, and nothing else.
LEMMA SubscribeKeeps == ASSUME FeedInv, Subscribe PROVE FeedInv'
<1>t. FeedTypes /\ Connection
  BY DEF FeedInv
<1>1. /\ ws = "connected" /\ ws' = "acking"
      /\ UNCHANGED <<exchange, hand, wanted, connected, books, config, named, edits>>
  BY DEF Subscribe, operator, wsRest
<1>2. PICK order \in SetToSeqs(wanted) :
        link' = [link EXCEPT !.subs = wanted,
                    !.pipe = [i \in DOMAIN order |->
                                [sym |-> order[i], kind |-> "snapshot", u |-> exchange[order[i]]]]]
  BY Zenon DEF Subscribe
<1> DEFINE n == Cardinality(wanted)
           q == [i \in DOMAIN order |->
                    [sym |-> order[i], kind |-> "snapshot", u |-> exchange[order[i]]]]
<1>3. n \in Nat
  BY <1>t, FS_Subset, FS_CardinalityType DEF FeedTypes
<1>4. order \in [1..n -> wanted] /\ \A i, j \in 1..n : i # j => order[i] # order[j]
  BY <1>2 DEF SetToSeqs
<1>5. \A i \in 1..n : /\ q[i].sym = order[i] /\ q[i].kind = "snapshot"
                      /\ q[i].u = exchange[order[i]] /\ q[i] \in Frames
  <2> SUFFICES ASSUME NEW i \in 1..n
               PROVE  /\ q[i].sym = order[i] /\ q[i].kind = "snapshot"
                      /\ q[i].u = exchange[order[i]] /\ q[i] \in Frames
    OBVIOUS
  <2>1. order[i] \in wanted /\ DOMAIN order = 1..n
    BY <1>4
  <2>2. q[i] = [sym |-> order[i], kind |-> "snapshot", u |-> exchange[order[i]]]
    BY <2>1
  <2>3. order[i] \in Symbols /\ exchange[order[i]] \in 1..MaxUpdates
    BY <1>t, <2>1 DEF FeedTypes
  <2> HIDE DEF q
  <2> QED BY <2>2, <2>3 DEF Frames
<1>6. DOMAIN q = 1..n /\ q \in Seq(Frames)
  <2>1. DOMAIN q = 1..n
    BY <1>4
  <2>2. q = [i \in 1..n |-> q[i]]
    BY <2>1
  <2> HIDE DEF q, n
  <2> QED BY <1>3, <1>5, <2>1, <2>2
<1> HIDE DEF q, n
<1>7. link' \in Links /\ link'.state = link.state /\ link'.subs = wanted /\ link'.pipe = q
  BY <1>2, <1>6, <1>t, LinkTypes, Zenon DEF Links, FeedTypes, q
<1>8. hand = Nothing /\ \A s \in DOMAIN books : ~books[s].valid
  BY <1>1, <1>t DEF Connection
<1>9. \A i \in 1..n : Left(q, q[i].sym, i) = 0
  <2> SUFFICES ASSUME NEW i \in 1..n PROVE Left(q, q[i].sym, i) = 0
    OBVIOUS
  <2>1. Beyond(q, q[i].sym, i) = {}
    BY <1>4, <1>5, <1>6 DEF Beyond
  <2> QED BY <2>1, FS_EmptySet DEF Left
<1>10. FeedTypes'
  BY <1>1, <1>t, <1>7 DEF FeedTypes, Links
<1>11. Connection'
  BY <1>1, <1>t, <1>7, <1>8 DEF Subscribe, Connection
<1>12. Stream'
  <2>1. \A i \in 1..n : q[i].sym \in wanted /\ exchange[q[i].sym] = q[i].u + Left(q, q[i].sym, i)
    <3> SUFFICES ASSUME NEW i \in 1..n
                 PROVE  q[i].sym \in wanted /\ exchange[q[i].sym] = q[i].u + Left(q, q[i].sym, i)
      OBVIOUS
    <3>1. q[i].u \in Nat /\ q[i].sym = order[i] /\ q[i].u = exchange[order[i]] /\ order[i] \in wanted
      BY <1>4, <1>5 DEF Frames
    <3> QED BY <1>9, <3>1
  <2> QED BY <1>1, <1>6, <1>7, <1>8, <2>1 DEF Stream
<1>13. Snapshots'
  BY <1>1, <1>4, <1>5, <1>6, <1>7, <1>8 DEF Snapshots
<1>14. Generations' /\ Applying' /\ Following'
  BY <1>1, <1>8 DEF FeedInv, Generations, Applying, Following, Held
<1> QED BY <1>10, <1>11, <1>12, <1>13, <1>14 DEF FeedInv

-----------------------------------------------------------------------------
(* The first frame is dropped, refused or taken in hand.                   *)

LEMMA HeadTail ==
    ASSUME FeedInv, link.pipe # <<>>, link' = [link EXCEPT !.pipe = Tail(@)]
    PROVE  /\ link' \in Links /\ link'.state = link.state /\ link'.subs = link.subs
           /\ link'.pipe = Tail(link.pipe) /\ Tail(link.pipe) \in Seq(Frames)
           /\ Head(link.pipe) = link.pipe[1] /\ 1 \in DOMAIN link.pipe /\ Head(link.pipe) \in Frames
           /\ \A i \in DOMAIN Tail(link.pipe) :
                i + 1 \in DOMAIN link.pipe \ {1} /\ Tail(link.pipe)[i] = link.pipe[i + 1] /\ i \in Nat
           /\ \A t : /\ Left(Tail(link.pipe), t, 0) \in Nat
                     /\ Left(link.pipe, t, 0)
                            = Left(Tail(link.pipe), t, 0) + (IF Head(link.pipe).sym = t THEN 1 ELSE 0)
<1>t. FeedTypes /\ link \in Links /\ link.pipe \in Seq(Frames)
  BY LinkTypes DEF FeedInv
<1> DEFINE q == link.pipe
<1>1. /\ Tail(q) \in Seq(Frames) /\ Len(q) \in Nat \ {0} /\ Head(q) = q[1] /\ Head(q) \in Frames
      /\ DOMAIN Tail(q) = 1..(Len(q) - 1) /\ DOMAIN q = 1..Len(q)
      /\ \A i \in 1..(Len(q) - 1) : Tail(q)[i] = q[i + 1]
  BY <1>t
<1>2. link' \in Links /\ link'.state = link.state /\ link'.subs = link.subs /\ link'.pipe = Tail(q)
  BY <1>t, <1>1, LinkSet
<1>3. \A t : Left(Tail(q), t, 0) = Left(q, t, 1)
  BY <1>t, LeftTail
<1>4. \A t : Left(q, t, 0) = Left(q, t, 1) + (IF Head(q).sym = t THEN 1 ELSE 0)
  BY <1>t, LeftHead
<1>5. \A t : Left(Tail(q), t, 0) \in Nat
  BY <1>1, LeftType
<1> QED BY <1>1, <1>2, <1>3, <1>4, <1>5

\* What the rest of the pipe owes to the exchange, and the first frame with it.
LEMMA RestOfStream ==
    ASSUME FeedInv, link.pipe # <<>>, link.state = "up"
    PROVE  /\ \A i \in DOMAIN Tail(link.pipe) :
                /\ Tail(link.pipe)[i].sym \in link.subs
                /\ exchange[Tail(link.pipe)[i].sym]
                    = Tail(link.pipe)[i].u + Left(Tail(link.pipe), Tail(link.pipe)[i].sym, i)
           /\ Head(link.pipe).sym \in link.subs
           /\ exchange[Head(link.pipe).sym]
                = Head(link.pipe).u + Left(Tail(link.pipe), Head(link.pipe).sym, 0)
<1>t. FeedTypes /\ link.pipe \in Seq(Frames)
  BY LinkTypes DEF FeedInv
<1> DEFINE q == link.pipe
<1>1. /\ Len(q) \in Nat \ {0} /\ Head(q) = q[1]
      /\ DOMAIN Tail(q) = 1..(Len(q) - 1) /\ DOMAIN q = 1..Len(q)
      /\ \A i \in 1..(Len(q) - 1) : Tail(q)[i] = q[i + 1]
  BY <1>t
<1>2. \A j \in DOMAIN q : q[j].sym \in link.subs /\ exchange[q[j].sym] = q[j].u + Left(q, q[j].sym, j)
  BY DEF FeedInv, Stream
<1>3. \A t : \A k \in Nat : Left(Tail(q), t, k) = Left(q, t, k + 1)
  BY <1>t, LeftTail
<1> HIDE DEF q
<1>4. ASSUME NEW i \in DOMAIN Tail(q)
      PROVE  /\ Tail(q)[i].sym \in link.subs
             /\ exchange[Tail(q)[i].sym] = Tail(q)[i].u + Left(Tail(q), Tail(q)[i].sym, i)
  <2>1. i \in Nat /\ i + 1 \in DOMAIN q /\ Tail(q)[i] = q[i + 1]
    BY <1>1, <1>4
  <2>2. Left(Tail(q), q[i + 1].sym, i) = Left(q, q[i + 1].sym, i + 1)
    BY <1>3, <2>1
  <2> QED BY <1>2, <2>1, <2>2
<1>5. Head(q).sym \in link.subs /\ exchange[Head(q).sym] = Head(q).u + Left(Tail(q), Head(q).sym, 0)
  <2>1. 1 \in DOMAIN q /\ 0 + 1 = 1
    BY <1>1
  <2>2. Left(Tail(q), q[1].sym, 0) = Left(q, q[1].sym, 1)
    BY <1>3, <2>1
  <2> QED BY <1>1, <1>2, <2>1, <2>2
<1> QED BY <1>4, <1>5 DEF q

LEMMA RestOfSnapshots ==
    ASSUME FeedInv, link.pipe # <<>>
    PROVE  /\ \A i \in DOMAIN Tail(link.pipe) : Tail(link.pipe)[i].kind = "snapshot" =>
                /\ \A j \in DOMAIN Tail(link.pipe) \ {i} :
                        Tail(link.pipe)[j].kind = "snapshot" => Tail(link.pipe)[j].sym # Tail(link.pipe)[i].sym
                /\ Tail(link.pipe)[i].sym \in DOMAIN books => ~books[Tail(link.pipe)[i].sym].valid
                /\ Head(link.pipe).kind = "snapshot" => Head(link.pipe).sym # Tail(link.pipe)[i].sym
           /\ Head(link.pipe).kind = "snapshot" /\ Head(link.pipe).sym \in DOMAIN books =>
                ~books[Head(link.pipe).sym].valid
<1>t. link.pipe \in Seq(Frames)
  BY LinkTypes DEF FeedInv
<1> DEFINE q == link.pipe
<1>1. /\ Len(q) \in Nat \ {0} /\ Head(q) = q[1]
      /\ DOMAIN Tail(q) = 1..(Len(q) - 1) /\ DOMAIN q = 1..Len(q)
      /\ \A i \in 1..(Len(q) - 1) : Tail(q)[i] = q[i + 1]
  BY <1>t
<1>2. \A i \in DOMAIN q : q[i].kind = "snapshot" =>
        /\ \A j \in DOMAIN q \ {i} : q[j].kind = "snapshot" => q[j].sym # q[i].sym
        /\ q[i].sym \in DOMAIN books => ~books[q[i].sym].valid
  BY DEF FeedInv, Snapshots
<1>3. \A i \in DOMAIN Tail(q) : i + 1 \in DOMAIN q /\ i + 1 # 1 /\ Tail(q)[i] = q[i + 1]
  BY <1>1
<1>4. \A i, j \in DOMAIN Tail(q) : i # j => i + 1 # j + 1
  BY <1>1
<1>5. 1 \in DOMAIN q
  BY <1>1
<1> HIDE DEF q
<1>6. ASSUME NEW i \in DOMAIN Tail(q), Tail(q)[i].kind = "snapshot"
      PROVE  /\ \A j \in DOMAIN Tail(q) \ {i} : Tail(q)[j].kind = "snapshot" => Tail(q)[j].sym # Tail(q)[i].sym
             /\ Tail(q)[i].sym \in DOMAIN books => ~books[Tail(q)[i].sym].valid
             /\ Head(q).kind = "snapshot" => Head(q).sym # Tail(q)[i].sym
  BY <1>1, <1>2, <1>3, <1>4, <1>5, <1>6
<1>7. Head(q).kind = "snapshot" /\ Head(q).sym \in DOMAIN books => ~books[Head(q).sym].valid
  BY <1>1, <1>2, <1>5
<1> QED BY <1>6, <1>7 DEF q

\* link' is link without its first frame f: the rest, r, is still in order.
FirstGone(f, r) ==
    /\ link' \in Links /\ link'.state = "up" /\ link.state = "up"
    /\ link'.subs = link.subs /\ link'.pipe = r
    /\ ws \in {"acking", "reading"} /\ connected
    /\ f \in Frames /\ r \in Seq(Frames)
    /\ f.sym \in link.subs /\ exchange[f.sym] = f.u + Left(r, f.sym, 0)
    /\ \A i \in DOMAIN r : r[i].sym \in link.subs /\ exchange[r[i].sym] = r[i].u + Left(r, r[i].sym, i)
    /\ \A i \in DOMAIN r : r[i].kind = "snapshot" =>
        /\ \A j \in DOMAIN r \ {i} : r[j].kind = "snapshot" => r[j].sym # r[i].sym
        /\ r[i].sym \in DOMAIN books => ~books[r[i].sym].valid
        /\ f.kind = "snapshot" => f.sym # r[i].sym
    /\ f.kind = "snapshot" /\ f.sym \in DOMAIN books => ~books[f.sym].valid
    /\ \A t : /\ Left(r, t, 0) \in Nat
              /\ Left(link.pipe, t, 0) = Left(r, t, 0) + (IF f.sym = t THEN 1 ELSE 0)

LEMMA FirstFrame ==
    ASSUME FeedInv, link.pipe # <<>>, link' = [link EXCEPT !.pipe = Tail(@)]
    PROVE  FirstGone(Head(link.pipe), Tail(link.pipe))
<1> DEFINE f == Head(link.pipe)
           r == Tail(link.pipe)
<1>1. link.state = "up" /\ ws \in {"acking", "reading"} /\ connected
  BY DEF FeedInv, Connection, FeedTypes
<1>2. /\ link' \in Links /\ link'.state = link.state /\ link'.subs = link.subs
      /\ link'.pipe = r /\ r \in Seq(Frames) /\ f \in Frames
      /\ \A t : /\ Left(r, t, 0) \in Nat
                /\ Left(link.pipe, t, 0) = Left(r, t, 0) + (IF f.sym = t THEN 1 ELSE 0)
  BY HeadTail
<1>3. /\ f.sym \in link.subs /\ exchange[f.sym] = f.u + Left(r, f.sym, 0)
      /\ \A i \in DOMAIN r : r[i].sym \in link.subs /\ exchange[r[i].sym] = r[i].u + Left(r, r[i].sym, i)
  BY <1>1, RestOfStream
<1>4. /\ \A i \in DOMAIN r : r[i].kind = "snapshot" =>
            /\ \A j \in DOMAIN r \ {i} : r[j].kind = "snapshot" => r[j].sym # r[i].sym
            /\ r[i].sym \in DOMAIN books => ~books[r[i].sym].valid
            /\ f.kind = "snapshot" => f.sym # r[i].sym
      /\ f.kind = "snapshot" /\ f.sym \in DOMAIN books => ~books[f.sym].valid
  BY RestOfSnapshots
<1> HIDE DEF f, r
<1>5. FirstGone(f, r)
  BY <1>1, <1>2, <1>3, <1>4 DEF FirstGone
<1> QED BY <1>5 DEF f, r

\* The first frame is not applied: its book has none, or is not valid afterwards.
LEMMA FrameDropped ==
    ASSUME FeedInv, NEW f, NEW r, FirstGone(f, r), hand = Nothing, OnlyInvalid(books'),
           f.sym \in DOMAIN books => ~books'[f.sym].valid,
           UNCHANGED <<exchange, hand, ws, wanted, connected, named, config, edits>>
    PROVE  FeedInv'
<1>t. FeedTypes /\ Connection
  BY DEF FeedInv
<1>1. /\ link' \in Links /\ link'.state = "up" /\ link.state = "up" /\ link'.subs = link.subs
      /\ link'.pipe = r /\ ws \in {"acking", "reading"} /\ connected
  BY DEF FirstGone
<1>2. FeedTypes'
  BY <1>t, <1>1 DEF FeedTypes, Links, OnlyInvalid
<1>3. Connection'
  BY <1>1 DEF Connection
<1>4. Stream'
  BY DEF FirstGone, Stream
<1>5. Snapshots'
  BY DEF FirstGone, Snapshots, OnlyInvalid
<1>6. Generations'
  BY DEF FeedInv, Generations, OnlyInvalid
<1>7. Applying'
  BY DEF Applying, Held
<1>8. Following'
  <2>n. \A t : ~Held(t) /\ ~Held(t)' /\ (IF Held(t) THEN 1 ELSE 0) = 0 /\ (IF Held(t)' THEN 1 ELSE 0) = 0
    BY DEF Held
  <2>d. DOMAIN books' = DOMAIN books
    BY DEF OnlyInvalid
  <2> SUFFICES ASSUME NEW t \in DOMAIN books, books'[t].valid
               PROVE  /\ ~Held(t)' => books'[t].bids = books'[t].last /\ books'[t].asks = books'[t].last
                      /\ t \in link.subs
                      /\ exchange[t] = books'[t].last + Left(r, t, 0) + (IF Held(t)' THEN 1 ELSE 0)
    BY <1>1, <2>d DEF Following
  <2>1. books[t].valid /\ books'[t].bids = books[t].bids /\ books'[t].asks = books[t].asks
        /\ books'[t].last = books[t].last
    BY DEF OnlyInvalid
  <2>2. f.sym # t /\ books[t].last \in Nat
    BY <1>t, BookTypes DEF FeedTypes
  <2>3. Left(link.pipe, t, 0) = Left(r, t, 0)
    BY <2>2 DEF FirstGone
  <2>4. /\ books[t].bids = books[t].last /\ books[t].asks = books[t].last /\ t \in link.subs
        /\ exchange[t] = books[t].last + Left(link.pipe, t, 0) + (IF Held(t) THEN 1 ELSE 0)
    BY <1>1, <2>1, <2>n DEF FeedInv, Following
  <2> QED BY <2>n, <2>1, <2>3, <2>4
<1> QED BY <1>2, <1>3, <1>4, <1>5, <1>6, <1>7, <1>8 DEF FeedInv

\* The first frame is taken in hand: a snapshot, or a delta for a valid book.
LEMMA FrameTaken ==
    ASSUME FeedInv, NEW f, NEW r, FirstGone(f, r), hand = Nothing,
           f.sym \in DOMAIN books, hand' \in InHand,
           hand'.sym = f.sym, hand'.gen = books[f.sym].gen,
           hand'.kind = f.kind, hand'.u = f.u, hand'.at = "bids",
           UNCHANGED <<exchange, books, ws, wanted, connected, named, config, edits>>
    PROVE  FeedInv'
<1>t. FeedTypes /\ Connection
  BY DEF FeedInv
<1>1. /\ link' \in Links /\ link'.state = "up" /\ link.state = "up" /\ link'.subs = link.subs
      /\ link'.pipe = r /\ ws \in {"acking", "reading"} /\ connected
  BY DEF FirstGone
<1> DEFINE s == f.sym
<1>h. hand' # Nothing
  BY <1>t, HandTypes
<1>n. \A t : ~Held(t) /\ (IF Held(t) THEN 1 ELSE 0) = 0
  BY DEF Held
<1>9. \A t \in DOMAIN books : Held(t)' <=> t = s
  BY <1>h DEF Held, Mine
<1>2. FeedTypes'
  BY <1>t, <1>1 DEF FeedTypes, Links
<1>3. Connection'
  BY <1>1 DEF Connection
<1>4. Stream'
  BY DEF FirstGone, Stream
<1>5. Snapshots'
  BY DEF FirstGone, Snapshots
<1>6. Generations'
  BY <1>t DEF FeedInv, Generations
<1>7. Applying'
  <2>1. f.kind = "snapshot" => ~books[s].valid
    BY DEF FirstGone
  <2>2. ASSUME books[s].valid
        PROVE  f.u = books[s].last + 1 /\ books[s].bids = books[s].last /\ books[s].asks = books[s].last
    <3>1. /\ books[s].bids = books[s].last /\ books[s].asks = books[s].last
          /\ exchange[s] = books[s].last + Left(link.pipe, s, 0) + (IF Held(s) THEN 1 ELSE 0)
      BY <1>n, <1>1, <2>2 DEF FeedInv, Following
    <3>2. exchange[s] = books[s].last + Left(link.pipe, s, 0) + 0
      BY <1>n, <3>1
    <3>3. books[s].last \in Nat /\ f.u \in Nat
      BY <1>t, BookTypes DEF FeedTypes, FirstGone, Frames
    <3>4. /\ exchange[s] = f.u + Left(r, s, 0) /\ Left(r, s, 0) \in Nat
          /\ Left(link.pipe, s, 0) = Left(r, s, 0) + 1
      BY DEF FirstGone
    <3> HIDE DEF s
    <3> QED BY <3>1, <3>2, <3>3, <3>4
  <2> QED BY <1>9, <2>1, <2>2 DEF Applying
<1>8. Following'
  <2> SUFFICES ASSUME NEW t \in DOMAIN books, books[t].valid
               PROVE  /\ ~Held(t)' => books[t].bids = books[t].last /\ books[t].asks = books[t].last
                      /\ t \in link.subs
                      /\ exchange[t] = books[t].last + Left(r, t, 0) + (IF Held(t)' THEN 1 ELSE 0)
    BY <1>1 DEF Following
  <2>1. /\ books[t].bids = books[t].last /\ books[t].asks = books[t].last /\ t \in link.subs
        /\ exchange[t] = books[t].last + Left(link.pipe, t, 0) + (IF Held(t) THEN 1 ELSE 0)
    BY <1>n, <1>1 DEF FeedInv, Following
  <2>2. books[t].last \in Nat /\ Left(r, t, 0) \in Nat
    BY <1>t, BookTypes DEF FeedTypes, FirstGone
  <2>3. Left(link.pipe, t, 0) = Left(r, t, 0) + (IF t = s THEN 1 ELSE 0)
    BY DEF FirstGone
  <2>4. (IF t = s THEN 1 ELSE 0) = (IF Held(t)' THEN 1 ELSE 0) /\ (IF t = s THEN 1 ELSE 0) \in Nat
    BY <1>9
  <2>5. exchange[t] = books[t].last + Left(link.pipe, t, 0) + 0
    BY <1>n, <2>1
  <2> HIDE DEF s
  <2> QED BY <2>1, <2>2, <2>3, <2>4, <2>5
<1> QED BY <1>2, <1>3, <1>4, <1>5, <1>6, <1>7, <1>8 DEF FeedInv

\* Every frame decodes: one that does not is swallowed, and its book misses it.
Decodable == "garbled" \notin FeedFaults

LEMMA StartKeeps == ASSUME Decodable, FeedInv, StartFrame PROVE FeedInv'
<1>t. FeedTypes
  BY DEF FeedInv
<1> DEFINE frame == Head(link.pipe)
           s == frame.sym
           take == [sym |-> s, gen |-> books[s].gen, kind |-> frame.kind, u |-> frame.u, at |-> "bids"]
           applies == \/ frame.kind = "snapshot"
                      \/ books[s].valid /\ frame.kind = "delta" /\ frame.u > books[s].last
<1>d. /\ link' = [link EXCEPT !.pipe = Tail(@)]
      /\ IF s \notin DOMAIN books THEN UNCHANGED <<hand, books>>
         ELSE IF applies THEN hand' = take /\ UNCHANGED books
         ELSE /\ UNCHANGED hand
              /\ books' = IF books[s].valid THEN [books EXCEPT ![s] = Rejected(@)]
                          ELSE IF books[s].has THEN books
                          ELSE [books EXCEPT ![s] = Invalid(@, "early")]
  <2>1. ~FeedFault("garbled")
    BY DEF Decodable, FeedFault
  <2> QED BY <2>1, Zenon DEF StartFrame
<1>1. /\ hand = Nothing /\ link.pipe # <<>> /\ link' = [link EXCEPT !.pipe = Tail(@)]
      /\ UNCHANGED <<exchange, ws, wanted, connected, named, config, edits>>
  BY <1>d DEF StartFrame, session, operator
<1>g. FirstGone(frame, Tail(link.pipe))
  BY <1>1, FirstFrame
<1>2. frame \in Frames
  BY <1>g DEF FirstGone
<1>3. OnlyInvalid(books)
  BY <1>t DEF OnlyInvalid, FeedTypes
<1>4. CASE s \notin DOMAIN books
  <2>1. hand' = hand /\ books' = books
    BY <1>4, <1>d
  <2> QED BY <1>1, <1>3, <1>4, <1>g, <2>1, FrameDropped
<1>5. CASE s \in DOMAIN books
  <2>b. books[s] \in Books /\ \A t \in DOMAIN books : books[t] \in Books
    BY <1>t, <1>5 DEF FeedTypes
  <2>i. ASSUME NEW cause \in Causes, books' = [books EXCEPT ![s] = Invalid(@, cause)]
        PROVE  OnlyInvalid(books') /\ ~books'[s].valid
    <3>1. /\ Invalid(books[s], cause) \in Books /\ ~Invalid(books[s], cause).valid
          /\ Invalid(books[s], cause).gen = books[s].gen /\ Invalid(books[s], cause).last = books[s].last
          /\ Invalid(books[s], cause).bids = books[s].bids /\ Invalid(books[s], cause).asks = books[s].asks
      BY <2>b, Invalidated
    <3>2. /\ DOMAIN books' = DOMAIN books /\ books'[s] = Invalid(books[s], cause)
          /\ \A t \in DOMAIN books : t # s => books'[t] = books[t]
      BY <1>5, <2>i
    <3>3. books' \in [DOMAIN books -> Books]
      BY <1>5, <1>t, <2>i, <3>1 DEF FeedTypes
    <3> QED BY <3>1, <3>2, <3>3 DEF OnlyInvalid
  <2>s. IF applies THEN hand' = take /\ books' = books
        ELSE /\ hand' = hand
             /\ books' = IF books[s].valid THEN [books EXCEPT ![s] = Invalid(@, "rejected")]
                         ELSE IF books[s].has THEN books ELSE [books EXCEPT ![s] = Invalid(@, "early")]
    BY <1>5, <1>d, Zenon DEF Rejected
  <2>1. CASE applies
    <3>1. frame.kind \in {"snapshot", "delta"} /\ hand' = take /\ books' = books
      BY <2>1, <2>s
    <3>2. /\ hand' \in InHand /\ hand'.sym = frame.sym /\ hand'.gen = books[frame.sym].gen
          /\ hand'.kind = frame.kind /\ hand'.u = frame.u /\ hand'.at = "bids"
      <4>1. books[s].gen \in 0..MaxEdits
        BY <2>b, BookTypes
      <4> HIDE DEF applies
      <4> QED BY <1>2, <3>1, <4>1 DEF InHand, Frames
    <3> HIDE DEF applies, frame
    <3> QED BY <1>1, <1>5, <1>g, <3>1, <3>2, FrameTaken
  <2>2. CASE ~applies
    <3> HIDE DEF applies
    <3>1. CASE books[s].valid
      BY <1>1, <1>g, <2>2, <2>i, <2>s, <3>1, FrameDropped DEF Causes
    <3>2. CASE ~books[s].valid /\ books[s].has
      BY <1>1, <1>3, <1>g, <2>2, <2>s, <3>2, FrameDropped
    <3>3. CASE ~books[s].valid /\ ~books[s].has
      BY <1>1, <1>g, <2>2, <2>i, <2>s, <3>3, FrameDropped DEF Causes
    <3> QED BY <3>1, <3>2, <3>3
  <2> QED BY <2>1, <2>2
<1> QED BY <1>4, <1>5

-----------------------------------------------------------------------------
(* The frame in hand is written into its book, field by field.             *)

LEMMA AppliedLevels ==
    ASSUME FeedTypes, hand \in InHand, NEW x
    PROVE  Applied(x) \in Levels /\ hand.u \in Levels /\ (hand.kind = "snapshot" => Applied(x) = hand.u)
           /\ (x + 1 = hand.u => Applied(x) = hand.u)
<1>1. hand.u \in 1..MaxUpdates
  BY HandTypes
<1>2. hand.u \in Levels /\ Mixed \in Levels
  BY <1>1 DEF Levels, Mixed
<1> QED BY <1>2 DEF Applied

\* The book of the frame in hand becomes b, and the frame goes on or is done with.
HandBook(b) ==
    /\ hand \in InHand /\ b \in Books
    /\ books' = IF Mine THEN [books EXCEPT ![hand.sym] = b] ELSE books
    /\ \/ hand' = Nothing
       \/ /\ hand' \in InHand /\ hand'.sym = hand.sym /\ hand'.gen = hand.gen
          /\ hand'.kind = hand.kind /\ hand'.u = hand.u
    /\ Mine => b.gen = hand.gen
    /\ b.valid => \/ Mine => books[hand.sym].valid
                  \/ hand' = Nothing /\ hand.kind = "snapshot"
    /\ UNCHANGED <<exchange, link, ws, wanted, connected, named, config, edits>>

LEMMA HandBooks ==
    ASSUME FeedTypes, NEW b, HandBook(b)
    PROVE  /\ DOMAIN books' = DOMAIN books /\ books' \in [DOMAIN books -> Books]
           /\ \A t \in DOMAIN books : books'[t] = IF Mine /\ t = hand.sym THEN b ELSE books[t]
           /\ \A t \in DOMAIN books : books'[t].gen = books[t].gen
           /\ \A t \in DOMAIN books : Held(t) <=> Mine /\ t = hand.sym
           /\ \A t \in DOMAIN books : Held(t)' <=> hand' # Nothing /\ Mine /\ t = hand.sym
           /\ hand # Nothing
<1>h. hand # Nothing /\ \A h \in InHand : h # Nothing
  BY HandTypes DEF HandBook
<1>1. CASE ~Mine
  <2>1. books' = books
    BY <1>1 DEF HandBook
  <2>2. \A t \in DOMAIN books : ~Held(t) /\ ~Held(t)'
    BY <1>1, <2>1 DEF HandBook, Held, Mine
  <2> QED BY <1>1, <1>h, <2>1, <2>2 DEF FeedTypes
<1>2. CASE Mine
  <2>1. books' = [books EXCEPT ![hand.sym] = b] /\ hand.sym \in DOMAIN books /\ b \in Books
        /\ b.gen = hand.gen /\ books[hand.sym].gen = hand.gen
    BY <1>2 DEF HandBook, Mine
  <2>2. books \in [DOMAIN books -> Books]
    BY DEF FeedTypes
  <2>3. DOMAIN books' = DOMAIN books /\ books' \in [DOMAIN books -> Books]
        /\ \A t \in DOMAIN books : books'[t] = IF t = hand.sym THEN b ELSE books[t]
    BY <2>1, <2>2
  <2>4. \A t \in DOMAIN books : Held(t) <=> t = hand.sym
    BY <1>2, <1>h DEF Held
  <2>5. \A t \in DOMAIN books : Held(t)' <=> hand' # Nothing /\ t = hand.sym
    BY <2>1, <2>3 DEF HandBook, Held, Mine
  <2> QED BY <1>2, <1>h, <2>1, <2>3, <2>4, <2>5
<1> QED BY <1>1, <1>2

LEMMA WriteKeepsRest ==
    ASSUME FeedInv, NEW b, HandBook(b)
    PROVE  /\ FeedTypes' /\ Connection' /\ Stream' /\ Snapshots' /\ Generations'
           /\ ws \in {"acking", "reading"} /\ connected
<1>t. FeedTypes /\ Connection
  BY DEF FeedInv
<1>1. /\ DOMAIN books' = DOMAIN books /\ books' \in [DOMAIN books -> Books]
      /\ \A t \in DOMAIN books : books'[t] = IF Mine /\ t = hand.sym THEN b ELSE books[t]
      /\ \A t \in DOMAIN books : books'[t].gen = books[t].gen
      /\ hand # Nothing
  BY <1>t, HandBooks
<1>u. UNCHANGED <<exchange, link, ws, wanted, connected, named, config, edits>>
  BY DEF HandBook
<1>w. ws \in {"acking", "reading"} /\ connected
  BY <1>1, <1>t DEF Connection
<1>h. /\ hand' = Nothing \/ hand' \in InHand
      /\ hand' # Nothing => /\ hand'.sym = hand.sym /\ hand'.gen = hand.gen
                            /\ hand'.kind = hand.kind /\ hand'.u = hand.u
  BY DEF HandBook
<1>2. FeedTypes'
  BY <1>t, <1>1, <1>u, <1>h DEF FeedTypes
<1>3. Connection'
  BY <1>t, <1>u, <1>w DEF Connection
<1>4. Stream'
  <2>1. \A t, k : Left(link.pipe, t, k)' = Left(link.pipe, t, k)
    BY <1>u DEF Left, Beyond
  <2> QED BY <1>1, <1>u, <1>h, <2>1 DEF FeedInv, Stream
<1>5. Snapshots'
  <2>1. ASSUME NEW t \in DOMAIN books, books'[t].valid, ~books[t].valid
        PROVE  hand' = Nothing /\ hand.kind = "snapshot" /\ t = hand.sym
    BY <1>1, <2>1 DEF HandBook
  <2> SUFFICES ASSUME NEW i \in DOMAIN link.pipe, link.pipe[i].kind = "snapshot"
               PROVE  /\ \A j \in DOMAIN link.pipe \ {i} :
                            link.pipe[j].kind = "snapshot" => link.pipe[j].sym # link.pipe[i].sym
                      /\ link.pipe[i].sym \in DOMAIN books => ~books'[link.pipe[i].sym].valid
                      /\ hand' # Nothing /\ hand'.kind = "snapshot" => hand'.sym # link.pipe[i].sym
    BY <1>1, <1>u DEF Snapshots
  <2>2. /\ \A j \in DOMAIN link.pipe \ {i} :
            link.pipe[j].kind = "snapshot" => link.pipe[j].sym # link.pipe[i].sym
        /\ link.pipe[i].sym \in DOMAIN books => ~books[link.pipe[i].sym].valid
        /\ hand.kind = "snapshot" => hand.sym # link.pipe[i].sym
    BY <1>1 DEF FeedInv, Snapshots
  <2> QED BY <1>h, <2>1, <2>2
<1>6. Generations'
  BY <1>1, <1>u, <1>h DEF FeedInv, Generations
<1> QED BY <1>2, <1>3, <1>4, <1>5, <1>6, <1>w

\* One side of the book is written; what is in hand stays in hand.
LEMMA WriteSide == ASSUME FeedInv, WriteBids \/ WriteAsks PROVE FeedInv'
<1>t. FeedTypes
  BY DEF FeedInv
<1> DEFINE s == hand.sym
           n == IF hand.at = "bids" THEN [books[s] EXCEPT !.bids = Applied(@)]
                ELSE [books[s] EXCEPT !.asks = Applied(@)]
<1>1. /\ hand.at \in {"bids", "asks"}
      /\ hand' = [hand EXCEPT !.at = IF hand.at = "bids" THEN "asks" ELSE "valid"]
      /\ books' = IF Mine THEN [books EXCEPT ![s] = n] ELSE books
      /\ UNCHANGED <<exchange, link, ws, wanted, connected, named, config, edits>>
  BY DEF WriteBids, WriteAsks, Write, session, operator, wsRest
<1>2. hand \in InHand
  BY <1>1, <1>t DEF FeedTypes, Nothing
<1>h. /\ hand' \in InHand /\ hand'.sym = s /\ hand'.gen = hand.gen
      /\ hand'.kind = hand.kind /\ hand'.u = hand.u
      /\ hand'.at = IF hand.at = "bids" THEN "asks" ELSE "valid"
      /\ hand' # Nothing
  <2>1. hand' \in InHand /\ hand'.sym = s /\ hand'.gen = hand.gen
        /\ hand'.kind = hand.kind /\ hand'.u = hand.u
        /\ hand'.at = IF hand.at = "bids" THEN "asks" ELSE "valid"
    BY <1>1, <1>2 DEF InHand
  <2> QED BY <1>t, <2>1, HandTypes
<1>3. CASE ~Mine
  <2>1. HandBook(Fresh(0))
    BY <1>1, <1>2, <1>3, <1>h, FreshBook DEF HandBook
  <2>2. FeedTypes' /\ Connection' /\ Stream' /\ Snapshots' /\ Generations'
    BY <2>1, WriteKeepsRest
  <2>3. books' = books /\ \A t \in DOMAIN books : ~Held(t) /\ ~Held(t)'
    BY <1>1, <1>3, <1>t, <2>1, HandBooks
  <2>4. \A t : Left(link.pipe, t, 0)' = Left(link.pipe, t, 0)
    BY <1>1 DEF Left, Beyond
  <2>5. Applying'
    BY <2>3 DEF Applying
  <2>6. Following'
    <3>1. \A t \in DOMAIN books : (IF Held(t)' THEN 1 ELSE 0) = (IF Held(t) THEN 1 ELSE 0)
      BY <2>3
    <3> QED BY <1>1, <2>3, <2>4, <3>1 DEF FeedInv, Following
  <2> QED BY <2>2, <2>5, <2>6 DEF FeedInv
<1>4. CASE Mine
  <2> DEFINE b == books[s]
  <2>1. s \in DOMAIN books /\ b \in Books /\ b.gen = hand.gen /\ b.last \in Nat /\ hand.u \in Nat
    BY <1>2, <1>4, <1>t, BookTypes, HandTypes DEF Mine, FeedTypes
  <2>2. /\ Applied(b.bids) \in Levels /\ Applied(b.asks) \in Levels
        /\ hand.kind = "snapshot" => Applied(b.bids) = hand.u /\ Applied(b.asks) = hand.u
        /\ b.bids + 1 = hand.u => Applied(b.bids) = hand.u
        /\ b.asks + 1 = hand.u => Applied(b.asks) = hand.u
    BY <1>2, <1>t, AppliedLevels
  <2>3. /\ n \in Books /\ n.gen = b.gen /\ n.valid = b.valid /\ n.last = b.last
        /\ n.bids = IF hand.at = "bids" THEN Applied(b.bids) ELSE b.bids
        /\ n.asks = IF hand.at = "bids" THEN b.asks ELSE Applied(b.asks)
    <3>1. CASE hand.at = "bids"
      <4>1. n = [b EXCEPT !.bids = Applied(b.bids)]
        BY <3>1
      <4>2. b \in Books /\ Applied(b.bids) \in Levels
        BY <2>1, <2>2
      <4> HIDE DEF n, b
      <4>3. /\ n \in Books /\ n.gen = b.gen /\ n.valid = b.valid /\ n.last = b.last
            /\ n.bids = Applied(b.bids) /\ n.asks = b.asks
        BY <4>1, <4>2 DEF Books
      <4> QED BY <3>1, <4>3
    <3>2. CASE hand.at = "asks"
      <4>1. n = [b EXCEPT !.asks = Applied(b.asks)]
        BY <3>2
      <4>2. b \in Books /\ Applied(b.asks) \in Levels
        BY <2>1, <2>2
      <4> HIDE DEF n, b
      <4>3. /\ n \in Books /\ n.gen = b.gen /\ n.valid = b.valid /\ n.last = b.last
            /\ n.bids = b.bids /\ n.asks = Applied(b.asks)
        BY <4>1, <4>2 DEF Books
      <4> QED BY <3>2, <4>3
    <3> QED BY <1>1, <3>1, <3>2
  <2> HIDE DEF n
  <2>4. HandBook(n)
    BY <1>1, <1>2, <1>4, <1>h, <2>1, <2>3 DEF HandBook
  <2>5. FeedTypes' /\ Connection' /\ Stream' /\ Snapshots' /\ Generations'
    BY <2>4, WriteKeepsRest
  <2>6. /\ DOMAIN books' = DOMAIN books
        /\ \A t \in DOMAIN books : books'[t] = IF t = s THEN n ELSE books[t]
        /\ \A t \in DOMAIN books : (Held(t) <=> t = s) /\ (Held(t)' <=> t = s)
    BY <1>4, <1>h, <1>t, <2>4, HandBooks
  <2>7. /\ hand.kind = "snapshot" => /\ ~b.valid
                                     /\ hand.at # "bids" => b.bids = hand.u
        /\ hand.kind = "delta" /\ b.valid =>
            /\ hand.u = b.last + 1
            /\ b.bids = IF hand.at = "bids" THEN b.last ELSE hand.u
            /\ b.asks = b.last
    BY <1>1, <2>1, <2>6 DEF FeedInv, Applying
  <2> HIDE DEF b, s
  <2>8. /\ hand.kind = "snapshot" => /\ ~n.valid
                                     /\ n.bids = hand.u
                                     /\ hand.at = "asks" => n.asks = hand.u
        /\ hand.kind = "delta" /\ n.valid =>
            /\ hand.u = n.last + 1
            /\ n.bids = hand.u
            /\ n.asks = IF hand.at = "bids" THEN n.last ELSE hand.u
    BY <1>1, <2>1, <2>2, <2>3, <2>7
  <2>9. Applying'
    <3>1. hand'.at # "bids" /\ (hand'.at = "valid" <=> hand.at = "asks")
      BY <1>1, <1>h
    <3> SUFFICES ASSUME NEW t \in DOMAIN books, t = s
                 PROVE  /\ hand'.kind = "snapshot" =>
                            /\ ~n.valid
                            /\ hand'.at # "bids" => n.bids = hand'.u
                            /\ hand'.at = "valid" => n.asks = hand'.u
                        /\ hand'.kind = "delta" /\ n.valid =>
                            /\ hand'.u = n.last + 1
                            /\ n.bids = IF hand'.at = "bids" THEN n.last ELSE hand'.u
                            /\ n.asks = IF hand'.at = "valid" THEN hand'.u ELSE n.last
      BY <2>6 DEF Applying
    <3> QED BY <1>1, <1>h, <2>8, <3>1
  <2>10. Following'
    <3>1. \A t : Left(link.pipe, t, 0)' = Left(link.pipe, t, 0)
      BY <1>1 DEF Left, Beyond
    <3>2. \A t \in DOMAIN books : books'[t].valid = books[t].valid /\ books'[t].last = books[t].last
      BY <2>3, <2>6 DEF b
    <3>3. \A t \in DOMAIN books : ~Held(t)' => books'[t] = books[t] /\ ~Held(t)
      BY <2>6
    <3>4. \A t \in DOMAIN books : (IF Held(t)' THEN 1 ELSE 0) = (IF Held(t) THEN 1 ELSE 0)
      BY <2>6
    <3> QED BY <1>1, <2>6, <3>1, <3>2, <3>3, <3>4 DEF FeedInv, Following
  <2> QED BY <2>5, <2>9, <2>10 DEF FeedInv
<1> QED BY <1>3, <1>4

\* The update's id is written, and a snapshot's book is valid: the frame is done with.
LEMMA WriteDone == ASSUME FeedInv, WriteValid PROVE FeedInv'
<1>t. FeedTypes
  BY DEF FeedInv
<1> DEFINE s == hand.sym
           n == IF hand.kind = "snapshot"
                THEN [books[s] EXCEPT !.last = hand.u, !.valid = TRUE, !.has = TRUE, !.cause = "none"]
                ELSE [books[s] EXCEPT !.last = hand.u]
<1>1. /\ hand.at = "valid" /\ hand' = Nothing
      /\ books' = IF Mine THEN [books EXCEPT ![s] = n] ELSE books
      /\ UNCHANGED <<exchange, link, ws, wanted, connected, named, config, edits>>
  BY DEF WriteValid, Write, session, operator, wsRest
<1>2. hand \in InHand
  BY <1>1, <1>t DEF FeedTypes, Nothing
<1>l. \A t : Left(link.pipe, t, 0)' = Left(link.pipe, t, 0)
  BY <1>1 DEF Left, Beyond
<1>n. \A t : ~Held(t)' /\ (IF Held(t)' THEN 1 ELSE 0) = 0
  BY <1>1 DEF Held
<1>9. Applying'
  BY <1>n DEF Applying
<1>3. CASE ~Mine
  <2>1. HandBook(Fresh(0))
    BY <1>1, <1>2, <1>3, FreshBook DEF HandBook
  <2>2. FeedTypes' /\ Connection' /\ Stream' /\ Snapshots' /\ Generations'
    BY <2>1, WriteKeepsRest
  <2>3. books' = books /\ \A t \in DOMAIN books : ~Held(t) /\ ~Held(t)'
    BY <1>1, <1>3, <1>t, <2>1, HandBooks
  <2>5. Following'
    BY <1>1, <1>l, <2>3 DEF FeedInv, Following
  <2> QED BY <1>9, <2>2, <2>5 DEF FeedInv
<1>4. CASE Mine
  <2> DEFINE b == books[s]
  <2>1. s \in DOMAIN books /\ b \in Books /\ b.gen = hand.gen /\ b.last \in Nat /\ hand.u \in Nat
        /\ hand.kind \in {"snapshot", "delta"} /\ b.valid \in BOOLEAN
    BY <1>2, <1>4, <1>t, BookTypes, HandTypes DEF Mine, FeedTypes
  <2>2. hand.u \in Levels
    BY <1>2, <1>t, AppliedLevels
  <2>3. /\ n \in Books /\ n.gen = b.gen /\ n.last = hand.u /\ n.bids = b.bids /\ n.asks = b.asks
        /\ n.valid <=> (hand.kind = "snapshot" \/ b.valid)
    <3>1. CASE hand.kind = "snapshot"
      <4>1. n = [b EXCEPT !.last = hand.u, !.valid = TRUE, !.has = TRUE, !.cause = "none"]
        BY <3>1
      <4> HIDE DEF n, b
      <4>2. /\ n \in Books /\ n.gen = b.gen /\ n.last = hand.u /\ n.bids = b.bids /\ n.asks = b.asks
            /\ n.valid = TRUE
        BY <2>1, <2>2, <4>1 DEF Books, Causes
      <4> QED BY <3>1, <4>2
    <3>2. CASE hand.kind = "delta"
      <4>1. n = [b EXCEPT !.last = hand.u]
        BY <3>2
      <4> HIDE DEF n, b
      <4>2. /\ n \in Books /\ n.gen = b.gen /\ n.last = hand.u /\ n.bids = b.bids /\ n.asks = b.asks
            /\ n.valid = b.valid
        BY <2>1, <2>2, <4>1 DEF Books
      <4> QED BY <3>2, <4>2
    <3> QED BY <2>1, <3>1, <3>2
  <2> HIDE DEF n
  <2>4. HandBook(n)
    BY <1>1, <1>2, <1>4, <2>1, <2>3 DEF HandBook
  <2>5. FeedTypes' /\ Connection' /\ Stream' /\ Snapshots' /\ Generations'
    BY <2>4, WriteKeepsRest
  <2>6. /\ DOMAIN books' = DOMAIN books
        /\ \A t \in DOMAIN books : books'[t] = IF t = s THEN n ELSE books[t]
        /\ \A t \in DOMAIN books : Held(t) <=> t = s
        /\ hand # Nothing
    BY <1>4, <1>t, <2>4, HandBooks
  <2>7. /\ hand.kind = "snapshot" => b.bids = hand.u /\ b.asks = hand.u
        /\ hand.kind = "delta" /\ b.valid => b.bids = hand.u /\ b.asks = hand.u
    BY <1>1, <2>1, <2>6 DEF FeedInv, Applying
  <2>8. link.state = "up" => s \in link.subs /\ exchange[s] = hand.u + Left(link.pipe, s, 0)
    BY <2>6 DEF FeedInv, Stream
  <2>9. Left(link.pipe, s, 0) \in Nat
    BY <1>t, LinkTypes
  <2> HIDE DEF b
  <2>10. n.valid => /\ n.bids = n.last /\ n.asks = n.last
                    /\ link.state = "up" => s \in link.subs /\ exchange[s] = n.last + Left(link.pipe, s, 0) + 0
    BY <2>1, <2>3, <2>7, <2>8, <2>9
  <2> HIDE DEF s
  <2>11. Following'
    <3> SUFFICES ASSUME NEW t \in DOMAIN books, books'[t].valid
                 PROVE  /\ books'[t].bids = books'[t].last /\ books'[t].asks = books'[t].last
                        /\ link.state = "up" =>
                            /\ t \in link.subs
                            /\ exchange[t] = books'[t].last + Left(link.pipe, t, 0) + 0
      BY <1>1, <1>l, <1>n, <2>6 DEF Following
    <3>1. CASE t = s
      BY <2>6, <2>10, <3>1
    <3>2. CASE t # s
      <4>1. books'[t] = books[t] /\ ~Held(t) /\ (IF Held(t) THEN 1 ELSE 0) = 0
        BY <2>6, <3>2
      <4> QED BY <4>1 DEF FeedInv, Following
    <3> QED BY <3>1, <3>2
  <2> QED BY <1>9, <2>5, <2>11 DEF FeedInv
<1> QED BY <1>3, <1>4

-----------------------------------------------------------------------------
(* The main loop and the operator.                                         *)

LEMMA SameBooks == ASSUME FeedTypes PROVE OnlyInvalid(books)
BY DEF FeedTypes, OnlyInvalid

\* A sample, a reconnect request and a new subscription list touch no book.
LEMMA LoopKeeps ==
    ASSUME FeedInv,
           Sampling \/ UpdateSymbols \/ RequestReconnect \/ ClockJump
    PROVE  FeedInv'
<1>t. FeedTypes
  BY DEF FeedInv
<1>1. CASE Sampling \/ RequestReconnect
  <2>1. UNCHANGED <<exchange, link, hand, named, edits, ws, connected, wanted, config, books>>
    BY <1>1 DEF Sampling, ReadBids, ReadAsks, ReadValid, RequestReconnect, mainRest, session
  <2> QED BY <1>t, <2>1, SameBooks, InvalidKeeps DEF FeedTypes
<1>2. CASE UpdateSymbols
  <2>1. wanted' = config /\ UNCHANGED <<exchange, link, hand, named, edits, ws, connected, config, books>>
    BY <1>2 DEF UpdateSymbols, mainRest
  <2> QED BY <1>t, <2>1, SameBooks, InvalidKeeps DEF FeedTypes
<1>3. CASE ClockJump
  <2>1. /\ books' = AllInvalid("clock")
        /\ UNCHANGED <<exchange, link, hand, named, edits, ws, connected, wanted, config>>
    BY <1>3 DEF ClockJump, mainRest, session
  <2>2. OnlyInvalid(books')
    BY <1>t, <2>1, AllInvalidated DEF Causes
  <2> QED BY <1>t, <2>1, <2>2, InvalidKeeps DEF FeedTypes
<1> QED BY <1>1, <1>2, <1>3

\* An edit makes every book there is, and the frame in hand, one of an earlier list.
LEMMA EditKeeps == ASSUME FeedInv, Edit PROVE FeedInv'
<1>t. FeedTypes
  BY DEF FeedInv
<1>1. /\ edits < MaxEdits /\ edits' = edits + 1 /\ named' \subseteq Symbols
      /\ UNCHANGED <<exchange, link, ws, hand, wanted, connected, books, config>>
  BY DEF Edit, session
<1>2. FeedTypes' /\ Connection'
  BY <1>1, <1>t DEF FeedInv, FeedTypes, Connection
<1>3. \A t, k : Left(link.pipe, t, k)' = Left(link.pipe, t, k)
  BY <1>1 DEF Left, Beyond
<1>4. Stream'
  BY <1>1, <1>3 DEF FeedInv, Stream
<1>5. Snapshots'
  BY <1>1 DEF FeedInv, Snapshots
<1>6. \A t : Held(t)' <=> Held(t)
  BY <1>1 DEF Held, Mine
<1>7. Applying'
  BY <1>1, <1>6 DEF FeedInv, Applying
<1>8. Following'
  BY <1>1, <1>3, <1>6 DEF FeedInv, Following
<1>9. Generations'
  <2>1. \A s \in DOMAIN books : books[s].gen \in Nat /\ books[s].gen <= edits
    BY <1>t, BookTypes DEF FeedInv, FeedTypes, Generations
  <2>2. hand # Nothing => hand.gen \in Nat /\ hand.gen <= edits
    BY <1>t, HandTypes DEF FeedInv, Generations
  <2>3. edits \in Nat
    BY <1>t DEF FeedTypes
  <2> QED BY <1>1, <2>1, <2>2, <2>3 DEF Generations
<1> QED BY <1>2, <1>4, <1>5, <1>7, <1>8, <1>9 DEF FeedInv

\* Books are removed that the file no longer names, and new ones made that it does.
LEMMA ChangedKeeps ==
    ASSUME FeedInv, NEW new, new \subseteq Symbols, books' = Changed(new),
           DOMAIN books \cap named \subseteq new, new \ DOMAIN books \subseteq named,
           config' \subseteq Symbols,
           UNCHANGED <<exchange, link, ws, hand, wanted, connected, named, edits>>
    PROVE  FeedInv'
<1>t. FeedTypes /\ Connection
  BY DEF FeedInv
<1>1. /\ DOMAIN books' = new
      /\ \A s \in new : books'[s] = IF s \in DOMAIN books THEN books[s] ELSE Fresh(edits)
  BY DEF Changed
<1>2. \A s \in new \ DOMAIN books : books'[s] \in Books /\ books'[s].gen = edits /\ ~books'[s].valid
  BY <1>t, <1>1, FreshBook DEF FeedTypes
<1>3. \A s \in new \cap DOMAIN books : books'[s] = books[s] /\ books'[s] \in Books
  BY <1>t, <1>1 DEF FeedTypes
<1>4. books' \in [new -> Books]
  <2>1. \A s \in new : books'[s] \in Books
    BY <1>2, <1>3
  <2>2. books' = [s \in new |-> books'[s]]
    BY DEF Changed
  <2> QED BY <2>1, <2>2
<1>5. \A s \in new : books'[s].valid => s \in DOMAIN books /\ books[s].valid /\ books'[s] = books[s]
  BY <1>2, <1>3
<1>6. \A s \in new \cap DOMAIN books : Held(s)' <=> Held(s)
  BY <1>1 DEF Held, Mine
<1>7. \A s \in new \ DOMAIN books : ~Held(s)'
  <2> SUFFICES ASSUME NEW s \in new \ DOMAIN books, hand # Nothing, hand.sym = s
               PROVE  books'[s].gen # hand.gen
    BY DEF Held, Mine
  <2>1. hand.gen < edits /\ hand.gen \in Nat /\ edits \in Nat
    BY <1>t, HandTypes DEF FeedInv, Generations, FeedTypes
  <2> QED BY <1>2, <2>1
<1>8. FeedTypes'
  BY <1>t, <1>1, <1>4 DEF FeedTypes
<1>9. Connection'
  BY <1>t, <1>1, <1>5 DEF Connection
<1>10. \A t, k : Left(link.pipe, t, k)' = Left(link.pipe, t, k)
  BY DEF Left, Beyond
<1>11. Stream'
  BY <1>10 DEF FeedInv, Stream
<1>12. Snapshots'
  BY <1>1, <1>5 DEF FeedInv, Snapshots
<1>13. Generations'
  <2>1. \A s \in new : books'[s].gen <= edits
    <3>1. edits <= edits
      BY <1>t DEF FeedTypes
    <3> QED BY <1>2, <1>3, <3>1 DEF FeedInv, Generations
  <2>2. named \ new \subseteq named \ DOMAIN books
    OBVIOUS
  <2> QED BY <1>1, <2>1, <2>2 DEF FeedInv, Generations
<1>14. Applying'
  <2> SUFFICES ASSUME NEW s \in new, Held(s)'
               PROVE  s \in DOMAIN books /\ Held(s) /\ books'[s] = books[s]
    BY <1>1 DEF FeedInv, Applying
  <2> QED BY <1>3, <1>6, <1>7
<1>15. Following'
  <2>1. \A s \in new : books'[s].valid =>
            /\ s \in DOMAIN books /\ books[s].valid /\ books'[s] = books[s]
            /\ Held(s)' <=> Held(s)
            /\ (IF Held(s)' THEN 1 ELSE 0) = (IF Held(s) THEN 1 ELSE 0)
    BY <1>5, <1>6
  <2> QED BY <1>1, <1>10, <2>1 DEF FeedInv, Following
<1> QED BY <1>8, <1>9, <1>11, <1>12, <1>13, <1>14, <1>15 DEF FeedInv

LEMMA ReloadKeeps == ASSUME FeedInv, Reload \/ ReloadFails PROVE FeedInv'
<1>t. FeedTypes
  BY DEF FeedInv
<1>1. CASE Reload
  <2>1. /\ config' = named /\ books' = Changed(named)
        /\ UNCHANGED <<exchange, link, ws, hand, wanted, connected, named, edits>>
    BY <1>1 DEF Reload, mainRest, session
  <2> QED BY <1>t, <2>1, ChangedKeeps DEF FeedTypes
<1>2. CASE ReloadFails
  <2>1. PICK removed \in SUBSET (DOMAIN books \ named), added \in SUBSET (named \ DOMAIN books) :
            books' = Changed((DOMAIN books \ removed) \cup added)
    BY <1>2 DEF ReloadFails
  <2>2. UNCHANGED <<exchange, link, ws, hand, wanted, connected, named, edits, config>>
    BY <1>2 DEF ReloadFails, mainRest, session
  <2> DEFINE new == (DOMAIN books \ removed) \cup added
  <2>3. /\ new \subseteq Symbols /\ DOMAIN books \cap named \subseteq new /\ new \ DOMAIN books \subseteq named
        /\ books' = Changed(new) /\ config' \subseteq Symbols
    BY <1>t, <2>1, <2>2 DEF FeedTypes
  <2> HIDE DEF new
  <2> QED BY <2>2, <2>3, ChangedKeeps
<1> QED BY <1>1, <1>2

-----------------------------------------------------------------------------
LEMMA FeedStep == ASSUME Decodable, FeedInv, [FeedNext]_feedVars PROVE FeedInv'
<1>1. CASE WsStep
  BY <1>1, SessionKeeps, SubscribeKeeps, StartKeeps, WriteSide, WriteDone DEF WsStep
<1>2. CASE Sampling \/ Reloading
  BY <1>2, LoopKeeps, ReloadKeeps DEF Reloading
<1>3. CASE \E s \in Symbols : Update(s)
  BY <1>3, UpdateKeeps
<1>4. CASE Break \/ ClockJump \/ Edit \/ ReloadFails
  BY <1>4, SessionKeeps, LoopKeeps, EditKeeps, ReloadKeeps
<1>5. CASE UNCHANGED feedVars
  <2>1. UNCHANGED <<exchange, link, hand, named, edits, ws, connected, wanted, config, books>>
    BY <1>5 DEF feedVars
  <2> QED BY <2>1, SameBooks, InvalidKeeps DEF FeedInv, FeedTypes
<1> QED BY <1>1, <1>2, <1>3, <1>4, <1>5 DEF FeedNext

THEOREM FeedInvariant == ASSUME Decodable PROVE FeedSpec => []FeedInv
<1>1. FeedInv /\ [FeedNext]_feedVars => FeedInv'
  BY FeedStep
<1> QED BY <1>1, FeedInitInv, PTL DEF FeedSpec

\* Every valid book follows the exchange's stream, whatever connections, symbol lists and
\* frames come in between (core.py apply_delta, runtime.py set_connected, update_config), if
\* the frames decode.
THEOREM FollowsTheStream == ASSUME Decodable PROVE FeedSpec => []ValidFollowsTheStream
<1>1. ASSUME FeedInv PROVE ValidFollowsTheStream
  <2>t. FeedTypes /\ Connection
    BY <1>1 DEF FeedInv
  <2> SUFFICES ASSUME NEW s \in DOMAIN books, books[s].valid
               PROVE  /\ connected
                      /\ ~Held(s) => books[s].bids = books[s].last /\ books[s].asks = books[s].last
                      /\ link.state = "up" => exchange[s] = books[s].last + Pending(s)
    BY DEF ValidFollowsTheStream
  <2>1. connected
    BY <2>t DEF Connection
  <2>2. /\ ~Held(s) => books[s].bids = books[s].last /\ books[s].asks = books[s].last
        /\ link.state = "up" =>
            exchange[s] = books[s].last + Left(link.pipe, s, 0) + (IF Held(s) THEN 1 ELSE 0)
    BY <1>1 DEF FeedInv, Following
  <2>3. {i \in DOMAIN link.pipe : link.pipe[i].sym = s} = Beyond(link.pipe, s, 0)
    <3>1. \A i \in DOMAIN link.pipe : i > 0
      BY <2>t, LinkTypes
    <3> QED BY <3>1 DEF Beyond
  <2>4. Pending(s) = Left(link.pipe, s, 0) + (IF Held(s) THEN 1 ELSE 0)
    BY <2>3 DEF Pending, Left
  <2>5. /\ books[s].last \in Nat /\ Left(link.pipe, s, 0) \in Nat
        /\ (IF Held(s) THEN 1 ELSE 0) \in Nat
    BY <2>t, LinkTypes, BookTypes DEF FeedTypes
  <2> QED BY <2>1, <2>2, <2>4, <2>5
<1> QED BY <1>1, FeedInvariant, PTL
=============================================================================
