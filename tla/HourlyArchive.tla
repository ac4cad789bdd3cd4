---------------------------- MODULE HourlyArchive ----------------------------
(***************************************************************************)
(* What the reader index of the Bybit collector promises (the "Publication"*)
(* part of src/docs/specs/2026-09-05-bybit-market-data-collector.md): the  *)
(* minutes recorded, the file of an hour, which is the whole hour as it    *)
(* was recorded at one moment and never changes, and the hours announced   *)
(* to readers.  Somebody outside may remove a file; only then is an hour   *)
(* withdrawn and published again.                                          *)
(***************************************************************************)
CONSTANTS
    Minutes,        \* the minutes that may be recorded
    Hours,          \* the hours they belong to
    MinutesOf(_)    \* the minutes of an hour

VARIABLES
    recorded,   \* the minutes recorded
    sealed,     \* the file of each hour: NoFile, or whether it exists and its minutes
    announced   \* the hours in the reader index

archive == <<recorded, sealed, announced>>

NoFile == [exists |-> FALSE, minutes |-> {}]
File(minutes) == [exists |-> TRUE, minutes |-> minutes]

Init == recorded = {} /\ sealed = [h \in Hours |-> NoFile] /\ announced = {}

\* Minutes are recorded for good.
Record == \E new \in SUBSET Minutes :
    recorded' = recorded \cup new /\ UNCHANGED <<sealed, announced>>

\* The file of an hour appears, with all that is recorded of it.
Seal(h) ==
    /\ ~sealed[h].exists /\ h \notin announced
    /\ sealed' = [sealed EXCEPT ![h] = File(recorded \cap MinutesOf(h))]
    /\ UNCHANGED <<recorded, announced>>

\* An hour is announced once its file is there, and withdrawn once it is gone.
Announce(h) == sealed[h].exists /\ announced' = announced \cup {h} /\ UNCHANGED <<recorded, sealed>>
Withdraw(h) == ~sealed[h].exists /\ announced' = announced \ {h} /\ UNCHANGED <<recorded, sealed>>

\* Somebody removes a file.
Remove(h) == sealed' = [sealed EXCEPT ![h] = NoFile] /\ UNCHANGED <<recorded, announced>>

Next == Record \/ \E h \in Hours : Seal(h) \/ Announce(h) \/ Withdraw(h) \/ Remove(h)

Spec == Init /\ [][Next]_archive
=============================================================================
