----------------------------- MODULE JobJournal -----------------------------
(***************************************************************************)
(* The journal file of src/src/mrs3/panel_jobs.py: PanelJobRegistry._save, *)
(* _load and _recover_in_place_backup, step by step on the two files.      *)
(*                                                                         *)
(* A save replaces the journal atomically.  When Windows denies that ten   *)
(* times it publishes a sidecar with the previous and the intended bytes   *)
(* and overwrites the journal in place.  Every save and every start first  *)
(* reconciles the journal with a sidecar it finds.  The journal's content  *)
(* is the set of the jobs in it; each save is that of submit, which adds a *)
(* new job and takes it back from memory when the save raises.             *)
(***************************************************************************)
EXTENDS Naturals

CONSTANTS
    Jobs,
    None, Absent, Torn,     \* no sidecar; a journal not yet written, or written in part
    RemovalFails,       \* whether deleting the sidecar may be denied
    ReadFails,          \* whether reading the journal at a start may fail
    MaxFaults           \* bound: kills, failed reads, writes and deletions

Contents == SUBSET Jobs

ASSUME JournalAssumption ==
    /\ \A c \in Contents : c \notin {None, Absent, Torn}
    /\ Absent # Torn
    /\ \A s \in [previous : Contents, intended : Contents] : s # None
    /\ RemovalFails \in BOOLEAN /\ ReadFails \in BOOLEAN /\ MaxFaults \in Nat

VARIABLES
    journal, sidecar,   \* the two files
    mem,        \* the jobs in memory
    job, used,  \* the job being submitted, and all that were
    pc,         \* the point of the process
    acked,      \* the jobs of the last save that returned
    faults

files == <<journal, sidecar>>
vars == <<journal, sidecar, mem, job, used, pc, acked, faults>>

Init ==
    /\ journal = Absent /\ sidecar = None
    /\ mem = {} /\ job = None /\ used = {}
    /\ pc = "down" /\ acked = {} /\ faults = 0

Fault == faults < MaxFaults /\ faults' = faults + 1
Goto(p) == pc' = p
Intended == mem \cup {job}

-----------------------------------------------------------------------------
(* _recover_in_place_backup: called at a start, before a save, again       *)
(* before the overwrite, and when the overwrite failed.                    *)

Checks == {"load", "before", "again", "undo"}

\* Where its caller goes on, and where it goes when it raises.
Checked == CASE pc = "load" -> "read" [] pc = "before" -> "replace"
             [] pc = "again" -> "publish" [] pc = "undo" -> "up"
Refused == CASE pc = "load" -> "down" [] pc = "before" -> "up"
             [] pc = "again" -> "undo" [] pc = "undo" -> "up"

\* Mutant: the journal is compared with the previous bytes only.
PreviousMatches == journal = sidecar.previous

Matches == journal \in {sidecar.previous, sidecar.intended}

NothingToRecover ==
    /\ pc \in Checks /\ sidecar = None
    /\ Goto(Checked)
    /\ UNCHANGED <<files, mem, job, used, acked, faults>>

\* A failed deletion is ignored: the sidecar stays.
RemoveSidecar ==
    \/ sidecar' = None /\ UNCHANGED faults
    \/ RemovalFails /\ Fault /\ UNCHANGED sidecar

Reconcile ==
    /\ pc \in Checks /\ sidecar # None /\ Matches
    /\ RemoveSidecar /\ Goto(Checked)
    /\ UNCHANGED <<journal, mem, job, used, acked>>

\* Mutant: a journal that is neither of the two is refused.
RefuseTorn ==
    /\ pc \in Checks /\ sidecar # None /\ ~Matches
    /\ Goto(Refused)
    /\ UNCHANGED <<files, mem, job, used, acked, faults>>

\* The previous bytes are written over the journal, in place again, and read back; then
\* they match and the sidecar is removed.
RestorePrevious ==
    /\ pc \in Checks /\ sidecar # None /\ ~Matches
    /\ journal' \in {Torn, sidecar.previous}
    /\ UNCHANGED <<sidecar, mem, job, used, pc, acked, faults>>

\* Reading or writing one of the files fails; _save ignores that when it undoes.
RecoverFails ==
    /\ pc \in Checks /\ sidecar # None
    /\ Fault /\ Goto(Refused)
    /\ UNCHANGED <<files, mem, job, used, acked>>

-----------------------------------------------------------------------------
(* _load                                                                   *)

Start ==
    /\ pc = "down" /\ Goto("load")
    /\ UNCHANGED <<files, mem, job, used, acked, faults>>

\* An absent, unreadable or incomplete journal is loaded as no jobs.
Load ==
    /\ pc = "read"
    /\ \/ mem' = (IF journal \in {Absent, Torn} THEN {} ELSE journal) /\ UNCHANGED faults
       \/ ReadFails /\ Fault /\ mem' = {}
    /\ Goto("up")
    /\ UNCHANGED <<files, job, used, acked>>

-----------------------------------------------------------------------------
(* _save                                                                   *)

Submit ==
    /\ pc = "up"
    /\ job' \in Jobs \ used /\ used' = used \cup {job'}
    /\ Goto("before")
    /\ UNCHANGED <<files, mem, acked, faults>>

Return ==
    /\ acked' = Intended /\ mem' = Intended /\ Goto("up")

\* os.replace of the synced temporary file, after up to nine denials.
Replace ==
    /\ pc = "replace"
    /\ journal' = Intended /\ Goto("sync")
    /\ UNCHANGED <<sidecar, mem, job, used, acked, faults>>

\* The temporary file cannot be written, or the replacement is denied for good.
ReplaceFails ==
    /\ pc = "replace" /\ Fault /\ Goto("up")
    /\ UNCHANGED <<files, mem, job, used, acked>>

\* Ten transient denials: only an existing journal is overwritten.
Denied ==
    /\ pc = "replace"
    /\ Goto(IF journal = Absent THEN "up" ELSE "again")
    /\ UNCHANGED <<files, mem, job, used, acked, faults>>

\* The directory is synced; a failure raises although the journal was replaced.
Sync ==
    /\ pc = "sync"
    /\ \/ Return /\ UNCHANGED faults
       \/ Fault /\ Goto("up") /\ UNCHANGED <<acked, mem>>
    /\ UNCHANGED <<files, job, used>>

\* The journal is read, and the sidecar renamed into place: not over another one (Windows).
Publish ==
    /\ pc = "publish"
    /\ \/ /\ sidecar = None /\ journal # Torn
          /\ sidecar' = [previous |-> journal, intended |-> Intended]
          /\ Goto("overwrite") /\ UNCHANGED faults
       \/ /\ sidecar # None \/ journal = Torn
          /\ Goto("undo") /\ UNCHANGED <<sidecar, faults>>
       \/ Fault /\ Goto("undo") /\ UNCHANGED sidecar
    /\ UNCHANGED <<journal, mem, job, used, acked>>

\* The journal is overwritten in place, not atomically.
Overwrite ==
    /\ pc = "overwrite"
    /\ \/ journal' = Torn /\ UNCHANGED <<pc, faults>>
       \/ journal' = Intended /\ Goto("verify") /\ UNCHANGED faults
       \/ Fault /\ Goto("undo") /\ UNCHANGED journal
    /\ UNCHANGED <<sidecar, mem, job, used, acked>>

\* The bytes are read back; then the sidecar goes, and the save has succeeded.
Verify ==
    /\ pc = "verify"
    /\ \/ RemoveSidecar /\ Return
       \/ Fault /\ Goto("undo") /\ UNCHANGED <<sidecar, acked, mem>>
    /\ UNCHANGED <<journal, job, used>>

-----------------------------------------------------------------------------
\* The process is killed: the files stay as they are.
Kill ==
    /\ pc # "down" /\ Fault
    /\ Goto("down") /\ mem' = {}
    /\ UNCHANGED <<files, job, used, acked>>

Step ==
    \/ NothingToRecover \/ Reconcile \/ RestorePrevious \/ RecoverFails
    \/ Start \/ Load
    \/ Replace \/ ReplaceFails \/ Denied \/ Sync \/ Publish \/ Overwrite \/ Verify

Next == Step \/ Submit \/ Kill

Spec == Init /\ [][Next]_vars

\* A call that is not killed goes on; a write in place gets to its end; a Panel that ended
\* is started again.
Fairness ==
    /\ WF_vars(Step)
    /\ SF_vars(Overwrite /\ journal' = Intended)
    /\ SF_vars(RestorePrevious /\ journal' # Torn)

FairSpec == Spec /\ Fairness

-----------------------------------------------------------------------------
Saving == pc \notin {"down", "load", "read", "up"}

\* What a start would find: the journal, or what the sidecar restores.
Found ==
    IF sidecar = None THEN (IF journal = Absent THEN {} ELSE journal)
    ELSE IF Matches THEN journal ELSE sidecar.previous

TypeOK ==
    /\ journal \in {Absent, Torn} \cup Contents
    /\ sidecar \in {None} \cup [previous : Contents, intended : Contents]
    /\ mem \in Contents /\ job \in {None} \cup Jobs /\ used \in Contents
    /\ pc \in Checks \cup {"down", "read", "up", "replace", "sync", "publish", "overwrite",
                           "verify"}
    /\ acked \in Contents
    /\ faults \in Nat

Cell == INSTANCE DurableCell
    WITH value <- Found, saving <- IF Saving THEN Intended ELSE None

\* The journal is a durable cell: whatever is killed, denied or fails, a start finds all
\* jobs of the last save that returned, and of one that did not, all or nothing.
ImplementsCell == Cell!Spec

\* No submitted job that was acknowledged is missing from what a start would find.
Kept == acked \subseteq Found

\* A Panel that ended can be started again: recovery does not fail for ever.
ComesUp == pc = "down" ~> pc = "up"
=============================================================================
