----------------------------- MODULE DurableCell ----------------------------
(***************************************************************************)
(* What the journal of the Panel's jobs promises, without files: a restart *)
(* finds every job of the last save that returned; of a save that raised,  *)
(* or whose process died, it finds all or nothing.                         *)
(***************************************************************************)
CONSTANTS Jobs, None

VARIABLES
    value,      \* the jobs a restart would find
    saving,     \* the jobs of the save in progress, or None
    acked       \* the jobs of the last save that returned

Init == value = {} /\ saving = None /\ acked = {}

Begin ==
    /\ saving = None
    /\ saving' # None /\ saving' \in SUBSET Jobs /\ acked \subseteq saving'
    /\ UNCHANGED <<value, acked>>

Land ==
    /\ saving # None /\ value' = saving
    /\ UNCHANGED <<saving, acked>>

Return ==
    /\ saving # None /\ value = saving
    /\ acked' = saving /\ saving' = None
    /\ UNCHANGED value

\* The save raises, or its process dies: it may have landed or not.
Abandon ==
    /\ saving # None /\ saving' = None
    /\ UNCHANGED <<value, acked>>

Next == Begin \/ Land \/ Return \/ Abandon

Spec == Init /\ [][Next]_<<value, saving, acked>>

\* Nothing that was acknowledged is ever lost.
Durable == acked \subseteq value
=============================================================================
