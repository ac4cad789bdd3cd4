---------------------------- MODULE TargetLease ----------------------------
(***************************************************************************)
(* What a tester target lease promises, without files, gates or pids: a    *)
(* caller obtains a lease only when every lease still held was voided by   *)
(* an operator's attestation; it gives its own lease back, or dies.        *)
(***************************************************************************)
CONSTANTS Callers, Lease, NoLease

VARIABLES held, voided

Init ==
    /\ held = [c \in Callers |-> NoLease]
    /\ voided = {}

Grant(c) ==
    /\ held[c] = NoLease
    /\ \A d \in Callers : held[d] # NoLease => held[d] \in voided
    /\ held'[c] \in Lease
    /\ held' = [held EXCEPT ![c] = held'[c]]
    /\ UNCHANGED voided

\* Callers give their lease back, or lose it when their process ends.
End(D) ==
    /\ held' = [c \in Callers |-> IF c \in D THEN NoLease ELSE held[c]]
    /\ UNCHANGED voided

Void ==
    /\ voided \subseteq voided'
    /\ voided' \subseteq Lease
    /\ UNCHANGED held

Next ==
    \/ \E c \in Callers : Grant(c)
    \/ \E D \in SUBSET Callers : End(D)
    \/ Void

Spec == Init /\ [][Next]_<<held, voided>>
=============================================================================
