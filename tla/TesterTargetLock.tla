------------------------- MODULE TesterTargetLock -------------------------
(***************************************************************************)
(* The target-wide lease of src/src/mrs3/locking.py: one owner file per    *)
(* tester directory, published by a hard link and guarded by an advisory   *)
(* gate lock.  Every caller that drives the tester (a runner, the job      *)
(* executor, a panel operation, the portfolio runner) goes through it.     *)
(*                                                                         *)
(* A caller is one TesterTargetLock object, living in one OS process.      *)
(* Processes start, crash, and reuse the pids of dead ones; a machine may  *)
(* reboot.  Every file-system step of acquire, release and manual clear    *)
(* is an action of its own, so they interleave.                            *)
(***************************************************************************)
EXTENDS Naturals, FiniteSets

CONSTANTS
    Callers,        \* the lock objects
    Procs,          \* the processes they live in
    Machines,       \* host and machine identity
    Namespaces,     \* pid namespaces
    Pids,           \* pids of a namespace
    Targets,        \* canonical tester targets
    ProcOf,         \* the process of each caller
    MachineOf,      \* the machine of each process
    NamespaceOf,    \* the pid namespace of each process
    TargetOf,       \* the target each caller names for the lock file
    RebootOptIn,    \* callers built with reclaim_dead_after_reboot
    UnknownNamespace,
    NoCaller, NoLease,
    MaxAttempts,    \* bound: acquisitions of one caller
    MaxStarts,      \* bound: process starts
    MaxBoots        \* bound: boots of one machine

ASSUME ConstantsAssumption ==
    /\ ProcOf \in [Callers -> Procs]
    /\ MachineOf \in [Procs -> Machines]
    /\ NamespaceOf \in [Procs -> Namespaces]
    /\ TargetOf \in [Callers -> Targets]
    /\ RebootOptIn \subseteq Callers
    /\ NoCaller \notin Callers
    /\ Pids # {}
    /\ MaxAttempts \in Nat /\ MaxStarts \in Nat /\ MaxBoots \in Nat

(***************************************************************************)
(* OwnerEvidence.  "by" and "n" stand for the random acquisition token;    *)
(* "boot" carries a drift, since the boot identity is a truncated uptime   *)
(* that two processes of one boot may compute differently.                 *)
(***************************************************************************)
Lease == [by : Callers, n : Nat, pid : Pids, start : Nat, machine : Machines,
          ns : Namespaces, boot : Nat \X {0, 1}, target : Targets]

ASSUME NoLeaseAssumption == NoLease \notin Lease

VARIABLES
    proc,       \* process table: [alive, pid, start]
    starts,     \* start identities given so far
    boot,       \* boot number of each machine
    file,       \* the lock file's content, or NoLease
    gate,       \* the caller holding the gate, or NoCaller
    audit,      \* published attestations: [lease, by]
    pc,         \* where each caller is in acquire / release / manual clear
    attempts,   \* acquisitions each caller has staged
    mine,       \* the evidence staged by acquire (its local "owner")
    owner,      \* self.owner
    raw         \* the lease read from the file by a reclaim or a clear

worldVars  == <<proc, starts, boot>>
diskVars   == <<file, gate, audit>>
vars == <<proc, starts, boot, file, gate, audit, pc, attempts, mine, owner, raw>>

\* Program points reached while holding the gate.
Gated == {"gated", "found", "reclaim", "reclaimUnlink", "relink", "linked",
          "releasing", "releaseUnlink", "attest", "clear", "clearUnlink"}
Points == Gated \cup {"idle", "staged", "clearing"}

Alive(c) == proc[ProcOf[c]].alive
Machine(c) == MachineOf[ProcOf[c]]
Namespace(c) == NamespaceOf[ProcOf[c]]
Holds(c) == owner[c] # NoLease
Attested == {a.lease : a \in audit}

NotRunning == [alive |-> FALSE, pid |-> CHOOSE i \in Pids : TRUE, start |-> 0]

Init ==
    /\ proc = [p \in Procs |-> NotRunning]
    /\ starts = 0
    /\ boot = [m \in Machines |-> 1]
    /\ file = NoLease
    /\ gate = NoCaller
    /\ audit = {}
    /\ pc = [c \in Callers |-> "idle"]
    /\ attempts = [c \in Callers |-> 0]
    /\ mine = [c \in Callers |-> NoLease]
    /\ owner = [c \in Callers |-> NoLease]
    /\ raw = [c \in Callers |-> NoLease]

-----------------------------------------------------------------------------
(* The world: processes and machines.                                      *)

\* A process gets a pid no live process of its namespace has.
StartProc(p) ==
    /\ ~proc[p].alive
    /\ starts < MaxStarts
    /\ starts' = starts + 1
    /\ \E pid \in Pids :
        /\ \A q \in Procs :
            proc[q].alive /\ MachineOf[q] = MachineOf[p] /\ NamespaceOf[q] = NamespaceOf[p]
                => proc[q].pid # pid
        /\ proc' = [proc EXCEPT ![p] = [alive |-> TRUE, pid |-> pid, start |-> starts']]
    /\ UNCHANGED <<boot, file, gate, audit, pc, attempts, mine, owner, raw>>

\* The processes of D end: their memory is gone, the kernel drops their gate.
Kill(D) ==
    /\ proc' = [p \in Procs |-> IF p \in D THEN NotRunning ELSE proc[p]]
    /\ gate' = IF gate # NoCaller /\ ProcOf[gate] \in D THEN NoCaller ELSE gate
    /\ pc' = [c \in Callers |-> IF ProcOf[c] \in D THEN "idle" ELSE pc[c]]
    /\ mine' = [c \in Callers |-> IF ProcOf[c] \in D THEN NoLease ELSE mine[c]]
    /\ owner' = [c \in Callers |-> IF ProcOf[c] \in D THEN NoLease ELSE owner[c]]
    /\ raw' = [c \in Callers |-> IF ProcOf[c] \in D THEN NoLease ELSE raw[c]]
    /\ UNCHANGED <<starts, file, audit, attempts>>

Crash(p) ==
    /\ proc[p].alive
    /\ Kill({p})
    /\ UNCHANGED boot

Reboot(m) ==
    /\ boot[m] < MaxBoots
    /\ boot' = [boot EXCEPT ![m] = @ + 1]
    /\ Kill({p \in Procs : MachineOf[p] = m})

-----------------------------------------------------------------------------
(* What a caller concludes about a recorded owner.                         *)

\* psutil looks the pid up in the caller's own namespace of its own machine.
SameProcessLive(c, lease) ==
    \E p \in Procs :
        /\ proc[p].alive
        /\ MachineOf[p] = Machine(c)
        /\ NamespaceOf[p] = Namespace(c)
        /\ proc[p].pid = lease.pid
        /\ proc[p].start = lease.start

\* Mutant: the owner's process is not probed.
ReclaimableUnprobed(c, lease) ==
    lease.target = TargetOf[c] /\ lease.machine = Machine(c) /\ lease.ns = Namespace(c)

\* _assert_reclaimable with the boot identity the caller computed for itself.
Reclaimable(c, lease) ==
    /\ lease.target = TargetOf[c]
    /\ lease.ns # UnknownNamespace
    /\ lease.machine = Machine(c)
    /\ lease.ns = Namespace(c)
    /\ lease.boot = mine[c].boot \/ c \in RebootOptIn
    /\ ~SameProcessLive(c, lease)

-----------------------------------------------------------------------------
(* acquire                                                                 *)

\* The owner evidence is built and staged in a temporary file.
Stage(c) ==
    /\ Alive(c)
    /\ pc[c] = "idle" /\ ~Holds(c)
    /\ attempts[c] < MaxAttempts
    /\ attempts' = [attempts EXCEPT ![c] = @ + 1]
    /\ \E drift \in {0, 1} :
        mine' = [mine EXCEPT ![c] =
            [by |-> c, n |-> attempts[c], pid |-> proc[ProcOf[c]].pid,
             start |-> proc[ProcOf[c]].start, machine |-> Machine(c), ns |-> Namespace(c),
             boot |-> <<boot[Machine(c)], drift>>, target |-> TargetOf[c]]]
    /\ pc' = [pc EXCEPT ![c] = "staged"]
    /\ UNCHANGED <<worldVars, diskVars, owner, raw>>

\* A call returns or raises: its local evidence is gone.
Return(c) ==
    /\ pc' = [pc EXCEPT ![c] = "idle"]
    /\ mine' = [mine EXCEPT ![c] = NoLease]
    /\ raw' = [raw EXCEPT ![c] = NoLease]

\* The gate is taken without waiting; a busy gate ends the call.
TryGate(c, from, to) ==
    /\ Alive(c)
    /\ pc[c] = from
    /\ IF gate = NoCaller
         THEN gate' = c /\ pc' = [pc EXCEPT ![c] = to]
              /\ UNCHANGED <<mine, raw>>
         ELSE Return(c) /\ UNCHANGED gate
    /\ UNCHANGED <<worldVars, file, audit, attempts, owner>>

\* The call returns and closes the gate it held.
Leave(c) == Return(c) /\ gate' = NoCaller

\* Mutant: the gate is not exclusive.
EnterOpenGate(c) ==
    /\ Alive(c)
    /\ pc[c] = "staged"
    /\ gate' = c
    /\ pc' = [pc EXCEPT ![c] = "gated"]
    /\ UNCHANGED <<worldVars, file, audit, attempts, mine, owner, raw>>

EnterGate(c) == TryGate(c, "staged", "gated")

\* os.link(temporary, path): exclusive creation of the complete evidence.
Link(c) ==
    /\ Alive(c)
    /\ pc[c] = "gated"
    /\ IF file = NoLease
         THEN file' = mine[c] /\ pc' = [pc EXCEPT ![c] = "linked"]
         ELSE file' = file /\ pc' = [pc EXCEPT ![c] = "found"]
    /\ UNCHANGED <<worldVars, gate, audit, attempts, mine, owner, raw>>

\* The recorded owner is read and proved dead.
JudgeDead(c) ==
    /\ Alive(c)
    /\ pc[c] = "found"
    /\ file # NoLease
    /\ Reclaimable(c, file)
    /\ raw' = [raw EXCEPT ![c] = file]
    /\ pc' = [pc EXCEPT ![c] = "reclaim"]
    /\ UNCHANGED <<worldVars, diskVars, attempts, mine, owner>>

\* Or it is not: live, foreign, mismatched, or a probe that failed.
JudgeRefuse(c) ==
    /\ Alive(c)
    /\ pc[c] = "found"
    /\ Leave(c)
    /\ UNCHANGED <<worldVars, file, audit, attempts, owner>>

\* Mutant: the file is unlinked without comparing its content.
CompareNothing(c, from, expected, to) ==
    /\ Alive(c)
    /\ pc[c] = from
    /\ pc' = [pc EXCEPT ![c] = to]
    /\ UNCHANGED <<worldVars, diskVars, attempts, mine, owner, raw>>

\* _remove_lock_if_unchanged, under the gate already held: the content is compared
\* through a second link, and unlinked in a later step.
Compare(c, from, expected, to) ==
    /\ Alive(c)
    /\ pc[c] = from
    /\ IF file = expected
         THEN pc' = [pc EXCEPT ![c] = to] /\ UNCHANGED <<gate, mine, raw>>
         ELSE Leave(c)
    /\ UNCHANGED <<worldVars, file, audit, attempts, owner>>

ReclaimCompare(c) == Compare(c, "reclaim", raw[c], "reclaimUnlink")

ReclaimUnlink(c) ==
    /\ Alive(c)
    /\ pc[c] = "reclaimUnlink"
    /\ file' = NoLease
    /\ IF file # NoLease
         THEN pc' = [pc EXCEPT ![c] = "relink"] /\ UNCHANGED <<gate, mine, raw>>
         ELSE Leave(c)
    /\ UNCHANGED <<worldVars, audit, attempts, owner>>

Relink(c) ==
    /\ Alive(c)
    /\ pc[c] = "relink"
    /\ IF file = NoLease
         THEN file' = mine[c] /\ pc' = [pc EXCEPT ![c] = "linked"] /\ UNCHANGED <<gate, mine, raw>>
         ELSE file' = file /\ Leave(c)
    /\ UNCHANGED <<worldVars, audit, attempts, owner>>

\* The gate is closed and self.owner is set.
TakeOwnership(c) ==
    /\ Alive(c)
    /\ pc[c] = "linked"
    /\ owner' = [owner EXCEPT ![c] = mine[c]]
    /\ Leave(c)
    /\ UNCHANGED <<worldVars, file, audit, attempts>>

-----------------------------------------------------------------------------
(* release: its own gate, and the owner is kept for a retry on any failure *)

ReleaseEnter(c) ==
    /\ Holds(c)
    /\ TryGate(c, "idle", "releasing")

ReleaseCompare(c) == Compare(c, "releasing", owner[c], "releaseUnlink")

ReleaseUnlink(c) ==
    /\ Alive(c)
    /\ pc[c] = "releaseUnlink"
    /\ file' = NoLease
    /\ owner' = [owner EXCEPT ![c] = IF file # NoLease THEN NoLease ELSE @]
    /\ Leave(c)
    /\ UNCHANGED <<worldVars, audit, attempts>>

-----------------------------------------------------------------------------
(* manual_clear_tester_target_lock: owner and liveness are read before the *)
(* gate; the attestation is published before the file is compared again.   *)

\* Mutant: the local owner is not probed.
ClearReadUnprobed(c) ==
    /\ Alive(c)
    /\ pc[c] = "idle" /\ ~Holds(c)
    /\ file # NoLease
    /\ raw' = [raw EXCEPT ![c] = file]
    /\ pc' = [pc EXCEPT ![c] = "clearing"]
    /\ UNCHANGED <<worldVars, diskVars, attempts, mine, owner>>

ClearRead(c) ==
    /\ Alive(c)
    /\ pc[c] = "idle" /\ ~Holds(c)
    /\ file # NoLease
    /\ file.target = TargetOf[c]
    /\ file.machine = Machine(c) => ~SameProcessLive(c, file)
    /\ raw' = [raw EXCEPT ![c] = file]
    /\ pc' = [pc EXCEPT ![c] = "clearing"]
    /\ UNCHANGED <<worldVars, diskVars, attempts, mine, owner>>

ClearEnter(c) == TryGate(c, "clearing", "attest")

Attest(c) ==
    /\ Alive(c)
    /\ pc[c] = "attest"
    /\ audit' = audit \cup {[lease |-> raw[c], by |-> c]}
    /\ pc' = [pc EXCEPT ![c] = "clear"]
    /\ UNCHANGED <<worldVars, file, gate, attempts, mine, owner, raw>>

ClearCompare(c) == Compare(c, "clear", raw[c], "clearUnlink")

ClearUnlink(c) ==
    /\ Alive(c)
    /\ pc[c] = "clearUnlink"
    /\ file' = NoLease
    /\ Leave(c)
    /\ UNCHANGED <<worldVars, audit, attempts, owner>>

-----------------------------------------------------------------------------
Acquire(c) ==
    Stage(c) \/ EnterGate(c) \/ Link(c) \/ JudgeDead(c) \/ JudgeRefuse(c)
        \/ ReclaimCompare(c) \/ ReclaimUnlink(c) \/ Relink(c) \/ TakeOwnership(c)
Release(c) == ReleaseEnter(c) \/ ReleaseCompare(c) \/ ReleaseUnlink(c)
ManualClear(c) ==
    ClearRead(c) \/ ClearEnter(c) \/ Attest(c) \/ ClearCompare(c) \/ ClearUnlink(c)

Next ==
    \/ \E p \in Procs : StartProc(p) \/ Crash(p)
    \/ \E m \in Machines : Reboot(m)
    \/ \E c \in Callers : Acquire(c) \/ Release(c) \/ ManualClear(c)

Spec == Init /\ [][Next]_vars

-----------------------------------------------------------------------------
Process == [alive : BOOLEAN, pid : Pids, start : Nat]

\* Type correctness.
TypeOK ==
    /\ proc \in [Procs -> Process]
    /\ starts \in Nat
    /\ boot \in [Machines -> Nat]
    /\ file \in Lease \cup {NoLease}
    /\ gate \in Callers \cup {NoCaller}
    /\ audit \subseteq [lease : Lease, by : Callers]
    /\ pc \in [Callers -> Points]
    /\ attempts \in [Callers -> Nat]
    /\ mine \in [Callers -> Lease \cup {NoLease}]
    /\ owner \in [Callers -> Lease \cup {NoLease}]
    /\ raw \in [Callers -> Lease \cup {NoLease}]

\* One owner per target: two callers hold a lease at once only if an operator
\* attested that one of the two leases was cleared.  Neither a crash between two
\* steps of acquire, nor a reused pid, nor a reboot, nor two callers reclaiming
\* the same dead owner may produce a second holder.
OneOwner ==
    \A c, d \in Callers :
        c # d /\ Holds(c) /\ Holds(d) => owner[c] \in Attested \/ owner[d] \in Attested

\* What a holder relies on: the lock file still carries its own evidence, unless an
\* operator attested its clearing (so its release will succeed once the gate is free).
HolderOnFile ==
    \A c \in Callers : Holds(c) => file = owner[c] \/ owner[c] \in Attested

\* An attested clearing of an owner on the clearing caller's own machine is never
\* a bypass around a live one (the comment at locking.py:642).
ClearedLocalOwnerIsDead ==
    \A a \in audit :
        a.lease.machine = Machine(a.by) => \A c \in Callers : owner[c] # a.lease

\* The abstract lease this protocol implements.
Abstract == INSTANCE TargetLease WITH held <- owner, voided <- Attested
ImplementsLease == Abstract!Spec
=============================================================================
