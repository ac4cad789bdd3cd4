---------------------- MODULE TesterTargetLockProofs ----------------------
(***************************************************************************)
(* The lease of TesterTargetLock is exclusive for any number of callers,   *)
(* processes, machines and namespaces, and implements TargetLease.         *)
(***************************************************************************)
EXTENDS TesterTargetLock, TLAPS

\* Evidence l really describes the process caller c lives in.
Genuine(c, l) ==
    /\ l.by = c
    /\ l.pid = proc[ProcOf[c]].pid
    /\ l.start = proc[ProcOf[c]].start
    /\ l.machine = Machine(c)
    /\ l.ns = Namespace(c)

\* A dead process remembers nothing; a live one holds only its own evidence.
Memory ==
    \A c \in Callers :
        /\ ~Alive(c) => mine[c] = NoLease /\ owner[c] = NoLease
        /\ mine[c] # NoLease => Genuine(c, mine[c])
        /\ owner[c] # NoLease => Genuine(c, owner[c])

\* The gate is held exactly by the caller inside the gated section.
GateDiscipline == \A c \in Callers : pc[c] \in Gated => gate = c

\* What each program point of the protocol has established.
PointFacts ==
    \A c \in Callers :
        /\ pc[c] \in {"staged", "gated", "found", "reclaim", "reclaimUnlink", "relink", "linked"}
            => mine[c] # NoLease /\ owner[c] = NoLease
        /\ pc[c] = "linked" => file = mine[c]
        /\ pc[c] \in {"reclaim", "reclaimUnlink", "clearing", "attest", "clear"}
            => raw[c] # NoLease
        /\ pc[c] \in {"reclaim", "reclaimUnlink"} => \A d \in Callers : owner[d] # raw[c]
        /\ pc[c] \in {"releasing", "releaseUnlink"} => owner[c] # NoLease
        /\ pc[c] \in {"clear", "clearUnlink"} => raw[c] \in Attested
        /\ pc[c] \in {"reclaimUnlink", "clearUnlink"} => file = raw[c]
        /\ pc[c] = "releaseUnlink" => file = owner[c]

IInv == TypeOK /\ Memory /\ GateDiscipline /\ PointFacts /\ HolderOnFile

USE ConstantsAssumption, NoLeaseAssumption

-----------------------------------------------------------------------------
(* Type correctness.                                                       *)

LEMMA NotRunningType == NotRunning \in Process
  BY DEF NotRunning, Process

\* Initially every variable has its type.
LEMMA InitType == Init => TypeOK
  BY NotRunningType DEF Init, TypeOK, Points

\* acquire stages well-formed evidence.
LEMMA StageEvidence ==
    ASSUME TypeOK, NEW c \in Callers, Stage(c)
    PROVE  mine' \in [Callers -> Lease \cup {NoLease}] /\ mine'[c] \in Lease
<1> USE DEF TypeOK
<1>1. PICK drift \in {0, 1} :
        mine' = [mine EXCEPT ![c] =
            [by |-> c, n |-> attempts[c], pid |-> proc[ProcOf[c]].pid,
             start |-> proc[ProcOf[c]].start, machine |-> Machine(c), ns |-> Namespace(c),
             boot |-> <<boot[Machine(c)], drift>>, target |-> TargetOf[c]]]
  BY DEF Stage
<1>2. /\ proc[ProcOf[c]].pid \in Pids /\ proc[ProcOf[c]].start \in Nat
      /\ Machine(c) \in Machines /\ Namespace(c) \in Namespaces
      /\ boot[Machine(c)] \in Nat
  BY DEF Process, Machine, Namespace
<1> QED BY <1>1, <1>2 DEF Lease

\* Every step keeps every variable in its type; an attestation needs evidence read.
LEMMA NextType == TypeOK /\ PointFacts /\ [Next]_vars => TypeOK'
<1> SUFFICES ASSUME TypeOK, PointFacts, [Next]_vars PROVE TypeOK'
  OBVIOUS
<1> USE DEF TypeOK
<1>1. ASSUME NEW p \in Procs, StartProc(p) PROVE TypeOK'
  BY <1>1 DEF StartProc, Process
<1>2. ASSUME NEW D \in SUBSET Procs, Kill(D), boot' \in [Machines -> Nat] PROVE TypeOK'
  BY <1>2, NotRunningType DEF Kill, Points
<1>3. ASSUME NEW p \in Procs, Crash(p) PROVE TypeOK'
  BY <1>2, <1>3 DEF Crash
<1>4. ASSUME NEW m \in Machines, Reboot(m) PROVE TypeOK'
  BY <1>2, <1>4 DEF Reboot
<1>5. ASSUME NEW c \in Callers, Stage(c) PROVE TypeOK'
  <2>1. mine' \in [Callers -> Lease \cup {NoLease}]
    BY <1>5, StageEvidence
  <2>2. /\ pc' = [pc EXCEPT ![c] = "staged"] /\ attempts' = [attempts EXCEPT ![c] = @ + 1]
        /\ UNCHANGED <<proc, starts, boot, file, gate, audit, owner, raw>>
    BY <1>5 DEF Stage, worldVars, diskVars
  <2> QED BY <2>1, <2>2 DEF Points
<1>6. ASSUME NEW c \in Callers, NEW from, NEW to \in Points, TryGate(c, from, to) PROVE TypeOK'
  BY <1>6 DEF TryGate, Return, worldVars, Points
<1>7. ASSUME NEW c \in Callers,
             \/ EnterGate(c) \/ ReleaseEnter(c) \/ ClearEnter(c)
      PROVE TypeOK'
  BY <1>6, <1>7 DEF EnterGate, ReleaseEnter, ClearEnter, Points, Gated
<1>8. ASSUME NEW c \in Callers, Link(c) PROVE TypeOK'
  BY <1>8 DEF Link, worldVars, Points, Gated
<1>9. ASSUME NEW c \in Callers, JudgeDead(c) PROVE TypeOK'
  BY <1>9 DEF JudgeDead, worldVars, diskVars, Points, Gated
<1>10. ASSUME NEW c \in Callers, JudgeRefuse(c) PROVE TypeOK'
  BY <1>10 DEF JudgeRefuse, Leave, Return, worldVars, Points
<1>11. ASSUME NEW c \in Callers, NEW from, NEW expected, NEW to \in Points,
              Compare(c, from, expected, to)
       PROVE TypeOK'
  BY <1>11 DEF Compare, Leave, Return, worldVars, Points
<1>19. ASSUME NEW c \in Callers, ReclaimCompare(c) \/ ReleaseCompare(c) \/ ClearCompare(c)
       PROVE TypeOK'
  BY <1>11, <1>19 DEF ReclaimCompare, ReleaseCompare, ClearCompare, Points, Gated
<1>20. ASSUME NEW c \in Callers, ReclaimUnlink(c) PROVE TypeOK'
  BY <1>20 DEF ReclaimUnlink, Leave, Return, worldVars, Points, Gated
<1>12. ASSUME NEW c \in Callers, Relink(c) PROVE TypeOK'
  BY <1>12 DEF Relink, Leave, Return, worldVars, Points, Gated
<1>13. ASSUME NEW c \in Callers, TakeOwnership(c) PROVE TypeOK'
  BY <1>13 DEF TakeOwnership, Leave, Return, worldVars, Points
<1>14. ASSUME NEW c \in Callers, ReleaseUnlink(c) PROVE TypeOK'
  BY <1>14 DEF ReleaseUnlink, Leave, Return, worldVars, Points
<1>15. ASSUME NEW c \in Callers, ClearRead(c) PROVE TypeOK'
  BY <1>15 DEF ClearRead, worldVars, diskVars, Points
<1>16. ASSUME NEW c \in Callers, Attest(c) PROVE TypeOK'
  <2>1. raw[c] \in Lease
    BY <1>16 DEF Attest, PointFacts
  <2> QED BY <1>16, <2>1 DEF Attest, worldVars, Points, Gated
<1>17. ASSUME NEW c \in Callers, ClearUnlink(c) PROVE TypeOK'
  BY <1>17 DEF ClearUnlink, Leave, Return, worldVars, Points
<1>18. ASSUME UNCHANGED vars PROVE TypeOK'
  BY <1>18 DEF vars
<1> QED
  BY <1>1, <1>3, <1>4, <1>5, <1>7, <1>8, <1>9, <1>10, <1>11, <1>12, <1>13, <1>14,
     <1>15, <1>16, <1>17, <1>18, <1>19, <1>20
  DEF Next, Acquire, Release, ManualClear

-----------------------------------------------------------------------------
(* The inductive invariant.                                                *)

\* The conjuncts of IInv that a step on the world or by one caller can disturb.
Inner == Memory /\ GateDiscipline /\ PointFacts /\ HolderOnFile

LEMMA InitInner == Init => Inner
  BY DEF Init, Inner, Memory, GateDiscipline, PointFacts, HolderOnFile, Holds, Alive,
         NotRunning, Gated, Attested

\* Processes that end lose their memory and their gate, and nothing else.
LEMMA KillInner ==
    ASSUME TypeOK, Inner, NEW D \in SUBSET Procs, Kill(D)
    PROVE  Inner'
<1> USE DEF TypeOK, Inner, Kill
<1>1. \A c \in Callers : ProcOf[c] \notin D =>
        /\ pc'[c] = pc[c] /\ mine'[c] = mine[c] /\ owner'[c] = owner[c] /\ raw'[c] = raw[c]
        /\ proc'[ProcOf[c]] = proc[ProcOf[c]]
  OBVIOUS
<1>2. \A c \in Callers : ProcOf[c] \in D =>
        /\ pc'[c] = "idle" /\ mine'[c] = NoLease /\ owner'[c] = NoLease /\ raw'[c] = NoLease
        /\ ~proc'[ProcOf[c]].alive
  BY DEF NotRunning
<1>3. Memory'
  BY <1>1, <1>2 DEF Memory, Alive, Genuine, Machine, Namespace
<1>4. GateDiscipline'
  BY <1>1, <1>2 DEF GateDiscipline, Gated
<1>5. PointFacts'
  BY <1>1, <1>2 DEF PointFacts, Attested
<1>6. HolderOnFile'
  BY <1>1, <1>2 DEF HolderOnFile, Holds, Attested
<1> QED BY <1>3, <1>4, <1>5, <1>6

\* A process that starts has no caller with any memory yet.
LEMMA StartInner ==
    ASSUME TypeOK, Inner, NEW p \in Procs, StartProc(p)
    PROVE  Inner'
<1> USE DEF TypeOK, Inner, StartProc
<1>1. Memory'
  BY DEF Memory, Alive, Genuine, Machine, Namespace, Process
<1>2. GateDiscipline' /\ PointFacts' /\ HolderOnFile'
  BY DEF GateDiscipline, PointFacts, HolderOnFile, Holds, Attested
<1> QED BY <1>1, <1>2

\* A caller that takes the gate, or returns because the gate is busy.
LEMMA TryGateInner ==
    ASSUME TypeOK, Inner, NEW c \in Callers, NEW from, NEW to, TryGate(c, from, to),
           \/ from = "staged" /\ to = "gated"
           \/ from = "idle" /\ to = "releasing" /\ Holds(c)
           \/ from = "clearing" /\ to = "attest"
    PROVE  Inner'
<1> USE DEF TypeOK, Inner, TryGate, Return, worldVars
<1>1. Memory'
  BY DEF Memory, Alive, Genuine, Machine, Namespace
<1>2. GateDiscipline'
  BY DEF GateDiscipline, Gated
<1>3. PointFacts'
  BY DEF PointFacts, Attested, Holds
<1>4. HolderOnFile'
  BY DEF HolderOnFile, Holds, Attested
<1> QED BY <1>1, <1>2, <1>3, <1>4

\* A recorded owner on the caller's own machine and in its own namespace, whose
\* process the probe does not find, is held by no caller.
LEMMA ProbeSound ==
    ASSUME TypeOK, Memory, NEW c \in Callers, NEW l \in Lease,
           l.machine = Machine(c), l.ns = Namespace(c), ~SameProcessLive(c, l)
    PROVE  \A d \in Callers : owner[d] # l
<1> SUFFICES ASSUME NEW d \in Callers, owner[d] = l PROVE FALSE
  OBVIOUS
<1>1. Alive(d) /\ Genuine(d, l)
  BY DEF Memory
<1>2. SameProcessLive(c, l)
  BY <1>1 DEF SameProcessLive, Genuine, Alive, Machine, Namespace
<1> QED BY <1>2

\* One step of a caller that is not the taking of the gate.
CallerStep(c) ==
    \/ Stage(c) \/ Link(c) \/ JudgeDead(c) \/ JudgeRefuse(c) \/ Relink(c) \/ TakeOwnership(c)
    \/ ReclaimCompare(c) \/ ReleaseCompare(c) \/ ClearCompare(c)
    \/ ReclaimUnlink(c) \/ ReleaseUnlink(c) \/ ClearUnlink(c) \/ ClearRead(c) \/ Attest(c)

\* The callers other than c keep their program point and memory.
LEMMA OthersKeep ==
    ASSUME TypeOK, NEW c \in Callers, CallerStep(c), NEW d \in Callers, d # c
    PROVE  /\ pc'[d] = pc[d] /\ mine'[d] = mine[d] /\ owner'[d] = owner[d] /\ raw'[d] = raw[d]
  BY DEF TypeOK, CallerStep, Stage, Link, JudgeDead, JudgeRefuse, Relink, TakeOwnership,
         ReclaimCompare, ReleaseCompare, ClearCompare, Compare, ReclaimUnlink, ReleaseUnlink,
         ClearUnlink, ClearRead, Attest, Leave, Return, diskVars

LEMMA CallerMemory ==
    ASSUME TypeOK, Inner, NEW c \in Callers, CallerStep(c)
    PROVE  Memory'
<1> USE DEF TypeOK, Inner, Memory
<1>1. proc' = proc
  BY DEF CallerStep, Stage, Link, JudgeDead, JudgeRefuse, Relink, TakeOwnership,
         ReclaimCompare, ReleaseCompare, ClearCompare, Compare, ReclaimUnlink, ReleaseUnlink,
         ClearUnlink, ClearRead, Attest, worldVars
<1>2. ASSUME NEW d \in Callers
      PROVE  /\ mine'[d] = mine[d] \/ mine'[d] = NoLease \/ (Alive(d) /\ Genuine(d, mine'[d]))
             /\ owner'[d] = owner[d] \/ owner'[d] = NoLease
                    \/ (Alive(d) /\ Genuine(d, owner'[d]))
  <2>1. CASE d # c
    BY <2>1, OthersKeep
  <2>2. CASE d = c /\ Stage(c)
    BY <2>2 DEF Stage, Genuine
  <2>3. CASE d = c /\ TakeOwnership(c)
    BY <2>3 DEF TakeOwnership, Leave, Return, PointFacts
  <2>4. CASE d = c /\ ~Stage(c) /\ ~TakeOwnership(c)
    BY <2>4 DEF CallerStep, Link, JudgeDead, JudgeRefuse, Relink, ReclaimCompare,
         ReleaseCompare, ClearCompare, Compare, ReclaimUnlink, ReleaseUnlink, ClearUnlink,
         ClearRead, Attest, Leave, Return, diskVars
  <2> QED BY <2>1, <2>2, <2>3, <2>4
<1> QED BY <1>1, <1>2 DEF Alive, Genuine, Machine, Namespace

LEMMA CallerGate ==
    ASSUME TypeOK, Inner, NEW c \in Callers, CallerStep(c)
    PROVE  GateDiscipline'
<1> USE DEF TypeOK, Inner, GateDiscipline, Gated
<1>1. CASE Stage(c) \/ ClearRead(c)
  BY <1>1 DEF Stage, ClearRead, diskVars
<1>2. CASE Link(c) \/ JudgeDead(c) \/ Attest(c)
  BY <1>2 DEF Link, JudgeDead, Attest, diskVars
<1>3. CASE ReclaimUnlink(c) \/ Relink(c)
  BY <1>3 DEF ReclaimUnlink, Relink, Leave, Return
<1>4. CASE JudgeRefuse(c) \/ TakeOwnership(c) \/ ReleaseUnlink(c) \/ ClearUnlink(c)
  BY <1>4 DEF JudgeRefuse, TakeOwnership, ReleaseUnlink, ClearUnlink, Leave, Return
<1>5. CASE ReclaimCompare(c) \/ ReleaseCompare(c) \/ ClearCompare(c)
  BY <1>5 DEF ReclaimCompare, ReleaseCompare, ClearCompare, Compare, Leave, Return
<1> QED BY <1>1, <1>2, <1>3, <1>4, <1>5 DEF CallerStep

\* Only one caller is inside the gated section.
LEMMA Alone ==
    ASSUME GateDiscipline, NEW c \in Callers, pc[c] \in Gated, NEW d \in Callers, d # c
    PROVE  pc[d] \notin Gated
  BY DEF GateDiscipline

LEMMA CallerPointFacts ==
    ASSUME TypeOK, Inner, NEW c \in Callers, CallerStep(c)
    PROVE  PointFacts'
<1> USE DEF TypeOK, Inner, PointFacts
<1>1. CASE Stage(c)
  <2>0. mine'[c] # NoLease
    BY <1>1, StageEvidence
  <2>1. Attested' = Attested
    BY <1>1 DEF Stage, diskVars, Attested
  <2>2. \A d \in Callers : d # c => mine'[d] = mine[d] /\ pc'[d] = pc[d]
    BY <1>1 DEF Stage
  <2>3. pc'[c] = "staged" /\ owner' = owner /\ raw' = raw /\ file' = file /\ owner[c] = NoLease
    BY <1>1 DEF Stage, diskVars, Holds
  <2> QED BY <2>0, <2>1, <2>2, <2>3
<1>2. CASE Link(c)
  BY <1>2, Alone DEF Link, Attested, Gated
<1>3. CASE JudgeDead(c)
  <2>1. \A d \in Callers : owner[d] # file
    BY <1>3, ProbeSound DEF JudgeDead, Reclaimable
  <2>2. Attested' = Attested
    BY <1>3 DEF JudgeDead, Attested, diskVars
  <2> QED BY <1>3, <2>1, <2>2 DEF JudgeDead, diskVars
<1>4. CASE JudgeRefuse(c)
  BY <1>4 DEF JudgeRefuse, Leave, Return, Attested
<1>5. CASE ReclaimUnlink(c)
  BY <1>5, Alone DEF ReclaimUnlink, Leave, Return, Attested, Gated
<1>6. CASE Relink(c)
  BY <1>6, Alone DEF Relink, Leave, Return, Attested, Gated
<1>7. CASE TakeOwnership(c)
  BY <1>7, Alone DEF TakeOwnership, Leave, Return, Attested, Gated
<1>8. CASE ReleaseUnlink(c)
  BY <1>8, Alone DEF ReleaseUnlink, Leave, Return, Attested, Gated
<1>9. CASE ClearRead(c)
  BY <1>9 DEF ClearRead, diskVars, Attested
<1>10. CASE Attest(c)
  <2>1. [lease |-> raw[c], by |-> c] \in audit' /\ audit \subseteq audit'
    BY <1>10 DEF Attest
  <2>2. raw[c] \in Attested' /\ Attested \subseteq Attested'
    BY <2>1 DEF Attested
  <2> QED BY <1>10, <2>2 DEF Attest
<1>11. CASE ClearUnlink(c)
  BY <1>11, Alone DEF ClearUnlink, Leave, Return, Attested, Gated
<1>12. CASE ReclaimCompare(c) \/ ReleaseCompare(c) \/ ClearCompare(c)
  BY <1>12 DEF ReclaimCompare, ReleaseCompare, ClearCompare, Compare, Leave, Return, Attested
<1> QED
  BY <1>1, <1>2, <1>3, <1>4, <1>5, <1>6, <1>7, <1>8, <1>9, <1>10, <1>11, <1>12 DEF CallerStep

\* Two holders never have the same evidence: the acquisition token tells them apart.
LEMMA DistinctOwners ==
    ASSUME Memory, NEW c \in Callers, NEW d \in Callers, Holds(c), owner[c] = owner[d]
    PROVE  c = d
  BY DEF Memory, Genuine, Holds

LEMMA CallerHolder ==
    ASSUME TypeOK, Inner, NEW c \in Callers, CallerStep(c)
    PROVE  HolderOnFile'
<1> USE DEF TypeOK, Inner, HolderOnFile, Holds
<1>1. CASE Stage(c) \/ JudgeDead(c) \/ JudgeRefuse(c) \/ ClearRead(c)
  BY <1>1 DEF Stage, JudgeDead, JudgeRefuse, ClearRead, diskVars, Leave, Return, Attested
<1>8. CASE ReclaimCompare(c) \/ ReleaseCompare(c) \/ ClearCompare(c)
  BY <1>8 DEF ReclaimCompare, ReleaseCompare, ClearCompare, Compare, Leave, Return, Attested
<1>2. CASE Link(c) \/ Relink(c)
  BY <1>2 DEF Link, Relink, Leave, Return, Attested
<1>3. CASE ReclaimUnlink(c)
  BY <1>3 DEF ReclaimUnlink, PointFacts, Attested
<1>4. CASE TakeOwnership(c)
  BY <1>4 DEF TakeOwnership, PointFacts, Attested
<1>5. CASE ReleaseUnlink(c)
  BY <1>5, DistinctOwners DEF ReleaseUnlink, PointFacts, Attested
<1>6. CASE Attest(c)
  BY <1>6 DEF Attest, Attested
<1>7. CASE ClearUnlink(c)
  BY <1>7 DEF ClearUnlink, PointFacts, Attested
<1> QED BY <1>1, <1>2, <1>3, <1>4, <1>5, <1>6, <1>7, <1>8 DEF CallerStep

LEMMA NextInner == TypeOK /\ Inner /\ [Next]_vars => Inner'
<1> SUFFICES ASSUME TypeOK, Inner, [Next]_vars PROVE Inner'
  OBVIOUS
<1>1. ASSUME NEW p \in Procs, StartProc(p) PROVE Inner'
  BY <1>1, StartInner
<1>2. ASSUME NEW p \in Procs, Crash(p) PROVE Inner'
  BY <1>2, KillInner DEF Crash
<1>3. ASSUME NEW m \in Machines, Reboot(m) PROVE Inner'
  BY <1>3, KillInner DEF Reboot
<1>4. ASSUME NEW c \in Callers, EnterGate(c) \/ ReleaseEnter(c) \/ ClearEnter(c) PROVE Inner'
  BY <1>4, TryGateInner DEF EnterGate, ReleaseEnter, ClearEnter
<1>5. ASSUME NEW c \in Callers, CallerStep(c) PROVE Inner'
  BY <1>5, CallerMemory, CallerGate, CallerPointFacts, CallerHolder DEF Inner
<1>6. ASSUME UNCHANGED vars PROVE Inner'
  BY <1>6 DEF vars, Inner, Memory, GateDiscipline, PointFacts, HolderOnFile, Holds, Alive,
              Genuine, Machine, Namespace, Attested
<1> QED
  BY <1>1, <1>2, <1>3, <1>4, <1>5, <1>6
  DEF Next, Acquire, Release, ManualClear, CallerStep

-----------------------------------------------------------------------------
(* The theorems.                                                           *)

\* The strengthened invariant holds in every reachable state.
THEOREM Inductive == Spec => []IInv
<1>1. Init => IInv
  BY InitType, InitInner DEF IInv, Inner
<1>2. IInv /\ [Next]_vars => IInv'
  BY NextType, NextInner DEF IInv, Inner
<1> QED BY <1>1, <1>2, PTL DEF Spec

\* Every variable has its type in every reachable state.
THEOREM TypeCorrect == Spec => []TypeOK
  BY Inductive, PTL DEF IInv

\* A holder's own evidence stays in the lock file unless its clearing was attested.
THEOREM HolderStaysOnFile == Spec => []HolderOnFile
  BY Inductive, PTL DEF IInv

\* Two callers hold a lease at once only after an attested clearing of one of them,
\* whatever crashes, pid reuses, reboots and reclaims happened.
THEOREM MutualExclusion == Spec => []OneOwner
<1>1. IInv => OneOwner
  BY DistinctOwners DEF IInv, HolderOnFile, OneOwner
<1> QED BY <1>1, Inductive, PTL

-----------------------------------------------------------------------------
(* Attested clearings on the clearing caller's machine.                    *)

\* The processes of one machine have one pid namespace: no two containers share a host name.
OneNamespace ==
    \A p, q \in Procs : MachineOf[p] = MachineOf[q] => NamespaceOf[p] = NamespaceOf[q]

\* Evidence was staged by an earlier acquisition, so no later one stages it again.
Staged(l) == l # NoLease => l.n < attempts[l.by]
AllStaged ==
    /\ Staged(file)
    /\ \A c \in Callers : Staged(mine[c]) /\ Staged(raw[c])
    /\ \A a \in audit : Staged(a.lease)

\* No caller has the evidence, nor is about to.
Gone(l) == \A d \in Callers : owner[d] # l /\ mine[d] # l
Cleared ==
    /\ \A c \in Callers :
         pc[c] \in {"clearing", "attest"} /\ raw[c].machine = Machine(c) => Gone(raw[c])
    /\ \A a \in audit : a.lease.machine = Machine(a.by) => Gone(a.lease)

\* What a step can put into the hands of a caller, into the file and into the audit.
Hands(d) ==
    /\ owner'[d] \in {owner[d], NoLease, mine[d]}
    /\ raw'[d] \in {raw[d], NoLease, file}
    /\ attempts'[d] >= attempts[d]
    /\ \/ mine'[d] \in {mine[d], NoLease}
       \/ /\ mine'[d] \in Lease /\ mine'[d].by = d /\ mine'[d].n = attempts[d]
          /\ attempts'[d] > attempts[d]
Shared ==
    /\ file' \in {file, NoLease} \/ \E c \in Callers : file' = mine[c]
    /\ \A a \in audit' :
         a \in audit \/ \E c \in Callers : pc[c] = "attest" /\ a = [lease |-> raw[c], by |-> c]

LEMMA StepHands ==
    ASSUME TypeOK, [Next]_vars
    PROVE  Shared /\ \A d \in Callers : Hands(d)
<1> USE DEF TypeOK, Shared, Hands
<1>1. CASE UNCHANGED <<file, audit, attempts, mine, owner, raw>>
  BY <1>1
<1>2. ASSUME NEW D \in SUBSET Procs, Kill(D) PROVE Shared /\ \A d \in Callers : Hands(d)
  BY <1>2 DEF Kill
<1>3. ASSUME NEW c \in Callers, EnterGate(c) \/ ReleaseEnter(c) \/ ClearEnter(c)
      PROVE  Shared /\ \A d \in Callers : Hands(d)
  BY <1>3 DEF EnterGate, ReleaseEnter, ClearEnter, TryGate, Return
<1>4. ASSUME NEW c \in Callers, Stage(c) PROVE Shared /\ \A d \in Callers : Hands(d)
  <2>1. PICK drift \in {0, 1} :
          mine' = [mine EXCEPT ![c] =
            [by |-> c, n |-> attempts[c], pid |-> proc[ProcOf[c]].pid,
             start |-> proc[ProcOf[c]].start, machine |-> Machine(c), ns |-> Namespace(c),
             boot |-> <<boot[Machine(c)], drift>>, target |-> TargetOf[c]]]
    BY <1>4 DEF Stage
  <2>2. mine'[c] \in Lease /\ mine'[c].by = c /\ mine'[c].n = attempts[c]
    BY <1>4, <2>1, StageEvidence
  <2>3. attempts' = [attempts EXCEPT ![c] = @ + 1] /\ UNCHANGED <<file, audit, owner, raw>>
    BY <1>4 DEF Stage, diskVars
  <2>4. \A d \in Callers : d # c => mine'[d] = mine[d]
    BY <2>1
  <2> QED BY <2>2, <2>3, <2>4
<1>5. ASSUME NEW c \in Callers, CallerStep(c), ~Stage(c)
      PROVE  Shared /\ \A d \in Callers : Hands(d)
  <2>1. CASE Link(c) \/ JudgeDead(c) \/ JudgeRefuse(c) \/ Relink(c) \/ TakeOwnership(c)
    BY <2>1 DEF Link, JudgeDead, JudgeRefuse, Relink, TakeOwnership, Leave, Return, diskVars
  <2>2. CASE ReclaimCompare(c) \/ ReleaseCompare(c) \/ ClearCompare(c)
    BY <2>2 DEF ReclaimCompare, ReleaseCompare, ClearCompare, Compare, Leave, Return
  <2>3. CASE ReclaimUnlink(c) \/ ReleaseUnlink(c) \/ ClearUnlink(c)
    BY <2>3 DEF ReclaimUnlink, ReleaseUnlink, ClearUnlink, Leave, Return
  <2>4. CASE ClearRead(c) \/ Attest(c)
    BY <2>4 DEF ClearRead, Attest, diskVars
  <2> QED BY <1>5, <2>1, <2>2, <2>3, <2>4 DEF CallerStep
<1> QED BY <1>1, <1>2, <1>3, <1>4, <1>5
      DEF Next, vars, StartProc, Crash, Reboot, Acquire, Release, ManualClear, CallerStep

LEMMA StagedStays ==
    ASSUME TypeOK, TypeOK', AllStaged, [Next]_vars
    PROVE  AllStaged'
<1>1. Shared /\ \A d \in Callers : Hands(d)
  BY StepHands
<1>2. ASSUME NEW l \in Lease \cup {NoLease}, Staged(l) PROVE l # NoLease => l.n < attempts'[l.by]
  <2>1. ASSUME l # NoLease PROVE l.by \in Callers /\ l.n \in Nat
    BY <1>2, <2>1 DEF Lease
  <2>2. \A d \in Callers : attempts[d] \in Nat /\ attempts'[d] \in Nat /\ attempts'[d] >= attempts[d]
    BY <1>1 DEF Hands, TypeOK
  <2> QED BY <1>2, <2>1, <2>2 DEF Staged
<1>3. Staged(file)'
  BY <1>1, <1>2 DEF Shared, AllStaged, TypeOK, Staged
<1>4. ASSUME NEW c \in Callers PROVE Staged(mine[c])' /\ Staged(raw[c])'
  <2>1. Staged(raw[c])'
    BY <1>1, <1>2 DEF Hands, AllStaged, TypeOK, Staged
  <2>2. CASE mine'[c] \in {mine[c], NoLease}
    BY <1>2, <2>1, <2>2 DEF AllStaged, TypeOK, Staged
  <2>3. CASE mine'[c].by = c /\ mine'[c].n = attempts[c] /\ attempts'[c] > attempts[c]
    <3>1. mine'[c].n < attempts'[mine'[c].by]
      BY <2>3 DEF TypeOK
    <3> QED BY <2>1, <3>1 DEF Staged
  <2> QED BY <1>1, <2>2, <2>3 DEF Hands
<1>5. ASSUME NEW a \in audit' PROVE Staged(a.lease)'
  <2>1. a \in audit \/ \E c \in Callers : a.lease = raw[c]
    BY <1>1, <1>5 DEF Shared
  <2>2. CASE a \in audit
    BY <1>2, <2>2 DEF AllStaged, TypeOK, Staged
  <2>3. ASSUME NEW c \in Callers, a.lease = raw[c] PROVE Staged(a.lease)'
    BY <1>2, <2>3 DEF AllStaged, TypeOK, Staged
  <2> QED BY <2>1, <2>2, <2>3
<1> QED BY <1>3, <1>4, <1>5 DEF AllStaged

\* Staged evidence that no caller has comes back to none.
LEMMA GoneStays ==
    ASSUME TypeOK, [Next]_vars, NEW l \in Lease, Staged(l), Gone(l)
    PROVE  Gone(l)'
<1> SUFFICES ASSUME NEW d \in Callers PROVE owner'[d] # l /\ mine'[d] # l
  BY DEF Gone
<1>1. Hands(d) /\ owner[d] # l /\ mine[d] # l
  BY StepHands DEF Gone
<1>2. l # NoLease /\ l.n < attempts[l.by] /\ l.n \in Nat /\ attempts[d] \in Nat
  BY NoLeaseAssumption DEF Staged, Lease, TypeOK
<1>3. mine'[d] # l
  BY <1>1, <1>2 DEF Hands
<1> QED BY <1>1, <1>2, <1>3 DEF Hands

\* A clear that goes on has read a file whose owner was probed.
LEMMA ClearSteps ==
    ASSUME TypeOK, [Next]_vars, NEW c \in Callers, pc'[c] \in {"clearing", "attest"}
    PROVE  ClearRead(c) \/ (pc[c] \in {"clearing", "attest"} /\ raw'[c] = raw[c])
<1> USE DEF TypeOK
<1>1. ASSUME NEW D \in SUBSET Procs, Kill(D) PROVE pc[c] = pc'[c] /\ raw'[c] = raw[c]
  BY <1>1 DEF Kill
<1>2. CASE UNCHANGED <<pc, raw>>
  BY <1>2
<1>3. ASSUME NEW d \in Callers, EnterGate(d) \/ ReleaseEnter(d) \/ ClearEnter(d)
      PROVE  pc[c] \in {"clearing", "attest"} /\ raw'[c] = raw[c]
  BY <1>3 DEF EnterGate, ReleaseEnter, ClearEnter, TryGate, Return
<1>4. ASSUME NEW d \in Callers, CallerStep(d), d # c
      PROVE  pc[c] \in {"clearing", "attest"} /\ raw'[c] = raw[c]
  BY <1>4, OthersKeep
<1>5. CASE CallerStep(c) /\ ~ClearRead(c)
  BY <1>5 DEF CallerStep, Stage, Link, JudgeDead, JudgeRefuse, Relink, TakeOwnership,
     ReclaimCompare, ReleaseCompare, ClearCompare, Compare, ReclaimUnlink, ReleaseUnlink,
     ClearUnlink, Attest, Leave, Return
<1> QED BY <1>1, <1>2, <1>3, <1>4, <1>5
      DEF Next, vars, StartProc, Crash, Reboot, Acquire, Release, ManualClear, CallerStep

\* The probe of a manual clear finds every live owner of its machine, published or not.
LEMMA ClearProbes ==
    ASSUME OneNamespace, IInv, NEW c \in Callers, ClearRead(c), file.machine = Machine(c)
    PROVE  file \in Lease /\ Gone(file)
<1>1. file \in Lease /\ ~SameProcessLive(c, file)
  BY DEF ClearRead, IInv, TypeOK
<1>2. ASSUME NEW d \in Callers, owner[d] = file \/ mine[d] = file PROVE FALSE
  <2>1. Alive(d) /\ Genuine(d, file)
    BY <1>1, <1>2 DEF IInv, Memory
  <2>2. MachineOf[ProcOf[d]] = MachineOf[ProcOf[c]]
    BY <2>1 DEF Genuine, Machine
  <2>3. ProcOf[c] \in Procs /\ ProcOf[d] \in Procs
    BY ConstantsAssumption
  <2>4. NamespaceOf[ProcOf[d]] = Namespace(c) /\ MachineOf[ProcOf[d]] = Machine(c)
    BY <2>2, <2>3 DEF Machine, Namespace, OneNamespace
  <2> QED BY <1>1, <2>1, <2>4 DEF SameProcessLive, Genuine, Alive
<1> QED BY <1>1, <1>2 DEF Gone

LEMMA ClearedStays ==
    ASSUME OneNamespace, IInv, AllStaged, Cleared, [Next]_vars
    PROVE  Cleared'
<1>t. TypeOK /\ PointFacts /\ Shared /\ \A d \in Callers : Hands(d)
  BY StepHands DEF IInv
<1>1. ASSUME NEW l \in Lease, Staged(l), Gone(l)
      PROVE  \A d \in Callers : owner'[d] # l /\ mine'[d] # l
  BY <1>t, <1>1, GoneStays DEF Gone
<1>2. ASSUME NEW c \in Callers, pc[c] \in {"clearing", "attest"}, raw[c].machine = Machine(c)
      PROVE  \A d \in Callers : owner'[d] # raw[c] /\ mine'[d] # raw[c]
  <2>1. raw[c] \in Lease /\ Staged(raw[c]) /\ Gone(raw[c])
    BY <1>t, <1>2 DEF PointFacts, TypeOK, AllStaged, Cleared
  <2> QED BY <1>1, <2>1
<1>3. ASSUME NEW c \in Callers, pc'[c] \in {"clearing", "attest"}, raw'[c].machine = Machine(c)
      PROVE  Gone(raw[c])'
  <2>1. CASE ClearRead(c)
    <3>1. raw'[c] = file /\ UNCHANGED <<owner, mine>>
      BY <1>t, <2>1 DEF ClearRead, TypeOK
    <3> QED BY <1>3, <2>1, <3>1, ClearProbes DEF Gone
  <2>2. CASE pc[c] \in {"clearing", "attest"} /\ raw'[c] = raw[c]
    BY <1>2, <1>3, <2>2 DEF Gone
  <2> QED BY <1>t, <1>3, <2>1, <2>2, ClearSteps
<1>4. ASSUME NEW a \in audit', a.lease.machine = Machine(a.by)
      PROVE  Gone(a.lease)'
  <2>1. CASE a \in audit
    <3>1. a.lease \in Lease /\ Staged(a.lease) /\ Gone(a.lease)
      BY <1>t, <1>4, <2>1 DEF TypeOK, AllStaged, Cleared
    <3> QED BY <1>1, <3>1 DEF Gone
  <2>2. ASSUME NEW c \in Callers, pc[c] = "attest", a = [lease |-> raw[c], by |-> c]
        PROVE  Gone(a.lease)'
    BY <1>2, <1>4, <2>2 DEF Gone
  <2> QED BY <1>t, <1>4, <2>1, <2>2 DEF Shared
<1> QED BY <1>3, <1>4 DEF Cleared, Machine

\* Where the processes of a machine share one pid namespace, no caller has or takes up a lease
\* of that machine whose clearing was attested there.
THEOREM ClearedOwnersAreDead == ASSUME OneNamespace PROVE Spec => []ClearedLocalOwnerIsDead
<1>1. Init => AllStaged /\ Cleared
  BY DEF Init, AllStaged, Staged, Cleared
<1>2. IInv /\ IInv' /\ AllStaged /\ Cleared /\ [Next]_vars => AllStaged' /\ Cleared'
  BY StagedStays, ClearedStays DEF IInv
<1>3. Cleared => ClearedLocalOwnerIsDead
  BY DEF Cleared, Gone, ClearedLocalOwnerIsDead
<1> QED BY <1>1, <1>2, <1>3, Inductive, PTL DEF Spec

-----------------------------------------------------------------------------
(* The protocol implements the abstract lease.                             *)

\* A caller that takes ownership is granted the abstract lease.
LEMMA TakeOwnershipGrants ==
    ASSUME IInv, NEW c \in Callers, TakeOwnership(c)
    PROVE  Abstract!Grant(c)
<1> USE DEF IInv, TypeOK
<1>1. owner' = [owner EXCEPT ![c] = mine[c]] /\ mine[c] \in Lease /\ owner[c] = NoLease
      /\ file = mine[c] /\ audit' = audit
  BY DEF TakeOwnership, PointFacts
<1>2. \A d \in Callers : owner[d] # NoLease => owner[d] \in Attested
  <2> SUFFICES ASSUME NEW d \in Callers, owner[d] # NoLease, owner[d] = mine[c] PROVE FALSE
    BY <1>1 DEF HolderOnFile, Holds
  <2>1. owner[d].by = d /\ mine[c].by = c
    BY <1>1 DEF Memory, Genuine
  <2> QED BY <1>1, <2>1
<1>3. owner'[c] = mine[c] /\ Attested' = Attested
  BY <1>1 DEF Attested
<1> QED BY <1>1, <1>2, <1>3 DEF Abstract!Grant

\* A step that only ends leases maps to End; one that keeps them maps to Void or a stutter.
LEMMA EndMaps ==
    ASSUME TypeOK, NEW D \in SUBSET Callers, audit' = audit,
           owner' = [c \in Callers |-> IF c \in D THEN NoLease ELSE owner[c]]
    PROVE  Abstract!Next
  BY DEF Abstract!Next, Abstract!End, Attested

\* Every behaviour of the lock protocol is a behaviour of the abstract lease.
THEOREM Refinement == Spec => ImplementsLease
<1>1. Init => Abstract!Init
  BY DEF Init, Abstract!Init, Attested
<1>2. IInv /\ TypeOK' /\ [Next]_vars => [Abstract!Next]_<<owner, Attested>>
  <2> SUFFICES ASSUME IInv, TypeOK', [Next]_vars PROVE [Abstract!Next]_<<owner, Attested>>
    OBVIOUS
  <2> USE DEF IInv
  <2>1. ASSUME NEW D \in SUBSET Procs, Kill(D) PROVE Abstract!Next
    <3> DEFINE E == {c \in Callers : ProcOf[c] \in D}
    <3>1. owner' = [c \in Callers |-> IF c \in E THEN NoLease ELSE owner[c]] /\ audit' = audit
      BY <2>1 DEF Kill
    <3>2. E \in SUBSET Callers
      OBVIOUS
    <3> HIDE DEF E
    <3> QED BY <3>1, <3>2, EndMaps
  <2>2. ASSUME NEW c \in Callers, ReleaseUnlink(c) PROVE Abstract!Next
    <3>1. owner' = [d \in Callers |-> IF d \in {c} THEN NoLease ELSE owner[d]] /\ audit' = audit
      BY <2>2 DEF ReleaseUnlink, TypeOK, PointFacts
    <3>2. {c} \in SUBSET Callers
      OBVIOUS
    <3> QED BY <3>1, <3>2, EndMaps
  <2>3. ASSUME NEW c \in Callers, Attest(c) PROVE Abstract!Next
    <3>1. owner' = owner /\ audit \subseteq audit'
      BY <2>3 DEF Attest
    <3>2. Attested \subseteq Attested' /\ Attested' \subseteq Lease
      BY <3>1 DEF Attested, TypeOK
    <3> QED BY <3>1, <3>2 DEF Abstract!Next, Abstract!Void
  <2>4. ASSUME NEW c \in Callers,
               CallerStep(c) \/ EnterGate(c) \/ ReleaseEnter(c) \/ ClearEnter(c),
               ~TakeOwnership(c), ~Attest(c), ~ReleaseUnlink(c)
        PROVE  owner' = owner /\ audit' = audit
    BY <2>4 DEF CallerStep, Stage, EnterGate, ReleaseEnter, ClearEnter, TryGate, Return, Link,
       JudgeDead, JudgeRefuse, Relink, ReclaimCompare, ReleaseCompare, ClearCompare, Compare,
       ReclaimUnlink, ClearUnlink, ClearRead, Leave, diskVars, TypeOK
  <2>5. ASSUME NEW p \in Procs, StartProc(p) PROVE owner' = owner /\ audit' = audit
    BY <2>5 DEF StartProc
  <2>6. ASSUME NEW c \in Callers, TakeOwnership(c) PROVE Abstract!Next
    BY <2>6, TakeOwnershipGrants DEF Abstract!Next
  <2>7. owner' = owner /\ audit' = audit => UNCHANGED <<owner, Attested>>
    BY DEF Attested
  <2>8. ASSUME NEW p \in Procs, Crash(p) PROVE Abstract!Next
    BY <2>1, <2>8 DEF Crash
  <2>9. ASSUME NEW m \in Machines, Reboot(m) PROVE Abstract!Next
    BY <2>1, <2>9 DEF Reboot
  <2>10. UNCHANGED vars => owner' = owner /\ audit' = audit
    BY DEF vars
  <2> QED
    BY <2>2, <2>3, <2>4, <2>5, <2>6, <2>7, <2>8, <2>9, <2>10
    DEF Next, Acquire, Release, ManualClear, CallerStep
<1> QED BY <1>1, <1>2, Inductive, TypeCorrect, PTL DEF Spec, ImplementsLease, Abstract!Spec
=============================================================================
