----------------------- MODULE MC_TesterTargetLock -----------------------
(* Placements of lock objects on processes, machines and namespaces.       *)
EXTENDS TesterTargetLock, TLC

CONSTANTS c1, c2, c3, p1, p2, m1, m2, ns1, ns2, t1

\* Two processes of one machine and namespace, one lock object each.
OneHostProcOf == c1 :> p1 @@ c2 :> p2
OneHostMachineOf == p1 :> m1 @@ p2 :> m1
OneHostNamespaceOf == p1 :> ns1 @@ p2 :> ns1

\* Two containers that share the host name but not the pid namespace; the first runs two
\* lock objects in one process.
ContainersProcOf == c1 :> p1 @@ c2 :> p2 @@ c3 :> p1
ContainersMachineOf == p1 :> m1 @@ p2 :> m1
ContainersNamespaceOf == p1 :> ns1 @@ p2 :> ns2

\* The same, on two machines.
TwoHostsMachineOf == p1 :> m1 @@ p2 :> m2

OneTarget == [c \in Callers |-> t1]
===========================================================================
