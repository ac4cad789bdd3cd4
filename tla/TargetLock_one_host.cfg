SPECIFICATION Spec
CONSTANTS
    c1 = c1  c2 = c2  c3 = c3
    p1 = p1  p2 = p2
    m1 = m1  m2 = m2
    ns1 = ns1  ns2 = ns2
    t1 = t1
    Callers = {c1, c2}
    Procs = {p1, p2}
    Machines = {m1}
    Namespaces = {ns1, ns2}
    Pids = {1, 2}
    Targets = {t1}
    ProcOf <- OneHostProcOf
    MachineOf <- OneHostMachineOf
    NamespaceOf <- OneHostNamespaceOf
    TargetOf <- OneTarget
    RebootOptIn = {c2}
    UnknownNamespace = unknown
    NoCaller = NoCaller
    NoLease = NoLease
    MaxAttempts = 2
    MaxStarts = 3
    MaxBoots = 2
INVARIANTS OneOwner HolderOnFile ClearedLocalOwnerIsDead
PROPERTY ImplementsLease
CHECK_DEADLOCK FALSE
