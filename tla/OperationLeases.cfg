CONSTANTS
    n1 = n1
    o1 = o1
    c1 = c1  c2 = c2
    k1 = k1
    x1 = x1
    None = None
    Nodes = {n1}
    Ops = {o1}
    Keys = {k1}
    Kinds = {"update.agent", "logs.collect"}
    Contents = {x1}
    CapabilitySets <- OldAndNewAgents
    Claimers = {c1, c2}
    MaxAttempts = 2
    MaxSequence = 2
SPECIFICATION Spec
SYMMETRY Symmetry
INVARIANTS
    TypeOK
    LeaseHolderUnique
    TerminalEventFinal
    ClaimedEndsByEvent
CHECK_DEADLOCK FALSE
