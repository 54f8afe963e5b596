CONSTANTS
    n1 = n1
    o1 = o1  o2 = o2
    c1 = c1  c2 = c2
    k1 = k1  k2 = k2
    None = None
    Nodes = {n1}
    Node = n1
    Ops = {o1, o2}
    Keys = {k1, k2}
    Kinds = {"update.sing_box"}
    Contents = {"starting", "progress", "result"}
    CapabilitySets <- AgentCapabilities
    Caps <- AllCapabilities
    Claimers = {c1, c2}
    MaxAttempts = 3
    MaxSequence = 6
    MaxFaults = 1
    AdminCancels = FALSE
SPECIFICATION FairProtocolSpec
INVARIANTS
    OneActivePerNode
PROPERTIES
    ImplementsLifecycle
    QueuedEnds
