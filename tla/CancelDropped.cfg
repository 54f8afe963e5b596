CONSTANTS
    n1 = n1
    o1 = o1  o2 = o2
    c1 = c1  c2 = c2
    k1 = k1  k2 = k2
    None = None
    Nodes = {n1}
    Node = n1
    Ops = {o1}
    Keys = {k1}
    Kinds = {"config.reconcile"}
    Contents = {"starting", "progress", "result"}
    CapabilitySets <- AgentCapabilities
    Caps <- AllCapabilities
    Claimers = {c1, c2}
    MaxAttempts = 3
    MaxSequence = 6
    MaxFaults = 0
    AdminCancels = TRUE
SPECIFICATION FairProtocolSpec
PROPERTIES
    CancelledEnds
