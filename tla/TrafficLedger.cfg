CONSTANTS
    s1 = s1
    b1 = b1  b2 = b2
    None = None
    Stats = {s1}
    Billable = {s1}
    MaxCarried = 2
    BootIds = {b1, b2}
    MaxExits = 1
    LogsCollect = TRUE
    StateLoss = TRUE
SPECIFICATION FairTrafficSpec
INVARIANTS
    TrafficTypeOK
    NeverOverBilled
    AccountedWhileRunning
PROPERTIES
    EventuallyBilled
