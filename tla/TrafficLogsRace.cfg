CONSTANTS
    s1 = s1
    b1 = b1  b2 = b2
    None = None
    Stats = {s1}
    Billable = {s1}
    MaxCarried = 3
    BootIds = {b1}
    MaxExits = 0
    LogsCollect = TRUE
    StateLoss = FALSE
SPECIFICATION TrafficSpec
INVARIANTS
    SettledAccounts
