CONSTANTS
    v1 = v1  v2 = v2  v3 = v3
    legacy = legacy
    None = None
    Versions = {v1, v2, v3}
    Installed = v1
    Broken = {v3}
    LegacyGuard = legacy
    MaxOps = 2
    MaxFaults = 0
SPECIFICATION FairUpdateSpec
PROPERTIES
    BrokenIsReplaced
