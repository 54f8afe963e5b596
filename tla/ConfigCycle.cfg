SPECIFICATION Spec
CONSTANTS
  Configs = {"a", "b", "fatal", "rejected"}
  Rejected = {"rejected"}
  Fatal = {"fatal"}
  Broken = {"new"}
  Publishers = {p1, p2}
  MaxChanges = 3
  MaxFaults = 2
  None = None
INVARIANTS OutageNeedsFault
PROPERTIES AppliedWasInstalled ConfigConverges PauseTakesEffect
