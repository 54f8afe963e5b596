SPECIFICATION Spec
CONSTANTS
  Configs = {"a", "b", "fatal", "rejected"}
  Rejected = {"rejected"}
  Fatal = {"fatal"}
  Broken = {"new"}
  Publishers = {p1}
  MaxChanges = 3
  MaxFaults = 2
  None = None
INVARIANT AppliedIsRunning
