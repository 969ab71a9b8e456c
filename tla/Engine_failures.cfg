CONSTANTS
  MaxActiveFrames = 2
  InvalidIndex = 2
  LastRun = 1
  Stopper = {p1}
  Job = {}
  Calls = {"Update", "ClearLastError", "CanAcceptUpdate"}
  Environment = {"join", "throw", "memory", "gpu"}
  None = None
SPECIFICATION Spec
INVARIANTS
  FailuresAreContained
