CONSTANTS
  MaxActiveFrames = 1
  InvalidIndex = 1
  LastRun = 2
  Stopper = {p1, p2}
  Job = {j}
  Calls = {"TryBeginFrame", "AbortFrame"}
  Environment = {"async", "gpu"}
  None = None
SPECIFICATION FairSpec
PROPERTIES
  StopIsClean
  EngineProceeds
