CONSTANTS
  MaxActiveFrames = 2
  InvalidIndex = 3
  LastRun = 1
  Stopper = {}
  Job = {}
  Calls = {"TryBeginFrame", "AbortFrame", "WaitForProgress"}
  Environment = {"join", "async"}
  None = None
SPECIFICATION Spec
INVARIANTS
  TypeOK
  FramesAreAccounted
  WorldIsExclusive
  AdmissionWakesWaiter
