CONSTANTS
  MaxActiveFrames = 2
  InvalidIndex = 3
  LastRun = 1
  Stopper = {}
  Job = {}
  Calls = {"TryBeginFrame", "CanAcceptUpdate", "AbortFrame", "WaitForProgress"}
  Environment = {"async"}
  None = None
SPECIFICATION Spec
INVARIANTS
  NotificationReachesWaiter
