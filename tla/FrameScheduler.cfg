CONSTANTS
  MaxActiveFrames = 2
  InvalidIndex = 6
  FrameSlots = 2
  LoopFrames = 4
  LoopRuns = 2
  Systems = {1, 2, 3}
  Constraints <- MCConstraints
  Accesses <- MCAccesses
  Layouts <- MCLayouts
  Producing = {1}
  MaxRuns = 2
  MaxTickets = 1
  Nodes = {1, 2, 3}
  Threads = {t1, t2}
  NoThread = NoThread
  Ring = 2
  MaxGenerations = 2
  MaxSnapshots = 1
  MaxEpoch = 7
  Identities = {m, a}
  NoIdentity = NoIdentity
  MaxOperations = 4
  MaxGeneration = 2
SPECIFICATION MCSpec
INVARIANTS
  TypeOK
  CheckpointAwaitsNewest
  ArenaIsOfFrame
  LoopIsSafe
  RunsAreSafe
  ResourcesAreSafe
PROPERTIES
  StaleStaysStale
  GpuKeepsSlot
  ImplementsPipeline
  TreeIsSafe
  ServesLeases
  ServicesEnd
CHECK_DEADLOCK FALSE
