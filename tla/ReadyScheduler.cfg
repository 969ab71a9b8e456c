CONSTANTS
  WorkerCount = 2
  Host = {h}
  MaxEntries = 4
  MinConsumed = 2
  None = None
  c1 = c1
  c2 = c2
  c3 = c3
  Command = {c1, c2, c3}
  OriginOf <- MCOriginOf
  Caller = {p1, p2}
  DrainLimit = 2
  FrameBurst = 1
  MaxRuns = 2
  NoCommand = NoCommand
  Reads = {1, 2, 3}
  Workers = {w1, w2}
  Stoppers = {s1}
  MaxPendingReads = 2
  NoRead = NoRead
SPECIFICATION MCSpec
INVARIANTS
  TypeOK
  PoolIsSafe
  MainIsSafe
  IoIsSafe
PROPERTIES
  ImplementsReadyPool
  PoolEnds
  CallersReturn
CHECK_DEADLOCK FALSE
