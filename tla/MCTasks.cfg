CONSTANTS
  Task = {t1, t2}
  Group = {g}
  Worker = {w1, w2}
  Host = {h}
  None = None
  j1 = j1
  j2 = j2
  Job = {j1, j2}
  JobWorker = {w1}
  Endless = {j1}
  Awaits <- MCAwaits
  NoJob = NoJob
SPECIFICATION MCSpec
INVARIANT JobsAreSafe
PROPERTIES
  EverythingEnds
  JobsEnd
CHECK_DEADLOCK FALSE
