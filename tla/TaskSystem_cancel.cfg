CONSTANTS
  Task = {t1, t2}
  Group = {g}
  Worker = {w1, w2}
  Host = {h}
  None = None
SPECIFICATION Spec
PROPERTY CancelTakesEffect
CHECK_DEADLOCK FALSE
