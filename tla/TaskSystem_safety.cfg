CONSTANTS
  Task = {t1, t2, t3}
  Group = {g}
  Worker = {w1, w2}
  Host = {h}
  None = None
SPECIFICATION Spec
SYMMETRY Symmetry
INVARIANTS
  TypeOK
  OutcomesFollowGraph
  BooksBalance
  EndsOnceDestroyed
CHECK_DEADLOCK FALSE
