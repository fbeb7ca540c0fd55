SPECIFICATION Spec
CONSTANTS
  NoTask = NoTask
  NoWorker = NoWorker
  Workers = {w1, w2, w3}
  Tasks = {t1, t2, t3}
  Waiters = {}
  Priorities <- WithNegative
  ThreadLimits = {0, 2}
  WaitTimes = {}
  MaxReserved = 0
  MaxPageSize = 2
INVARIANTS AssertPageNotFinished
