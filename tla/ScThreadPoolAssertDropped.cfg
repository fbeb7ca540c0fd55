SPECIFICATION Spec
CONSTANTS
  NoTask = NoTask
  NoWorker = NoWorker
  Workers = {w1, w2, w3}
  Tasks = {t1, t2, t3}
  Waiters = {c1}
  Priorities = {0}
  ThreadLimits = {0, 1}
  WaitTimes <- DefaultWait
  MaxReserved = 0
  MaxPageSize = 2
PROPERTIES AssertQueueEmpty
