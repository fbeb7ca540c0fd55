SPECIFICATION FairPartSpec
CONSTANTS
  Workers = {p1, p2}
  Waiters = {p1, p2}
  Tasks = {t1, t2}
  NoTask = NoTask
  NoWorker = NoWorker
  Priorities = {0}
  ThreadLimits = {0, 1}
  WaitTimes <- DefaultWait
  MaxReserved = 0
  MaxPageSize = 2
  MaxRuns = 2
  NoOne = NoOne
INVARIANTS TypeOK ThreadAccounting QueueSound NoStrandedTask ResetOnlyWhenDone NeverTerminates ValueIsOfTheLastRun NoSleepOnAStoppedTask
PROPERTIES ConcurrencyBound EveryTaskSettles CallsReturn StopIsFinal
