SPECIFICATION PartSpec
CONSTANTS
  Threads = {p1, p2, p3}
  Nobody = Nobody
  MaxDepth = 2
  StringThreads = {u1, u2}
  Strings = {s1, s2}
  a = a
  b = b
  Buffers = {1, 2, 3, 4}
  kMaxSmallSize = 1
  kMaxMediumSize = 2
  MaxSize = 4
  Names = {n1}
  Default = Default
  Own = Own
  Keys = {k1, k2, k3}
  Vals = {v1, v2, v3}
  Workers = {l1, l2, l3}
  SerialCount = 3
  MaxHeld = 1
  MaxLag = 2
  Cells = {c1}
  Modulus = 9
  MaxStores = 2
  ReadLockers = {r1, r2}
  WriteLockers = {w1, w2}
  Tasks = {t1, t2, t3}
  Priorities = {0, 1}
  ThreadLimits = {0, 1, 2}
  MaxReserved = 1
  MaxPageSize = 2
  None = None
SYMMETRY MCSymmetry
INVARIANTS RecursionCounted NoLostWakeUp SharingIsInvisible OneOfEach StructuresAgree PublishedAndHeld PoolSound
PROPERTIES ConcurrencyBound ImplementsIdPool ImplementsReadWriteLock
CHECK_DEADLOCK FALSE
