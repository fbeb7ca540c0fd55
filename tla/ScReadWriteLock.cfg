SPECIFICATION Spec
CONSTANTS
  Locks = {l1}
  Threads = {p1, p2, p3}
  Blocks = {b1, b2, b3}
  NoBlock = NoBlock
  NoLock = NoLock
  Timeouts = {"none", "some", "forever"}
SYMMETRY Symmetry
INVARIANTS MutualExclusion CountsExact NoLostWakeUp
PROPERTIES WaitingWriterHoldsBackReaders ImplementsReadWriteLock
