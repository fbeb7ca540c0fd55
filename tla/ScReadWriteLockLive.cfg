SPECIFICATION FairSpec
CONSTANTS
  Locks = {l1}
  Threads = {p1, p2, p3}
  Blocks = {b1}
  NoBlock = NoBlock
  NoLock = NoLock
  Timeouts = {"some", "forever"}
PROPERTIES FreeLockIsTaken
