SPECIFICATION WrapSpec
CONSTANTS
  Threads = {p1, p2}
  Total = 4
  BlockFor <- OneArray
  SerialCount = 128
  MaxHeld = 2
  MaxLag = 128
INVARIANTS OneOwner
