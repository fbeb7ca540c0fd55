SPECIFICATION Spec
CONSTANTS
  Levels = {0, 1, 3}
  Labels = {L1}
  Callbacks = {b1, b2}
  Loggers = {g1}
  Full = Full
  Labelled = Labelled
  Plain = Plain
  Builtin = Builtin
  None = None
INVARIANTS AsyncMessagesArrive
CHECK_DEADLOCK FALSE
