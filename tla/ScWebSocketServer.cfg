SPECIFICATION Spec
CONSTANTS
  Connections = {x1, x2}
  NoContext = NoContext
  NoAnswer = NoAnswer
INVARIANTS HostAndKeyAreRequired
CHECK_DEADLOCK FALSE
