SPECIFICATION Spec
CONSTANTS
  Clients = {c1}
  c1 = c1
  MaxRuns = 2
  NoOne = NoOne
  Careful = FALSE
PROPERTIES IdleCanBeStarted
