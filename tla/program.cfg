SPECIFICATION Spec
CONSTANTS
  c1 = c1
  c2 = c2
  Conns = {c1, c2}
  Capacity = 1
  MaxTasks = 3
  MaxCalls = 2
  MaxInterrupts = 2
  MaxLines = 2
  MaxTokens = 2
INVARIANTS
  StrayOnlyFromInside
PROPERTIES
  SignalEndsServer
