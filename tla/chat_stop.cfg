SPECIFICATION Spec
CONSTANTS
  io = io
  Stoppers <- MCStoppers
  Capacity = 2
  MaxLength = 5
  MaxTasks = 2
PROPERTIES
  StopTakesEffect
