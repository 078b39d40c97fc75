SPECIFICATION Spec
CONSTANTS
  io = io
  Stoppers <- MCStoppers
  Capacity = 2
  MaxLength = 6
  MaxTasks = 3
INVARIANTS
  SystemPromptFirst
  MemoryIsConversation
PROPERTIES
  StopIsFinal
  EveryTaskAnswered
  ShutdownCompletes
  ImplementsContract
