SPECIFICATION Safety
CONSTANTS
  s1 = s1
  Sessions <- MCSessions
  Mic = s1
  ChatCapacity = 1
  TtsCapacity = 2
  MaxTurns = 2
  MaxDeltas = 2
  MaxBatch = 1
INVARIANTS
  MarkerIsLast
  CancelledLeaveLittle
  BusyIsAccountedFor
