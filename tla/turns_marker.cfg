SPECIFICATION Spec
CONSTANTS
  s1 = s1
  Sessions <- MCSessions
  Mic = s1
  ChatCapacity = 1
  TtsCapacity = 1
  MaxTurns = 2
  MaxDeltas = 1
  MaxBatch = 1
PROPERTIES
  OldMarkerDiscarded
