SPECIFICATION Spec
CONSTANTS
  MaxTurns = 2
  MaxClicks = 1
  MaxStarts = 2
  MaxDrops = 1
  MaxEvents = 2
  MaxDeltas = 1
INVARIANTS
  NoMixedBubble
  QuietMeansIdle
  MicReleased
CHECK_DEADLOCK FALSE
