SPECIFICATION Spec
CONSTANTS
  io = io
  audio = audio
  s1 = s1
  s2 = s2
  NoCallbacks = NoCallbacks
  Cancellers <- MCCancellers
  Sessions <- MCSessions
  Capacity = 2
  MaxEpoch = 3
  MaxInstalls = 2
SYMMETRY MCSymmetry
INVARIANTS
  QueueHoldsNoCancelled
  StaleAtMostOncePerCancel
  LateAtMostOncePerInstall
