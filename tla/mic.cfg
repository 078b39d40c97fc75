SPECIFICATION Spec
CONSTANTS
  s1 = s1
  s2 = s2
  Nobody = Nobody
  Sessions <- MCSessions
  Capacity = 2
  FrameSize = 2
  WindowSize = 3
  MaxFrames = 6
  MaxReleases = 1
INVARIANTS
  OwnerAgrees
  OneStrayPerRelease
  SpeechIsAnnounced
PROPERTIES
  HeardInOrder
  CallsReturn
