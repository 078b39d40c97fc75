SPECIFICATION Spec
CONSTANTS
  p1 = p1
  p2 = p2
  c1 = c1
  c2 = c2
  v1 = v1
  v2 = v2
  None = None
  Producers <- MCProducers
  Consumers <- MCConsumers
  Stoppable <- MCStoppable
  Values <- MCValues
  Capacity = 2
INVARIANTS
  NoLostItem
  NoLostRoom
PROPERTIES
  ImplementsChannel
  StopReleases
  StoppedWorkersExit
