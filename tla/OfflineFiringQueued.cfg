\* two workflows whose nodes have the same name
CONSTANTS
  e1 = e1
  e2 = e2
  i1 = i1
  d1 = d1
  p1 = p1
  p2 = p2
  Scenes <- MCNamesakes
  MaxLateness = 1
  QueueTtl = 1
  Window = 2
  Rate = 1
SPECIFICATION Spec
PROPERTY OfflineFiringQueued
