\* a schedule over two revisions with three slots and a flush; an event with an id,
\* one without and a repeated delivery; two events of one id with two flushes; a
\* start that throws and a crash in each
CONSTANTS
  e1 = e1
  e2 = e2
  i1 = i1
  d1 = d1
  p1 = p1
  p2 = p2
  Scenes <- MCScenes
  MaxLateness = 1
  QueueTtl = 1
  Window = 2
  Rate = 1
SPECIFICATION FairSpec
INVARIANTS MemoryAgrees
PROPERTIES FiringsHold QueueHolds
