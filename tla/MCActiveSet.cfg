SPECIFICATION FairSpec
CONSTANTS
  Particle = {p1, p2, p3}
  MaxHits = 2
  HitLists <- MCHitLists
  NRay = 1
  MaxRec = 1
  MaxThreads = 3
  NEpochs = 2
  NTicks <- MCNTicks
  TickTime <- MCTickTime
  TraceOnly = FALSE
  None = None
INVARIANTS
  TypeOK
  MergeExact
  SampleExact
  Exclusive
  EvolvedOnce
  TimeAccounted
PROPERTIES
  Termination
