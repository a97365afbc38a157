SPECIFICATION FairSpec
CONSTANTS
  Id = {0, 1, 2, 3, 4}
  Bucket <- MCBucket
  Snapshots <- MCSnapshots
  MaxShift = 2
  Headroom = 150
  IdBytes = 8
  NTicks <- MCNTicks
  TickTime <- MCTickTime
  HOnly = FALSE
  LoopEnd = 2
  Nfiles = 2
  NEpochs = 3
INVARIANTS TypeOK CompressExact Mirrors GasFollows LasthitPast
PROPERTIES SwitchEnds
