SPECIFICATION Spec
CONSTANTS
  Source = {1, 2}
  Particle = {1, 2}
  Species = {0}
  Configs <- MCConfigs
  History <- MCHistory
  Yields <- MCYields
  Threshold = 0
  Atoms <- MCAtoms
  NTicks = 3
  NEpochs = 2
  InitialSize = 2
  SizeT = 16
INVARIANTS TypeOK Budget Balance GetsThrough
