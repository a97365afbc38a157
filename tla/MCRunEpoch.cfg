SPECIFICATION Spec
CONSTANTS
  Source = {1}
  Particle = {1, 2}
  Species = {0}
  Configs <- MCConfigs
  History <- MCHistory
  Yields <- MCYields
  Threshold = 0
  Atoms <- MCAtoms
  NTicks = 2
  NEpochs = 2
  InitialSize = 2
  SizeT = 16
  HitLists <- MCHitLists
  NoPhoton = FALSE
  TraceOnly = FALSE
INVARIANT Conserved
PROPERTY ImplementsEmission
