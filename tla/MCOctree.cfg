SPECIFICATION FairSpec
CONSTANTS
  Dim = 2
  Boxsize = 4
  NPar = 4
  Layouts <- MCLayouts
  Sml <- MCSml
  PPC = 2
  Rays <- MCRays
  NEpochs = 2
  MaxPool = 60
  None = None
INVARIANTS TreeExact TraceExact
PROPERTY Built
