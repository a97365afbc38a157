SPECIFICATION SourceSpec
CONSTANTS
  None = None
  SourceLists <- MCLists
  NEpochs = 2
  Spectra = {"sun", "uv"}
  Formats = {"a", "time_q", "z", "redshift", "myr", "tick", "gyr"}
  Locations = {"", "absolute", "relative"}
  Age <- MCAge
  Inverse1p <- MCInverse1p
  PiR2 <- MCPiR2
  Myr <- MCMyr
  EpochAge <- MCEpochAge
  TickTime <- MCTickTime
  BoxSize = 5
  Boost = 2
  PerLum = 7
INVARIANT TimesMeant
