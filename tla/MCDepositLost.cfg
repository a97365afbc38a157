SPECIFICATION FairSpec
CONSTANTS
  p1 = p1
  p2 = p2
  t1 = t1
  t2 = t2
  Particle = {p1, p2}
  Thread = {t1, t2}
  Rays <- MCRays
  Atoms <- MCAtoms
  HOnly = TRUE
  Secondary = FALSE
  NoPhoton = FALSE
  CutOff = 2
  MaxSecion = 0
INVARIANTS LostIsTotal
