SPECIFICATION FairSolverSpec
CONSTANTS
  Tout = 5
  Eps = 2
  MaxH = 2
  MXORDN = 3
  MXORDS = 2
  StiffOrder = 2
  MXNCF = 2
  MaxErr = 4
  MAXCOR = 3
  MSBP = 2
  ICount = 0
  MxStep0 = 1
  MaxMx = 2
  NSteps = 2
INVARIANTS SolverTypeOK OrderFits MatrixFits Resumes
PROPERTY StepEnds
