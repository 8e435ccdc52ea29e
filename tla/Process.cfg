SPECIFICATION FairSpec
CONSTANTS
  NPROC = 3
  NHART = 2
INVARIANTS
  OneHart
  ParentAlive
PROPERTY
  WaitReturns
