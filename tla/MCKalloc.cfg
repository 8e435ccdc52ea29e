SPECIFICATION Spec
CONSTANTS
  NHUGE = 3
  PPH = 2
  REFMOD = 4
  MAXREF = 3
INVARIANTS
  SectionCountExact
  CountersExact
  HeldIffAllocated
  KallocComplete
PROPERTY FramesSpec
