SPECIFICATION Spec
CONSTANTS
  NHUGE = 5
  PPH = 2
  REFMOD = 8
  NPROC = 3
  NBLOCK = 1
  NSLOT = 1
  REUSE = FALSE
  Scene <- ForkRace
INVARIANT
  NoPanic
