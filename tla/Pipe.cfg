SPECIFICATION FairSpec
CONSTANTS
  p1 = p1
  p2 = p2
  p3 = p3
  Proc <- Procs
  Message <- Messages
  Scene <- Scenes
INVARIANTS
  FreedUnused
  NoLostWakeup
PROPERTIES
  Fifo
  ClosedReturns
