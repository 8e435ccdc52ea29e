SPECIFICATION FairSpec
CONSTANTS
  Proc = {"p1", "p2", "p3"}
  Block = {"a", "b", "c", "d", "e"}
  Val = {0, 1}
  InitVal = 0
  MAXOPBLOCKS = 2
  Scene <- Scenes
INVARIANTS
  NoPanic
PROPERTIES
  Atomic
  Woken
