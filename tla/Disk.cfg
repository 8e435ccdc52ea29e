CONSTANTS
  Proc = {1, 2}
  Block = {1, 2, 3}
  Data = {0, 1}
  NBUF = 2
  Scene <- Scenes
  RING = 2
  IDX = 4
SPECIFICATION Spec
INVARIANTS
  ReadsLatest
  RequestsExact
  NoLostWakeup
PROPERTY RequestServed
