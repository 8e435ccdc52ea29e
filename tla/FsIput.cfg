SPECIFICATION Spec
CONSTANTS
  BSIZE = 2
  NDIRECT = 2
  NINDIRECT = 2
  NBLOCK = 12
  NINODES = 5
  Name = {1, 2, 3, 4, 5}
  Proc = {1, 2, 3}
  NINODE = 8
  NFILE = 2
  NOFILE = 2
  CHUNK = 2
  Scene <- Again
INVARIANT NoLeak
CHECK_DEADLOCK FALSE
