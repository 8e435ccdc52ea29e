CONSTANTS
  Proc = {1, 2}
  Hart = {11, 12}
  Boot = 11
  Scene <- Scenes
  TICKS = 3
SPECIFICATION Spec
INVARIANTS
  NoPanic
  LocksMaskInterrupts
  InterruptsOn
  OwnCpu
  SleepersWoken
