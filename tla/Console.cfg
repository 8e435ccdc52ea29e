CONSTANTS
  Reader = {"p1"}
  Writer = {"p2", "p3"}
  Scene <- Scenes
  INPUT_BUF_SIZE = 3
  UART_TX_BUF_SIZE = 2
  FIFO = 2
  WRAP = 6
  TX_WRAP = 4
SPECIFICATION Spec
INVARIANTS
  NoLostWakeup
  NoOverrun
PROPERTIES
  LineDiscipline
  OutputInOrder
  WriterWoken
