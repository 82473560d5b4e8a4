CONSTANTS
  QSize = 5
  SerialPackets <- MCPackets
  OscChunks <- MCNoRoute
  UsbMessages <- MCNoRoute
  LedSplit = FALSE
  PicWaits = TRUE
  Budget = 2
SPECIFICATION Spec
INVARIANTS NeverUnderruns
CHECK_DEADLOCK FALSE
