CONSTANTS
  QSize = 5
  SerialPackets <- MCPackets
  OscChunks <- MCChunks
  UsbMessages <- MCMessages
  LedSplit = TRUE
  PicWaits = FALSE
  Budget = 2
SPECIFICATION Spec
INVARIANTS TypeOK
PROPERTIES SysexWhole ImplementsStream
