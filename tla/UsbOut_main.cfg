CONSTANTS
  QSize = 5
  SerialPackets <- MCPackets
  OscChunks <- MCChunks
  UsbMessages <- MCNoRoute
  LedSplit = TRUE
  PicWaits = TRUE
  Budget = 4
SPECIFICATION FairSpec
INVARIANTS DataReady WholeMessages
PROPERTIES Drains
