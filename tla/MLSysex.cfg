CONSTANTS
  EepromSize = 128
  DefaultConfig <- MCDefaultConfig
  UsbMessages <- MCUsbMessages
  SerialMessages <- MCSerialMessages
  Budget = 3
  PowerCuts = 1
SPECIFICATION Spec
INVARIANTS TypeOK EepromAsSent NothingElseWritten OneWriter
CHECK_DEADLOCK FALSE
