CONSTANTS
  EepromSize = 128
  DefaultConfig <- MCDefaultConfig
  UsbMessages <- MCUsbMessages
  SerialMessages <- MCSerialMessages
  Budget = 3
  PowerCuts = 1
SPECIFICATION Spec
INVARIANTS VersionMeansValid
CHECK_DEADLOCK FALSE
