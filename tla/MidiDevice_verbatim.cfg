CONSTANTS
  QueueLength = 3
  InputBytes <- MCSysexBytes
SPECIFICATION WireSpec
INVARIANTS HeardVerbatim
