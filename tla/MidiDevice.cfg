CONSTANTS
  QueueLength = 3
  InputBytes <- MCBytes
SPECIFICATION WireFairSpec
INVARIANTS TypeOK HeardAsSent InsideBuffer NeverTakesAbsent
PROPERTIES ProcessReturns
