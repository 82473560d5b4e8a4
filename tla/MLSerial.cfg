CONSTANTS
  QSize = 5
  LineBytes <- MCLineBytes
  ThruMax = 2
  Budget = 2
SPECIFICATION FairSpec
INVARIANTS TypeOK NeverReadsNothing OneLostPerCut
PROPERTIES ImplementsStream RingDrains
