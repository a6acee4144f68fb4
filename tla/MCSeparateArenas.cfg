SPECIFICATION Spec
CONSTANTS
  PersistentHead = 1
  PersistentTail = 12
  BufferHead = 16
  BufferTail = 23
  SelfAlign = 2
  MaxTemps = 3
  SelfSizes <- MCSelfSizes
  Sizes <- MCSizes
  Alignments <- MCAlignments
PROPERTY KeepsPromise
