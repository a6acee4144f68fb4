SPECIFICATION Spec
CONSTANTS
  BufferHead = 3
  BufferSize = 12
  SelfSize = 2
  SelfAlign = 2
  MaxTemps = 3
  Sizes <- MCSizes
  Alignments <- MCAlignments
PROPERTY KeepsPromise
INVARIANTS
  TypeOK
  Exclusive
  UsedBytesCover
  AvailableIsGrantable
  AuditExact
