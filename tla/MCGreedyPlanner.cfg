SPECIFICATION Spec
CONSTANTS
  MaxBufferCount = 4
  IntMax = 7
  Sizes <- MCSizes
  Times <- MCTimes
  OfflineOffsets <- MCOffsets
INVARIANTS
  TypeOK
  NoOverlap
  PlanComplete
  FirstFit
  NoIntOverflow
PROPERTY PlanningEnds
