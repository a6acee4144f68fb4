SPECIFICATION Spec
CONSTANTS
  Models <- MCModels
  MaxInvokes = 2
  MaxIterations = 2
  OpsFail = TRUE
INVARIANTS
  NothingLost
  OutputsDelivered
  CurrentIsRunning
  CallOnceRunsOnce
PROPERTIES
  ReachableHaveLifetimes
  CallersOverlapCallees
  EachOpOnceInOrder
  InvokeReturns
