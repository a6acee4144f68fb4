SPECIFICATION Spec
CONSTANTS
  Models <- MCModels
  MaxTime = 9
  MaxCount = 3
INVARIANTS OutputsExact RecoversWithinPeriod
