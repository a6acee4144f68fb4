SPECIFICATION Spec
CONSTANTS
  Models <- FiveLayers
  MaxTime = 2
  MaxCount = 3
INVARIANT PeriodsByLayerNumber
