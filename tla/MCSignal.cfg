SPECIFICATION SignalSpec
CONSTANTS
  Kernels <- MCKernels
  OverlapSamples <- MCOverlapSamples
  SampleMax = 2
  Capacity = 4
  Samples = {0, 1}
INVARIANTS RoomForNext FramesExact StacksExact DelayExact OverlapAddExact SvdfExact LstmExact ReadsAgree
PROPERTY IsWindow
