SPECIFICATION AllocationSpec
CONSTANTS
  one = one
  two = two
  Interpreters = {one, two}
  ModelOf <- MCModelOf
  BufferHead = 4
  BufferSize = 30
  SelfSize = 1
  SelfAlign = 1
  MaxTemps = 2
  Sizes = {}
  Alignments = {1, 2}
  kMaxScratchBuffersPerOp = 2
  RequestSize = 1
  HandleSize = 1
  StructSize = 2
  InfoSize = 1
  PlanSize = 1
  VariableSize = 2
  KernelSizes <- MCKernelSizes
  StructAlign = 1
  ArenaAlign = 2
INVARIANT InvokesKeepPersistent
CHECK_DEADLOCK FALSE
