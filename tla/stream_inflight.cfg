SPECIFICATION Spec
CONSTANTS
  Streams = {r1, r2}
  MaxConcurrentRpcs = 1
  MaxWorkers = 2
  RequestedSteps <- MCRequestedSteps
  DefaultSteps <- MCDefaultSteps
  MaxSteps <- MCMaxSteps
  Value <- MCValue
  NoMore = NoMore
  Failed = Failed
SYMMETRY Symmetry
INVARIANTS
  InflightBound
