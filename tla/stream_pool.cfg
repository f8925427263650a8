SPECIFICATION PoolSpec
CONSTANTS
  Streams = {r1, r2, r3}
  MaxConcurrentRpcs = 2
  MaxWorkers = 1
  RequestedSteps <- MCRequestedSteps
  DefaultSteps <- MCDefaultSteps
  MaxSteps <- MCMaxSteps
  Value <- MCValue
  NoMore = NoMore
  Failed = Failed
PROPERTIES
  WorkersFreed
