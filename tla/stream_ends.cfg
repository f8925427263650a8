SPECIFICATION FairSpec
CONSTANTS
  Streams = {r1, r2, r3}
  MaxConcurrentRpcs = 1
  MaxWorkers = 1
  RequestedSteps <- MCRequestedSteps
  DefaultSteps <- MCDefaultSteps
  MaxSteps <- MCMaxSteps
  Value <- MCValue
  NoMore = NoMore
  Failed = Failed
PROPERTIES
  HandlersEnd
