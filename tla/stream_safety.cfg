SPECIFICATION Spec
CONSTANTS
  Streams = {r1, r2, r3, r4}
  MaxConcurrentRpcs = 2
  MaxWorkers = 1
  RequestedSteps <- MCRequestedSteps
  DefaultSteps <- MCDefaultSteps
  MaxSteps <- MCMaxSteps
  Value <- MCValue
  NoMore = NoMore
  Failed = Failed
SYMMETRY Symmetry
INVARIANTS
  TypeOK
  PermitConservation
  NoStrandedPermit
  BacklogBounded
  IInv
PROPERTIES
  NoStepAfterEnd
  KeepsContract
