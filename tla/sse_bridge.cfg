SPECIFICATION FairSpec
CONSTANTS
  Streams = {r1}
  MaxSteps <- MCMaxSteps
  Value <- MCValue
  MaxAttempts = 3
  HighWater = 2
INVARIANTS
  TypeOK
  OneTerminalEvent
  NoAbandonedCall
  SocketBounded
  ClientIsPromised
  IInv
PROPERTIES
  KeepsContract
  RouteEnds
