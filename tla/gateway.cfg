SPECIFICATION FairSpec
CONSTANTS
  Requests = {q1, q2}
  MaxAttempts = 2
  SidecarCodes <- MCSidecarCodes
INVARIANTS
  TypeOK
  AnswerTellsTheTruth
  GracefulExit
  IInv
PROPERTIES
  ListensAnyway
  RequestsAnswered
  ShutdownEnds
  ReadinessRecovers
