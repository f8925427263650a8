SPECIFICATION Spec
CONSTANTS
  MaxConcurrentRpcs = 2
  MaxWorkers = 1
  Calls = {c1, c2}
  Streams = {s1}
  Requests <- MCRequests
  Unset = Unset
  DefaultModel = DefaultModel
  InputA = InputA
  InputB = InputB
  Configs = {small}
  Malformed = {garbage}
  Undecodable = {binary}
  NoValue = NoValue
  Failed = Failed
INVARIANTS FailOpen
