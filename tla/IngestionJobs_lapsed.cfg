SPECIFICATION Spec
CONSTANTS
  w1 = w1  w2 = w2  o1 = o1  o2 = o2  d1 = d1  d2 = d2
  NoOwner = NoOwner
  Job <- TwoJobs
  Document = {d1}
  DocOf <- OneDoc
  Worker <- TwoWorkers
  OwnerId = {o1, o2}
  WorkerId <- SameId
  MaxAttempts = 1
  LeaseTicks = 2
  HeartbeatTicks = 1
  LockWait = 0
  MaxSilence = 2
  MaxRetries = 0
  MaxFaults = 0
INVARIANTS ActiveParseIsReported DocumentSettles
SYMMETRY Workers
