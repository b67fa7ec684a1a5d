SPECIFICATION FairSpec
CONSTANTS
  w1 = w1  w2 = w2  o1 = o1  o2 = o2  d1 = d1  d2 = d2
  NoOwner = NoOwner
  Job <- OneJob
  Document = {d1, d2}
  DocOf <- OwnDoc
  Worker <- TwoWorkers
  OwnerId = {o1, o2}
  WorkerId <- OwnId
  MaxAttempts = 2
  LeaseTicks = 3
  HeartbeatTicks = 1
  LockWait = 0
  MaxSilence = 2
  MaxRetries = 1
  MaxFaults = 1
INVARIANTS TypeOK SingleExecutor RecordsAgree
PROPERTIES LegalTransitions CancelWins JobsEnd
