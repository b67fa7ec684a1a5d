SPECIFICATION Spec
CONSTANTS
  w1 = w1  w2 = w2  o1 = o1  o2 = o2  c1 = c1
  NoOwner = NoOwner
  Run <- OneRun
  Worker <- TwoWorkers
  OwnerId = {o1, o2}
  WorkerId <- OwnId
  Conversation = {c1}
  ConvOf <- OneConv
  MaxAttempts = 2
  LeaseTicks = 3
  HeartbeatTicks = 1
  LockWait = 0
  MaxSilence = 4
  DbErrors = FALSE
  MaxCrashes = 0
PROPERTIES LegalTransitions
