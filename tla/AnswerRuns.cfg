SPECIFICATION Spec
CONSTANTS
  w1 = w1  w2 = w2  o1 = o1  o2 = o2  c1 = c1
  NoOwner = NoOwner
  Run <- TwoRuns
  Worker <- TwoWorkers
  OwnerId = {o1, o2}
  WorkerId <- OwnId
  Conversation = {c1}
  ConvOf <- OneConv
  MaxAttempts = 2
  LeaseTicks = 4
  HeartbeatTicks = 1
  LockWait = 1
  MaxSilence = 2
  DbErrors = TRUE
  MaxCrashes = 1
INVARIANTS TypeOK SingleExecutor OutcomeAgrees TerminalEventIsLast AttemptsAccounted NothingAfterRemoval
PROPERTIES LegalTransitions ImplementsLifecycle
