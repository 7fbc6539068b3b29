SPECIFICATION FairSpec
CONSTANTS
  m1 = m1
  s1 = s1
  None = None
  Messages <- OneChannel
  Steps <- OneStep
  StepOf <- StepOfEach
  Workers = {w1, w2}
  Requests = {r1}
  MaxAttempts = 3
  MaxStalls = 1
  LockMayExpire = FALSE
  MaxCycles = 1
  MaxCrashes = 2
PROPERTY StepNeverRegresses
PROPERTY EveryJobSettles
PROPERTY SentIsEvaluated
CHECK_DEADLOCK FALSE
