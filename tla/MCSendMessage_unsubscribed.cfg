SPECIFICATION Spec
CONSTANTS
  m1 = m1
  s1 = s1
  None = None
  Messages <- OneChannel
  Steps <- OneStep
  StepOf <- StepOfEach
  Workers = {w1}
  Requests = {}
  MaxAttempts = 3
  MaxStalls = 1
  LockMayExpire = FALSE
  MaxCycles = 1
  MaxCrashes = 0
PROPERTY PreparationSkipsUnsubscribed
CHECK_DEADLOCK FALSE
