SPECIFICATION Spec
CONSTANTS
  m1 = m1
  s1 = s1
  None = None
  Messages <- OneChannel
  Steps <- OneStep
  StepOf <- StepOfEach
  Workers = {w1, w2}
  Requests = {}
  MaxAttempts = 3
  MaxStalls = 1
  LockMayExpire = TRUE
  MaxCycles = 2
  MaxCrashes = 1
SYMMETRY Interchangeable
INVARIANT ClaimIsExclusive
INVARIANT DuplicatesNeedDoubt
INVARIANT EvaluatedAfterAcceptance
INVARIANT QueuedWasEnqueued
PROPERTY AcceptedNeverResent
PROPERTY UncertainNeverRetried
PROPERTY ImplementsOneSend
CHECK_DEADLOCK FALSE
