SPECIFICATION FairSpec
CONSTANTS
  e1 = e1
  e2 = e2
  SlotsPerDay = 2
  MidnightHour = 0
  OrgCount = 2
  Enrollments <- Two
  OrgOf <- OneEach
  N = 2
  Settings <- SomeSettings
  Processes = {p1, p2}
  MaxOrgsPerCycle = 1
  MaxCandidatesPerOrg = 2
  Horizon = 5
  LastEnrollment = 0
  MaxDisturbances = 1
INVARIANT OrgServedInTurn
INVARIANT StepsInOrder
PROPERTY QueuedWhenDue
PROPERTY DueIsQueued
CHECK_DEADLOCK FALSE
