SPECIFICATION Spec
CONSTANTS
  s1 = s1
  s2 = s2
  s3 = s3
  Steps = {s1, s2, s3}
  Contents = {v1}
  Blank = Blank
  Spaces = Spaces
  Forms <- Typed
  SlotsPerDay = 24
  MidnightHour = 24
  NoStep = NoStep
  Numbers <- TwoSteps
  Calls = {k1, k2}
  MaxChanges = 4
SYMMETRY Interchangeable
INVARIANT TypeOK
INVARIANT ShownScheduleIsUsed
INVARIANT ReorderHarmless
INVARIANT RevivedOnlyByRace
CHECK_DEADLOCK FALSE
