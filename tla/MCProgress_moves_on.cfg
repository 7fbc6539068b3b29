SPECIFICATION FairSpec
CONSTANTS
  N = 2
  Evaluators = {e1, e2}
  Campaigns <- WithoutReplies
PROPERTY EnrollmentMovesOn
PROPERTY ClickCompletesStep
CHECK_DEADLOCK FALSE
