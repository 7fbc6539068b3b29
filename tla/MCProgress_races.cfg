SPECIFICATION Spec
CONSTANTS
  N = 3
  Evaluators = {e1, e2, e3}
  Campaigns <- OneOfEach
SYMMETRY Interchangeable
INVARIANT CurrentStepOpen
INVARIANT CompletedMeansDone
INVARIANT CompletedOnce
INVARIANT RuleWasMet
PROPERTY NeverMovesBack
CHECK_DEADLOCK FALSE
