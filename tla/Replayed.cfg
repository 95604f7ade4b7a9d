SPECIFICATION Spec
CONSTANTS
  m1 = m1
  m2 = m2
  None = None
  NumTasks = 3
  Plans <- MCPlans
  MaxParallel = 2
  Strategies = {"fail_fast", "continue_then_synthesize"}
  MaxFaults = 1
INVARIANT NeverReplayed
CHECK_DEADLOCK FALSE
