\* The workflow of a published pull request is asked to repair what CI found.
SPECIFICATION WorkflowSpec
CONSTANTS
  StepCount = 1
  MaxAttempts = 2
  MaxFinalAttempts = 2
  MaxTree = 1
  MaxCommits = 1
  MaxFaults = 1
CHECK_DEADLOCK FALSE
INVARIANT RepairsReachTheCoder
