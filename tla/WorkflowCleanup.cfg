\* One cleanup fails: its stage is still in the checkpoint when the workflow blocks again.
SPECIFICATION WorkflowSpec
CONSTANTS
  StepCount = 1
  MaxAttempts = 2
  MaxFinalAttempts = 2
  MaxTree = 1
  MaxCommits = 1
  MaxFaults = 1
CHECK_DEADLOCK FALSE
INVARIANT PublishedWasValidated
