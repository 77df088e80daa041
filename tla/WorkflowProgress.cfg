\* One fault at any point of one workflow, in either mode, with every way to resume it.
\* A workflow that is completed or cannot be resumed stops: no deadlock is checked.
SPECIFICATION LiveWorkflowSpec
CONSTANTS
  StepCount = 1
  MaxAttempts = 2
  MaxFinalAttempts = 2
  MaxTree = 1
  MaxCommits = 1
  MaxFaults = 1
CHECK_DEADLOCK FALSE
INVARIANTS WorkflowTypeOK EffectsAreAnnounced
PROPERTIES PushesAreApproved ForeignCommitsSurvive RunsEnd
