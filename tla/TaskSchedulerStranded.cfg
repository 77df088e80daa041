\* A task is left running with nothing working on it.
SPECIFICATION LiveTaskSpec
CONSTANTS
  CIRetryAttempts = 1
  MaxRepairs = 0
  KeepsCheckpoints = TRUE
  OthersPush = TRUE
  MaxSequence = 0
  MaxHeads = 1
  MaxAttempts = 1
  MaxCount = 1
  MaxFaults = 1
PROPERTIES StrandedTasksAreReconciled
