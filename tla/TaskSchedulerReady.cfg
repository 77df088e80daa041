\* A revision nobody but a repair pushed becomes READY and its checks never ran.
SPECIFICATION TaskSpec
CONSTANTS
  CIRetryAttempts = 1
  MaxRepairs = 0
  KeepsCheckpoints = FALSE
  OthersPush = FALSE
  MaxSequence = 1
  MaxHeads = 2
  MaxAttempts = 1
  MaxCount = 0
  MaxFaults = 0
INVARIANTS ReadyRevisionsPassedCI
