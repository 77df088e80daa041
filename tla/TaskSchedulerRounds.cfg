\* Rounds of review: two revisions of the branch, two dispatches and two reviews, and no
\* fault; every interleaving of the scheduler's reads and writes with a worker's.
SPECIFICATION TaskSpec
CONSTANTS
  CIRetryAttempts = 1
  MaxRepairs = 0
  KeepsCheckpoints = FALSE
  OthersPush = TRUE
  MaxSequence = 1
  MaxHeads = 2
  MaxAttempts = 1
  MaxCount = 0
  MaxFaults = 0
INVARIANTS ReadyRevisionsWereApproved ReadyFollowsGreenCI
PROPERTIES CountersNeverDecrease
