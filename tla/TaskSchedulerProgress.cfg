\* Two faults in one dispatch, one review and one code repair, under the fairness of the
\* scheduler loop and of GitHub.
SPECIFICATION LiveTaskSpec
CONSTANTS
  CIRetryAttempts = 1
  MaxRepairs = 1
  KeepsCheckpoints = FALSE
  OthersPush = TRUE
  MaxSequence = 0
  MaxHeads = 1
  MaxAttempts = 1
  MaxCount = 1
  MaxFaults = 2
INVARIANTS TaskTypeOK WaitingWasValidated
PROPERTIES CountersNeverDecrease ReservationsAreReleased CIResultsAreActedOn
