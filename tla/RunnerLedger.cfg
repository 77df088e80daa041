\* Two jobs and two faults: a submit command, a worker or the host dies, or a call
\* raises, at any two points.
SPECIFICATION LiveLedgerSpec
CONSTANTS
  Jobs = {j1, j2}
  MaxFaults = 2
CHECK_DEADLOCK FALSE
INVARIANTS LedgerTypeOK OutcomesProveTheEnd
PROPERTIES CommandsRunOnce FinalStatusIsKept CancelledJobsEnd SubmittedJobsStart
