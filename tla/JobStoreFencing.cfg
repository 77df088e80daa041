\* Two jobs of one task, two runners whose clocks differ by one unit, two claims
\* of each job; a lease can be renewed, expire, be revoked, and the job requeued
\* and claimed again by the other runner.
SPECIFICATION Spec
CONSTANTS
  Jobs = {j1, j2}
  Runners = {r1, r2}
  TaskOf <- SharedTask
  BranchOf <- SharedBranch
  CapableOf <- EveryRunner
  UsesCodex = {j1, j2}
  UsesBuild = {j1, j2}
  MaxCodex <- One
  MaxBuilds <- One
  Lease = 1
  StaleAfter = 2
  ClockOffset <- Offsets
  MaxAttempts = 2
  MaxTime = 3
SYMMETRY JobSymmetry
INVARIANTS TypeOK TablesAgree ExclusiveClaims LeaseIsRecent
PROPERTIES EndedAttemptsAreFrozen LeasesOnlyMoveForward ImplementsClaims
