\* One job, one runner host, two claims and up to two faults, each at any point, and an
\* uncertain attempt requeued; under the fairness of the operating system, launchd and
\* the clock.
SPECIFICATION LiveRunnerSpec
CONSTANTS
  Jobs = {j1}
  Runners = {r1}
  TaskOf <- SharedTask
  BranchOf <- SharedBranch
  CapableOf <- EveryRunner
  UsesCodex = {j1}
  UsesBuild = {j1}
  MaxCodex <- One
  MaxBuilds <- One
  Lease = 1
  StaleAfter = 2
  ClockOffset <- NoOffset
  MaxAttempts = 2
  MaxTime = 4
  MaxFaults = 2
  Horizon = 3
INVARIANTS RunnerTypeOK LiveChildrenAreAccountedFor VerdictsAreTheChilds
PROPERTIES EndedChildrenAreResolved FencedChildrenEnd OrphanedClaimsEnd
