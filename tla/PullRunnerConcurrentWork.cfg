\* Two jobs of one task, as the scheduler enqueues them when the first went uncertain,
\* and two runner hosts. One claim of each job is enough, and no process dies.
SPECIFICATION RunnerSpec
CONSTANTS
  Jobs = {j1, j2}
  Runners = {r1, r2}
  TaskOf <- SharedTask
  BranchOf <- SharedBranch
  CapableOf <- EveryRunner
  UsesCodex = {j1, j2}
  UsesBuild = {j1, j2}
  MaxCodex <- One
  MaxBuilds <- One
  Lease = 1
  StaleAfter = 2
  ClockOffset <- NoOffset
  MaxAttempts = 1
  MaxTime = 3
  MaxFaults = 0
  Horizon = 3
INVARIANTS NoConcurrentWork
