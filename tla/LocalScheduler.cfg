SPECIFICATION LiveLocalSpec
CONSTANTS
  CIRetryAttempts = 1
  MaxDispatches = 2
  MaxFaults = 1
INVARIANTS LocalTypeOK WorkspaceIsExclusive TasksAreContracts
PROPERTIES RequestsAreNotLost ReadyIssuesAreTaken StoppedWorkersAreReconciled
  LostResultsReachTheRow
