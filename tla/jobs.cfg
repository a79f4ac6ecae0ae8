CONSTANTS
  JobIds = {"a", "b"}
  Runs = {1, 2}
  Requests <- MCRequests
  Directories = {"a", "b"}
  Namings <- MCNamings
  Callers = {"main"}
  PoolSizes = {1, 2}
  MaxRestarts = 1
  None = None
  Broken = Broken
SPECIFICATION Spec
INVARIANTS TypeOK ReportsHaveResult CompletedIsCurrent WaitOutlastsItsRun
PROPERTIES AcceptedJobsEnd CallersReturn
