CONSTANTS
  MaxRequests = 2
  MaxRestarts = 0
  Databases <- MCMemory
  None = None
SPECIFICATION Spec
INVARIANT CompletedJobsHaveResults
