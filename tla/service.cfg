CONSTANTS
  MaxRequests = 4
  MaxRestarts = 1
  Databases <- MCDatabases
  None = None
SPECIFICATION Spec
INVARIANTS AnswersAreKept JobsMatchResults DecisionsRestOnResults
