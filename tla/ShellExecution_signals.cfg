\* Signals at every await of every statement of a submission.  The shell may end.
SPECIFICATION FairShellSpec
CHECK_DEADLOCK FALSE
CONSTANTS
  Statements <- TwoStatements
  Values = {v1}
  ReconnectAge = 1
  MaxTime = 0
  MaxConnections = 2
  MaxSubmission = 2
INVARIANTS
  DistrustedRunsNothing
PROPERTIES
  UsesSession
  Settles
