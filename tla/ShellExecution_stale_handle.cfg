\* Ctrl-C while the connection is being replaced.
SPECIFICATION ShellSpec
CONSTANTS
  Statements <- FewStatements
  Values = {v1}
  ReconnectAge = 1
  MaxTime = 1
  MaxConnections = 2
  MaxSubmission = 1
INVARIANTS
  InterruptReachesStatement
