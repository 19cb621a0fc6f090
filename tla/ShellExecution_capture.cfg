\* Ctrl-C while the settings are captured inside a transaction.
SPECIFICATION ShellSpec
CONSTANTS
  Statements <- FewStatements
  Values = {v1}
  ReconnectAge = 1
  MaxTime = 1
  MaxConnections = 2
  MaxSubmission = 1
INVARIANTS
  AcceptedStaysSuccessful
