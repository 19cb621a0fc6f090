\* The driver reports the loss before it clears the liveness flag.
SPECIFICATION Spec
CONSTANTS
  Statements <- FewStatements
  Values = {v1}
  ReconnectAge = 1
  MaxTime = 1
  MaxConnections = 3
PROPERTIES
  LostTransactionIsUncertain
