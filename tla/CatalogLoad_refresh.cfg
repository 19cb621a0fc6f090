\* Loads whose queries fail, are late or are cut off, between statements that
\* change the schema.
SPECIFICATION FairCatalogSpec
CONSTANTS
  Statements <- SchemaStatements
  CatalogQuery <- Query
  CatalogQueries = 2
  Answers <- LimitAnswers
  RowLimit = 2
  FieldBytes = 2
  TotalBytes = 3
  MaxSchema = 1
  Values = {v1}
  ReconnectAge = 1
  MaxTime = 0
  MaxConnections = 2
INVARIANTS
  FreshSnapshotIsCurrent
  AbandonedConnectionRests
PROPERTIES
  LoadUsesSession
  LoadKeepsState
  LoadEnds
