\* Every command line over a few selectors, Regions and roles, with services, a
\* network and a user that answer anything; then every short message.
SPECIFICATION FairSpec
CONSTANTS
  Identifiers = {"c1", "c2", "c3"}
  Accounts = {"acct"}
  Regions <- SomeRegions
  Selectors <- SomeSelectors
  Inventories <- SomeInventories
  Rank <- ByteOrder
  PageSize = 2
  Concurrency = 2
  MaxClusters = 2
  Tokens = {"t1", "t2"}
  FreshTokens = {"f1", "f2"}
  Details <- SomeDetails
  Usernames = {"", "admin", "app"}
  Inputs <- SomeInputs
  RootFiles <- SomeRootFiles
  MaxRootFiles = 1
  MaxRoots = 1
  Failures <- SomeFailures
  MaxDiagnostic = 8
  MaxChain = 1
  Messages <- SomeMessages
  Files = {1, 2}
  Lines <- SomeLines
  Disks <- SomeDisks
  HistoryCapacity = 2
  MaxEntryBytes = 2
  MaxFileBytes = 4
  MaxLines = 4
INVARIANTS TargetIsAsked UnattendedNeverAsks InventoryIsWhole DiagnosticIsSafe HistoryStaysBound
PROPERTY DiscoveryEnds
CHECK_DEADLOCK FALSE
