\* Every statement kind, a clock that crosses the limit both ways, two values of
\* the settings, and output that may fail whatever the server has done.
SPECIFICATION Spec
CONSTANTS
  Statements <- PlainStatements
  Values = {v1, v2}
  ReconnectAge = 1
  MaxTime = 1
  MaxConnections = 3
INVARIANTS
  TypeOK
  PromptIsSound
  NeverReplayed
PROPERTIES
  SettingsSurviveRefresh
  NeverReconnectsAcrossTransaction
  UncertainIsFinal
  KeepsPromise
