\* Every script of up to five tokens of one family, cut into chunks in every way.
\* A script may end in any way.
SPECIFICATION Spec
CHECK_DEADLOCK FALSE
CONSTANTS
  Scripts <- SomeScripts
  MaxTokens = 5
  MaxStatementBytes = 9
  MaxChunk = 4
INVARIANTS
  ChunksDoNotMatter
  OutcomeIsJust
  RefusedAsAWhole
