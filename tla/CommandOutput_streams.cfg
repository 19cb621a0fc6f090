\* Scripts and a shell whose statements and pagers answer anything, over a narrow
\* and a wide terminal.
SPECIFICATION FairSpec
CONSTANTS
  Displays = {4, 9}
  AutoWidth = 6
  Headers <- SomeHeaders
  Rows <- SomeRows
  BufferRecords = 2
  PipeCapacity = 1
  MaxRows = 2
  MaxNotices = 1
  MaxStatements = 2
CHECK_DEADLOCK FALSE
INVARIANTS
  StreamIsFramed
  OutputIsFaithful
  LinesFit
  PagerIsReaped
PROPERTIES
  PromptReturns
