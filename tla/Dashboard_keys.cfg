\* Keys in any order while CloudWatch answers, fails, or is silent, for two ranges and
\* two metrics.
CONSTANTS
  t1 = t1
  t2 = t2
  Ranges <- MCRanges
  RangeSpec <- MCRangeSpec
  Now = 13
  Metrics <- MCMetrics
  Worlds <- MCWorlds
  Answers <- MCAnswers
  Tokens <- MCTokens
  DefaultRange <- MCDefaultRange
  Areas <- MCAreas
  MaxPages = 2
  MaxCached = 1
  MaxEvents = 1
SPECIFICATION FairSpec
INVARIANTS TypeOK FreshIsSound ScreenIsTrue ShownIsAsked TerminalIsReturned
PROPERTY QuitEnds
CHECK_DEADLOCK FALSE
