---------------------------- MODULE MCDashboard ----------------------------
(***************************************************************************)
(* Dashboard with two ranges of three samples, a cache of one snapshot,    *)
(* and two metrics, of which CloudWatch holds recent points or old ones,   *)
(* some of them no numbers, outside the window, or in one period.          *)
(***************************************************************************)
EXTENDS Dashboard

CONSTANTS t1, t2

MCRanges == {"15m", "1h"}
MCRangeSpec ==
  [r \in MCRanges |-> IF r = "15m" THEN [duration |-> 3, period |-> 1]
                      ELSE [duration |-> 6, period |-> 2]]
MCMetrics == {"total_transactions", "read_only_transactions"}

World(total, read_only) ==
  [m \in MCMetrics |-> IF m = "total_transactions" THEN total ELSE read_only]
Point(at, value) == [at |-> at, value |-> value]

MCWorlds ==
  {World(<<Point(10, <<4>>), Point(11, <<8>>)>>, <<Point(10, <<>>), Point(11, <<2>>)>>),
   World(<<Point(6, <<0>>), Point(12, <<8>>)>>, <<Point(5, <<1>>)>>)}

MCAnswers ==
  {[code |-> "Complete", warned |-> FALSE], [code |-> "Complete", warned |-> TRUE],
   [code |-> "PartialData", warned |-> FALSE]}

MCTokens == {t1, t2}
MCDefaultRange == "1h"

MCAreas ==
  {[width |-> 79, height |-> 40], [width |-> 80, height |-> 22], [width |-> 120, height |-> 38]}
=============================================================================
