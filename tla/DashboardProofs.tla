--------------------------- MODULE DashboardProofs ---------------------------
(***************************************************************************)
(* The terminal of the dashboard, its cache and its figures, for any       *)
(* ranges, metrics, points, answers of CloudWatch and bounds.              *)
(***************************************************************************)
EXTENDS Dashboard, FiniteSetTheorems, DataInduction, TLAPS

\* The terminal is raw while the dashboard is open, and monitored only then.
TerminalInv ==
  /\ phase \in Active \cup {"closed", "closing", "ended"}
  /\ phase \in Active \cup {"closing"} => raw
  /\ monitor => phase \in Active \cup {"closing"}

\* Every step of an open dashboard leaves the mode of the terminal alone, and none
\* but Open starts a monitor.
LEMMA LoopKeepsTerminal ==
  ASSUME TerminalInv,
         \/ Terminate \/ MonitorReads \/ MonitorFails \/ MonitorStops
         \/ PageArrives \/ FetchSucceeds \/ FetchThrottled \/ FetchFails
         \/ HandleEvent \/ TimerFires
  PROVE  TerminalInv'
<1> USE DEF TerminalInv, Active
<1>1. CASE Terminate
  BY <1>1 DEF Terminate, Close, Dropped
<1>2. CASE MonitorReads
  BY <1>2 DEF MonitorReads, loopVars
<1>3. CASE MonitorFails \/ MonitorStops
  BY <1>3 DEF MonitorFails, MonitorStops, loopVars
<1>4. CASE PageArrives
  BY <1>4 DEF PageArrives, loopVars, terminalVars
<1>5. ASSUME NEW result, NEW slowed, Show(result, slowed), phase = "fetching"
      PROVE  TerminalInv'
  BY <1>5 DEF Show, Dropped
<1>6. CASE FetchSucceeds \/ FetchThrottled \/ FetchFails
  <2>1. phase = "fetching"
    BY <1>6 DEF FetchSucceeds, FetchThrottled, FetchFails
  <2>2. CASE FetchSucceeds
    <3>1. PICK snapshot : Show(Shown(snapshot), FALSE)
      BY <2>2, Zenon DEF FetchSucceeds
    <3> QED  BY <3>1, <2>1, <1>5
  <2>3. CASE FetchThrottled \/ FetchFails
    BY <2>1, <2>3, <1>5 DEF FetchThrottled, FetchFails
  <2> QED  BY <1>6, <2>2, <2>3
<1>7. CASE HandleEvent
  <2>1. CASE Close
    BY <1>7, <2>1 DEF HandleEvent, Close, Dropped
  <2>2. CASE \E selected : Fetching(selected)
    BY <1>7, <2>2 DEF HandleEvent, Fetching
  <2>3. CASE Redraw
    BY <1>7, <2>1, <2>3 DEF HandleEvent, Redraw, loopVars
  <2> QED  BY <1>7, <2>1, <2>2, <2>3 DEF HandleEvent, Handled
<1>8. CASE TimerFires
  BY <1>8 DEF TimerFires, terminalVars
<1> QED  BY <1>1, <1>2, <1>3, <1>4, <1>6, <1>7, <1>8

\* The terminal is given back to the shell (the Drop of TerminalGuard) only when
\* the thread that reads it has ended (the Drop of InputMonitor), whether the user
\* left, the monitor failed, the screen could not be drawn or a signal came.
THEOREM TerminalIsAlwaysReturned == Spec => []TerminalIsReturned
<1>1. Init => TerminalInv
  BY DEF Init, TerminalInv, Active
<1>2. TerminalInv /\ [Next]_dashboardVars => TerminalInv'
  <2> SUFFICES ASSUME TerminalInv, [Next]_dashboardVars
               PROVE  TerminalInv'
    OBVIOUS
  <2>1. CASE Open
    BY <2>1 DEF TerminalInv, Open, Active
  <2>2. CASE Join
    BY <2>2 DEF TerminalInv, Join, Active
  <2>3. CASE \/ Terminate \/ MonitorReads \/ MonitorFails \/ MonitorStops
             \/ PageArrives \/ FetchSucceeds \/ FetchThrottled \/ FetchFails
             \/ HandleEvent \/ TimerFires
    BY <2>3, LoopKeepsTerminal
  <2>4. CASE UNCHANGED dashboardVars
    BY <2>4 DEF TerminalInv, dashboardVars, loopVars, terminalVars
  <2> QED  BY <2>1, <2>2, <2>3, <2>4 DEF Next
<1>3. TerminalInv => TerminalIsReturned
  BY DEF TerminalInv, TerminalIsReturned
<1> QED  BY <1>1, <1>2, <1>3, PTL DEF Spec
-----------------------------------------------------------------------------
(***************************************************************************)
(* The samples of one metric: the arithmetic of the periods.               *)
(***************************************************************************)
LEMMA Division ==
  ASSUME NEW a \in Int, NEW p \in Nat \ {0}
  PROVE  /\ a \div p \in Int
         /\ (a \div p) * p <= a /\ a < (a \div p) * p + p
OBVIOUS

LEMMA Multiples ==
  ASSUME NEW q \in Int, NEW k \in Int, NEW p \in Nat \ {0},
         q * p < k * p + p
  PROVE  q <= k
<1> SUFFICES ASSUME q >= k + 1 PROVE FALSE
  OBVIOUS
<1>1. q * p >= (k + 1) * p
  OBVIOUS
<1>2. (k + 1) * p = k * p + p
  OBVIOUS
<1> QED
  BY <1>1, <1>2

LEMMA Quotient ==
  ASSUME NEW a \in Int, NEW k \in Int, NEW p \in Nat \ {0},
         k * p <= a, a < k * p + p
  PROVE  a \div p = k
<1> DEFINE q == a \div p
<1>1. q \in Int /\ q * p <= a /\ a < q * p + p
  BY Division
<1> HIDE DEF q
<1>2. q * p \in Int /\ k * p \in Int
  BY <1>1
<1>3. q <= k
  BY <1>1, <1>2, Multiples
<1>4. k <= q
  BY <1>1, <1>2, Multiples
<1> QED
  BY <1>1, <1>3, <1>4 DEF q

\* A period of the window: the points that are aligned to it are those within it.
LEMMA Aligned ==
  ASSUME NEW t \in Int, NEW start \in Int, NEW p \in Nat \ {0}, NEW k \in Int
  PROVE  align_from_start(t, start, p) = start + k * p
           <=> t \in start + k * p .. start + k * p + p - 1
<1> DEFINE q == (t - start) \div p
<1>1. q \in Int /\ q * p <= t - start /\ t - start < q * p + p
  BY Division
<1>2. q * p \in Int /\ k * p \in Int
  BY <1>1
<1>3. align_from_start(t, start, p) = start + q * p
  BY DEF align_from_start
<1>4. ASSUME q * p = k * p PROVE t \in start + k * p .. start + k * p + p - 1
  BY <1>1, <1>2, <1>4
<1>5. ASSUME t \in start + k * p .. start + k * p + p - 1 PROVE q = k
  BY <1>2, <1>5, Quotient
<1> HIDE DEF q
<1> QED
  BY <1>1, <1>2, <1>3, <1>4, <1>5

\* The window of a range: whole periods, of which the samples are the first.
LEMMA Window ==
  ASSUME NEW r \in Ranges
  PROVE  /\ RangeSpec[r].duration \in Nat /\ RangeSpec[r].period \in Nat \ {0}
         /\ start_time(r) \in Int
         /\ end_time(r) = start_time(r) + RangeSpec[r].duration
         /\ sample_count(r) \in Nat
         /\ sample_count(r) * RangeSpec[r].period <= RangeSpec[r].duration
<1> DEFINE d == RangeSpec[r].duration
           p == RangeSpec[r].period
<1>1. d \in Nat /\ p \in Nat \ {0} /\ Now \in Nat
  BY ProviderAssumption
<1>2. d \div p \in Nat /\ (d \div p) * p <= d
  BY <1>1
<1>3. Now \div p \in Int /\ (Now \div p) * p \in Int
  BY <1>1
<1> QED
  BY <1>1, <1>2, <1>3 DEF start_time, end_time, align_to_period, sample_count

Points == Seq([at : Nat, value : Sample])

LEMMA ElementOf ==
  ASSUME NEW S, NEW s \in Seq(S)
  PROVE  /\ Len(s) \in Nat /\ DOMAIN s = 1 .. Len(s)
         /\ \A i \in DOMAIN s : s[i] \in S
OBVIOUS

\* The point of the k-th period that counts, and whether there is one.
LEMMA SampleOf ==
  ASSUME NEW r \in Ranges, NEW points \in Points, NEW k \in 1 .. sample_count(r)
  PROVE  LET p == RangeSpec[r].period
             from == start_time(r) + (k - 1) * p
             In(i) == /\ points[i].value # <<>>
                      /\ points[i].at \in from .. from + p - 1
             sample == samples(r, points)[k]
         IN  /\ sample \in Sample
             /\ sample # <<>> => \E i \in DOMAIN points : In(i) /\ points[i].value = sample
             /\ sample = <<>> => \A i \in DOMAIN points : ~In(i)
<1> DEFINE p == RangeSpec[r].period
           start == start_time(r)
           d == RangeSpec[r].duration
           from == start + (k - 1) * p
           In(i) == /\ points[i].value # <<>>
                    /\ points[i].at \in from .. from + p - 1
           Bucket == {i \in DOMAIN points :
             /\ accepted(r, points[i])
             /\ align_from_start(points[i].at, start, p) = start + (k - 1) * p}
           sample == samples(r, points)[k]
<1>1. /\ d \in Nat /\ p \in Nat \ {0} /\ start \in Int /\ sample_count(r) \in Nat
      /\ end_time(r) = start + d /\ sample_count(r) * p <= d
  BY Window
<1>2. sample = IF Bucket = {} THEN <<>>
               ELSE points[CHOOSE i \in Bucket : \A j \in Bucket : j <= i].value
  BY DEF samples
<1>3. /\ (k - 1) * p >= 0 /\ (k - 1) * p + p <= sample_count(r) * p
      /\ (k - 1) * p \in Int
  <2>1. (k - 1) * p + p = k * p
    BY <1>1
  <2>2. k * p <= sample_count(r) * p
    BY <1>1
  <2> QED
    BY <1>1, <2>1, <2>2
<1>4. \A i \in DOMAIN points : points[i].at \in Nat /\ points[i].value \in Sample
  <2>1. \A i \in DOMAIN points : points[i] \in [at : Nat, value : Sample]
    BY ElementOf DEF Points
  <2> QED
    BY <2>1
<1>5. \A i \in DOMAIN points : i \in Bucket <=> In(i)
  <2> SUFFICES ASSUME NEW i \in DOMAIN points PROVE i \in Bucket <=> In(i)
    OBVIOUS
  <2>1. align_from_start(points[i].at, start, p) = start + (k - 1) * p
          <=> points[i].at \in from .. from + p - 1
    <3>1. points[i].at \in Int /\ k - 1 \in Int
      BY <1>1, <1>4
    <3> QED
      BY <1>1, <3>1, Aligned
  <2>2. In(i) => start <= points[i].at /\ points[i].at < end_time(r)
    <3>1. /\ points[i].at \in Int /\ (k - 1) * p + p <= d
          /\ (k - 1) * p >= 0 /\ (k - 1) * p \in Int
      BY <1>1, <1>3, <1>4
    <3>2. /\ from \in Int /\ start <= from /\ from + p <= end_time(r)
      <4> DEFINE x == (k - 1) * p
      <4>1. /\ x \in Int /\ x >= 0 /\ x + p <= d
        BY <3>1
      <4>2. from = start + x
        OBVIOUS
      <4> HIDE DEF x, from, p, start, d
      <4> QED
        BY <1>1, <4>1, <4>2
    <3>3. In(i) => points[i].at \in from .. from + p - 1
      OBVIOUS
    <3> HIDE DEF from, p, start, In
    <3> QED
      BY <1>1, <3>1, <3>2, <3>3
  <2> QED
    BY <2>1, <2>2 DEF accepted
<1>6. ASSUME Bucket # {}
      PROVE  \E i \in Bucket : sample = points[i].value
  <2>1. \E i \in Bucket : \A j \in Bucket : j <= i
    <3> DEFINE T == {n \in Nat : \A j \in Bucket : j <= n}
    <3>1. Len(points) \in T /\ T \subseteq Nat /\ Bucket \subseteq 1 .. Len(points)
      BY DEF Points
    <3>2. PICK n \in T : \A m \in T : n <= m
      BY <3>1, Least
    <3>3. n \in Bucket
      <4> SUFFICES ASSUME n \notin Bucket PROVE FALSE
        OBVIOUS
      <4>1. n >= 1
        BY <1>6, <3>1, <3>2
      <4>2. n - 1 \in T
        BY <4>1, <3>1, <3>2
      <4> QED
        BY <4>2, <3>2
    <3> QED
      BY <3>2, <3>3
  <2> QED
    BY <1>2, <1>6, <2>1
<1>7. ASSUME Bucket # {}
      PROVE  \E i \in DOMAIN points : In(i) /\ points[i].value = sample
  BY <1>5, <1>6, <1>7
<1>8. ASSUME Bucket = {} PROVE sample = <<>> /\ sample \in Sample
  BY <1>2, <1>8 DEF Sample
<1> HIDE DEF Bucket, sample, In
<1>9. ASSUME Bucket # {} PROVE sample # <<>> /\ sample \in Sample
  BY <1>4, <1>7, <1>9 DEF In
<1> QED
  BY <1>5, <1>7, <1>8, <1>9 DEF sample, In
-----------------------------------------------------------------------------
(***************************************************************************)
(* A fetch: what has come of a metric is the first of what CloudWatch      *)
(* holds, and all of it when the metric is named and not incomplete.       *)
(***************************************************************************)
Delivered(all) ==
  /\ all \in Fetch
  /\ \A m \in Metrics :
       /\ all.delivered[m] <= Len(held[m])
       /\ m \in all.named \ all.incomplete_results => all.delivered[m] = Len(held[m])

FetchInv ==
  /\ Delivered(fetch)
  /\ IsFiniteSet(fetch.seen_tokens) /\ Cardinality(fetch.seen_tokens) < MaxPages

HeldTypes == held \in Worlds /\ \A m \in Metrics : held[m] \in Points

LEMMA HeldTyped == held \in Worlds => HeldTypes
BY ProviderAssumption DEF HeldTypes, Points

\* A fetch begins with nothing.
LEMMA StartedTrue ==
  ASSUME HeldTypes, NEW r \in Ranges
  PROVE  /\ Delivered(Started(r)) /\ Started(r).range = r
         /\ IsFiniteSet(Started(r).seen_tokens)
         /\ Cardinality(Started(r).seen_tokens) < MaxPages
<1>1. \A m \in Metrics : Len(held[m]) \in Nat
  BY ElementOf DEF HeldTypes, Points
<1>2. IsFiniteSet({}) /\ Cardinality({}) = 0
  BY FS_EmptySet
<1>3. MaxPages \in Nat \ {0}
  BY ProviderAssumption
<1> QED
  BY <1>1, <1>2, <1>3 DEF Started, Delivered, Fetch

\* Only "Complete" without a message makes a metric complete.
LEMMA OnlyComplete ==
  ASSUME NEW answer \in Answers, map_sdk_result(answer) = "Complete"
  PROVE  answer = [code |-> "Complete", warned |-> FALSE]
BY ProviderAssumption DEF map_sdk_result

\* Whatever pages come, in whatever order.
LEMMA MergedTrue ==
  ASSUME HeldTypes, Delivered(fetch), NEW results \in TrueResults,
         NEW token \in Tokens \cup {"none"}
  PROVE  LET all == Merged([results |-> results, next_token |-> token]) IN
           /\ Delivered(all) /\ all.range = fetch.range
           /\ all.seen_tokens = fetch.seen_tokens \cup ({token} \ {"none"})
           /\ all.named = fetch.named \cup {m \in Metrics : results[m] # <<>>}
<1> DEFINE page == [results |-> results, next_token |-> token]
           all == Merged(page)
<1>1. ASSUME NEW m \in Metrics, results[m] # <<>>
      PROVE  /\ results[m][1].answer \in Answers
             /\ results[m][1].upto \in Nat
             /\ True(m, results[m][1])
  <2>1. results[m] \in Results /\ True(m, results[m][1])
    BY <1>1 DEF TrueResults
  <2>2. PICK answer \in Answers, n \in UNION {0 .. Len(held[x]) : x \in Metrics} :
          results[m] = <<[answer |-> answer, upto |-> n]>>
    BY <1>1, <2>1 DEF Results
  <2>3. n \in Nat
    OBVIOUS
  <2> QED
    BY <2>1, <2>2, <2>3
<1>2. Named(page) = {m \in Metrics : results[m] # <<>>}
  BY DEF Named
<1>3. \A m \in Completed(page) :
        m \in Named(page) /\ results[m][1].upto = Len(held[m])
  BY <1>1, <1>2, OnlyComplete DEF Completed, True
<1> DEFINE incomplete == (fetch.incomplete_results \cup Named(page)) \ Completed(page)
           named == fetch.named \cup Named(page)
           delivered == [m \in Metrics |-> IF m \in Named(page) THEN results[m][1].upto
                                          ELSE fetch.delivered[m]]
           seen == fetch.seen_tokens \cup ({token} \ {"none"})
<1>4. all = [fetch EXCEPT !.incomplete_results = incomplete, !.named = named,
                          !.delivered = delivered, !.seen_tokens = seen]
  BY DEF Merged
<1>5. /\ fetch \in Fetch
      /\ fetch.seen_tokens \subseteq Tokens /\ fetch.named \subseteq Metrics
      /\ fetch.incomplete_results \subseteq Metrics
      /\ \A m \in Metrics : fetch.delivered[m] \in Nat
  BY DEF Delivered, Fetch
<1>6. /\ all.range = fetch.range /\ all.incomplete_results = incomplete
      /\ all.named = named /\ all.delivered = delivered /\ all.seen_tokens = seen
      /\ all \in Fetch
  <2>1. incomplete \subseteq Metrics /\ named \subseteq Metrics /\ seen \subseteq Tokens
    BY <1>2, <1>5
  <2>2. delivered \in [Metrics -> Nat]
    BY <1>1, <1>2, <1>5
  <2> HIDE DEF all, incomplete, named, delivered, seen
  <2> QED
    BY <1>4, <1>5, <2>1, <2>2 DEF Fetch
<1>7. ASSUME NEW m \in Metrics
      PROVE  /\ all.delivered[m] <= Len(held[m])
             /\ m \in all.named \ all.incomplete_results
                  => all.delivered[m] = Len(held[m])
  <2>1. CASE m \in Named(page)
    BY <1>1, <1>2, <1>3, <1>6, <2>1 DEF True
  <2>2. CASE m \notin Named(page)
    BY <1>3, <1>6, <2>2 DEF Delivered
  <2> QED
    BY <2>1, <2>2
<1> HIDE DEF all, page
<1>8. Delivered(all)
  BY <1>6, <1>7 DEF Delivered
<1> QED
  BY <1>2, <1>6, <1>8 DEF all, page
-----------------------------------------------------------------------------
(***************************************************************************)
(* A snapshot: it has a sample only where CloudWatch holds a point, and a  *)
(* gap in a fresh one is a period of which CloudWatch holds none.          *)
(***************************************************************************)
SnapshotTrue(s) ==
  /\ s \in Snapshot
  /\ \A m \in Metrics : \A k \in 1 .. sample_count(s.range) :
       /\ s.series[m][k] # <<>> => s.series[m][k] \in Held(s.range, m, k)
       /\ s.status = "Fresh" /\ s.series[m][k] = <<>> => Held(s.range, m, k) = {}
  /\ \A m \in Metrics : DOMAIN s.series[m] = 1 .. sample_count(s.range)

LEMMA PrefixOf ==
  ASSUME NEW S, NEW s \in Seq(S), NEW n \in 0 .. Len(s)
  PROVE  /\ SubSeq(s, 1, n) \in Seq(S)
         /\ DOMAIN SubSeq(s, 1, n) = 1 .. n
         /\ \A i \in 1 .. n : SubSeq(s, 1, n)[i] = s[i]
OBVIOUS

\* Of the first n points of a metric.
LEMMA SamplesTrue ==
  ASSUME HeldTypes, NEW r \in Ranges, NEW m \in Metrics, NEW n \in 0 .. Len(held[m])
  PROVE  LET list == samples(r, SubSeq(held[m], 1, n)) IN
           /\ list \in Seq(Sample) /\ DOMAIN list = 1 .. sample_count(r)
           /\ \A k \in 1 .. sample_count(r) :
                /\ list[k] # <<>> => list[k] \in Held(r, m, k)
                /\ n = Len(held[m]) /\ list[k] = <<>> => Held(r, m, k) = {}
<1> DEFINE points == SubSeq(held[m], 1, n)
           list == samples(r, points)
<1>1. /\ held[m] \in Points /\ DOMAIN held[m] = 1 .. Len(held[m]) /\ Len(held[m]) \in Nat
      /\ points \in Points /\ DOMAIN points = 1 .. n
      /\ \A i \in 1 .. n : points[i] = held[m][i]
  <2>1. held[m] \in Seq([at : Nat, value : Sample])
    BY DEF HeldTypes, Points
  <2>2. /\ points \in Seq([at : Nat, value : Sample]) /\ DOMAIN points = 1 .. n
        /\ \A i \in 1 .. n : points[i] = held[m][i]
    <3> DEFINE whole == held[m]
               X == [at : Nat, value : Sample]
    <3>1. whole \in Seq(X) /\ n \in 0 .. Len(whole)
      BY <2>1
    <3> HIDE DEF whole, X
    <3>2. /\ SubSeq(whole, 1, n) \in Seq(X) /\ DOMAIN SubSeq(whole, 1, n) = 1 .. n
          /\ \A i \in 1 .. n : SubSeq(whole, 1, n)[i] = whole[i]
      BY <3>1, PrefixOf
    <3> QED
      BY <3>2 DEF whole, X
  <2> HIDE DEF points
  <2> QED
    BY <2>1, <2>2, ElementOf DEF Points
<1>2. sample_count(r) \in Nat /\ DOMAIN list = 1 .. sample_count(r)
  BY Window DEF samples
<1> HIDE DEF points
<1>3. \A k \in 1 .. sample_count(r) : list[k] \in Sample
  BY <1>1, SampleOf
<1>4. list \in Seq(Sample)
  <2>1. list = [k \in 1 .. sample_count(r) |-> list[k]]
    BY DEF samples
  <2> HIDE DEF list
  <2> QED
    BY <1>2, <1>3, <2>1
<1>5. ASSUME NEW k \in 1 .. sample_count(r), list[k] # <<>>
      PROVE  list[k] \in Held(r, m, k)
  <2>1. PICK i \in DOMAIN points :
          /\ points[i].value # <<>> /\ points[i].value = list[k]
          /\ points[i].at \in start_time(r) + (k - 1) * RangeSpec[r].period
               .. start_time(r) + (k - 1) * RangeSpec[r].period + RangeSpec[r].period - 1
    BY <1>1, <1>5, SampleOf
  <2>2. i \in DOMAIN held[m] /\ held[m][i] = points[i]
    BY <1>1
  <2> QED
    BY <2>1, <2>2 DEF Held
<1>6. ASSUME NEW k \in 1 .. sample_count(r), list[k] = <<>>, n = Len(held[m])
      PROVE  Held(r, m, k) = {}
  <2>1. \A i \in DOMAIN points :
          ~ /\ points[i].value # <<>>
            /\ points[i].at \in start_time(r) + (k - 1) * RangeSpec[r].period
                 .. start_time(r) + (k - 1) * RangeSpec[r].period + RangeSpec[r].period - 1
    BY <1>1, <1>6, SampleOf
  <2> QED
    BY <1>1, <1>6, <2>1 DEF Held
<1> QED
  BY <1>2, <1>4, <1>5, <1>6 DEF points

LEMMA TakenTrue ==
  ASSUME HeldTypes, Delivered(fetch), NEW snapshot \in Taking
  PROVE  SnapshotTrue(snapshot) /\ snapshot.range = fetch.range
<1>1. PICK warned \in BOOLEAN, page \in LastPages : snapshot = Taken(Merged(page), warned)
  BY DEF Taking
<1>2. PICK results \in TrueResults :
        /\ page = [results |-> results, next_token |-> "none"]
        /\ \A m \in Metrics : results[m] = <<>> => m \in fetch.named \/ held[m] = <<>>
  BY DEF LastPages
<1> DEFINE all == Merged(page)
<1>3. /\ Delivered(all) /\ all.range = fetch.range
      /\ \A m \in Metrics : m \in all.named \/ held[m] = <<>>
  BY <1>2, MergedTrue
<1> HIDE DEF all
<1>4. /\ snapshot.range = all.range
      /\ snapshot.status \in {"Fresh", "Stale"}
      /\ snapshot.status = "Fresh" => all.incomplete_results = {}
      /\ snapshot.series
           = [m \in Metrics |-> samples(all.range, SubSeq(held[m], 1, all.delivered[m]))]
      /\ snapshot = [range |-> snapshot.range, status |-> snapshot.status,
                     series |-> snapshot.series]
  BY <1>1 DEF Taken, all
<1>5. ASSUME NEW m \in Metrics
      PROVE  /\ all.delivered[m] \in 0 .. Len(held[m]) /\ all.range \in Ranges
             /\ all.incomplete_results = {} => all.delivered[m] = Len(held[m])
  <2>1. all.delivered[m] \in Nat /\ Len(held[m]) \in Nat /\ all.range \in Ranges
    BY <1>3, ElementOf DEF Delivered, Fetch, HeldTypes, Points
  <2>2. held[m] = <<>> => Len(held[m]) = 0
    OBVIOUS
  <2> QED
    BY <1>3, <2>1, <2>2 DEF Delivered
<1>6. all.range \in Ranges
  BY <1>3 DEF Delivered, Fetch
<1>7. \A m \in Metrics :
        /\ snapshot.series[m] \in Seq(Sample)
        /\ DOMAIN snapshot.series[m] = 1 .. sample_count(all.range)
        /\ \A k \in 1 .. sample_count(all.range) :
             /\ snapshot.series[m][k] # <<>>
                  => snapshot.series[m][k] \in Held(all.range, m, k)
             /\ all.incomplete_results = {} /\ snapshot.series[m][k] = <<>>
                  => Held(all.range, m, k) = {}
  BY <1>4, <1>5, SamplesTrue
<1>8. snapshot \in Snapshot
  <2>1. snapshot.series \in [Metrics -> Seq(Sample)]
    BY <1>4, <1>7
  <2> QED
    BY <1>4, <1>6, <2>1 DEF Snapshot
<1> QED
  BY <1>3, <1>4, <1>7, <1>8 DEF SnapshotTrue

\* A snapshot that is shown again is marked stale.
LEMMA StaleTrue ==
  ASSUME NEW s, SnapshotTrue(s)
  PROVE  SnapshotTrue([s EXCEPT !.status = "Stale"])
BY DEF SnapshotTrue, Snapshot

LEMMA HeldSame ==
  ASSUME held' = held, NEW s, SnapshotTrue(s)
  PROVE  SnapshotTrue(s)'
<1>1. ASSUME NEW r, NEW m, NEW k PROVE Held(r, m, k)' = Held(r, m, k)
  BY DEF Held
<1> QED
  BY <1>1 DEF SnapshotTrue
-----------------------------------------------------------------------------
(***************************************************************************)
(* The cache: a true snapshot of each range it has, as many as are in the  *)
(* order of insertion, and every range that was fetched while they fit.    *)
(***************************************************************************)
CacheTypes ==
  /\ DOMAIN snapshots \subseteq Ranges /\ IsFiniteSet(DOMAIN snapshots)
  /\ Cardinality(DOMAIN snapshots) <= MaxCached
  /\ insertion_order \in Seq(Ranges)
  /\ Len(insertion_order) = Cardinality(DOMAIN snapshots)
  /\ {insertion_order[n] : n \in DOMAIN insertion_order} = DOMAIN snapshots
  /\ \A i, j \in DOMAIN insertion_order : insertion_order[i] = insertion_order[j] => i = j

CacheTrue ==
  /\ \A r \in DOMAIN snapshots : SnapshotTrue(snapshots[r]) /\ snapshots[r].range = r
  /\ newest # <<>> =>
       /\ newest[1] \in Snapshot /\ newest[1].range \in DOMAIN snapshots
       /\ snapshots[newest[1].range] = newest[1]

CacheHistory ==
  /\ fetched \subseteq Ranges /\ IsFiniteSet(fetched) /\ DOMAIN snapshots \subseteq fetched
  /\ Cardinality(fetched) <= MaxCached => DOMAIN snapshots = fetched

CacheInv == CacheTypes /\ CacheTrue /\ CacheHistory

\* What an insertion does to the snapshots.
LEMMA Inserted ==
  ASSUME NEW key, NEW s, Insert(key, s)
  PROVE  /\ snapshots'[key] = s
         /\ key \in DOMAIN snapshots => DOMAIN snapshots' = DOMAIN snapshots
         /\ key \notin DOMAIN snapshots =>
              DOMAIN snapshots' =
                {key} \cup IF Cardinality(DOMAIN snapshots) = MaxCached
                           THEN DOMAIN snapshots \ {Head(insertion_order)}
                           ELSE DOMAIN snapshots
         /\ \A r \in DOMAIN snapshots' : r # key => r \in DOMAIN snapshots
                                                   /\ snapshots'[r] = snapshots[r]
<1>1. ASSUME NEW f, NEW g, g = With(f, key, s)
      PROVE  /\ DOMAIN g = DOMAIN f \cup {key} /\ g[key] = s
             /\ \A r \in DOMAIN g : r # key => r \in DOMAIN f /\ g[r] = f[r]
  BY <1>1 DEF With
<1>2. ASSUME NEW k
      PROVE  /\ DOMAIN Without(snapshots, k) = DOMAIN snapshots \ {k}
             /\ \A r \in DOMAIN snapshots \ {k} : Without(snapshots, k)[r] = snapshots[r]
  BY DEF Without
<1>3. CASE \/ key \in DOMAIN snapshots
           \/ key \notin DOMAIN snapshots /\ Cardinality(DOMAIN snapshots) # MaxCached
  <2>1. snapshots' = With(snapshots, key, s)
    BY <1>3 DEF Insert
  <2>2. /\ DOMAIN snapshots' = DOMAIN snapshots \cup {key} /\ snapshots'[key] = s
        /\ \A r \in DOMAIN snapshots' :
             r # key => r \in DOMAIN snapshots /\ snapshots'[r] = snapshots[r]
    BY <1>1, <2>1
  <2> QED
    BY <1>3, <2>2
<1>4. CASE key \notin DOMAIN snapshots /\ Cardinality(DOMAIN snapshots) = MaxCached
  <2>1. snapshots' = With(Without(snapshots, Head(insertion_order)), key, s)
    BY <1>4 DEF Insert
  <2> DEFINE rest == Without(snapshots, Head(insertion_order))
  <2>2. /\ DOMAIN snapshots' = DOMAIN rest \cup {key} /\ snapshots'[key] = s
        /\ \A r \in DOMAIN snapshots' :
             r # key => r \in DOMAIN rest /\ snapshots'[r] = rest[r]
    BY <1>1, <2>1
  <2>3. /\ DOMAIN rest = DOMAIN snapshots \ {Head(insertion_order)}
        /\ \A r \in DOMAIN rest : rest[r] = snapshots[r]
    BY <1>2
  <2> HIDE DEF rest
  <2> QED
    BY <1>4, <2>2, <2>3
<1> QED
  BY <1>3, <1>4

LEMMA CacheInserts ==
  ASSUME CacheInv, held' = held, NEW key \in Ranges, NEW s, SnapshotTrue(s), s.range = key,
         Insert(key, s), newest' = <<s>>, fetched' = fetched \cup {key}
  PROVE  CacheInv'
<1> DEFINE D == DOMAIN snapshots
           order == insertion_order
<1>1. /\ D \subseteq Ranges /\ IsFiniteSet(D) /\ Cardinality(D) \in Nat
      /\ Cardinality(D) <= MaxCached /\ MaxCached \in Nat \ {0}
      /\ order \in Seq(Ranges) /\ Len(order) = Cardinality(D)
      /\ DOMAIN order = 1 .. Len(order)
      /\ \A n \in 1 .. Len(order) : order[n] \in D
      /\ \A r \in D : \E n \in 1 .. Len(order) : order[n] = r
      /\ \A i, j \in 1 .. Len(order) : order[i] = order[j] => i = j
  <2>1. /\ D \subseteq Ranges /\ IsFiniteSet(D) /\ Cardinality(D) <= MaxCached
        /\ order \in Seq(Ranges) /\ Len(order) = Cardinality(D)
        /\ {order[n] : n \in DOMAIN order} = D
        /\ \A i, j \in DOMAIN order : order[i] = order[j] => i = j
    BY DEF CacheInv, CacheTypes
  <2>2. DOMAIN order = 1 .. Len(order)
    BY <2>1, ElementOf
  <2>3. Cardinality(D) \in Nat /\ MaxCached \in Nat \ {0}
    BY <2>1, ProviderAssumption, FS_CardinalityType
  <2> HIDE DEF D, order
  <2> QED
    BY <2>1, <2>2, <2>3
<1>a. /\ snapshots'[key] = s
      /\ key \in D => DOMAIN snapshots' = D
      /\ key \notin D =>
           DOMAIN snapshots' = {key} \cup IF Cardinality(D) = MaxCached
                                          THEN D \ {Head(order)} ELSE D
      /\ \A r \in DOMAIN snapshots' : r # key => r \in D /\ snapshots'[r] = snapshots[r]
  BY Inserted
<1>2. CacheTypes'
  <2>1. CASE key \in D
    <3>1. DOMAIN snapshots' = D /\ order' = order
      BY <2>1, <1>a DEF Insert
    <3> QED
      BY <3>1 DEF CacheInv, CacheTypes
  <2>2. CASE key \notin D /\ Cardinality(D) # MaxCached
    <3>1. DOMAIN snapshots' = D \cup {key}
      BY <2>2, <1>a
    <3>2. order' = Append(order, key)
      BY <2>2 DEF Insert
    <3>3. /\ order' \in Seq(Ranges) /\ Len(order') = Len(order) + 1
          /\ order'[Len(order) + 1] = key
          /\ \A i \in 1 .. Len(order) : order'[i] = order[i]
      BY <1>1, <3>2
    <3>4. /\ IsFiniteSet(D \cup {key}) /\ Cardinality(D \cup {key}) = Cardinality(D) + 1
      BY <1>1, <2>2, FS_AddElement
    <3>5. DOMAIN order' = 1 .. Len(order) + 1
      BY <3>3, ElementOf
    <3> HIDE DEF D
    <3>6. {order'[n] : n \in DOMAIN order'} = D \cup {key}
      BY <1>1, <3>3, <3>5
    <3>7. \A i, j \in DOMAIN order' : order'[i] = order'[j] => i = j
      BY <1>1, <2>2, <3>3, <3>5
    <3> QED
      BY <1>1, <2>2, <3>1, <3>3, <3>4, <3>6, <3>7 DEF CacheTypes
  <2>3. CASE key \notin D /\ Cardinality(D) = MaxCached
    <3> DEFINE h == Head(order)
    <3>1. DOMAIN snapshots' = (D \ {h}) \cup {key}
      BY <2>3, <1>a
    <3>2. order' = Append(Tail(order), key)
      BY <2>3 DEF Insert
    <3>3. /\ order # <<>> /\ h = order[1] /\ h \in D /\ Len(order) >= 1
      BY <1>1, <2>3
    <3>4. /\ order' \in Seq(Ranges) /\ Len(order') = Len(order)
          /\ order'[Len(order)] = key
          /\ \A i \in 1 .. Len(order) - 1 : order'[i] = order[i + 1]
      BY <1>1, <3>2, <3>3
    <3>5. /\ IsFiniteSet((D \ {h}) \cup {key})
          /\ Cardinality((D \ {h}) \cup {key}) = Cardinality(D)
      <4>1. IsFiniteSet(D \ {h}) /\ Cardinality(D \ {h}) = Cardinality(D) - 1
        BY <1>1, <3>3, FS_RemoveElement
      <4>2. key \notin D \ {h}
        BY <2>3
      <4>3. /\ IsFiniteSet((D \ {h}) \cup {key})
            /\ Cardinality((D \ {h}) \cup {key}) = Cardinality(D \ {h}) + 1
        BY <4>1, <4>2, FS_AddElement
      <4> HIDE DEF D, h
      <4> QED
        BY <1>1, <4>1, <4>3
    <3>6. DOMAIN order' = 1 .. Len(order)
      BY <3>4, ElementOf
    <3> HIDE DEF D, h
    <3>7. {order'[n] : n \in DOMAIN order'} = (D \ {h}) \cup {key}
      <4>1. ASSUME NEW n \in DOMAIN order' PROVE order'[n] \in (D \ {h}) \cup {key}
        BY <1>1, <3>3, <3>4, <3>6
      <4>2. ASSUME NEW r \in (D \ {h}) \cup {key} PROVE \E n \in DOMAIN order' : order'[n] = r
        <5>1. CASE r = key
          BY <1>1, <3>3, <3>4, <3>6, <5>1
        <5>2. CASE r # key
          <6>1. PICK n \in 1 .. Len(order) : order[n] = r
            BY <1>1, <5>2
          <6>2. n # 1 /\ n - 1 \in 1 .. Len(order) - 1
            BY <1>1, <3>3, <5>2, <6>1
          <6>3. order'[n - 1] = r
            BY <1>1, <3>4, <6>1, <6>2
          <6>4. n - 1 \in DOMAIN order'
            BY <1>1, <3>6, <6>2
          <6> QED
            BY <6>3, <6>4
        <5> QED
          BY <5>1, <5>2
      <4> QED
        BY <4>1, <4>2
    <3>8. \A i, j \in DOMAIN order' : order'[i] = order'[j] => i = j
      BY <1>1, <2>3, <3>4, <3>6
    <3> QED
      BY <1>1, <3>1, <3>4, <3>5, <3>7, <3>8 DEF CacheTypes
  <2> QED
    BY <1>1, <2>1, <2>2, <2>3
<1>3. CacheTrue'
  <2>1. ASSUME NEW r \in DOMAIN snapshots'
        PROVE  SnapshotTrue(snapshots[r])' /\ snapshots'[r].range = r
    <3>1. PICK t : t = snapshots'[r]
      OBVIOUS
    <3>2. SnapshotTrue(t) /\ t.range = r
      <4>1. CASE r = key
        BY <3>1, <4>1, <1>a
      <4>2. CASE r # key
        <5>1. r \in DOMAIN snapshots /\ t = snapshots[r]
          BY <1>a, <3>1, <4>2
        <5> QED
          BY <5>1 DEF CacheInv, CacheTrue
      <4> QED
        BY <4>1, <4>2
    <3>3. SnapshotTrue(t)'
      BY <3>2, HeldSame
    <3> QED
      BY <3>1, <3>2, <3>3
  <2>2. s \in Snapshot /\ key \in DOMAIN snapshots' /\ snapshots'[key] = s
    <3>1. key \in DOMAIN snapshots' /\ snapshots'[key] = s
      BY <1>a
    <3> QED
      BY <3>1 DEF SnapshotTrue
  <2> QED
    BY <2>1, <2>2 DEF CacheTrue
<1>4. CacheHistory'
  <2>1. /\ fetched \subseteq Ranges /\ IsFiniteSet(fetched) /\ D \subseteq fetched
        /\ Cardinality(fetched) \in Nat
        /\ Cardinality(fetched) <= MaxCached => D = fetched
    BY FS_CardinalityType DEF CacheInv, CacheHistory
  <2>2. /\ IsFiniteSet(fetched')
        /\ Cardinality(fetched') =
             IF key \in fetched THEN Cardinality(fetched) ELSE Cardinality(fetched) + 1
    BY <2>1, FS_AddElement
  <2>3. DOMAIN snapshots' \subseteq fetched'
    BY <2>1, <1>a
  <2>4. ASSUME Cardinality(fetched') <= MaxCached PROVE DOMAIN snapshots' = fetched'
    <3>1. D = fetched
      BY <1>1, <2>1, <2>2, <2>4
    <3>2. key \notin D => Cardinality(D) # MaxCached
      BY <1>1, <2>2, <2>4, <3>1
    <3>3. DOMAIN snapshots' = DOMAIN snapshots \cup {key}
      <4>1. CASE key \in D
        BY <1>a, <4>1
      <4>2. CASE key \notin D
        BY <1>a, <3>2, <4>2
      <4> QED
        BY <4>1, <4>2
    <3> QED
      BY <3>1, <3>3
  <2> QED
    BY <2>1, <2>2, <2>3, <2>4 DEF CacheHistory
<1> QED
  BY <1>2, <1>3, <1>4 DEF CacheInv
-----------------------------------------------------------------------------
(***************************************************************************)
(* The loop: what each step does to the fetch, the cache and the screen.   *)
(***************************************************************************)
LEMMA HeldStays == [Next]_dashboardVars => held' = held
BY DEF Next, Open, Terminate, Join, MonitorReads, MonitorFails, MonitorStops,
       PageArrives, FetchSucceeds, FetchThrottled, FetchFails, HandleEvent, Handled,
       TimerFires, Fetching, Redraw, Close, Dropped, Show, providerVars, loopVars,
       terminalVars, dashboardVars

LEMMA FetchMoves ==
  ASSUME [Next]_dashboardVars, range \in Ranges
  PROVE  \/ fetch' = fetch
         \/ \E r \in Ranges : fetch' = Started(r)
         \/ PageArrives
<1> USE DashboardAssumption
<1>1. Dropped => fetch' = Started(DefaultRange)
  BY DEF Dropped
<1>2. \A result, slowed : Show(result, slowed) => fetch' = Started(DefaultRange)
  BY <1>1 DEF Show
<1>3. \A r : Fetching(r) => fetch' = Started(r)
  BY DEF Fetching
<1> QED
  BY <1>1, <1>2, <1>3
     DEF Next, Open, Terminate, Join, MonitorReads, MonitorFails, MonitorStops,
         FetchSucceeds, FetchThrottled, FetchFails, HandleEvent, Handled,
         TimerFires, Redraw, Close, providerVars, dashboardVars

LEMMA CacheMoves ==
  ASSUME [Next]_dashboardVars
  PROVE  \/ UNCHANGED <<snapshots, insertion_order, newest, fetched>>
         \/ FetchSucceeds
BY DEF Next, Open, Terminate, Join, MonitorReads, MonitorFails, MonitorStops,
       PageArrives, FetchThrottled, FetchFails, HandleEvent, Handled,
       TimerFires, Fetching, Redraw, Close, providerVars, dashboardVars

\* A page that may be followed by another, and a page that may not.
LEMMA FetchStep ==
  ASSUME HeldTypes, FetchInv, range \in Ranges, [Next]_dashboardVars
  PROVE  HeldTypes' /\ FetchInv'
<1>1. held' = held /\ HeldTypes'
  BY HeldStays DEF HeldTypes
<1>2. ASSUME NEW all, Delivered(all) PROVE Delivered(all)'
  BY <1>1, <1>2 DEF Delivered
<1>3. CASE fetch' = fetch
  BY <1>1, <1>3 DEF FetchInv, Delivered
<1>4. CASE \E r \in Ranges : fetch' = Started(r)
  <2>1. PICK all : fetch' = all /\ Delivered(all) /\ IsFiniteSet(all.seen_tokens)
                   /\ Cardinality(all.seen_tokens) < MaxPages
    BY <1>4, StartedTrue
  <2>2. Delivered(all)'
    BY <1>2, <2>1
  <2>3. Delivered(fetch)'
    BY <2>1, <2>2 DEF Delivered
  <2> QED
    BY <1>1, <2>1, <2>3 DEF FetchInv
<1>5. CASE PageArrives
  <2>1. PICK page \in NextPages : fetch' = Merged(page)
    BY <1>5 DEF PageArrives
  <2>2. PICK results \in TrueResults, token \in Tokens :
          /\ page = [results |-> results, next_token |-> token]
          /\ token \notin fetch.seen_tokens
          /\ Cardinality(fetch.seen_tokens \cup {token}) # MaxPages
    BY <2>1 DEF NextPages, Repeats, TooMany
  <2>3. PICK all : all = Merged(page)
    OBVIOUS
  <2>4. Delivered(all) /\ all.seen_tokens = fetch.seen_tokens \cup ({token} \ {"none"})
    BY <2>2, <2>3, MergedTrue DEF FetchInv
  <2>5. all.seen_tokens = fetch.seen_tokens \cup {token}
    BY <2>4, ProviderAssumption
  <2>6. /\ IsFiniteSet(fetch.seen_tokens \cup {token})
        /\ Cardinality(fetch.seen_tokens \cup {token}) = Cardinality(fetch.seen_tokens) + 1
        /\ Cardinality(fetch.seen_tokens) \in Nat
    BY <2>2, FS_AddElement, FS_CardinalityType DEF FetchInv
  <2>7. Cardinality(fetch.seen_tokens) + 1 < MaxPages
    BY <2>2, <2>6, ProviderAssumption DEF FetchInv
  <2>8. fetch' = all /\ Delivered(all)'
    BY <1>2, <2>1, <2>3, <2>4
  <2>9. Delivered(fetch)'
    BY <2>8 DEF Delivered
  <2> QED
    BY <1>1, <2>5, <2>6, <2>7, <2>8, <2>9 DEF FetchInv
<1> QED
  BY <1>1, <1>3, <1>4, <1>5, FetchMoves

LEMMA CacheStep ==
  ASSUME HeldTypes, FetchInv, CacheInv, [Next]_dashboardVars
  PROVE  CacheInv'
<1>1. held' = held
  BY HeldStays
<1>2. CASE UNCHANGED <<snapshots, insertion_order, newest, fetched>>
  <2>1. ASSUME NEW r \in DOMAIN snapshots PROVE SnapshotTrue(snapshots[r])'
    <3>1. PICK s : s = snapshots[r] /\ s = snapshots'[r] /\ SnapshotTrue(s)
      BY <1>2 DEF CacheInv, CacheTrue
    <3> QED
      BY <1>1, <3>1, HeldSame
  <2> QED
    BY <1>2, <2>1 DEF CacheInv, CacheTypes, CacheTrue, CacheHistory
<1>3. CASE FetchSucceeds
  <2>1. PICK s \in Taking :
          /\ Insert(fetch.range, s) /\ newest' = <<s>> /\ fetched' = fetched \cup {fetch.range}
    BY <1>3 DEF FetchSucceeds
  <2>2. SnapshotTrue(s) /\ s.range = fetch.range /\ fetch.range \in Ranges
    BY TakenTrue DEF FetchInv, Delivered, Fetch
  <2> QED
    BY <1>1, <2>1, <2>2, CacheInserts
<1> QED
  BY <1>2, <1>3, CacheMoves

\* The screen shows nothing, the error of a request, or a true snapshot; and the
\* request that is out is for the range that is selected.
ScreenInv ==
  /\ range \in Ranges /\ phase \in Active \cup {"closed", "closing", "ended"}
  /\ phase = "fetching" => fetch.range = range
  /\ \/ displayed = Nothing
     \/ displayed.kind = "error" /\ displayed.of \in Errors
     \/ displayed.kind = "snapshot" /\ SnapshotTrue(displayed.of)
  /\ phase = "showing" => displayed # Nothing
  /\ ShownIsAsked

\* The loop leaves or begins anew, it stays as it is, or it draws what was fetched.
Leaves == phase' \in {"closed", "closing", "ended"}
Begins == phase' = "fetching" /\ fetch' = Started(range')
Kept == range' \in Ranges /\ displayed' \in {displayed, Nothing}
Stays == UNCHANGED <<loopVars, newest, fetched>> /\ (fetch' = fetch \/ PageArrives)

Draws ==
  /\ phase = "fetching" /\ phase' = "showing" /\ range' = range
  /\ \/ /\ \E s \in Taking : displayed' = Shown(s)
        /\ throttled' = FALSE
     \/ /\ displayed' = IF fetch.range \in DOMAIN snapshots THEN Shown(Cached(fetch.range))
                        ELSE Failure("Throttled")
        /\ throttled' = TRUE /\ UNCHANGED <<newest, fetched>>
     \/ /\ \E error \in FetchErrors : displayed' = Failure(error)
        /\ throttled' = FALSE

LEMMA ScreenMoves ==
  ASSUME [Next]_dashboardVars, range \in Ranges
  PROVE  (Leaves /\ Kept) \/ (Begins /\ Kept) \/ Stays \/ Draws
<1> USE DashboardAssumption DEF Leaves, Begins, Kept
<1>1. Dropped => Leaves /\ Kept
  BY DEF Dropped
<1>2. CASE Open
  BY <1>2 DEF Open
<1>3. CASE Terminate \/ Join
  BY <1>1, <1>3 DEF Terminate, Join, Close
<1>4. CASE MonitorReads \/ MonitorFails \/ MonitorStops
  BY <1>4 DEF MonitorReads, MonitorFails, MonitorStops, Stays, providerVars
<1>5. CASE PageArrives
  BY <1>5 DEF PageArrives, Stays
<1>7. CASE FetchSucceeds
  <2>1. PICK s \in Taking : Show(Shown(s), FALSE) /\ phase = "fetching"
    BY <1>7, Zenon DEF FetchSucceeds
  <2>2. CASE Dropped
    BY <1>1, <2>2
  <2>3. CASE ~Dropped
    <3>1. /\ phase' = "showing" /\ displayed' = Shown(s) /\ range' = range
          /\ throttled' = FALSE
      BY <2>1, <2>3 DEF Show
    <3> QED
      BY <2>1, <3>1 DEF Draws
  <2> QED
    BY <2>2, <2>3
<1>8. CASE FetchThrottled
  <2>1. CASE Dropped
    BY <1>1, <2>1
  <2>2. CASE ~Dropped
    BY <1>8, <2>2 DEF FetchThrottled, Draws, Show
  <2> QED
    BY <2>1, <2>2
<1>9. CASE FetchFails
  <2>1. PICK error \in FetchErrors : Show(Failure(error), FALSE) /\ phase = "fetching"
    BY <1>9, Zenon DEF FetchFails
  <2>2. CASE Dropped
    BY <1>1, <2>2
  <2>3. CASE ~Dropped
    <3>1. /\ phase' = "showing" /\ displayed' = Failure(error) /\ range' = range
          /\ throttled' = FALSE
      BY <2>1, <2>3 DEF Show
    <3> QED
      BY <2>1, <3>1 DEF Draws
  <2> QED
    BY <2>2, <2>3
<1>10. CASE HandleEvent
  <2>1. \A selected \in Ranges : Fetching(selected) => Begins /\ Kept
    BY DEF Fetching
  <2>2. Redraw => Stays \/ Close
    BY DEF Redraw, Stays, providerVars
  <2>3. Close => Leaves /\ Kept
    BY <1>1 DEF Close
  <2> HIDE DEF Leaves, Begins, Kept
  <2> QED
    BY <1>10, <2>1, <2>2, <2>3 DEF HandleEvent, Handled
<1>11. CASE TimerFires
  BY <1>11 DEF TimerFires
<1>12. CASE UNCHANGED dashboardVars
  BY <1>12 DEF dashboardVars, providerVars, Stays
<1> QED
  BY <1>2, <1>3, <1>4, <1>5, <1>7, <1>8, <1>9, <1>10, <1>11, <1>12 DEF Next

LEMMA FetchErrorsKnown == FetchErrors \subseteq Errors
<1>1. ASSUME NEW response PROVE classify_sdk_error(response) \in Errors
  <2>1. CASE response.status = 403
    BY <2>1 DEF classify_sdk_error, Errors
  <2>2. CASE response.status = 429
    BY <2>2 DEF classify_sdk_error, Errors
  <2>3. CASE response.status # 403 /\ response.status # 429
    BY <2>3 DEF classify_sdk_error, Errors
  <2> QED
    BY <2>1, <2>2, <2>3
<1> QED
  BY <1>1 DEF FetchErrors, Errors

LEMMA ScreenStep ==
  ASSUME HeldTypes, FetchInv, CacheInv, ScreenInv, [Next]_dashboardVars
  PROVE  ScreenInv'
<1>1. held' = held /\ range \in Ranges
  BY HeldStays DEF ScreenInv
<1>2. ASSUME displayed' = displayed, SnapshotTrue(displayed.of)
      PROVE  SnapshotTrue(displayed.of)'
  <2>1. PICK s : s = displayed.of /\ SnapshotTrue(s)
    BY <1>2
  <2> QED
    BY <1>1, <1>2, <2>1, HeldSame
<1>3. CASE (Leaves \/ Begins) /\ Kept
  <2>1. range' \in Ranges /\ phase' \in Active \cup {"closed", "closing", "ended"}
    BY <1>3 DEF Leaves, Begins, Kept, Active
  <2>2. phase' # "showing" /\ (phase' = "fetching" => fetch'.range = range')
    BY <1>3 DEF Leaves, Begins, Started
  <2>3. \/ displayed' = Nothing
        \/ displayed'.kind = "error" /\ displayed'.of \in Errors
        \/ displayed'.kind = "snapshot" /\ SnapshotTrue(displayed.of)'
    BY <1>2, <1>3 DEF ScreenInv, Kept
  <2> QED
    BY <2>1, <2>2, <2>3 DEF ScreenInv, ShownIsAsked
<1>4. CASE Stays
  <2>1. fetch'.range = fetch.range
    <3>1. CASE PageArrives
      <4>1. PICK page \in NextPages : fetch' = Merged(page)
        BY <3>1 DEF PageArrives
      <4>2. PICK results \in TrueResults, token \in Tokens :
              page = [results |-> results, next_token |-> token]
        BY <4>1 DEF NextPages
      <4> QED
        BY <4>1, <4>2, MergedTrue DEF FetchInv
    <3> QED
      BY <1>4, <3>1 DEF Stays
  <2>2. \/ displayed' = Nothing
        \/ displayed'.kind = "error" /\ displayed'.of \in Errors
        \/ displayed'.kind = "snapshot" /\ SnapshotTrue(displayed.of)'
    BY <1>2, <1>4 DEF ScreenInv, Stays, loopVars
  <2> QED
    BY <1>4, <2>1, <2>2 DEF ScreenInv, ShownIsAsked, Stays, loopVars
<1>5. CASE Draws
  <2>1. /\ phase' = "showing" /\ range' = range /\ fetch.range = range
        /\ "showing" \in Active
    BY <1>5 DEF Draws, ScreenInv, Active
  <2>2. CASE throttled' = FALSE /\ \E s \in Taking : displayed' = Shown(s)
    <3>1. PICK s \in Taking : displayed' = Shown(s)
      BY <2>2
    <3>2. SnapshotTrue(s) /\ s.range = fetch.range
      BY TakenTrue DEF FetchInv
    <3>3. displayed'.kind = "snapshot" /\ displayed'.of = s /\ displayed' # Nothing
      BY <3>1 DEF Shown, Nothing
    <3>4. SnapshotTrue(displayed.of)'
      BY <1>1, <3>2, <3>3, HeldSame
    <3> QED
      BY <1>1, <2>1, <2>2, <3>2, <3>3, <3>4 DEF ScreenInv, ShownIsAsked
  <2>3. CASE throttled' = FALSE /\ \E error \in FetchErrors : displayed' = Failure(error)
    <3>1. PICK error \in FetchErrors : displayed' = Failure(error)
      BY <2>3
    <3>2. error \in Errors
      BY FetchErrorsKnown
    <3>3. displayed'.kind = "error" /\ displayed'.of = error /\ displayed' # Nothing
      BY <3>1 DEF Failure, Nothing
    <3> QED
      BY <1>1, <2>1, <2>3, <3>2, <3>3 DEF ScreenInv, ShownIsAsked
  <2>4. CASE /\ displayed' = IF fetch.range \in DOMAIN snapshots
                             THEN Shown(Cached(fetch.range)) ELSE Failure("Throttled")
             /\ throttled' = TRUE /\ UNCHANGED <<newest, fetched>>
    <3>1. CASE range \in DOMAIN snapshots
      <4>1. PICK s : s = snapshots[range]
        OBVIOUS
      <4>2. SnapshotTrue(s) /\ s.range = range
        BY <3>1, <4>1 DEF CacheInv, CacheTrue
      <4> DEFINE shown == [s EXCEPT !.status = "Stale"]
      <4>3. SnapshotTrue(shown) /\ shown.range = range
        BY <4>2, StaleTrue DEF SnapshotTrue, Snapshot
      <4>4. displayed' = Shown(shown)
        BY <2>1, <2>4, <3>1, <4>1 DEF Cached
      <4>5. newest' # <<>> /\ newest'[1].range = range' => newest'[1] = s
        BY <2>1, <2>4, <4>1 DEF CacheInv, CacheTrue
      <4>6. range' \in fetched'
        BY <2>1, <2>4, <3>1 DEF CacheInv, CacheHistory
      <4>7. newest' # <<>> /\ newest'[1].range = range' =>
              displayed' = Shown([newest'[1] EXCEPT !.status = "Stale"])
        BY <4>4, <4>5
      <4> HIDE DEF shown
      <4>8. /\ displayed'.kind = "snapshot" /\ displayed'.of = shown
            /\ displayed' # Nothing
        BY <4>4 DEF Shown, Nothing
      <4>9. SnapshotTrue(displayed.of)'
        BY <1>1, <4>3, <4>8, HeldSame
      <4> QED
        BY <1>1, <2>1, <4>3, <4>6, <4>7, <4>8, <4>9 DEF ScreenInv, ShownIsAsked
    <3>2. CASE range \notin DOMAIN snapshots
      <4>1. displayed' = Failure("Throttled")
        BY <2>1, <2>4, <3>2
      <4>2. /\ displayed'.kind = "error" /\ displayed'.of \in Errors
            /\ displayed' # Nothing
        BY <4>1 DEF Failure, Nothing, Errors
      <4>3. ~(newest' # <<>> /\ newest'[1].range = range')
        BY <2>1, <2>4, <3>2 DEF CacheInv, CacheTrue
      <4>4. ~(range' \in fetched' /\ Cardinality(fetched') <= MaxCached)
        BY <2>1, <2>4, <3>2 DEF CacheInv, CacheHistory
      <4> QED
        BY <1>1, <2>1, <4>1, <4>2, <4>3, <4>4 DEF ScreenInv, ShownIsAsked
    <3> QED
      BY <3>1, <3>2
  <2> QED
    BY <1>5, <2>2, <2>3, <2>4 DEF Draws
<1> QED
  BY <1>1, <1>3, <1>4, <1>5, ScreenMoves

\* The events that were read and not handled, and the flags.
QueueInv == events \in Seq(Events) /\ Len(events) <= MaxEvents
FlagInv == /\ monitor \in BOOLEAN /\ raw \in BOOLEAN
           /\ terminated \in BOOLEAN /\ throttled \in BOOLEAN

LEMMA QueueStep ==
  ASSUME QueueInv, [Next]_dashboardVars
  PROVE  QueueInv'
<1>1. MaxEvents \in Nat
  BY DashboardAssumption
<1>2. \/ events' = events \/ events' = <<>>
      \/ Len(events) < MaxEvents /\ \E event \in Events : events' = Append(events, event)
      \/ events # <<>> /\ events' = Tail(events)
  BY DEF Next, Open, Terminate, Join, MonitorReads, MonitorFails, MonitorStops,
         PageArrives, FetchSucceeds, FetchThrottled, FetchFails, HandleEvent, Handled,
         TimerFires, Fetching, Redraw, Close, Dropped, Show, loopVars,
         terminalVars, dashboardVars, Events
<1>3. <<>> \in Seq(Events) /\ Len(<<>>) = 0
  OBVIOUS
<1>4. ASSUME NEW event \in Events, Len(events) < MaxEvents
      PROVE  Append(events, event) \in Seq(Events) /\ Len(Append(events, event)) <= MaxEvents
  BY <1>1, <1>4 DEF QueueInv
<1>5. ASSUME events # <<>>
      PROVE  Tail(events) \in Seq(Events) /\ Len(Tail(events)) <= MaxEvents
  BY <1>1, <1>5 DEF QueueInv
<1>6. CASE events' = events
  BY <1>6 DEF QueueInv
<1>7. CASE events' = <<>>
  <2>1. events' \in Seq(Events) /\ Len(events') = 0
    BY <1>7
  <2> QED
    BY <1>1, <2>1 DEF QueueInv
<1>8. CASE Len(events) < MaxEvents /\ \E event \in Events : events' = Append(events, event)
  BY <1>4, <1>8 DEF QueueInv
<1>9. CASE events # <<>> /\ events' = Tail(events)
  BY <1>5, <1>9 DEF QueueInv
<1> QED
  BY <1>2, <1>6, <1>7, <1>8, <1>9

LEMMA FlagStep ==
  ASSUME FlagInv, [Next]_dashboardVars
  PROVE  FlagInv'
<1>1. /\ monitor' \in {monitor, TRUE, FALSE} /\ raw' \in {raw, TRUE, FALSE}
      /\ terminated' \in {terminated, TRUE}
  BY DEF Next, Open, Terminate, Join, MonitorReads, MonitorFails, MonitorStops,
         PageArrives, FetchSucceeds, FetchThrottled, FetchFails, HandleEvent, Handled,
         TimerFires, Fetching, Redraw, Close, Dropped, Show, loopVars,
         terminalVars, dashboardVars
<1>2. throttled' \in {throttled, TRUE, FALSE}
  BY DEF Next, Open, Terminate, Join, MonitorReads, MonitorFails, MonitorStops,
         PageArrives, FetchSucceeds, FetchThrottled, FetchFails, HandleEvent, Handled,
         TimerFires, Fetching, Redraw, Close, Dropped, Show, loopVars,
         terminalVars, dashboardVars
<1> QED
  BY <1>1, <1>2 DEF FlagInv

DInv == HeldTypes /\ FetchInv /\ CacheInv /\ ScreenInv /\ QueueInv /\ FlagInv

LEMMA DInvAlways == Spec => []DInv
<1>1. Init => DInv
  <2> SUFFICES ASSUME Init PROVE DInv
    OBVIOUS
  <2> USE DashboardAssumption, ProviderAssumption
  <2>1. HeldTypes
    BY HeldTyped DEF Init
  <2>2. FetchInv
    BY <2>1, StartedTrue DEF Init, FetchInv
  <2>3. CacheInv
    <3>1. DOMAIN snapshots = {} /\ DOMAIN insertion_order = {} /\ Len(insertion_order) = 0
      BY DEF Init
    <3>2. IsFiniteSet({}) /\ Cardinality({}) = 0
      BY FS_EmptySet
    <3> QED
      BY <3>1, <3>2 DEF Init, CacheInv, CacheTypes, CacheTrue, CacheHistory
  <2>4. ScreenInv
    BY DEF Init, ScreenInv, ShownIsAsked, Active
  <2>5. QueueInv /\ FlagInv
    <3>1. QueueInv
      BY DEF Init, QueueInv
    <3>2. FlagInv
      BY Zenon DEF Init, FlagInv
    <3> QED
      BY <3>1, <3>2
  <2> QED
    BY <2>1, <2>2, <2>3, <2>4, <2>5 DEF DInv
<1>2. DInv /\ [Next]_dashboardVars => DInv'
  BY FetchStep, CacheStep, ScreenStep, QueueStep, FlagStep DEF DInv, ScreenInv
<1> QED
  BY <1>1, <1>2, PTL DEF Spec

\* The dashboard is well typed: no fetch goes on for MAX_METRIC_PAGES pages, the cache
\* has no more snapshots than its limit and each of them once in its order, and the
\* screen shows nothing but errors and snapshots.
THEOREM DashboardTypeCorrect == Spec => []TypeOK
<1>1. DInv => TypeOK
  <2> SUFFICES ASSUME DInv PROVE TypeOK
    OBVIOUS
  <2>1. held \in Worlds /\ fetch \in Fetch /\ Cardinality(fetch.seen_tokens) < MaxPages
    BY DEF DInv, HeldTypes, FetchInv, Delivered
  <2>2. ProviderTypeOK
    BY <2>1 DEF DInv, CacheInv, CacheTypes, CacheTrue, CacheHistory, SnapshotTrue,
                ProviderTypeOK
  <2> QED
    BY <2>2 DEF DInv, ScreenInv, QueueInv, FlagInv, SnapshotTrue, TypeOK
<1> QED
  BY <1>1, DInvAlways, PTL

\* Whatever keys come while a request is out, what is drawn is of the range that is
\* selected (the fetch that a key interrupts is dropped in run_with), and a throttled
\* request shows the last snapshot of that range, marked stale (MetricsCache::fetch).
THEOREM ShownWasAsked == Spec => []ShownIsAsked
<1>1. DInv => ShownIsAsked
  BY DEF DInv, ScreenInv
<1> QED
  BY <1>1, DInvAlways, PTL

\* What is called fresh has every sample CloudWatch holds, over pages that call each
\* metric complete or not in any order (FetchState::merge), on the screen as in the
\* cache.
THEOREM FreshWasSound == Spec => []FreshIsSound
<1>1. DInv => FreshIsSound
  <2> SUFFICES ASSUME DInv PROVE FreshIsSound
    OBVIOUS
  <2>1. \A r \in DOMAIN snapshots : SnapshotTrue(snapshots[r])
    BY DEF DInv, CacheInv, CacheTrue
  <2>2. phase = "showing" /\ displayed.kind = "snapshot" => SnapshotTrue(displayed.of)
    BY DEF DInv, ScreenInv, Nothing
  <2> QED
    BY <2>1, <2>2 DEF FreshIsSound, SnapshotTrue
<1> QED
  BY <1>1, DInvAlways, PTL
-----------------------------------------------------------------------------
(***************************************************************************)
(* The lines of a chart: each goes on from sample to sample of a list.     *)
(***************************************************************************)
Traced(list, run) ==
  /\ run \in Seq(Nat \X Nat)
  /\ \A j \in DOMAIN run :
       /\ run[j][1] \in DOMAIN list /\ list[run[j][1]] = <<run[j][2]>>
       /\ j > 1 => run[j][1] = run[j - 1][1] + 1

Lines(list, runs) ==
  /\ runs \in Seq(Seq(Nat \X Nat))
  /\ \A i \in DOMAIN runs : Traced(list, runs[i])

\* Up to the k-th sample.
ScanTrue(list, k, scan) ==
  /\ scan = [done |-> scan.done, run |-> scan.run]
  /\ Lines(list, scan.done) /\ Traced(list, scan.run)
  /\ scan.run # <<>> => scan.run[Len(scan.run)][1] = k

LEMMA LinesGrow ==
  ASSUME NEW list, NEW runs, Lines(list, runs), NEW run, Traced(list, run)
  PROVE  Lines(list, Append(runs, run))
<1>1. /\ Append(runs, run) \in Seq(Seq(Nat \X Nat))
      /\ DOMAIN Append(runs, run) = 1 .. Len(runs) + 1
      /\ Append(runs, run)[Len(runs) + 1] = run
      /\ DOMAIN runs = 1 .. Len(runs) /\ Len(runs) \in Nat
      /\ \A i \in 1 .. Len(runs) : Append(runs, run)[i] = runs[i]
  BY DEF Lines, Traced
<1> QED
  BY <1>1 DEF Lines

LEMMA RunGrows ==
  ASSUME NEW list, NEW run, Traced(list, run), NEW k \in Nat, NEW v \in Nat,
         k \in DOMAIN list, list[k] = <<v>>,
         run # <<>> => run[Len(run)][1] = k - 1
  PROVE  /\ Traced(list, Append(run, <<k, v>>)) /\ Append(run, <<k, v>>) # <<>>
         /\ Append(run, <<k, v>>)[Len(Append(run, <<k, v>>))][1] = k
<1> DEFINE longer == Append(run, <<k, v>>)
<1>1. /\ longer \in Seq(Nat \X Nat) /\ Len(longer) = Len(run) + 1
      /\ DOMAIN longer = 1 .. Len(run) + 1 /\ longer[Len(run) + 1] = <<k, v>>
      /\ DOMAIN run = 1 .. Len(run) /\ Len(run) \in Nat
      /\ \A i \in 1 .. Len(run) : longer[i] = run[i]
  BY DEF Traced
<1>2. <<k, v>>[1] = k /\ <<k, v>>[2] = v
  OBVIOUS
<1>3. Len(run) # 0 => run # <<>>
  OBVIOUS
<1>4. longer # <<>>
  <2>1. Len(longer) # 0
    BY <1>1
  <2> HIDE DEF longer
  <2> QED
    BY <2>1
<1> HIDE DEF longer
<1>5. ASSUME NEW j \in DOMAIN longer
      PROVE  /\ longer[j][1] \in DOMAIN list /\ list[longer[j][1]] = <<longer[j][2]>>
             /\ j > 1 => longer[j][1] = longer[j - 1][1] + 1
  <2>1. CASE j = Len(run) + 1
    <3>1. j > 1 => longer[j - 1] = run[Len(run)] /\ run[Len(run)][1] = k - 1
      BY <1>1, <1>3, <2>1
    <3> QED
      BY <1>1, <1>2, <2>1, <3>1
  <2>2. CASE j # Len(run) + 1
    <3>1. j \in DOMAIN run /\ longer[j] = run[j] /\ (j > 1 => longer[j - 1] = run[j - 1])
      <4>1. j \in 1 .. Len(run)
        BY <1>1, <2>2
      <4>2. j > 1 => j - 1 \in 1 .. Len(run)
        <5>1. Len(run) \in Nat
          BY <1>1
        <5> QED
          BY <4>1, <5>1
      <4> QED
        BY <1>1, <4>1, <4>2
    <3> QED
      BY <3>1 DEF Traced
  <2> QED
    BY <2>1, <2>2
<1>6. Traced(list, longer)
  BY <1>1, <1>5 DEF Traced
<1> QED
  BY <1>1, <1>2, <1>4, <1>6 DEF longer

\* A sample that is there is a number.
LEMMA SampleIs ==
  ASSUME NEW sample \in Sample, sample # <<>>
  PROVE  \E v \in Nat : sample = <<v>>
<1>1. sample \in Seq(Nat) /\ Len(sample) <= 1
  BY DEF Sample
<1>2. Len(sample) \in Nat /\ Len(sample) # 0
  BY <1>1
<1>3. \A n \in Nat : n <= 1 /\ n # 0 => n = 1
  OBVIOUS
<1>4. Len(sample) = 1
  BY <1>1, <1>2, <1>3, Zenon
<1>5. sample[1] \in Nat
  BY <1>1, <1>4, ElementOf
<1>6. sample = <<sample[1]>>
  BY <1>1, <1>4
<1> QED
  BY <1>5, <1>6

LEMMA ScanGoesOn ==
  ASSUME NEW list \in Seq(Sample), NEW k \in 1 .. Len(list), NEW scan,
         ScanTrue(list, k - 1, scan)
  PROVE  ScanTrue(list, k, Scanned(scan, k, list[k]))
<1>1. list[k] \in Sample /\ k \in Nat /\ k \in DOMAIN list
  OBVIOUS
<1>2. Traced(list, <<>>)
  BY DEF Traced
<1>3. CASE list[k] # <<>>
  <2>1. PICK v \in Nat : list[k] = <<v>>
    BY <1>1, <1>3, SampleIs
  <2> DEFINE longer == Append(scan.run, <<k, v>>)
  <2>2. /\ Traced(list, longer) /\ longer # <<>> /\ longer[Len(longer)][1] = k
    BY <1>1, <2>1, RunGrows DEF ScanTrue
  <2>3. Scanned(scan, k, list[k]) = [done |-> scan.done, run |-> longer]
    <3>1. scan = [done |-> scan.done, run |-> scan.run]
      BY DEF ScanTrue
    <3>2. list[k][1] = v
      BY <2>1
    <3> QED
      BY <1>3, <3>1, <3>2 DEF Scanned
  <2> HIDE DEF longer
  <2> QED
    BY <2>2, <2>3 DEF ScanTrue
<1>4. CASE list[k] = <<>> /\ scan.run # <<>>
  <2>1. Scanned(scan, k, list[k]) = [done |-> Append(scan.done, scan.run), run |-> <<>>]
    BY <1>4 DEF Scanned
  <2>2. Lines(list, Append(scan.done, scan.run))
    BY LinesGrow DEF ScanTrue
  <2> QED
    BY <1>2, <2>1, <2>2 DEF ScanTrue
<1>5. CASE list[k] = <<>> /\ scan.run = <<>>
  BY <1>5 DEF Scanned, ScanTrue
<1> QED
  BY <1>3, <1>4, <1>5

ScanUpTo(list, m, scan) ==
  scan = [k \in 0 .. m |-> IF k = 0 THEN NotScanned ELSE Scanned(scan[k - 1], k, list[k])]

LEMMA ScanGrows ==
  ASSUME NEW list, NEW m \in Nat, NEW g, ScanUpTo(list, m, g)
  PROVE  \E h : ScanUpTo(list, m + 1, h)
<1> DEFINE h == [k \in 0 .. m + 1 |-> IF k = m + 1 THEN Scanned(g[m], m + 1, list[m + 1])
                                      ELSE g[k]]
           e == [k \in 0 .. m + 1 |-> IF k = 0 THEN NotScanned
                                      ELSE Scanned(h[k - 1], k, list[k])]
<1>1. ASSUME NEW k \in 0 .. m + 1
      PROVE  h[k] = IF k = 0 THEN NotScanned ELSE Scanned(h[k - 1], k, list[k])
  <2>1. CASE k = m + 1
    BY <2>1
  <2>2. CASE k # m + 1
    <3>1. k \in 0 .. m /\ (k # 0 => k - 1 \in 0 .. m /\ k - 1 # m + 1)
      BY <2>2
    <3>2. g[k] = IF k = 0 THEN NotScanned ELSE Scanned(g[k - 1], k, list[k])
      BY <3>1 DEF ScanUpTo
    <3> QED
      BY <2>2, <3>1, <3>2
  <2> QED
    BY <2>1, <2>2
<1>2. \A k \in 0 .. m + 1 : h[k] = e[k]
  BY <1>1
<1>3. h = e
  BY <1>2
<1>4. ScanUpTo(list, m + 1, h)
  BY <1>3 DEF ScanUpTo
<1> QED
  BY <1>4

LEMMA ScanUnfolds ==
  ASSUME NEW list \in Seq(Sample)
  PROVE  \E scan : /\ ScanUpTo(list, Len(list), scan)
                   /\ chart_segments(list) =
                        LET all == scan[Len(list)] IN
                          IF all.run # <<>> THEN Append(all.done, all.run) ELSE all.done
<1> DEFINE S == {m \in Nat : \E scan : ScanUpTo(list, m, scan)}
<1>1. Len(list) \in Nat
  OBVIOUS
<1>2. 0 \in S
  <2>1. ScanUpTo(list, 0, [k \in 0 .. 0 |-> NotScanned])
    BY DEF ScanUpTo
  <2> QED
    BY <2>1
<1>3. \A m \in Nat : m \in S => m + 1 \in S
  BY ScanGrows
<1> HIDE DEF S
<1>4. Nat \subseteq S
  BY <1>2, <1>3, SetInduction
<1>5. \E scan : ScanUpTo(list, Len(list), scan)
  BY <1>1, <1>4 DEF S
<1> DEFINE scan[k \in 0 .. Len(list)] ==
             IF k = 0 THEN NotScanned ELSE Scanned(scan[k - 1], k, list[k])
<1>6. ScanUpTo(list, Len(list), scan)
  BY <1>5 DEF scan, ScanUpTo
<1>7. chart_segments(list) =
        LET all == scan[Len(list)] IN
          IF all.run # <<>> THEN Append(all.done, all.run) ELSE all.done
  BY DEF chart_segments, scan
<1> HIDE DEF scan
<1> QED
  BY <1>6, <1>7

\* No line crosses a gap, and every point of one is a sample.
LEMMA ChartTrue ==
  ASSUME NEW list \in Seq(Sample)
  PROVE  Lines(list, chart_segments(list))
<1>1. PICK scan :
        /\ ScanUpTo(list, Len(list), scan)
        /\ chart_segments(list) = LET all == scan[Len(list)] IN
             IF all.run # <<>> THEN Append(all.done, all.run) ELSE all.done
  BY ScanUnfolds
<1> DEFINE S == {k \in Nat : k <= Len(list) => ScanTrue(list, k, scan[k])}
<1>2. Len(list) \in Nat
  OBVIOUS
<1>3. 0 \in S
  <2>1. scan[0] = NotScanned
    BY <1>1, <1>2 DEF ScanUpTo
  <2>2. ScanTrue(list, 0, NotScanned)
    BY DEF ScanTrue, NotScanned, Lines, Traced
  <2> QED
    BY <2>1, <2>2
<1>4. ASSUME NEW k \in Nat, k \in S PROVE k + 1 \in S
  <2> SUFFICES ASSUME k + 1 <= Len(list) PROVE ScanTrue(list, k + 1, scan[k + 1])
    OBVIOUS
  <2>1. scan[k + 1] = Scanned(scan[k], k + 1, list[k + 1])
    BY <1>1, <1>2 DEF ScanUpTo
  <2>2. ScanTrue(list, (k + 1) - 1, scan[k]) /\ k + 1 \in 1 .. Len(list)
    BY <1>2, <1>4
  <2> QED
    BY <2>1, <2>2, ScanGoesOn
<1> HIDE DEF S
<1>5. Nat \subseteq S
  BY <1>3, <1>4, SetInduction
<1>6. ScanTrue(list, Len(list), scan[Len(list)])
  BY <1>2, <1>5 DEF S
<1> QED
  BY <1>1, <1>6, LinesGrow DEF ScanTrue
-----------------------------------------------------------------------------
(***************************************************************************)
(* The screen, figure by figure.                                           *)
(***************************************************************************)
\* The samples that are drawn of a metric are those of the snapshot.
LEMMA SeriesTrue ==
  ASSUME NEW s, SnapshotTrue(s), NEW m \in Metrics
  PROVE  /\ series(s, m) \in Seq(Sample) /\ sample_count(s.range) \in Nat
         /\ Len(series(s, m)) = sample_count(s.range)
         /\ DOMAIN series(s, m) = 1 .. sample_count(s.range)
         /\ \A k \in 1 .. sample_count(s.range) :
              series(s, m)[k] # <<>> => series(s, m)[k] \in Held(s.range, m, k)
         /\ latest_of(series(s, m)) # <<>> =>
              /\ sample_count(s.range) \in 1 .. sample_count(s.range)
              /\ latest_of(series(s, m)) = series(s, m)[sample_count(s.range)]
              /\ latest_of(series(s, m)) \in Held(s.range, m, sample_count(s.range))
<1> DEFINE list == series(s, m)
           last == sample_count(s.range)
<1>1. list = s.series[m] /\ s.series[m] \in Seq(Sample) /\ s.range \in Ranges
  BY DEF SnapshotTrue, Snapshot, series
<1>2. last \in Nat
  BY <1>1, Window
<1>3. DOMAIN list = 1 .. last /\ \A k \in 1 .. last : list[k] # <<>> => list[k] \in Held(s.range, m, k)
  BY <1>1 DEF SnapshotTrue
<1>4. list \in Seq(Sample) /\ Len(list) \in Nat /\ DOMAIN list = 1 .. Len(list)
  BY <1>1, ElementOf
<1> HIDE DEF list, last
<1>5. Len(list) = last
  <2>1. \A k \in Nat : k \in 1 .. Len(list) <=> k \in 1 .. last
    BY <1>3, <1>4
  <2>2. Len(list) \in 1 .. Len(list) \/ Len(list) = 0
    BY <1>4
  <2>3. last \in 1 .. last \/ last = 0
    BY <1>2
  <2>4. Len(list) <= last
    BY <1>2, <1>4, <2>1, <2>2
  <2>5. last <= Len(list)
    BY <1>2, <1>4, <2>1, <2>3
  <2>6. \A a, b \in Nat : a <= b /\ b <= a => a = b
    OBVIOUS
  <2> QED
    BY <1>2, <1>4, <2>4, <2>5, <2>6
<1>6. ASSUME latest_of(list) # <<>>
      PROVE  last \in 1 .. last /\ latest_of(list) = list[last]
  <2>1. list # <<>> /\ latest_of(list) = list[last]
    BY <1>5, <1>6 DEF latest_of
  <2> QED
    BY <1>2, <1>4, <1>5, <2>1
<1> QED
  BY <1>2, <1>3, <1>4, <1>5, <1>6 DEF list, last

\* Every metric that is asked for has a place on a screen that is not narrow.
LEMMA NoneLeftOut ==
  ASSUME NEW area \in Areas, layout_mode(area) # "Narrow", NEW query \in metric_queries
  PROVE  query.id \in Valued(layout_mode(area))
<1>1. query.id \in MetricKey
  BY DEF metric_queries, Query, MetricKey, Counts, Dpus, Bytes, Times
<1>2. area.width \in Nat /\ area.height \in Nat
  BY DashboardAssumption
<1>3. CASE area.width < 80 \/ area.height < 22
  BY <1>2, <1>3 DEF layout_mode
<1>4. CASE area.width >= 120 /\ area.height >= 38
  <2>1. layout_mode(area) = "Full"
    BY <1>2, <1>4 DEF layout_mode
  <2>2. MetricKey = SUMMARY_KEYS \cup DETAIL_KEYS
    BY DEF MetricKey, Counts, Dpus, Bytes, Times, SUMMARY_KEYS, DETAIL_KEYS
  <2>3. Valued("Full") = SUMMARY_KEYS \cup DETAIL_KEYS
    BY DEF Valued
  <2> QED
    BY <1>1, <2>1, <2>2, <2>3
<1>5. CASE ~(area.width < 80 \/ area.height < 22) /\ ~(area.width >= 120 /\ area.height >= 38)
  <2>1. layout_mode(area) = "Compact"
    BY <1>5 DEF layout_mode
  <2> QED
    BY <1>1, <2>1 DEF Valued
<1> QED
  BY <1>3, <1>4, <1>5

\* A metric is shown in the unit it is asked for.
LEMMA UnitsFit ==
  ASSUME NEW m \in MetricKey
  PROVE  \E query \in metric_queries : query.id = m /\ Fits(query.unit, metric_unit(m))
<1> DEFINE Asked(statistic, unit) == [id |-> m, statistic |-> statistic, unit |-> unit]
<1>1. CASE m \in Times
  <2>1. metric_unit(m) = "Milliseconds"
    BY <1>1 DEF metric_unit, Counts, Dpus, Bytes, Times
  <2>2. \/ Asked("Average", "Milliseconds") \in metric_queries
        \/ Asked("Sum", "Milliseconds") \in metric_queries
    BY <1>1 DEF metric_queries, Query, Times
  <2> QED
    BY <2>1, <2>2 DEF Fits
<1>2. CASE m \in Bytes
  <2>1. metric_unit(m) = "Bytes"
    BY <1>2 DEF metric_unit, Counts, Dpus, Bytes, Times
  <2>2. \/ Asked("Average", "Bytes") \in metric_queries
        \/ Asked("Sum", "Bytes") \in metric_queries
    BY <1>2 DEF metric_queries, Query, Bytes
  <2> QED
    BY <2>1, <2>2 DEF Fits
<1>3. CASE m \in Dpus
  <2>1. metric_unit(m) = "Dpu"
    BY <1>3 DEF metric_unit, Counts, Dpus, Bytes, Times
  <2>2. Asked("Sum", "any") \in metric_queries
    BY <1>3 DEF metric_queries, Query, Dpus
  <2> QED
    BY <2>1, <2>2 DEF Fits
<1>4. CASE m \in Counts
  <2>1. metric_unit(m) = "Count"
    BY <1>4 DEF metric_unit, Counts, Dpus, Bytes, Times
  <2>2. \/ Asked("Sum", "None") \in metric_queries
        \/ Asked("Sum", "any") \in metric_queries
        \/ Asked("Average", "any") \in metric_queries
    BY <1>4 DEF metric_queries, Query, Counts
  <2> QED
    BY <2>1, <2>2 DEF Fits
<1> QED
  BY <1>1, <1>2, <1>3, <1>4 DEF MetricKey

LEMMA DrawnAreKnown ==
  ASSUME NEW area
  PROVE  LET mode == layout_mode(area) IN
           /\ Valued(mode) \subseteq MetricKey /\ Sparkled(mode) \subseteq MetricKey
           /\ Charted(mode) \subseteq MetricKey
<1>1. layout_mode(area) \in {"Narrow", "Full", "Compact"}
  BY DEF layout_mode
<1>2. /\ SUMMARY_KEYS \subseteq MetricKey /\ DETAIL_KEYS \subseteq MetricKey
      /\ CHART_KEYS \subseteq MetricKey
  BY DEF MetricKey, Counts, Dpus, Bytes, Times, SUMMARY_KEYS, DETAIL_KEYS, CHART_KEYS
<1> QED
  BY <1>1, <1>2 DEF Valued, Sparkled, Charted

\* The ratio is of one period in which both metrics have a sample.
LEMMA RatioTrue ==
  ASSUME NEW s, SnapshotTrue(s), latest_of(read_only_ratio(s)) # <<>>
  PROVE  \E t \in Held(s.range, "total_transactions", sample_count(s.range)),
            n \in Held(s.range, "read_only_transactions", sample_count(s.range)) :
           latest_of(read_only_ratio(s)) = <<(n[1] * 100) \div t[1]>>
<1> DEFINE total == series(s, "total_transactions")
           read_only == series(s, "read_only_transactions")
           last == sample_count(s.range)
           At(list, k) == IF k \in DOMAIN list THEN list[k] ELSE <<>>
           length == IF Len(total) > Len(read_only) THEN Len(total) ELSE Len(read_only)
           ratio == read_only_ratio(s)
<1>1. ratio = [k \in 1 .. length |->
          IF At(total, k) # <<>> /\ At(read_only, k) # <<>> /\ total[k][1] > 0
          THEN <<(read_only[k][1] * 100) \div total[k][1]>> ELSE <<>>]
  BY DEF read_only_ratio
<1>2. ASSUME NEW key PROVE key \in Metrics \/ series(s, key) = <<>>
  BY DEF series, SnapshotTrue, Snapshot
<1>3. /\ total \in Seq(Sample) /\ read_only \in Seq(Sample)
      /\ Len(total) \in Nat /\ Len(read_only) \in Nat /\ length \in Nat
  <2>1. ASSUME NEW key PROVE series(s, key) \in Seq(Sample)
    <3>1. CASE key \in Metrics
      BY <3>1, SeriesTrue
    <3>2. CASE series(s, key) = <<>>
      BY <3>2
    <3> QED
      BY <1>2, <3>1, <3>2
  <2>2. total \in Seq(Sample) /\ read_only \in Seq(Sample)
    BY <2>1
  <2> HIDE DEF total, read_only
  <2> QED
    BY <2>2
<1> HIDE DEF total, read_only
<1>4. Len(ratio) = length /\ DOMAIN ratio = 1 .. length
  BY <1>1, <1>3
<1> HIDE DEF ratio
<1>5. length # 0 /\ latest_of(ratio) = ratio[length]
  BY <1>3, <1>4 DEF latest_of, ratio
<1> HIDE DEF length
<1>6. /\ length \in DOMAIN total /\ total[length] # <<>>
      /\ length \in DOMAIN read_only /\ read_only[length] # <<>>
      /\ latest_of(ratio) = <<(read_only[length][1] * 100) \div total[length][1]>>
  BY <1>1, <1>3, <1>4, <1>5 DEF ratio
<1>7. "total_transactions" \in Metrics /\ "read_only_transactions" \in Metrics
  BY <1>2, <1>6 DEF total, read_only
<1>8. /\ Len(total) = last /\ DOMAIN total = 1 .. last
      /\ Len(read_only) = last /\ DOMAIN read_only = 1 .. last
      /\ \A k \in 1 .. last : total[k] # <<>> =>
           total[k] \in Held(s.range, "total_transactions", k)
      /\ \A k \in 1 .. last : read_only[k] # <<>> =>
           read_only[k] \in Held(s.range, "read_only_transactions", k)
  BY <1>7, SeriesTrue DEF total, read_only
<1>9. length = last
  BY <1>8 DEF length
<1> QED
  BY <1>6, <1>8, <1>9 DEF ratio

\* What ScreenIsTrue says of the figures that are drawn of a snapshot in one layout.
FiguresTrue(s, mode, screen) ==
  LET r == s.range
      last == sample_count(r)
  IN
    /\ mode # "Narrow" => \A query \in metric_queries : query.id \in DOMAIN screen.values
    /\ \A m \in Metrics \cap DOMAIN screen.values :
         \/ screen.values[m] = <<>>
         \/ /\ <<screen.values[m][2]>> \in Held(r, m, last)
            /\ \E query \in metric_queries :
                 query.id = m /\ Fits(query.unit, screen.values[m][1])
    /\ screen.ratio # <<>> =>
         \E t \in Held(r, "total_transactions", last), n \in Held(r, "read_only_transactions", last) :
           screen.ratio[2] = (n[1] * 100) \div t[1]
    /\ \A m \in Metrics \cap DOMAIN screen.sparks : \A k \in 1 .. last :
         screen.sparks[m][k] # <<>> => Held(r, m, k) # {}
    /\ \A m \in Metrics \cap DOMAIN screen.charts :
         LET segments == screen.charts[m] IN
           \A i \in DOMAIN segments : \A j \in DOMAIN segments[i] :
             /\ <<segments[i][j][2]>> \in Held(r, m, segments[i][j][1])
             /\ j > 1 => segments[i][j][1] = segments[i][j - 1][1] + 1

\* docs/interactive-shell.md:51 and DashboardModel: every figure is one CloudWatch
\* holds, for the period and in the unit it stands for, and a gap stays a gap.
THEOREM ScreenStaysTrue == Spec => []ScreenIsTrue
<1>1. ASSUME NEW s, SnapshotTrue(s), NEW area \in Areas
      PROVE  FiguresTrue(s, layout_mode(area), render_metrics(s, layout_mode(area)))
  <2> DEFINE r == s.range
             mode == layout_mode(area)
             screen == render_metrics(s, mode)
             last == sample_count(r)
  <2>1. /\ screen.values = [key \in Valued(mode) |->
                             format_value(metric_unit(key), latest_of(series(s, key)))]
        /\ screen.ratio = format_value("Percent", latest_of(read_only_ratio(s)))
        /\ screen.sparks = [key \in Sparkled(mode) |-> sparkline_data(series(s, key))]
        /\ screen.charts = [key \in Charted(mode) |-> chart_segments(series(s, key))]
    BY DEF render_metrics
  <2> HIDE DEF screen
  <2>2. mode # "Narrow" => \A query \in metric_queries : query.id \in DOMAIN screen.values
    BY <2>1, NoneLeftOut
  <2>3. ASSUME NEW m \in Metrics \cap DOMAIN screen.values, screen.values[m] # <<>>
        PROVE  /\ <<screen.values[m][2]>> \in Held(r, m, last)
               /\ \E query \in metric_queries :
                    query.id = m /\ Fits(query.unit, screen.values[m][1])
    <3> DEFINE list == series(s, m)
               sample == latest_of(list)
    <3>1. m \in MetricKey /\ m \in Metrics
      BY <2>1, DrawnAreKnown
    <3>2. screen.values[m] = <<metric_unit(m), sample[1]>> /\ sample # <<>>
      BY <2>1, <2>3 DEF format_value
    <3>3. /\ list \in Seq(Sample) /\ sample \in Held(r, m, last)
          /\ sample = list[last] /\ last \in 1 .. Len(list)
      BY <1>1, <3>1, <3>2, SeriesTrue
    <3>4. sample \in Sample
      BY <3>3
    <3> HIDE DEF sample, list
    <3>5. <<sample[1]>> = sample
      BY <3>2, <3>4, SampleIs
    <3>6. screen.values[m][1] = metric_unit(m) /\ screen.values[m][2] = sample[1]
      BY <3>2
    <3> QED
      BY <3>1, <3>3, <3>5, <3>6, UnitsFit
  <2>4. ASSUME screen.ratio # <<>>
        PROVE  \E t \in Held(r, "total_transactions", last),
                  n \in Held(r, "read_only_transactions", last) :
                 screen.ratio[2] = (n[1] * 100) \div t[1]
    <3> DEFINE ratio == latest_of(read_only_ratio(s))
    <3>1. ratio # <<>> /\ screen.ratio = <<"Percent", ratio[1]>>
      BY <2>1, <2>4 DEF format_value
    <3>2. PICK t \in Held(r, "total_transactions", last),
               n \in Held(r, "read_only_transactions", last) :
            ratio = <<(n[1] * 100) \div t[1]>>
      BY <1>1, <3>1, RatioTrue
    <3> HIDE DEF ratio
    <3>3. screen.ratio[2] = (n[1] * 100) \div t[1]
      BY <3>1, <3>2
    <3> QED
      BY <3>3
  <2>5. ASSUME NEW m \in Metrics \cap DOMAIN screen.sparks, NEW k \in 1 .. last,
               screen.sparks[m][k] # <<>>
        PROVE  Held(r, m, k) # {}
    <3> DEFINE list == series(s, m)
    <3>1. /\ m \in Metrics /\ k \in DOMAIN list
          /\ list[k] # <<>> => list[k] \in Held(r, m, k)
      BY <1>1, SeriesTrue
    <3>2. screen.sparks[m] = sparkline_data(list)
      BY <2>1
    <3> HIDE DEF list
    <3>3. list[k] # <<>>
      BY <2>5, <3>1, <3>2 DEF sparkline_data
    <3> QED
      BY <3>1, <3>3
  <2>6. ASSUME NEW m \in Metrics \cap DOMAIN screen.charts,
               NEW i \in DOMAIN screen.charts[m], NEW j \in DOMAIN screen.charts[m][i]
        PROVE  /\ <<screen.charts[m][i][j][2]>> \in Held(r, m, screen.charts[m][i][j][1])
               /\ j > 1 =>
                    screen.charts[m][i][j][1] = screen.charts[m][i][j - 1][1] + 1
    <3> DEFINE list == series(s, m)
               runs == chart_segments(list)
    <3>1. /\ list \in Seq(Sample) /\ DOMAIN list = 1 .. last
          /\ \A k \in 1 .. last : list[k] # <<>> => list[k] \in Held(r, m, k)
      BY <1>1, SeriesTrue
    <3>2. screen.charts[m] = runs
      BY <2>1
    <3>3. Lines(list, runs)
      BY <3>1, ChartTrue
    <3> HIDE DEF list, runs
    <3>4. PICK point : point = runs[i][j]
      OBVIOUS
    <3>5. /\ point[1] \in DOMAIN list /\ list[point[1]] = <<point[2]>>
          /\ j > 1 => point[1] = runs[i][j - 1][1] + 1
      BY <3>2, <3>3, <3>4 DEF Lines, Traced
    <3>6. <<point[2]>> # <<>>
      OBVIOUS
    <3> QED
      BY <3>1, <3>2, <3>4, <3>5, <3>6
  <2> QED
    BY <2>2, <2>3, <2>4, <2>5, <2>6 DEF screen, FiguresTrue
<1>2. DInv => ScreenIsTrue
  <2> SUFFICES ASSUME DInv, phase = "showing", displayed.kind = "snapshot"
               PROVE  ScreenIsTrue
    BY DEF ScreenIsTrue
  <2>1. SnapshotTrue(displayed.of)
    BY DEF DInv, ScreenInv, Nothing
  <2>2. \A area : render(displayed, area).metrics
                    = render_metrics(displayed.of, layout_mode(area))
    BY DEF render
  <2>3. \A area \in Areas :
          FiguresTrue(displayed.of, layout_mode(area), render(displayed, area).metrics)
    BY <1>1, <2>1, <2>2
  <2> QED
    BY <2>3 DEF ScreenIsTrue, FiguresTrue
<1> QED
  BY <1>2, DInvAlways, PTL
=============================================================================
