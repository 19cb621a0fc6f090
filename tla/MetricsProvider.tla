--------------------------- MODULE MetricsProvider ---------------------------
(***************************************************************************)
(* The metrics of the dashboard: one fetch of src/aws/metrics.rs, page by  *)
(* page, and the cache of the snapshots that succeeded.                    *)
(*                                                                         *)
(* A process asks for one cluster in one Region, so that the key of the    *)
(* cache is the range.  Times and values are numbers; an option is <<>> or *)
(* <<value>>, and the value of a point that is not finite is <<>>.         *)
(***************************************************************************)
EXTENDS Integers, Sequences, FiniteSets

CONSTANTS
  Ranges,       \* the ranges a user can select
  RangeSpec,    \* of each range, its duration and the period of its samples
  Now,          \* the time of the fetches
  Metrics,      \* the metrics of one request
  Worlds,       \* what CloudWatch may hold: of each metric, its points in order
  Answers,      \* what CloudWatch may say of a metric, but that it is forbidden
  Tokens,       \* tokens of the pages that follow
  MaxPages,     \* MAX_METRIC_PAGES
  MaxCached     \* MAX_CACHED_SNAPSHOTS

\* A value that may be missing.
Sample == {value \in Seq(Nat) : Len(value) <= 1}

ASSUME ProviderAssumption ==
  /\ MaxPages \in Nat \ {0} /\ MaxCached \in Nat \ {0} /\ Now \in Nat
  /\ RangeSpec \in [Ranges -> [duration : Nat, period : Nat \ {0}]]
  /\ Worlds \subseteq [Metrics -> Seq([at : Nat, value : Sample])]
  /\ Answers \subseteq [code : STRING, warned : BOOLEAN]
  /\ "none" \notin Tokens

VARIABLES
  held,       \* what CloudWatch holds (external)
  fetch,      \* the fetch in progress
  snapshots,  \* the cached snapshots, by range
  insertion_order,
  newest,     \* history: the last snapshot that was fetched, or <<>>
  fetched     \* history: the ranges of which one was fetched

providerVars == <<held, fetch, snapshots, insertion_order, newest, fetched>>

\* Delivered: how many points of each metric have come.  Named is history: the
\* metrics CloudWatch has said anything of.
Fetch == [range : Ranges, seen_tokens : SUBSET Tokens,
          incomplete_results : SUBSET Metrics,
          named : SUBSET Metrics, delivered : [Metrics -> Nat]]

Snapshot == [range : Ranges, status : {"Fresh", "Stale"},
             series : [Metrics -> Seq(Sample)]]

ProviderTypeOK ==
  /\ held \in Worlds
  /\ fetch \in Fetch /\ Cardinality(fetch.seen_tokens) < MaxPages
  /\ DOMAIN snapshots \subseteq Ranges
  /\ \A r \in DOMAIN snapshots : snapshots[r] \in Snapshot
  /\ Cardinality(DOMAIN snapshots) <= MaxCached
  /\ insertion_order \in Seq(Ranges)
  /\ Len(insertion_order) = Cardinality(DOMAIN snapshots)
  /\ {insertion_order[n] : n \in DOMAIN insertion_order} = DOMAIN snapshots
  /\ newest = <<>> \/ newest[1] \in Snapshot
  /\ fetched \subseteq Ranges

Started(range) ==
  [range |-> range, seen_tokens |-> {}, incomplete_results |-> {},
   named |-> {}, delivered |-> [m \in Metrics |-> 0]]
-----------------------------------------------------------------------------
(***************************************************************************)
(* What is asked, and when a point counts.                                 *)
(***************************************************************************)
Query(statistic, unit, ids) ==
  [id : ids, statistic : {statistic}, unit : {unit}]

\* A unit CloudWatch does not know must be left out; so it is of the usage metrics.
metric_queries ==
  Query("Sum", "None",
        {"total_transactions", "read_only_transactions", "occ_conflicts", "query_timeouts"})
  \cup Query("Average", "Milliseconds", {"commit_latency"})
  \cup Query("Sum", "Milliseconds", {"compute_time"})
  \cup Query("Sum", "Bytes", {"bytes_read", "bytes_written"})
  \cup Query("Average", "Bytes", {"cluster_storage_size"})
  \cup Query("Sum", "any", {"total_dpu", "read_dpu", "write_dpu", "compute_dpu",
                            "multi_region_write_dpu", "admin_connection_attempts",
                            "custom_role_connection_attempts"})
  \cup Query("Average", "any", {"active_connections"})

align_to_period(time, period) == (time \div period) * period
align_from_start(time, start, period) == start + ((time - start) \div period) * period

sample_count(range) == RangeSpec[range].duration \div RangeSpec[range].period
end_time(range) == align_to_period(Now, RangeSpec[range].period)
start_time(range) == end_time(range) - RangeSpec[range].duration

\* Is it a number, in the window?
accepted(range, point) ==
  /\ point.value # <<>>
  /\ start_time(range) <= point.at /\ point.at < end_time(range)

\* One sample for each period, the last of its points, or none.
samples(range, points) ==
  LET start == start_time(range)
      period == RangeSpec[range].period
      Bucket(k) ==
        {i \in DOMAIN points :
           /\ accepted(range, points[i])
           /\ align_from_start(points[i].at, start, period) = start + (k - 1) * period}
  IN [k \in 1 .. sample_count(range) |->
       IF Bucket(k) = {} THEN <<>>
       ELSE points[CHOOSE i \in Bucket(k) : \A j \in Bucket(k) : j <= i].value]
-----------------------------------------------------------------------------
(***************************************************************************)
(* A page (external).  CloudWatch delivers the points of a metric in their *)
(* order and calls a metric complete, without a message, only when it has  *)
(* delivered everything it holds of it; a last page comes when it has said *)
(* something of every metric it holds points of.                           *)
(***************************************************************************)
Results ==
  {<<>>} \cup
  {<<[answer |-> answer, upto |-> n]>> :
     answer \in Answers, n \in UNION {0 .. Len(held[m]) : m \in Metrics}}

True(m, result) ==
  /\ fetch.delivered[m] <= result.upto /\ result.upto <= Len(held[m])
  /\ result.answer = [code |-> "Complete", warned |-> FALSE] => result.upto = Len(held[m])

TrueResults ==
  {results \in [Metrics -> Results] :
     \A m \in Metrics : results[m] # <<>> => True(m, results[m][1])}

LastPages ==
  {[results |-> results, next_token |-> "none"] : results \in
     {results \in TrueResults :
        \A m \in Metrics : results[m] = <<>> => m \in fetch.named \/ held[m] = <<>>}}

\* map_sdk_result: whatever comes with a message is of unknown status.
map_sdk_result(answer) ==
  IF answer.code = "Complete" /\ ~answer.warned THEN "Complete"
  ELSE IF answer.warned \/ answer.code \notin {"PartialData", "InternalError"} THEN "Unknown"
  ELSE answer.code

Named(page) == {m \in Metrics : page.results[m] # <<>>}

Completed(page) ==
  {m \in Named(page) : map_sdk_result(page.results[m][1].answer) = "Complete"}

\* Mutant of Merged: one flag for all metrics.
mergedByFlag(page) ==
  [fetch EXCEPT
    !.incomplete_results = IF Completed(page) # {} THEN Named(page) \ Completed(page)
                           ELSE @ \cup Named(page),
    !.named = @ \cup Named(page),
    !.delivered = [m \in Metrics |-> IF m \in Named(page) THEN page.results[m][1].upto
                                     ELSE @[m]],
    !.seen_tokens = @ \cup ({page.next_token} \ {"none"})]

\* The fetch with a page merged into it.
Merged(page) ==
  [fetch EXCEPT
    !.incomplete_results = (@ \cup Named(page)) \ Completed(page),
    !.named = @ \cup Named(page),
    !.delivered = [m \in Metrics |-> IF m \in Named(page) THEN page.results[m][1].upto
                                     ELSE @[m]],
    !.seen_tokens = @ \cup ({page.next_token} \ {"none"})]

Repeats(token) == token \in fetch.seen_tokens

\* Mutant of TooMany: the last page allowed is not counted.
tooManyLater(token) == Cardinality(fetch.seen_tokens \cup {token}) > MaxPages

TooMany(token) == Cardinality(fetch.seen_tokens \cup {token}) = MaxPages

\* The pages after which another is asked for.
NextPages ==
  LET going_on == {token \in Tokens : ~Repeats(token) /\ ~TooMany(token)} IN
  {[results |-> results, next_token |-> token] :
     results \in IF going_on = {} THEN {} ELSE TrueResults, token \in going_on}

\* The snapshot of a fetch that has all its pages.  It is stale if the last of them
\* came with a message, if a metric was left incomplete, or if the last point of
\* all is older than two periods.
Taken(all, warned) ==
  LET points(m) == SubSeq(held[m], 1, all.delivered[m])
      times == {p.at : p \in {p \in UNION {{points(m)[i] : i \in 1 .. all.delivered[m]} : m \in Metrics} :
                              accepted(all.range, p)}}
      stale_before == end_time(all.range) - 2 * RangeSpec[all.range].period
      stale == \/ warned \/ all.incomplete_results # {}
               \/ times # {} /\ \A t \in times : t < stale_before
  IN [range |-> all.range, status |-> IF stale THEN "Stale" ELSE "Fresh",
      series |-> [m \in Metrics |-> samples(all.range, points(m))]]

\* The snapshots a last page can lead to.
Taking ==
  {Taken(all, warned) : warned \in BOOLEAN, all \in {Merged(page) : page \in LastPages}}
-----------------------------------------------------------------------------
(***************************************************************************)
(* What else can come of a request.                                        *)
(***************************************************************************)
Responses ==
  {[status |-> 403, code |-> ""], [status |-> 429, code |-> ""],
   [status |-> 400, code |-> "AccessDenied"], [status |-> 400, code |-> "Throttling"],
   [status |-> 500, code |-> ""]}

classify_sdk_error(response) ==
  CASE response.status = 403 -> "AccessDenied"
    [] response.status = 429 -> "Throttled"
    [] OTHER -> IF response.code \in {"AccessDenied", "AccessDeniedException", "UnauthorizedOperation"}
                THEN "AccessDenied"
                ELSE IF response.code \in {"Throttling", "ThrottlingException",
                                           "RequestLimitExceeded", "LimitExceededException"}
                THEN "Throttled" ELSE "Other"

\* MetricsFetchError::application_error tells the user how to allow the metrics, that
\* the request was throttled, or that it failed.
FetchErrors ==
  {classify_sdk_error(response) : response \in Responses}
  \cup {"AccessDenied"}   \* a metric is forbidden
  \cup {"Other" : token \in {t \in Tokens : Repeats(t) \/ TooMany(t)}}
-----------------------------------------------------------------------------
With(f, key, value) ==
  [k \in DOMAIN f \cup {key} |-> IF k = key THEN value ELSE f[k]]
Without(f, key) == [k \in DOMAIN f \ {key} |-> f[k]]

\* Mutant of Insert: what is cached already is kept.
insertOnce(key, snapshot) ==
  IF key \in DOMAIN snapshots THEN UNCHANGED <<snapshots, insertion_order>>
  ELSE IF Cardinality(DOMAIN snapshots) = MaxCached
  THEN /\ snapshots' = With(Without(snapshots, Head(insertion_order)), key, snapshot)
       /\ insertion_order' = Append(Tail(insertion_order), key)
  ELSE /\ snapshots' = With(snapshots, key, snapshot)
       /\ insertion_order' = Append(insertion_order, key)

\* MetricsCache::insert
Insert(key, snapshot) ==
  IF key \in DOMAIN snapshots
  THEN snapshots' = With(snapshots, key, snapshot) /\ UNCHANGED insertion_order
  ELSE IF Cardinality(DOMAIN snapshots) = MaxCached
  THEN /\ snapshots' = With(Without(snapshots, Head(insertion_order)), key, snapshot)
       /\ insertion_order' = Append(Tail(insertion_order), key)
  ELSE /\ snapshots' = With(snapshots, key, snapshot)
       /\ insertion_order' = Append(insertion_order, key)

\* What a throttled request shows instead.
Cached(range) == [snapshots[range] EXCEPT !.status = "Stale"]
=============================================================================
