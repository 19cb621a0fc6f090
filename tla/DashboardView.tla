---------------------------- MODULE DashboardView ----------------------------
(***************************************************************************)
(* What the dashboard draws of a snapshot, or of a failed fetch:           *)
(* src/dashboard/model.rs and view.rs.  A screen is the text and the       *)
(* figures on it; where they are placed, and how values are spelled, is    *)
(* left out.  A sample, and any value that may be missing, is <<>> or      *)
(* <<number>>.                                                             *)
(***************************************************************************)
EXTENDS Integers, Sequences

\* METRIC_SPECS: the unit in which each metric is shown.
Counts == {"total_transactions", "read_only_transactions", "occ_conflicts", "query_timeouts",
           "active_connections", "admin_connection_attempts", "custom_role_connection_attempts"}
Dpus == {"total_dpu", "read_dpu", "write_dpu", "compute_dpu", "multi_region_write_dpu"}
Bytes == {"bytes_read", "bytes_written", "cluster_storage_size"}
Times == {"commit_latency", "compute_time"}

MetricKey == Counts \cup Dpus \cup Bytes \cup Times

metric_unit(key) ==
  CASE key \in Counts -> "Count" [] key \in Dpus -> "Dpu"
    [] key \in Bytes -> "Bytes" [] key \in Times -> "Milliseconds"
-----------------------------------------------------------------------------
\* DashboardModel::series: a metric the snapshot does not have has no samples.
series(snapshot, key) ==
  IF key \in DOMAIN snapshot.series THEN snapshot.series[key] ELSE <<>>

\* Mutant of latest_of: a gap is skipped.
latestPresent(list) ==
  LET present == SelectSeq(list, LAMBDA sample : sample # <<>>)
  IN  IF present = <<>> THEN <<>> ELSE present[Len(present)]

latest_of(list) == IF list = <<>> THEN <<>> ELSE list[Len(list)]

read_only_ratio(snapshot) ==
  LET total == series(snapshot, "total_transactions")
      read_only == series(snapshot, "read_only_transactions")
      At(list, k) == IF k \in DOMAIN list THEN list[k] ELSE <<>>
      length == IF Len(total) > Len(read_only) THEN Len(total) ELSE Len(read_only)
  IN [k \in 1 .. length |->
        IF At(total, k) # <<>> /\ At(read_only, k) # <<>> /\ total[k][1] > 0
        THEN <<(read_only[k][1] * 100) \div total[k][1]>> ELSE <<>>]

\* The runs of samples between the gaps, each a sequence of points: those that are
\* done, and the one a sample goes on with or a gap ends.
Scanned(before, k, sample) ==
  IF sample # <<>> THEN [before EXCEPT !.run = Append(@, <<k, sample[1]>>)]
  ELSE IF before.run # <<>>
  THEN [done |-> Append(before.done, before.run), run |-> <<>>]
  ELSE before

NotScanned == [done |-> <<>>, run |-> <<>>]

chart_segments(list) ==
  LET Scan[k \in 0 .. Len(list)] ==
        IF k = 0 THEN NotScanned ELSE Scanned(Scan[k - 1], k, list[k])
      all == Scan[Len(list)]
  IN  IF all.run # <<>> THEN Append(all.done, all.run) ELSE all.done

\* Heights in percent of the largest sample, rounded.
sparkline_data(list) ==
  LET values == {list[k][1] : k \in {k \in DOMAIN list : list[k] # <<>>}}
      max == CHOOSE v \in values \cup {0} : \A w \in values : w <= v
  IN [k \in DOMAIN list |->
        IF list[k] = <<>> THEN <<>>
        ELSE IF max = 0 THEN <<0>> ELSE <<(200 * list[k][1] + max) \div (2 * max)>>]

\* "No data" is <<>>.
format_value(unit, value) == IF value = <<>> THEN <<>> ELSE <<unit, value[1]>>
-----------------------------------------------------------------------------
layout_mode(area) ==
  CASE area.width < 80 \/ area.height < 22 -> "Narrow"
    [] area.width >= 120 /\ area.height >= 38 -> "Full"
    [] OTHER -> "Compact"

SUMMARY_KEYS ==
  {"total_transactions", "read_only_transactions", "commit_latency", "occ_conflicts",
   "query_timeouts", "active_connections"}

DETAIL_KEYS ==
  {"read_only_transactions", "compute_time", "admin_connection_attempts",
   "custom_role_connection_attempts"} \cup Dpus \cup Bytes

CHART_KEYS ==
  {"total_transactions", "read_only_transactions", "occ_conflicts", "query_timeouts"}

\* The metrics whose newest value is on the screen, and those that are drawn.
Valued(mode) ==
  CASE mode = "Full" -> SUMMARY_KEYS \cup DETAIL_KEYS
    [] mode = "Compact" -> MetricKey [] mode = "Narrow" -> SUMMARY_KEYS

Sparkled(mode) ==
  CASE mode = "Full" -> DETAIL_KEYS [] mode = "Compact" -> MetricKey [] mode = "Narrow" -> {}

Charted(mode) == IF mode = "Full" THEN CHART_KEYS ELSE {}

render_header(data) ==
  IF data.kind = "snapshot" THEN [range |-> data.of.range, status |-> data.of.status]
  ELSE [range |-> "-", status |-> "Unavailable"]

render_metrics(snapshot, mode) ==
  [values |-> [key \in Valued(mode) |->
                format_value(metric_unit(key), latest_of(series(snapshot, key)))],
   ratio |-> format_value("Percent", latest_of(read_only_ratio(snapshot))),
   sparks |-> [key \in Sparkled(mode) |-> sparkline_data(series(snapshot, key))],
   charts |-> [key \in Charted(mode) |-> chart_segments(series(snapshot, key))]]

\* A failed fetch shows its error and nothing else.
render(data, area) ==
  [header |-> render_header(data),
   error |-> IF data.kind = "error" THEN data.of ELSE "",
   metrics |-> IF data.kind = "snapshot" THEN render_metrics(data.of, layout_mode(area))
               ELSE [values |-> <<>>, ratio |-> <<>>, sparks |-> <<>>, charts |-> <<>>]]
=============================================================================
