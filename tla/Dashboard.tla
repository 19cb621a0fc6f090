------------------------------ MODULE Dashboard ------------------------------
(***************************************************************************)
(* The metrics dashboard as the shell runs it: run_with and the input      *)
(* monitor of src/dashboard/events.rs over MetricsProvider, what it draws  *)
(* (DashboardView), and the termination signal of src/shell/mod.rs.        *)
(*                                                                         *)
(* Three parties move: CloudWatch, whose pages may come at any time or     *)
(* never; the monitor thread, which reads the terminal; and the loop,      *)
(* which waits for both and drops the fetch when a key asks for another.   *)
(***************************************************************************)
EXTENDS MetricsProvider, DashboardView

CONSTANTS
  DefaultRange,   \* OneHour
  Areas,          \* sizes of the terminal
  MaxEvents       \* bound: events read and not handled

ASSUME DashboardAssumption ==
  /\ DefaultRange \in Ranges /\ MaxEvents \in Nat \ {0}
  /\ Areas \subseteq [width : Nat, height : Nat]

VARIABLES
  phase,       \* where the loop is
  range,       \* the range selected
  displayed,   \* what is on the screen
  events,      \* the channel from the monitor to the loop
  monitor,     \* is the monitor thread running?
  raw,         \* is the terminal in raw mode?
  terminated,  \* did a termination signal come?
  throttled    \* history: was the fetch that is shown throttled?

loopVars == <<phase, range, displayed, throttled>>
terminalVars == <<events, monitor, raw, terminated>>
dashboardVars == <<providerVars, loopVars, terminalVars>>

Keys == {"quit", "refresh", "other"} \cup Ranges
Events == Keys \cup {"error"}
Active == {"fetching", "showing"}
Errors == {"AccessDenied", "Throttled", "Other"}

Nothing == [kind |-> "nothing"]
Failure(error) == [kind |-> "error", of |-> error]
Shown(snapshot) == [kind |-> "snapshot", of |-> snapshot]

\* Does a unit CloudWatch is asked for fit the one that is shown?
Fits(asked, unit) ==
  \/ asked = "any" /\ unit \in {"Count", "Dpu"}
  \/ asked = "None" /\ unit = "Count"
  \/ asked = unit

TypeOK ==
  /\ ProviderTypeOK
  /\ phase \in Active \cup {"closed", "closing", "ended"}
  /\ range \in Ranges
  /\ \/ displayed = Nothing
     \/ displayed.kind = "error" /\ displayed.of \in Errors
     \/ displayed.kind = "snapshot" /\ displayed.of \in Snapshot
  /\ phase = "showing" => displayed # Nothing
  /\ events \in Seq(Events) /\ Len(events) <= MaxEvents
  /\ monitor \in BOOLEAN /\ raw \in BOOLEAN
  /\ terminated \in BOOLEAN /\ throttled \in BOOLEAN

Init ==
  /\ held \in Worlds
  /\ fetch = Started(DefaultRange)
  /\ snapshots = <<>> /\ insertion_order = <<>> /\ newest = <<>> /\ fetched = {}
  /\ phase = "closed" /\ range = DefaultRange /\ displayed = Nothing
  /\ events = <<>> /\ monitor = FALSE /\ raw = FALSE
  /\ terminated = FALSE /\ throttled = FALSE
-----------------------------------------------------------------------------
(***************************************************************************)
(* The shell: \metrics opens the dashboard; SIGTERM or SIGHUP drops it.    *)
(* A dashboard that cannot be opened leaves the terminal as it was.        *)
(***************************************************************************)
Open ==
  /\ phase = "closed"
  /\ raw' = TRUE /\ monitor' = TRUE
  /\ phase' = "fetching" /\ range' = DefaultRange /\ displayed' = Nothing
  /\ fetch' = Started(DefaultRange)
  /\ UNCHANGED <<held, snapshots, insertion_order, newest, fetched, events, terminated, throttled>>

\* The loop returns, or is dropped: what it holds is dropped with it, the events
\* first and then the monitor, which is told to stop and waited for.
Dropped ==
  /\ phase' = "closing" /\ range' = DefaultRange /\ displayed' = Nothing
  /\ events' = <<>>
  /\ fetch' = Started(DefaultRange)
  /\ throttled' = FALSE
  /\ UNCHANGED <<monitor, raw>>

Close == Dropped /\ UNCHANGED <<held, snapshots, insertion_order, newest, fetched>>

Terminate ==
  /\ phase \in Active
  /\ terminated' = TRUE
  /\ Close

\* Mutant of Join: the monitor is told to stop and left to itself.
detaches ==
  /\ phase = "closing"
  /\ phase' = IF terminated THEN "ended" ELSE "closed"
  /\ raw' = FALSE
  /\ UNCHANGED <<providerVars, range, displayed, throttled, events, monitor, terminated>>

\* The monitor has stopped, and the terminal is restored after it.
Join ==
  /\ phase = "closing" /\ ~monitor
  /\ phase' = IF terminated THEN "ended" ELSE "closed"
  /\ raw' = FALSE
  /\ UNCHANGED <<providerVars, range, displayed, throttled, events, monitor, terminated>>
-----------------------------------------------------------------------------
(***************************************************************************)
(* The monitor thread.  A key it reads while the loop is closing is lost,  *)
(* and the failure to send it ends the thread.                             *)
(***************************************************************************)
MonitorReads ==
  /\ monitor
  /\ \/ /\ phase \in Active /\ Len(events) < MaxEvents
        /\ \E key \in Keys : events' = Append(events, key)
        /\ UNCHANGED monitor
     \/ phase = "closing" /\ monitor' = FALSE /\ UNCHANGED events
  /\ UNCHANGED <<providerVars, loopVars, raw, terminated>>

MonitorFails ==
  /\ monitor /\ phase \in Active /\ Len(events) < MaxEvents
  /\ events' = Append(events, "error")
  /\ monitor' = FALSE
  /\ UNCHANGED <<providerVars, loopVars, raw, terminated>>

MonitorStops ==
  /\ monitor /\ phase = "closing"
  /\ monitor' = FALSE
  /\ UNCHANGED <<providerVars, loopVars, events, raw, terminated>>
-----------------------------------------------------------------------------
(***************************************************************************)
(* The fetch, which the loop polls before the events.                      *)
(***************************************************************************)
PageArrives ==
  /\ phase = "fetching"
  /\ fetch' \in {Merged(page) : page \in NextPages}
  /\ UNCHANGED <<held, snapshots, insertion_order, newest, fetched, loopVars, terminalVars>>

\* The fetch has a result, and it is drawn or cannot be.
Show(result, slowed) ==
  /\ \/ /\ phase' = "showing" /\ displayed' = result
        /\ fetch' = Started(DefaultRange)
        /\ throttled' = slowed
        /\ UNCHANGED <<range, events, monitor, raw>>
     \/ Dropped
  /\ UNCHANGED terminated

FetchSucceeds ==
  /\ phase = "fetching"
  /\ \E snapshot \in Taking :
       /\ Insert(fetch.range, snapshot)
       /\ newest' = <<snapshot>> /\ fetched' = fetched \cup {fetch.range}
       /\ Show(Shown(snapshot), FALSE)
  /\ UNCHANGED held

FetchThrottled ==
  /\ phase = "fetching"
  /\ "Throttled" \in FetchErrors
  /\ Show(IF fetch.range \in DOMAIN snapshots THEN Shown(Cached(fetch.range))
          ELSE Failure("Throttled"), TRUE)
  /\ UNCHANGED <<held, snapshots, insertion_order, newest, fetched>>

FetchFails ==
  /\ phase = "fetching"
  /\ \E error \in FetchErrors \ {"Throttled"} : Show(Failure(error), FALSE)
  /\ UNCHANGED <<held, snapshots, insertion_order, newest, fetched>>
-----------------------------------------------------------------------------
(***************************************************************************)
(* The events.                                                             *)
(***************************************************************************)
\* An event is there, or the monitor has ended and there will be none.
EventReady == events # <<>> \/ ~monitor

\* A fetch in progress is dropped.
Fetching(selected) ==
  /\ range' = selected
  /\ events' = Tail(events)
  /\ fetch' = Started(selected) /\ phase' = "fetching"
  /\ throttled' = FALSE
  /\ UNCHANGED <<held, snapshots, insertion_order, newest, fetched, displayed, monitor, raw>>

\* The screen is drawn again, if there is something to draw, or cannot be.
Redraw ==
  \/ /\ events' = Tail(events)
     /\ UNCHANGED <<providerVars, loopVars, monitor, raw>>
  \/ displayed # Nothing /\ Close

Handled ==
  /\ \/ events = <<>> /\ ~monitor /\ Close
     \/ /\ events # <<>>
        /\ LET event == Head(events) IN
             \/ event \in {"quit", "error"} /\ Close
             \/ event = "refresh" /\ Fetching(range)
             \/ event \in Ranges /\ Fetching(event)
             \/ event = "other" /\ Redraw
  /\ UNCHANGED terminated

\* Mutant of HandleEvent: a key waits for the fetch.
handleWhenShowing == phase = "showing" /\ Handled

HandleEvent == phase \in Active /\ Handled

\* The refresh timer, after an event that is there.
TimerFires ==
  /\ phase = "showing" /\ ~EventReady
  /\ fetch' = Started(range) /\ phase' = "fetching"
  /\ throttled' = FALSE
  /\ UNCHANGED <<held, snapshots, insertion_order, newest, fetched, range, displayed, terminalVars>>
-----------------------------------------------------------------------------
Next ==
  \/ Open \/ Terminate \/ Join
  \/ MonitorReads \/ MonitorFails \/ MonitorStops
  \/ PageArrives \/ FetchSucceeds \/ FetchThrottled \/ FetchFails
  \/ HandleEvent \/ TimerFires

Spec == Init /\ [][Next]_dashboardVars

\* The executor polls the loop, and the thread sees that it has to stop.
FairSpec ==
  Spec /\ WF_dashboardVars(HandleEvent) /\ WF_dashboardVars(Join)
       /\ WF_dashboardVars(MonitorStops)
-----------------------------------------------------------------------------
\* The values CloudWatch holds of a metric in the k-th period of a range.
Held(r, m, k) ==
  LET from == start_time(r) + (k - 1) * RangeSpec[r].period IN
    {held[m][i].value : i \in {i \in DOMAIN held[m] :
       /\ held[m][i].value # <<>>
       /\ held[m][i].at \in from .. from + RangeSpec[r].period - 1}}

\* What is called fresh, on the screen or in the cache, has every sample that
\* CloudWatch holds, over pages that call a metric complete or not in any order.
FreshIsSound ==
  LET Sound(s) ==
        s.status = "Fresh" =>
          \A m \in Metrics : \A k \in 1 .. sample_count(s.range) :
            s.series[m][k] = <<>> => Held(s.range, m, k) = {}
  IN  /\ phase = "showing" /\ displayed.kind = "snapshot" => Sound(displayed.of)
      /\ phase = "showing" => \A r \in DOMAIN snapshots : Sound(snapshots[r])

\* docs/interactive-shell.md:51: every figure on the screen is one CloudWatch holds
\* of that metric for the newest period, in the unit it was asked for, and the ratio
\* is of that period; what is missing stays a gap, which no line crosses and which
\* is not drawn as zero; and no metric is left out where all are promised.
ScreenIsTrue ==
  phase = "showing" /\ displayed.kind = "snapshot" =>
    \A area \in Areas :
      LET r == displayed.of.range
          screen == render(displayed, area).metrics
          last == sample_count(r)
      IN
        /\ layout_mode(area) # "Narrow" =>
             \A query \in metric_queries : query.id \in DOMAIN screen.values
        /\ \A m \in Metrics \cap DOMAIN screen.values :
             \/ screen.values[m] = <<>>
             \/ /\ <<screen.values[m][2]>> \in Held(r, m, last)
                /\ \E query \in metric_queries :
                     query.id = m /\ Fits(query.unit, screen.values[m][1])
        /\ screen.ratio # <<>> =>
             \E t \in Held(r, "total_transactions", last), n \in Held(r, "read_only_transactions", last) :
               screen.ratio[2] = (n[1] * 100) \div t[1]
        /\ \A m \in Metrics \cap DOMAIN screen.sparks : \A k \in 1 .. last :
             screen.sparks[m][k] # <<>> => Held(r, m, k) # {}
        /\ \A m \in Metrics \cap DOMAIN screen.charts :
             LET segments == screen.charts[m] IN
               \A i \in DOMAIN segments : \A j \in DOMAIN segments[i] :
                 /\ <<segments[i][j][2]>> \in Held(r, m, segments[i][j][1])
                 /\ j > 1 => segments[i][j][1] = segments[i][j - 1][1] + 1

\* When the screen is up to date it shows the range that is selected, whatever
\* keys came while it was fetched; and when the request was throttled it shows the
\* last snapshot of that range, marked stale: at least if nothing else was fetched
\* since, and some snapshot if so many ranges are cached.
ShownIsAsked ==
  phase = "showing" =>
    /\ displayed.kind = "snapshot" => displayed.of.range = range
    /\ throttled =>
         /\ newest # <<>> /\ newest[1].range = range =>
              displayed = Shown([newest[1] EXCEPT !.status = "Stale"])
         /\ range \in fetched /\ Cardinality(fetched) <= MaxCached =>
              displayed.kind = "snapshot"
         /\ range \notin fetched => displayed = Failure("Throttled")

\* The terminal has one reader: it is given back to the shell only when the
\* monitor has stopped, however the dashboard ended.
TerminalIsReturned == ~raw => ~monitor

\* A key that asks to leave is obeyed though CloudWatch never answers.
QuitEnds ==
  phase \in Active /\ (\E n \in DOMAIN events : events[n] = "quit")
    ~> phase \in {"closed", "ended"}
=============================================================================
