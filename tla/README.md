# dsql: a formal model of the client

`dsql` is a command-line client and interactive shell for Amazon Aurora DSQL.
It keeps one PostgreSQL connection, replaces it before Aurora DSQL closes it
(connections live for an hour), and promises never to replay a statement and
never to change the connection under a transaction. The TLA+ modules here model
the parts of the program that keep those promises; TLC checks them on small
instances and TLAPS proves the most important ones for every instance. Paths
are relative to the repository.

## The system

### Components, their state and their operations

**ManagedSession** (`src/app.rs`) is the session of a process. It keeps the
transaction state shown in the prompt (`Idle`, `Active`, `Failed`,
`Uncertain`), the session settings last captured and whether that capture is
current, whether a reconnect is required, when the connection was made, and the
connection itself. `execute` and `execute_params` run in three parts: *prepare*
decides whether to refuse, reconnect (three attempts) or go on; the statement is
submitted once; *finalize* moves the transaction state and, after a success,
captures the settings. `mark_uncertain` and `require_reconnect` are called by
owners that drop a statement half way. *Correct* when no statement is replayed,
no connection is replaced inside a transaction, the prompt does not promise more
than the server holds, and a refresh does not change settings.

**DsqlSession** (`src/db/session.rs`) is one connection: a handle, and a driver
task that owns the socket. Answers go from the driver to the request they belong
to; notices and the loss of the connection go through a channel of 16 events.
The driver clears a liveness flag when it ends. *Correct* when each outcome the
handle reports is true of the server, no statement waits for ever, and a lost
connection is noticed.

**Shell** (`src/shell/mod.rs`) reads submissions, runs their statements in turn,
and watches for Ctrl-C, SIGTERM and SIGHUP while one is awaited. The first
Ctrl-C mutes the output and sends a cancel request over a connection of its own
with a deadline of five seconds; the second, or a termination signal, abandons
the statement. *Correct* when a signal reaches the statement it was meant for,
nothing runs after a cancellation whose outcome is unknown, and the prompt comes
back.

**SQL scanner** (`src/sql/scanner.rs`): an incremental lexer that frames
statements (`StatementStream`) and classifies transaction control by at most
three keywords. *Correct* when framing does not depend on how the input was cut
into fragments, and the classification agrees with the server.

**Catalog loader** (`src/sql/metadata.rs`): loads schemas, relations, columns
and roles for completion, each up to a limit, by four queries in the user's
session under one deadline. The query running at the deadline is asked to stop,
awaited a little longer and dropped, and the session must reconnect; the later
ones are skipped. The shell installs whatever came of it, marked stale if a query
failed or a row was left out, and marks the snapshot stale when a statement that
changes the schema succeeds. *Correct* when a snapshot not marked stale is current, a load
ends whatever the server does, nothing runs on a connection whose query was
dropped, and loads never touch the user's transaction state.

**Scripts** (`src/cli.rs`): files and standard input, read in chunks and run
statement by statement; `-c` commands and submissions, framed as a whole.
*Correct* when the statements that run are the first ones of the whole text,
wherever a chunk ends, and when each error says something true of the text.

**Start** (`src/cli.rs`, with `src/target.rs`, `src/aws/`, `src/db/auth.rs`,
`src/db/tls.rs`, `src/error.rs`, `src/main.rs`): the command line becomes a
Region, a selector, an inventory, a target, a role, a token and a connection, or
an exit code and a diagnostic. A script must name everything and is never asked;
an interactive start asks for what is missing. Discovery lists clusters page by
page, reads their details eight at a time, and degrades the rows it cannot read;
`clusters` shows the inventory as a table, CSV, TSV or JSON Lines. *Correct* when
the cluster connected to is the one asked for, in the Region asked for, with a
token for the role; when the inventory is whole; when discovery ends; and when no
diagnostic shows a secret or a control character.

**Output** (`src/output/`): a sink per format takes the events of a statement
(columns, rows, completion, notices, an error), refuses those out of order, and
writes to a stream or a pager. A script keeps one sink; the shell makes one for
each statement and drops it before the next prompt. *Correct* when what was
written is framed as the format promises at any moment, is what the server sent,
fits the terminal, and when the pager is gone before the prompt returns.

**Shell commands, prompt, line editor** (`src/shell/`): settings and requests;
the marker of the transaction state; the validator that decides what is
submitted; and the history, bound to the descriptor of a file that was verified
when the shell started. *Correct* when the prompt does not promise too much and
when no line is written anywhere but into that file.

**Metrics** (`src/aws/metrics.rs`): paged CloudWatch queries, aligned buckets,
and a bounded cache on which a throttled request falls back; right when a
snapshot is called fresh only if nothing is missing from it. **Dashboard**
(`src/dashboard/`): a loop over keys, fetches and a refresh timer, a thread that
reads the terminal, and the figures of a snapshot in three layouts; right when it
shows the range asked for and only figures CloudWatch holds, each in its period
and unit, obeys a key although a fetch is in progress, and leaves the terminal
with one reader.

### How they interact

The shell, the scripts and the catalog loader call ManagedSession; ManagedSession
calls the handle; the handle and its driver share two channels and the liveness
flag; the cancellation handle, cloned before a statement starts, reads the same
flag and opens a connection of its own. Every call is an `await` of one task, so
that the interleavings are those of that task with the driver (another task, on
another thread), the signal monitor, the server, the network and the clock.

### What is hard

The liveness flag is read by one task and cleared by another; a statement can be
dropped at any await; the cancellation handle is taken before the connection may
be replaced; the capture of the settings runs in the user's transaction; a
bounded channel couples two tasks; the client guesses the server's transaction
status from keywords; the clock can move either way. A write may fail or block
half way through a frame; pages and details come in any order or not at all; a
name, a message or a file may hold anything. `PROJECT.json` lists these
hazards with their lines and the properties that watch them.

## Modules

| Module | Models | State and actions |
| --- | --- | --- |
| `TransactionControl` | `src/sql/scanner.rs` (`classify_transaction_control`), `src/app.rs` (`transition`) and, beside it, what the server does with the same keywords | operators only |
| `ManagedSession` | `src/app.rs` | the fields of the struct, one connection, `pc` for the await the statement is stopped at; one action for each way from an await to the next; the marker of the prompt (`src/shell/prompt.rs`) |
| `SessionRefresh` | nothing in the code: the promise of a refresh in three variables | refined by `ManagedSession` (`KeepsPromise`) |
| `SessionHandle` | `src/db/session.rs` | socket, driver, event channel, response channel, handle; one action for each await of either task |
| `ShellExecution` | `src/shell/mod.rs` (`execute_with_signals` and the submission loop), `src/db/session.rs` (`cancel`) | extends `ManagedSession` with the phase of the shell, its queue, the cancellation handle and the requests on their way |
| `CatalogLoad` | `src/sql/metadata.rs`, `src/shell/mod.rs` (`\refresh`, the initial load, `invalidate_after_schema_change`) | extends `ManagedSession` with the load in progress, its deadline, the rows its sink has kept, the snapshot and, as history, the schema the server holds |
| `SqlScanner` | the lexer of `src/sql/scanner.rs`; beside it `Read`, a reference that sees one byte after another | operators only |
| `ScriptReader` | `src/cli.rs` (`execute_script_reader`, `split_command`), `src/shell/mod.rs` (`frame_submission`), `src/shell/editor.rs` (`validate`) | the text, how much was read, bytes of an unfinished character, the pending text, what was framed and what ran |
| `OutputText` | `escape_terminal_text` (`src/output/mod.rs`), the widths, cutting and padding of `src/output/table.rs`, `encode_cell` of `src/output/delimited.rs` | operators only; a text is a sequence of classes of characters |
| `OutputSinks` | the sinks of `src/output/` | `emit(sink, event)`: the sink after the event and the pieces it writes, or a refusal |
| `ShellCommands` | `src/shell/commands.rs` | every command with its arguments: what it changes and what it asks for; operators only |
| `CommandOutput` | `src/shell/mod.rs` and `src/cli.rs` where statements write, `src/output/pager.rs` | extends both with the statement's progress, the writes to come, the streams, the pager and, as history, the rows the server sent; one action for each write call |
| `ClusterSelector` | `src/target.rs` | parsing of identifiers, ARNs, endpoints and Regions; operators only |
| `RegionResolution` | `src/aws/config.rs` | precedence and conflicts of the sources of a Region, and the configuration it loads; operators only |
| `ClusterDiscovery` | `src/aws/clusters.rs` | the account, the pages, tokens, requests in flight, and the inventory; one action for each answer |
| `InventoryOutput` | `render_inventory` of `src/cli.rs` | extends `ClusterDiscovery` with the lines of each format; operators only |
| `ErrorText` | `src/error.rs` | redaction, escaping, bounding, the classes of failures and their exit codes; operators only |
| `LineHistory` | the history of `src/shell/editor.rs` | where the path leads, the files, the descriptor, lines not yet written; one action for each step of a write and for what happens to the disk meanwhile |
| `Startup` | `src/cli.rs` (`run`), `src/aws/identity.rs`, `src/db/auth.rs`, `src/db/tls.rs`, `src/main.rs` | extends the five above with the phase of the process, what it has decided, its output and its exit; one action for each step, question and answer |
| `MetricsProvider` | `src/aws/metrics.rs` | what CloudWatch holds, the fetch in progress, the cached snapshots and their order, and, as history, the last snapshot fetched; operators for the steps of a fetch |
| `DashboardView` | `src/dashboard/model.rs`, `src/dashboard/view.rs` | the text and the figures of the screen in each layout; operators only |
| `Dashboard` | `src/dashboard/events.rs` (`run_with`, the input monitor, the terminal guard), `src/shell/mod.rs` (`\metrics`) | extends `MetricsProvider` and `DashboardView` with the phase of the loop, the range, what is displayed, the channel, the monitor thread and the terminal's mode |
| `MC...` | | the sets of statements and texts the runs use |
| `DataInduction` | nothing in the code | induction over the naturals, upwards and downwards, and the functions defined by it, for the proofs |
| `ManagedSessionProofs` (with the shell's execution and the catalog loads), `SessionHandleProofs`, `SqlScannerProofs`, `ScriptReaderProofs`, `CommandOutputProofs`, `StartupProofs`, `DashboardProofs` | | theorems |

### What the models abstract

A statement is the sequence of its leading keywords: the code looks at nothing
else of it. A value of the session settings is one model value. In
`ManagedSession` the adapter is reduced to what its caller sees (an answer, an
error, a lost connection, failed output); `SessionHandle` is where those four
come from. The flag of a replaced connection is not kept; `ShellExecution` lets
it read either way. Backoff delays and texts are left out.

In `CatalogLoad` time is two events, the deadline of the load and the end of a
clean-up wait, each of which may come at any moment; a row is its length, and the
limits on rows, fields and bytes are applied as `CatalogSink` does. Each query has a
`LIMIT` that equals the sink's limit on rows, so that the server cuts a larger
catalog, the sink never sees a row too many, and the names beyond the limit are
missing from a snapshot that is not marked stale: what `FreshSnapshotIsCurrent` asks
is that it holds all the queries returned. The schema is a number that grows
with each committed change. The statements of a user are there without signals,
which are `ShellExecution`'s, and no user types the catalog query. In
`SqlScanner` a byte is the representative of a class of bytes the code does not
tell apart. The reference keeps one rule of the code that is a choice: a word
goes on across the dollar sign that closes a dollar-quoted string. A behaviour
of `ScriptReader` is one input; several `-c` or `-f` inputs run one after the
other. A read of a file or of standard input does not fail: an I/O error ends the
script between two chunks, as a failed statement does.

In `MetricsProvider` times and values are small numbers, a point may be missing,
late, out of place or not finite, and the one clock reading of a request is
`Now`. What CloudWatch says is taken to be true: it calls a metric complete only
when it has delivered it, and has nothing for a metric it never names. A process
shows one cluster in one Region, so the range alone is the key of the cache. In
`DashboardView` the figures are there without their places and spelling. In
`Dashboard` the timer may fire whenever no event is waiting, the shell's other
work while the dashboard is closed is left out, and a fetch may fail at any
moment, which covers a forbidden metric, a repeated token and too many pages. The
monitor looks at the keys a little after the loop has ended, and a key it reads
then is lost.

In `OutputText` a character is one of a few classes: plain, wide, combining, a
control, a backslash, an emoji that is narrow by itself, and the variation selector
that makes it wide. The two widths the code takes from `unicode-width` differ in the
latter two only: the sum over characters, by which it cuts (`CharsWidth`), and the
width of a whole text, by which it measures and pads (`Width`). Sequences that are
narrower than their characters (joined emoji, ligatures, the text variation selector)
are left out; they are cut earlier than they need be. A diagnostic in `ErrorText` is made of the words and marks
redaction looks for. `CommandOutput` takes from a statement only its events; a
piece is what one write call hands over, and a write that fails may leave a torn
piece behind; a stream fails for good, when its reader goes away, and no other error
of a write is modelled. The padding of the inventory's table is left out. In `Startup` the
parsing of options is `clap`'s; certificates are valid or not; and what the start
has found out is forgotten when the shell takes the session over, because nothing
after that depends on it. `LineHistory` holds what the shell does with
`reedline`'s file-backed history: lines are kept in memory until `sync` has
compared the path with the descriptor, written behind that descriptor, and
merged with lines of other shells up to the capacity.

Three choices over-approximate the code. A cancel request may arrive at any
later time, as PostgreSQL allows. `DropCatalogQuery` may drop any statement that
is not transaction control or a setting and finds the session `Idle`, not only
the queries of the loader. A failed output ends a statement before or after the
server has processed it; the server does not process it *after* the session has
taken the next one.

## Runs

| Run | Module and cfg | Shows |
| --- | --- | --- |
| `session` | `MCManagedSession`, `ManagedSession_session.cfg` | type correctness, `PromptIsSound`, `SettingsSurviveRefresh`, `NeverReplayed`, `NeverReconnectsAcrossTransaction`, `UncertainIsFinal`, and the refinement of `SessionRefresh` (`KeepsPromise`), although output may fail at any point |
| `handle_events` | `SessionHandle`, `SessionHandle_events.cfg` | type correctness, `SuccessIsComplete`, `OutcomeIsTrue`, and under fairness `StatementEnds` (of a statement that is prepared) and `LossIsNoticed` |
| `shell_signals` | `MCShellExecution`, `ShellExecution_signals.cfg` | the shell uses the session as `ManagedSession` says (`UsesSession`), `DistrustedRunsNothing`, and under fairness `Settles` |
| `catalog_refresh` | `MCCatalogLoad`, `CatalogLoad_refresh.cfg` | `FreshSnapshotIsCurrent`, `AbandonedConnectionRests`, `LoadKeepsState`, the session is used as specified (`LoadUsesSession`), and under fairness `LoadEnds` |
| `script_chunks` | `MCScriptReader`, `ScriptReader_chunks.cfg` | `ChunksDoNotMatter`, `OutcomeIsJust` and `RefusedAsAWhole` over all texts of up to five tokens |
| `output` | `MCCommandOutput`, `CommandOutput_streams.cfg` | `StreamIsFramed`, `OutputIsFaithful`, `LinesFit`, `PagerIsReaped`, and under fairness `PromptReturns` (unless the pager's pipe is full for ever): scripts in four formats and a shell with its settings, over streams that are closed, writes that fail, and pagers that read, block, leave or stay |
| `startup` | `MCStartup`, `Startup_start.cfg` | `TargetIsAsked`, `UnattendedNeverAsks`, `InventoryIsWhole`, `DiagnosticIsSafe`, `HistoryStaysBound`, and under fairness `DiscoveryEnds` (unless every page names a new token): every command line over a few selectors, Regions, roles and inventories, with services that answer anything in any order |
| `dashboard_keys` | `MCDashboard`, `Dashboard_keys.cfg` | type correctness, `FreshIsSound`, `ShownIsAsked`, `ScreenIsTrue`, `TerminalIsReturned`, and under fairness `QuitEnds` |
| `session_lost_begin` | `ManagedSession_lost_begin.cfg` | violation: see finding 1 |
| `handle_capture` | `SessionHandle_capture.cfg` | violation: finding 2 |
| `shell_stale_handle` | `ShellExecution_stale_handle.cfg` | violation: finding 3 |
| `shell_capture` | `ShellExecution_capture.cfg` | violation: finding 4 |

### Bounds

`MaxTime` is 1 with `ReconnectAge` 1: the code compares one difference with one
limit, and two clock values already give an age below, at and (set back) under
zero. `MaxConnections` is 2 (3 where a replacement may itself be lost and replaced): a replacement
never looks at earlier connections. Two values of the settings tell "kept" from
"changed". The statements are one of each class the keywords distinguish. The
channel has room for one event and two notices may come, so that it is full,
and stays full, at every await. A submission has two statements: one that ends
badly and one that must then not run. `MaxTime` is 0 in the shell's run,
where the clock plays no part that `session` does not cover; there the
only way to a second connection is a lost link. The same holds of
`catalog_refresh`, where a load has two queries instead of four: one that goes
wrong and one that follows it. Their answers have up to a row more, a field
longer and a total larger than fits. One schema change is enough for a snapshot to be
older, newer or between. In `script_chunks` a text has up to five tokens of one
of five families (quotes and escapes, dollar quotes, comments, half comment
marks, multi-byte characters), enough to open, nest, split and close each
construct around a terminator; chunks have one to four bytes, and the size limit
of nine is crossed by terminated statements and by an unterminated rest.
In `dashboard_keys` two metrics and two pages let one metric be completed while
the other stays partial, two tokens reach the limit on pages without repeating,
two ranges overfill a cache of one snapshot, and a key may always wait behind the
end of a fetch. CloudWatch holds points at the edges of the window, out of place,
not finite and of one period only; the three terminals select three layouts. The
run does not check deadlock: after a termination signal the process ends.

In `output` results have one column of a width over its share or a wide one; the
cells are a null, the text a null is written as, controls, wide letters and an emoji
with its selector, which a column name has as well; the buffer of the csv writer holds two records and the pipe one piece, so that both
fill up; a result has two rows and a submission two statements, so that a second
one follows a cut, an error or a summary. `startup` has three clusters with
inventories of none, two and three (one more than the limit), pages of two,
two details in flight, answers of each class, two Regions of different partitions
and one malformed text, selectors of each form, agreeing and disagreeing with the
Region. The service has two tokens it may repeat and two that stand for as many as it
likes and never repeats: the program need not remember these, and two of them tell a
page from the one before. Diagnostics are all texts of up to five words and marks, and some longer
than the bound of eight. The history holds two lines and four bytes, so that it
overflows and a file may be too large, and a shell keeps up to four lines, so that
those not yet written overflow while the file still has older ones; two files, a link and a directory are where
the path may lead. Deadlock is not checked in these: the process ends.

### Fairness

`SessionHandle!FairSpec` is weakly fair to the two tasks (the executor polls a
task that can go on) and to the server's completion of a request it received.
Nothing is assumed of notices, link failures, the user, or rows.
`ShellExecution!FairShellSpec` is weakly fair to polling the statement and the
server's answer, to the shell's next step once the statement has returned, to
the driver's end after a lost link, and to the end of the cancellation, because
`CANCELLATION_TIMEOUT` ends it whoever fails to answer. No signal is obliged to
come. `CatalogLoad!FairCatalogSpec` is weakly fair to the deadline and to the
steps of the load itself, all of which a timer of the program brings about;
nothing is assumed of the server, the network, or even the polling of the query.
`Dashboard!FairSpec` is weakly fair to the handling of events, which the loop
polls whether or not a fetch is in progress, to the end of the monitor once it
was told to stop (it looks every 50 ms) and to the end of the loop after that;
nothing is assumed of CloudWatch or of the user. `CommandOutput!FairSpec` is
weakly fair to the program (its reaping has a limit of 250 ms) and to the completion
of a statement by the server. Nothing is assumed of the pager: `PromptReturns` says by
itself which pager it excepts, one that stays alive with its pipe full from some time
on. `Startup!FairSpec` is weakly fair to the
program's own steps, each call of the SDK and of the network among them, since
those end with an answer or a failure; a user need never answer a question.
`DiscoveryEnds` excepts a service that from some time on names a new token on every
page: the code has no limit of pages, and empty pages never reach its limit of
clusters.
`ScriptReader` states no liveness.

## Findings

1. `LostTransactionIsUncertain` (`src/app.rs:879`). A statement that ends
   because the driver reported the loss of the connection is classified by the
   liveness flag, which the driver clears only afterwards. In between, a lost
   `BEGIN` leaves the prompt `Idle` and a lost statement of a transaction leaves
   it `Failed`, where two tests of `src/app.rs` say `Uncertain`.
   `NeverReconnectsAcrossTransaction` holds nevertheless for transactions the
   user was told of.
2. `CaptureEnds` (`src/db/session.rs:108`). The capture of the settings, and the
   restore, wait for the server without draining the event channel. More notices
   than it holds stall driver and handle for ever, which is what the comment at
   line 406 says the drain before a query prevents.
3. `InterruptReachesStatement` (`src/shell/mod.rs:459`). The cancellation handle
   is taken before `prepare` may replace the connection. A Ctrl-C during that
   replacement cancels on the old connection and the statement then runs, muted.
4. `AcceptedStaysSuccessful` (`src/app.rs:869`). A cancel request that arrives
   during the capture aborts the user's transaction, while the statement is
   reported successful and the prompt stays `Active`.

Three more limits show as conditions of properties that hold, each of which fails
without its condition:

- `StatementEnds` is about a statement past its preparation. A statement with
  parameters is prepared and bound (`src/db/session.rs:478`) without draining the
  channel: more notices than it holds, before the server's `BindComplete`, stall
  driver and handle for ever, as in finding 2.
- `LinesFit` allows a line one column more for each emoji that a variation selector
  makes wide. `docs/output-formats.md:10` speaks of "Unicode display width", but a cell
  is cut by the widths of its characters (`src/output/table.rs:298`) and padded by the
  width of the whole, so such a line is wider than the terminal.
- `PromptReturns` excepts a pager that stays alive with its pipe full for ever.
  `docs/troubleshooting.md:54` advises Ctrl-C for a terminal that appears stuck, but
  signals are taken between two polls of the statement, and a write to a pager that
  does not read (`src/output/pager.rs:131`) has no limit: only leaving the pager, the
  next advice of that page, ends it.

Met on the way, without a run of their own: the comment at
`src/sql/metadata.rs:183` says that after a dropped catalog query "the next
database command reconnects first", but when the settings could not be captured
it is refused instead, and so is every later one; `docs/cli.md` says of
`\refresh` "Reconnect safely", though it reconnects only if that is due;
in an open transaction on a lost
connection the label says a reconnect is "required before next statement"
(`src/app.rs:361`) although every next statement is refused; `COMMIT AND CHAIN`
and `ROLLBACK WORK TO` are taken for ends of a transaction
(`src/sql/scanner.rs:173`); `docs/troubleshooting.md` speaks of a refresh
"before 55 minutes" where the code refreshes from 55 minutes on; a statement
whose command tag has no count (`SHOW`, `EXPLAIN`) returns rows and then fails in a
table or JSON Lines, because the count is taken for 0 (`src/db/session.rs:426`,
`src/output/table.rs:112`); a pager whose user is still reading is killed 250 ms
after the statement (`src/output/pager.rs:175`), as one of its tests asks.

## Proofs

`ManagedSessionProofs` proves, for every set of statements, every age limit,
every clock and connection bound and every failure of the output:

- `TypeCorrect`: `Spec => []TypeOK`.
- `NothingIsReplayed` and `UncertainStaysFinal`, from the inductive invariant
  `IInv`: `NeverReplayed` alone is not inductive, because nothing in it says that
  a statement still in *prepare*, *reconnect* or *execute* has not run
  (`RunsOnce`), or that an uncertain session rests before *execute*
  (`UncertainRests`).
- `NoReconnectAcrossTransaction` and `SessionKeepsPromise` (the refinement of
  `SessionRefresh`), from the stronger `TInv`: a transaction the user was told of
  shows in the prompt (`ToldShows`), a reconnect is attempted only from `Idle`
  (`ReconnectsIdle`), and a statement the server accepted as the end of a
  transaction has closed it (`EndHasClosed`). These two assume
  `AllWellClassified`: every statement is classified as the server reads it. The
  assumption is needed: `COMMIT AND CHAIN` breaks `ToldShows`.
- `PromptStaysSound` and `RefreshKeepsSettings`, under the same assumption, from
  `PInv`. Between the server's answer and `finalize()` the prompt lags behind the
  server, so that the property alone does not survive a step: the invariant says
  what the server's status is at each await of the statement, and that the settings
  captured are those in force while the session is `Idle` and they are current.

It also proves that every behaviour of the shell is one of `ManagedSession` (`ShellUsesSession`), so that those theorems hold of interactive
runs, and `FailedCancellationStopsSession`, from the invariant that a failed
cancellation either belongs to the statement in progress or has left the session
uncertain.

The same holds of a shell that loads its catalog
(`CatalogUsesSession`), and from an inductive invariant two more:
`AbandonedConnectionsRest`, because a connection whose query was dropped has been
replaced, or must be and no statement is past *prepare* and *reconnect*
(`AbandonedIsReplaced`); and `LoadsKeepState`, because the session is `Idle`
during a load and a catalog query is not transaction control (`LoadsIdle`).
`FreshSnapshotsAreCurrent` needs more, `SnapshotInv`: the schema changes only by a
statement of the user, a change that is not yet committed shows in the state of the
prompt, so that no load runs beside it, and all the rows a load has kept are of the
schema it began with. That a query whose rows were all kept whole has lost none of what
the server let through is a lemma about the sink, by induction over the rows
(`LimitedRows` for the rows the `LIMIT` leaves). Nothing is claimed of names beyond it.

`SessionHandleProofs` proves `HandleTypeCorrect`, `SuccessIsWhole` and
`OutcomesAreTrue` for every capacity of the channel and any number of notices and
rows. None of the two properties is inductive: a statement is reported long after
the server has answered. The invariant follows the answer along the wire, through
the driver and the two channels: requests are answered in their order; a notice the
server sent before an answer is ahead of it wherever that is; an answer that is
anywhere was given; a failure of the link is the last thing the driver queues; and
the requests of a statement are bounded by a budget each of its steps spends.

`DashboardProofs` proves all four invariants of the dashboard from
`DInv == HeldTypes /\ FetchInv /\ CacheInv /\ ScreenInv /\ QueueInv /\ FlagInv`. A
fetch holds a beginning of each metric, and all of it once the metric was named and
not called incomplete, hence a snapshot called fresh lacks nothing (`FetchInv`); the
cache has true snapshots, each key once in the order of insertion (`CacheInv`); a
request that is out is for the selected range (`QueueInv`, `FlagInv`). That a figure
or a line of the chart is made of values of the snapshot is arithmetic of periods
and an induction over the columns. `TerminalIsAlwaysReturned` has an invariant of
its own: the terminal is raw in every phase of an open dashboard and a monitor runs
in no other (`TerminalInv`).

`CommandOutputProofs` shows `PagerIsReaped` for every stream of results, format and
behaviour of the pager: the invariant `PagerInv` says that no pager outlives the
statement it was started for, and that a script has none and comes to no prompt. It
also proves `StreamsAreFramed` and `OutputsAreFaithful` for any results, formats,
widths and buffers. At any moment a stream may have been cut, so the invariant
`StreamInv` speaks of the stream as it was meant: what was given, what is still to
be written and what the sink keeps back are, one after the other, an account
(`Told`) of the rows the server sent, as far as the sink's own numbers go
(`Counted`). A lemma for each event of each format shows that the event carries the
account on (`Step`); `PrefixHolds` shows that any beginning of an account, also one
that ends in a torn piece, is framed and faithful; `DecodeEncode`, that a delimited
cell gives its value back. A pager that was closed only stops the stream.

`StartupProofs` shows `UnattendedNeverAsks` for all command lines, Regions, roles,
inventories and answers of AWS and the network. The invariant `UnattendedInv` says
where a listing and a script can be at all (`ListingInv`, `ScriptInv`): a listing has
no selector, so that it never comes to a target; a script is given its role in the
first step and its target before it connects, and ends with a usage error only
before the first call or, for an input, after it has connected. The property alone
is not inductive: nothing in it says which steps are still to come.
`HistoryIsBound` shows `HistoryStaysBound` for all files, lines, limits and ways the
path may lead, from `HistoryInv`. The lines of the file are a part of the newest of
all lines that were ever to be written to it: those of the file followed by those
not yet written are, up to the capacity, the lines accepted in their order, with
lines of other shells between them (`Follow`). The lemmas say what this becomes when
a line is accepted, when another shell writes between two of ours (`FollowBetween`),
when a write succeeds and when it fails, and that taking the newest of a sequence
whose beginning was cut already takes the same lines (`NewestTwice`, `NewestAround`).
That only the bound file is written, and only while it is its owner's, is a part of
the same invariant, since `sync` may write long after the path was checked.

`TargetsAreAsked` shows `TargetIsAsked` for every selector, Region, role, answer and
inventory, from `AimInv`. A target is made steps after the choices it must agree
with, so that each part of the invariant says what a later step will find: the
clients are made for the Region resolved (`Located`), the selector is the one of the
command line unless none was given (`Named`), a role that was given is not asked for
(`Roled`), no token was asked for before there is a role (`Uncalled`), and a cluster
is picked from a whole inventory and confirmed when its status is not known
(`Picked`, which needs `Discovering`: what was listed is a beginning of the account,
and each request for details so far is in flight or answered once, whatever the order
of the answers). Below that are lemmas about the parts a text is split into: of a
selector that is an endpoint, the text is the canonical endpoint of the identifier
and the Region it was split into (`EndpointIs`).
`InventoriesAreWhole` shows `InventoryIsWhole` from the same parts and `Rendering`:
what is shown was rendered from the inventory there is, and a listing that ends well
has shown it. That each format has a row for each cluster (`RenderedLaid`), that the
rows tell the cluster (`CellsTell`, `ObjectTells`), that an escaped text has no control
character and is empty only if the text was (`TextEscaped`), and that the order of
the identifiers leaves out none (`SortedArranged`, `LaidIsWhole`) are its lemmas.

`DiagnosticsAreSafe` shows `DiagnosticIsSafe` for every message and every bound. What
is shown is a function of the message, so that the step is immediate and the work is
in the function. `redact` looks ahead: what it writes at a place it puts before what
it writes at a later one (`Redacts`). The lemma that carries the proof is `StepHides`:
as long as every value from a place on follows the name of its secret, what is written
there holds no value, and the same is true of the place where the text goes on. A name
cannot begin inside another or before its separator (`NoneStarts`); the value of a
secret is covered by what `secret_value_end` skips, quoted or not (`ValueCovered`); and
an earlier secret has ended with its line (`EndsWithLine`). The last is a condition of
the property, `Apart`: a name inside the quoted value of another secret is a part of
that value and no name, which an induction that failed has shown. A beginning keeps
its guards (`GuardedWithin`), so that cutting the text first exposes nothing, and
escaping and the marker bring neither a value nor a control character.

`LinesAlwaysFit` (in `CommandOutputProofs`) shows `LinesFit` for any results and widths.
The invariant `FitInv` asks of the sink that the widths of its open result leave a line
within the terminal, and of what was written, is to be written and is held back that it
fits. Below that: what `column_widths` gives adds up to the room there is, since the
growths it deals out have different places in one order (`GrowthsWithin`) and the rest
is shared by division (`SharesAdd`, `WidthsFit`); escaping, cutting and padding keep a
cell, by its characters, to the width of its column (`CutFits`, `TruncateFits`,
`PadIs`), so that the whole is wider by its widened emoji at most (`WholeWidth`,
`TotalGrows`); and what was escaped is visible (`EncodedVisible`).

`SqlScannerProofs` and `ScriptReaderProofs` are about texts of any length.
`ScannerFrames` shows that the scanner, which searches ahead for the end of each
comment, quotation and dollar quote, finds the same statements and the same rest as the
reference `Read`, which sees one byte after another, and that both agree whether a
submission is complete; `TriviaReads` shows the same of `skip_trivia`. The induction is
over the places where the scanner looks again: there the reference is in the mode the
scanner takes the text to be in. `GoesOn` shows that reading the pending piece again
with more text after it comes to reading on, which is why a stream may be scanned from
its pending piece although a chunk ended inside a mark or a quotation.
`ScriptOrder`, `ScriptOutcome` and `ScriptRefusal` show the three properties of
`ScriptReader` from `ScriptInv`. None is inductive, for none says what has been read
yet: a file is read up to some byte, but for the lead byte of an unfinished character,
what ran and what is queued are the statements the reference finds up to there, and the
pending text is its pending piece (`ReadUpTo`); a command or a submission is untouched or
framed as a whole (`Whole`). An error is a fact of the whole text because a piece that
is too long, or bytes that are not UTF-8, stay so whatever follows (`LargeStays`,
`LeadsOf`).

`DataInduction` has the tools the library does not give in a form the installed
provers can use: `SetInduction`, that a set of naturals that holds 0 and with each
number the next holds all; `BackInduction`, the same downwards from a last place; and
that a function defined from its last value (`IteratesSome`, `LoopSome`), or from a later
one (`AheadSome`), exists. Induction over a list is then over the set of lengths for
which a lemma holds.

Every invariant and every action property of the runs is proved. Only model-checked
are the liveness properties: the prover has no rules for them here. What
`SelectSeq` and `SortSeq` select is opaque to the prover: the definitions that are
reasoned about avoid them, and state the parts of a text by the places of its marks
(`Split`) and a sorted inventory as one of its ordered rearrangements (`Sorted`).

The assumptions on the constants are named in the modules, and TLC evaluates them in
every run. They say what the code fixes: a catalog query is a `SELECT`; a connection
has room for the requests of its statements (`2 * Queries <= MaxRequests`, a bound
of the model); CloudWatch's points, the answers and the areas of the screen have
their types; a shell that starts finds no line of its own in any file; the cells of a
result and the headers are texts of the model, and every column has a name; an
account has each of its identifiers once, the order of the identifiers tells any two
apart, and an identifier has no control character; selectors, Regions, display
names, messages and scripts are texts; and limits are positive where the code's are.

## Plan

Done: the session and its adapter, the shell's execution of statements, the
catalog loads, the scanner and the script reader, the output of statements, the
start of the process with its inventory and history, the dashboard and its metrics,
and proofs of every invariant and action property of the runs. What is left is one
composition: that the shell with both signals and loads uses the session as
specified. The two are proved apart, each with a session that the other leaves alone.

## Not modelled

- Completion (`src/shell/completion.rs`): a filter by prefix over the snapshot
  `CatalogLoad` keeps, without state; the names are left out while a load holds the
  lock.
- The line editor itself (editing, search, hints, colours, menus), which is
  `reedline`'s; the parsing of options, which is `clap`'s; the parsing of
  certificates and JSON.
- The wording of messages and help, the places of the dashboard's figures, the
  padding of the inventory's table, backoff delays.
- Tests, stress tests, build and release scripts.
