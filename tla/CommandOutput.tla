--------------------------- MODULE CommandOutput ---------------------------
(***************************************************************************)
(* Where the output of statements goes: the sinks of src/output driven by  *)
(* the events of a statement, in a script, which keeps one sink for all    *)
(* its statements, and in the interactive shell, which makes one for each, *)
(* perhaps over a pager, and drops it before the next prompt.              *)
(*                                                                         *)
(* Writing is one step for each write call, since a call may fail, and may *)
(* block while the pager does not read.  The statements themselves are     *)
(* ManagedSession's; here they are the events they emit.                   *)
(***************************************************************************)
EXTENDS OutputSinks, ShellCommands

CONSTANTS
  Displays,       \* widths of the terminal
  AutoWidth,      \* the width below which automatic output is expanded (80)
  Headers,        \* the column lists of results, each a sequence of cells
  Rows,           \* the rows of results
  PipeCapacity,   \* writes the pipe to the pager holds
  MaxRows,        \* bound: rows of one result
  MaxNotices,     \* bound: notices of one statement
  MaxStatements   \* bound: statements of a script or a submission

\* A cell is nothing or one text; a column has a name.
Cells == Seq({cell \in Seq(Seq(STRING)) : Len(cell) <= 1})

ASSUME OutputAssumption ==
  /\ Rows \subseteq Cells
  /\ Headers \subseteq Cells /\ \A names \in Headers : \A i \in DOMAIN names : names[i] # <<>>
  /\ Displays \subseteq Nat \ {0} /\ AutoWidth \in Nat
  /\ PipeCapacity \in Nat \ {0}
  /\ MaxRows \in Nat /\ MaxNotices \in Nat /\ MaxStatements \in Nat \ {0}

VARIABLES
  mode,      \* "script" or "shell"
  settings,  \* ShellCommandState::settings
  phase,     \* what the program is doing
  left,      \* statements of the script or submission not yet begun
  sink,      \* the execution sink
  todo,      \* the writes that remain of the event in progress
  progress,  \* how far the statement's events have come
  notices,
  quiet,     \* the statement was interrupted: its events are dropped
  outcome,   \* of the last statement
  up,        \* the standard streams that still take output
  pager,
  out,       \* what standard output, or the pager, was given by this sink
  served     \* history: the rows the server sent to this sink

program == <<mode, settings, left>>
statement == <<progress, notices, quiet>>
vars == <<program, phase, sink, todo, statement, outcome, up, pager, out, served>>

NoPager == [process |-> "none", unread |-> 0, closed |-> FALSE]
NoSink == NewSink("table", 80, TRUE, FALSE)

\* interactive_sink: the settings in force, the width of the moment, and the
\* pager if it can be started.
interactive_sink(display) ==
  NewSink(IF \/ settings.expanded = "on"
             \/ settings.expanded = "auto" /\ display < AutoWidth
          THEN "expanded" ELSE "table",
          display, TRUE, settings.timing)

\* execution_sink: delimited output is escaped only on its way to a terminal.
ScriptSinks ==
  {NewSink(format, AutoWidth, TRUE, FALSE) : format \in {"table", "delimited", "jsonl"}}
  \cup {NewSink("delimited", AutoWidth, FALSE, FALSE)}

Init ==
  /\ settings = DefaultSettings
  /\ todo = <<>> /\ progress = "none" /\ notices = 0 /\ quiet = FALSE
  /\ outcome = "none" /\ up = {"stdout", "stderr"}
  /\ pager = NoPager /\ out = <<>> /\ served = <<>>
  /\ \/ /\ mode = "shell" /\ left = 0
        /\ phase = "prompt" /\ sink = NoSink
     \/ /\ mode = "script" /\ left \in 0 .. MaxStatements - 1
        /\ phase = "executing"
        /\ sink \in ScriptSinks
-----------------------------------------------------------------------------
(***************************************************************************)
(* The prompt.                                                             *)
(***************************************************************************)
\* The last sink is gone, and with it what is remembered of it.
Forget ==
  /\ sink' = NoSink /\ out' = <<>> /\ served' = <<>> /\ pager' = NoPager
  /\ outcome' = "none" /\ progress' = "none" /\ notices' = 0 /\ quiet' = FALSE

Command(name, args) ==
  /\ phase = "prompt"
  /\ Action(name) \in {"message", "exit"}
  /\ settings' = IF Accepted(name, args) THEN SettingsAfter(settings, name, args)
                 ELSE settings
  /\ phase' = IF Accepted(name, args) /\ Action(name) = "exit" THEN "ended" ELSE "prompt"
  /\ Forget
  /\ UNCHANGED <<mode, left, todo, up>>

\* A submission of n statements, or the one query of \d and its kin.
Submit(n) ==
  /\ phase = "prompt"
  /\ left' = n
  /\ phase' = "next"
  /\ Forget
  /\ UNCHANGED <<mode, settings, todo, up>>

\* Each statement of a submission gets a sink of its own.
StartStatement(display) ==
  /\ phase = "next"
  /\ left' = left - 1
  /\ phase' = "executing"
  /\ sink' = interactive_sink(display)
  /\ pager' \in {NoPager} \cup
                (IF settings.pager THEN {[NoPager EXCEPT !.process = "running"]} ELSE {})
  /\ progress' = "none" /\ notices' = 0 /\ quiet' = FALSE
  /\ out' = <<>> /\ served' = <<>>
  /\ UNCHANGED <<mode, settings, todo, outcome, up>>
-----------------------------------------------------------------------------
(***************************************************************************)
(* The events of a statement.  The sink refuses one, or says what it is to *)
(* write.                                                                  *)
(***************************************************************************)
Emit(event) ==
  LET written == emit(sink, event) IN
    IF written.ok
    THEN sink' = written.sink /\ todo' = written.pieces /\ UNCHANGED <<phase, outcome>>
    ELSE phase' = "failed" /\ outcome' = "failed" /\ UNCHANGED <<sink, todo>>

Listening == phase = "executing" /\ todo = <<>> /\ ~quiet

Describe ==
  /\ Listening /\ progress = "none"
  /\ \E names \in Headers : Emit(Columns(names))
  /\ progress' = "rows"
  /\ UNCHANGED <<program, notices, quiet, up, pager, out, served>>

\* The rows of the result in progress.
Current == SelectSeq(served, LAMBDA r : r.result = sink.results)

SendRow ==
  /\ Listening /\ progress = "rows" /\ Len(Current) < MaxRows
  /\ \E values \in Rows :
       /\ Len(values) = Len(sink.widths)
       /\ Emit(Row(values))
       /\ served' = Append(served, [result |-> sink.results, cells |-> values])
  /\ UNCHANGED <<program, statement, up, pager, out>>

\* The count is taken from the last word of the server's command tag; a tag
\* without one, such as that of SHOW or EXPLAIN, counts no rows.
Complete ==
  /\ Listening /\ progress \in {"none", "rows"}
  /\ \E rows \in {0, IF progress = "rows" THEN Len(Current) ELSE 1} :
       Emit(CommandComplete(rows))
  /\ progress' = "complete"
  /\ UNCHANGED <<program, notices, quiet, up, pager, out, served>>

SendNotice ==
  /\ Listening /\ progress # "error" /\ notices < MaxNotices
  /\ Emit(Notice)
  /\ notices' = notices + 1
  /\ UNCHANGED <<program, progress, quiet, up, pager, out, served>>

\* The server rejects the statement, or the connection is lost.
SendError ==
  /\ Listening /\ progress \in {"none", "rows"}
  /\ Emit(Error)
  /\ progress' = "error"
  /\ UNCHANGED <<program, notices, quiet, up, pager, out, served>>

\* Refused before anything was sent; or, for a query of the catalog, a value that
\* is not text.
FailSilently ==
  /\ Listening /\ \/ progress = "none"
                  \/ progress = "rows" /\ mode = "shell"
  /\ phase' = "failed" /\ outcome' = "failed"
  /\ UNCHANGED <<program, sink, todo, statement, up, pager, out, served>>

\* The statement returns.  A script goes on with the sink it has.
Return ==
  /\ phase = "executing" /\ todo = <<>> /\ progress \in {"complete", "error"}
  /\ outcome' = IF progress = "complete" THEN "ok" ELSE "failed"
  /\ IF progress = "complete" /\ mode = "script" /\ left > 0
     THEN left' = left - 1 /\ progress' = "none" /\ notices' = 0 /\ UNCHANGED phase
     ELSE /\ phase' = IF progress = "complete" THEN "closing" ELSE "failed"
          /\ UNCHANGED <<left, progress, notices>>
  /\ UNCHANGED <<mode, settings, sink, todo, quiet, up, pager, out, served>>
-----------------------------------------------------------------------------
(***************************************************************************)
(* Writing.  A pager that has left takes everything and shows nothing.     *)
(***************************************************************************)
Given(piece) == out' = Append(out, piece)

WriteToPager(piece) ==
  /\ pager.process # "none"
  /\ IF pager.closed \/ pager.process = "exited"
     THEN pager' = [pager EXCEPT !.closed = TRUE] /\ UNCHANGED out
     ELSE /\ pager.unread < PipeCapacity
          /\ pager' = [pager EXCEPT !.unread = @ + 1]
          /\ Given(piece)

WriteToStream(piece) ==
  /\ piece.to \in up
  /\ IF piece.to = "stdout" THEN Given(piece) ELSE UNCHANGED out
  /\ UNCHANGED pager

Write ==
  /\ phase = "executing" /\ todo # <<>>
  /\ \/ Head(todo).to = "stdout" /\ WriteToPager(Head(todo))
     \/ Head(todo).to = "stderr" /\ WriteToStream(Head(todo))
     \/ pager.process = "none" /\ WriteToStream(Head(todo))
  /\ todo' = Tail(todo)
  /\ UNCHANGED <<program, phase, sink, statement, outcome, up, served>>

\* A write fails, perhaps half way: the statement fails with it.
WriteFails ==
  /\ phase = "executing" /\ todo # <<>> /\ Head(todo).to \notin up
  /\ Head(todo).to = "stdout" => pager.process = "none"
  /\ phase' = "failed" /\ outcome' = "failed"
  /\ todo' = <<>>
  /\ UNCHANGED <<program, sink, statement, up, pager, out, served>>

\* The reader of a redirected stream goes away, and what it took last may be
\* the half of a write.
CloseStream(stream) ==
  /\ mode = "script" /\ stream \in up /\ phase # "ended"
  /\ up' = up \ {stream}
  /\ out' \in {out} \cup
              (IF stream = "stdout" /\ todo # <<>> /\ Head(todo).to = "stdout"
               THEN {Append(out, [Head(todo) EXCEPT !.kind = "torn"])} ELSE {})
  /\ UNCHANGED <<program, phase, sink, todo, statement, outcome, pager, served>>

PagerReads ==
  /\ pager.process = "running" /\ pager.unread > 0
  /\ pager' = [pager EXCEPT !.unread = @ - 1]
  /\ UNCHANGED <<program, phase, sink, todo, statement, outcome, up, out, served>>

PagerLeaves ==
  /\ pager.process = "running"
  /\ pager' = [pager EXCEPT !.process = "exited"]
  /\ UNCHANGED <<program, phase, sink, todo, statement, outcome, up, out, served>>
-----------------------------------------------------------------------------
(***************************************************************************)
(* Signals reach a shell only between two polls of its statement, never    *)
(* while a write blocks.                                                   *)
(***************************************************************************)
Interrupt ==
  /\ mode = "shell" /\ Listening
  /\ quiet' = TRUE
  /\ UNCHANGED <<program, phase, sink, todo, progress, notices, outcome, up, pager,
                 out, served>>

\* Whatever an interrupted statement still emits is dropped.
QuietReturn ==
  /\ phase = "executing" /\ quiet
  /\ \/ outcome' = "ok" /\ phase' = "closing"
     \/ outcome' = "failed" /\ phase' = "failed"
  /\ UNCHANGED <<program, sink, todo, statement, up, pager, out, served>>

\* A second Ctrl-C or SIGTERM ends the shell.
Terminate ==
  /\ mode = "shell" /\ phase = "executing" /\ todo = <<>>
  /\ outcome' = "terminated" /\ phase' = "closing"
  /\ UNCHANGED <<program, sink, todo, statement, up, pager, out, served>>

\* A script has no handler: a signal ends it as it stands.
Killed ==
  /\ mode = "script" /\ phase # "ended"
  /\ phase' = "ended" /\ outcome' = "killed"
  /\ UNCHANGED <<program, sink, todo, statement, up, pager, out, served>>
-----------------------------------------------------------------------------
(***************************************************************************)
(* The end of a sink.                                                      *)
(***************************************************************************)
\* The shell prints the error while the pager still runs.
Report ==
  /\ phase = "failed"
  /\ phase' = "closing"
  /\ UNCHANGED <<program, sink, todo, statement, outcome, up, pager, out, served>>

Proceeds ==
  CASE mode = "script" \/ outcome = "terminated" -> "ended"
    [] mode = "shell" /\ outcome = "ok" /\ left > 0 -> "next"
    [] OTHER -> "prompt"

\* Dropping the sink writes what the csv writer still holds, if it can, and
\* closes the input of the pager.
DropSink ==
  /\ phase = "closing"
  /\ out' = IF "stdout" \in up THEN out \o sink.buffer ELSE out
  /\ sink' = [sink EXCEPT !.buffer = <<>>]
  /\ phase' = IF pager.process = "none" THEN Proceeds ELSE "reaping"
  /\ UNCHANGED <<program, todo, statement, outcome, up, pager, served>>

\* Mutant of Reap: a pager that is still there after the wait is left alone.
reapsIfGone ==
  /\ phase = "reaping"
  /\ phase' = Proceeds
  /\ pager' = IF pager.process = "exited" THEN NoPager ELSE pager
  /\ UNCHANGED <<program, sink, todo, statement, outcome, up, out, served>>

\* Mutant of Reap: the wait has no limit.
reapsPatiently ==
  /\ phase = "reaping" /\ pager.process = "exited"
  /\ phase' = Proceeds
  /\ pager' = [NoPager EXCEPT !.closed = pager.closed]
  /\ UNCHANGED <<program, sink, todo, statement, outcome, up, out, served>>

\* The pager has PAGER_EXIT_TIMEOUT to exit by itself and is killed then; either
\* way it is waited for.
Reap ==
  /\ phase = "reaping"
  /\ phase' = Proceeds
  /\ pager' = [NoPager EXCEPT !.closed = pager.closed]
  /\ UNCHANGED <<program, sink, todo, statement, outcome, up, out, served>>
-----------------------------------------------------------------------------
Prompt ==
  \/ \E name \in Names, args \in ArgumentLists : Command(name, args)
  \/ \E n \in 1 .. MaxStatements : Submit(n)

Server == Describe \/ SendRow \/ Complete \/ SendNotice \/ SendError \/ FailSilently

Progress ==
  \/ \E display \in Displays : StartStatement(display)
  \/ Return \/ Write \/ WriteFails \/ QuietReturn \/ Report \/ DropSink \/ Reap

Pager == PagerReads \/ PagerLeaves

Signals == Interrupt \/ Terminate \/ Killed

Next ==
  \/ Prompt \/ Server \/ Progress \/ Pager \/ Signals
  \/ \E stream \in {"stdout", "stderr"} : CloseStream(stream)

Spec == Init /\ [][Next]_vars

\* The server finishes every statement, the program is scheduled and its timer
\* expires.  Nothing is asked of the pager: it may stop reading and never exit.
FairSpec == Spec /\ WF_vars(Progress) /\ WF_vars(Complete)
-----------------------------------------------------------------------------
(***************************************************************************)
(* Properties.                                                             *)
(***************************************************************************)
At(stream, kind) == {i \in DOMAIN stream : stream[i].kind = kind}
RowsAt(stream, result) == {i \in At(stream, "row") : stream[i].result = result}
Framing(stream) ==
  {i \in DOMAIN stream : stream[i].kind \in {"columns", "row", "complete"}}

Framed(stream, format) ==
  /\ \A i \in At(stream, "columns") :
       stream[i].result = Cardinality({j \in At(stream, "columns") : j < i})
  /\ \A i \in At(stream, "columns") : \A j \in RowsAt(stream, stream[i].result) :
       i < j /\ Len(stream[i].cells) = Len(stream[j].cells)
  /\ \A i \in At(stream, "complete") :
       /\ stream[i].rows = Cardinality(RowsAt(stream, stream[i].result))
       /\ \A j \in Framing(stream) : j > i => stream[j].result > stream[i].result
  /\ format # "delimited" =>
       \A i, j \in Framing(stream) :
         j < i /\ stream[j].result < stream[i].result
         => \E k \in At(stream, "complete") :
              j <= k /\ k < i /\ stream[k].result = stream[j].result
  /\ \A i \in At(stream, "error") \cup At(stream, "torn") : i = Len(stream)

\* docs/output-formats.md: results are numbered from zero; a row belongs to the
\* result that is open and has its width; a result is closed once, before the
\* next begins, by the number of its rows, whatever count the server gave; and
\* nothing follows an error or the half of a frame.  This holds of whatever has
\* been written at any moment, however the program ends.
StreamIsFramed == Framed(out, sink.format)

decode(text) ==
  CASE text = <<"\\", "N">> -> <<>>
    [] text # <<"\\", "N">> /\ text # <<>> /\ text[1] = "\\" -> <<Tail(text)>>
    [] OTHER -> <<text>>

\* What a reader of a row knows of its cells.
Shows(form, piece, cells) ==
  CASE form.format = "jsonl" -> piece.cells = cells
    [] form.format = "delimited" ->
         \A i \in DOMAIN cells :
           decode(piece.cells[i][1]) = IF form.escape THEN shownCell(cells[i]) ELSE cells[i]
    [] OTHER -> TRUE

\* The place of a row among the rows.
Place(stream, i) == Cardinality({j \in At(stream, "row") : j <= i})

Faithful(stream, form, sent) ==
  \A i \in At(stream, "row") :
    /\ Place(stream, i) <= Len(sent)
    /\ Shows(form, stream[i], sent[Place(stream, i)].cells)

\* The rows that were written are the first rows the server sent, in its order;
\* CSV, TSV and JSON Lines give every value back, a null apart from any text.
\* After a success they are all there, unless a pager was left or Ctrl-C asked
\* for silence.
OutputIsFaithful ==
  /\ Faithful(out, sink, served)
  /\ phase \in {"prompt", "ended"} /\ outcome = "ok" /\ ~quiet /\ ~pager.closed
     => Cardinality(At(out, "row")) = Len(served)

\* What the numbers add up to.
Total(numbers) ==
  LET upTo[n \in 0 .. Len(numbers)] == IF n = 0 THEN 0 ELSE upTo[n - 1] + numbers[n]
  IN upTo[Len(numbers)]

\* The cells of a line stand side by side, with a bar between each two.
LineWidth(cells) ==
  Total([k \in DOMAIN cells |-> Width(cells[k][1])]) + Len(cells) - 1

\* By how much the emoji of a line may carry it over its columns.
Overrun(cells) == Total([k \in DOMAIN cells |-> Cardinality(Widened(cells[k][1]))])

Controlled(cell) == cell # <<>> /\ \E k \in DOMAIN cell[1] : cell[1][k] \in Controls

\* No line of a table is wider than the terminal, unless it has more columns
\* than fit side by side, or emoji that a variation selector makes wide, each of
\* which may carry it over by one; and no control character of the data reaches
\* a terminal (JSON Lines, which has its own escapes, aside).
LinesFit ==
  \A i \in DOMAIN out :
    LET cells == out[i].cells IN
      /\ sink.format = "table" /\ cells # <<>> =>
           LineWidth(cells) <= AtLeast(sink.display, 2 * Len(cells) - 1) + Overrun(cells)
      /\ sink.escape /\ sink.format # "jsonl" => \A k \in DOMAIN cells : ~Controlled(cells[k])

\* The shell is never at its prompt, nor begins a statement, while a pager of its
\* is still running or unreaped: two programs would read one terminal.
PagerIsReaped == phase \in {"prompt", "next", "ended"} => pager.process = "none"

\* The pager is alive and its pipe is full: the next write blocks the program.
PipeFull == pager.process = "running" /\ pager.unread = PipeCapacity

\* A statement whose output goes through a pager comes back to the prompt, though
\* the pager never exits by itself; only a pager that stops reading for good,
\* with its pipe full, keeps the program: its write has no time limit.
PromptReturns ==
  []<>~PipeFull => (phase = "executing" ~> phase \in {"prompt", "ended"})
=============================================================================
