---------------------------- MODULE OutputSinks ----------------------------
(***************************************************************************)
(* The execution sinks of src/output: what each writes for an event, and   *)
(* which events it refuses.  A sink is a record; emit(sink, event) is the  *)
(* sink after the event and the pieces it writes on the way, or a refusal. *)
(* A piece is what one write call hands over: a line, a frame, a record.   *)
(***************************************************************************)
EXTENDS OutputText

CONSTANT BufferRecords   \* records the buffer of the csv writer holds

ASSUME BufferAssumption == BufferRecords \in Nat \ {0}

\* Events: cells are the column names or the values of a row.
Columns(names) == [type |-> "columns", cells |-> names, rows |-> 0]
Row(values) == [type |-> "row", cells |-> values, rows |-> 0]
CommandComplete(rows) == [type |-> "complete", cells |-> <<>>, rows |-> rows]
Notice == [type |-> "notice", cells |-> <<>>, rows |-> 0]
Error == [type |-> "error", cells |-> <<>>, rows |-> 0]

Out(kind, result, rows, cells) ==
  [to |-> "stdout", kind |-> kind, result |-> result, rows |-> rows,
   cells |-> cells]
Diagnostic(kind) ==
  [to |-> "stderr", kind |-> kind, result |-> 0, rows |-> 0, cells |-> <<>>]

\* escape: are controls made visible?  active: a result was begun and not
\* completed; widths, rows: its columns and the rows written; results: results
\* begun; preceded: needs_separator; done: no event is taken any more.
NewSink(format, display, escape, timing) ==
  [format |-> format, display |-> display, escape |-> escape, timing |-> timing,
   active |-> FALSE, widths |-> <<>>, rows |-> 0, results |-> 0,
   preceded |-> FALSE, done |-> FALSE, buffer |-> <<>>]

Refused == [ok |-> FALSE]
Writes(pieces, sink) == [ok |-> TRUE, pieces |-> pieces, sink |-> sink]

Blank(sink) == IF sink.preceded THEN <<Out("blank", 0, 0, <<>>)>> ELSE <<>>
Options(texts) == [i \in DOMAIN texts |-> <<texts[i]>>]
Number(sink) == sink.results - 1

Begun(sink, widths) ==
  [sink EXCEPT !.active = TRUE, !.widths = widths, !.rows = 0,
               !.results = @ + 1, !.preceded = TRUE]
-----------------------------------------------------------------------------
\* TableExecutionSink
tableColumns(sink, names) ==
  LET headers == [i \in DOMAIN names |->
                    escape_terminal_text_to_width(names[i][1], sink.display)]
      widths == column_widths(headers, sink.display)
      cells == [i \in DOMAIN names |-> truncate_to_width(headers[i], widths[i])]
      next == Begun(sink, widths)
  IN Writes(Blank(sink) \o
            <<Out("columns", Number(next), 0, Options(table_line(cells, widths))),
              Out("rule", Number(next), 0, Options(separator_line(widths)))>>, next)

\* Mutant of tableCell: the value is escaped after it was cut.
cutsBeforeEscaping(cell, width) ==
  IF cell = <<>> THEN truncate_to_width(<<"N", "U", "L", "L">>, width)
  ELSE escape_terminal_text(truncate_to_width(cell[1], width))

tableCell(cell, width) ==
  IF cell = <<>> THEN truncate_to_width(<<"N", "U", "L", "L">>, width)
  ELSE escape_terminal_text_to_width(cell[1], width)

tableRow(sink, values) ==
  LET cells == [i \in DOMAIN values |-> tableCell(values[i], sink.widths[i])]
      line == Options(table_line(cells, sink.widths))
  IN Writes(<<Out("row", Number(sink), 0, line)>>, [sink EXCEPT !.rows = @ + 1])

\* ExpandedExecutionSink: a result begins with its first record, and a row is a
\* record of one line for each column.
expandedColumns(sink, names) ==
  Writes(Blank(sink),
         Begun(sink, [i \in DOMAIN names |-> Width(escape_terminal_text(names[i][1]))]))

shownCell(cell) == IF cell = <<>> THEN <<>> ELSE <<escape_terminal_text(cell[1])>>

expandedRow(sink, values) ==
  Writes(<<Out("row", Number(sink), sink.rows + 1, <<>>)>> \o
         [i \in DOMAIN values |-> Out("field", Number(sink), 0, <<shownCell(values[i])>>)],
         [sink EXCEPT !.rows = @ + 1])

\* Both end a result, or a command without one, in the same way.
summary(sink, rows) ==
  IF sink.active
  THEN Writes(<<Out("complete", Number(sink), rows, <<>>)>>,
              [sink EXCEPT !.active = FALSE])
  ELSE Writes(Blank(sink) \o <<Out("command", 0, rows, <<>>)>>,
              [sink EXCEPT !.preceded = TRUE])
-----------------------------------------------------------------------------
\* DelimitedSink: records go to the buffer of the csv writer, which writes it
\* out when it is full and when it is flushed.
record(sink, piece, next) ==
  IF Len(sink.buffer) < BufferRecords
  THEN Writes(<<>>, [next EXCEPT !.buffer = Append(@, piece)])
  ELSE Writes(sink.buffer, [next EXCEPT !.buffer = <<piece>>])

escaped(sink, text) == IF sink.escape THEN escape_terminal_text(text) ELSE text

delimitedColumns(sink, names) ==
  record(sink,
         Out("columns", 0, 0, [i \in DOMAIN names |-> <<escaped(sink, names[i][1])>>]),
         Begun(sink, [i \in DOMAIN names |-> 0]))

delimitedRow(sink, values) ==
  record(sink,
         Out("row", 0, 0, [i \in DOMAIN values |-> <<encode_cell(values[i], sink.escape)>>]),
         [sink EXCEPT !.rows = @ + 1])

delimitedComplete(sink) ==
  IF sink.active
  THEN Writes(sink.buffer, [sink EXCEPT !.active = FALSE, !.buffer = <<>>])
  ELSE Writes(<<>>, sink)

\* JsonlExecutionSink: one frame for each event, flushed at once.
jsonlColumns(sink, names) ==
  LET next == Begun(sink, [i \in DOMAIN names |-> 0]) IN
    Writes(<<Out("columns", Number(next), 0, names)>>, next)

jsonlRow(sink, values) ==
  Writes(<<Out("row", Number(sink), 0, values)>>, [sink EXCEPT !.rows = @ + 1])

jsonlComplete(sink, rows) ==
  IF sink.active
  THEN Writes(<<Out("complete", Number(sink), rows, <<>>)>>,
              [sink EXCEPT !.active = FALSE])
  ELSE Writes(<<Out("command", 0, rows, <<>>)>>, sink)
-----------------------------------------------------------------------------
(***************************************************************************)
(* emit, event by event.                                                   *)
(***************************************************************************)
columnsRefused(sink) ==
  IF sink.format = "delimited" THEN sink.results > 0 ELSE sink.active

emitColumns(sink, names) ==
  IF columnsRefused(sink) THEN Refused
  ELSE CASE sink.format = "table" -> tableColumns(sink, names)
         [] sink.format = "expanded" -> expandedColumns(sink, names)
         [] sink.format = "jsonl" -> jsonlColumns(sink, names)
         [] OTHER -> delimitedColumns(sink, names)

rowRefused(sink, values) == ~sink.active \/ Len(values) # Len(sink.widths)

emitRow(sink, values) ==
  IF rowRefused(sink, values) THEN Refused
  ELSE CASE sink.format = "table" -> tableRow(sink, values)
         [] sink.format = "expanded" -> expandedRow(sink, values)
         [] sink.format = "jsonl" -> jsonlRow(sink, values)
         [] OTHER -> delimitedRow(sink, values)

\* Mutant of countRefused: the count of the server is not compared with the rows.
countUnchecked(sink, rows) == FALSE

\* The delimited sink does not compare the count.
countRefused(sink, rows) ==
  sink.format # "delimited" /\ sink.active /\ sink.rows # rows

emitComplete(sink, rows) ==
  IF countRefused(sink, rows) THEN Refused
  ELSE CASE sink.format = "delimited" -> delimitedComplete(sink)
         [] sink.format = "jsonl" -> jsonlComplete(sink, rows)
         [] OTHER -> summary(sink, rows)

emitNotice(sink) ==
  Writes(<<IF sink.format = "jsonl" THEN Out("notice", 0, 0, <<>>)
           ELSE Diagnostic("notice")>>, sink)

emitError(sink) ==
  Writes(sink.buffer \o <<IF sink.format = "jsonl" THEN Out("error", 0, 0, <<>>)
                          ELSE Diagnostic("error")>>,
         [sink EXCEPT !.done = TRUE, !.buffer = <<>>])

emitEvent(sink, event) ==
  CASE event.type = "columns" -> emitColumns(sink, event.cells)
    [] event.type = "row" -> emitRow(sink, event.cells)
    [] event.type = "complete" -> emitComplete(sink, event.rows)
    [] event.type = "notice" -> emitNotice(sink)
    [] event.type = "error" -> emitError(sink)

\* TimingExecutionSink: the time follows what the inner sink wrote.
emit(sink, event) ==
  LET inner == IF sink.done THEN Refused ELSE emitEvent(sink, event) IN
    IF inner.ok /\ sink.timing /\ event.type \in {"complete", "error"}
    THEN Writes(Append(inner.pieces, Diagnostic("time")), inner.sink)
    ELSE inner
=============================================================================
