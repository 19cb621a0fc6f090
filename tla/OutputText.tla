----------------------------- MODULE OutputText -----------------------------
(***************************************************************************)
(* Text as src/output prepares it for a terminal or a file.  A character   *)
(* is one of the classes that escaping and display width tell apart: a     *)
(* wide or a combining character, an emoji that is narrow by itself and    *)
(* the variation selector that makes it wide, the three controls with an   *)
(* escape of their own, any other control, and every other character by    *)
(* itself.                                                                 *)
(* A cell is an option: <<>> is NULL, <<text>> a value.                    *)
(***************************************************************************)
EXTENDS Integers, SequencesExt

Wide == "wide"
Combining == "combining"
Emoji == "emoji"
Selector == "selector"
Control == "control"
Controls == {"\n", "\r", "\t", Control}

EscapeChar(c) ==
  CASE c = "\n" -> <<"\\", "n">>
    [] c = "\r" -> <<"\\", "r">>
    [] c = "\t" -> <<"\\", "t">>
    [] c = Control -> <<"\\", "u", "{", "0", "0", "0", "7", "}">>
    [] OTHER -> <<c>>

escape_terminal_text(text) ==
  FlattenSeq([i \in DOMAIN text |-> EscapeChar(text[i])])

\* The crate unicode-width has two widths of text without controls.  By its
\* characters, UnicodeWidthChar, the text is cut.
CharsWidth(text) ==
  Cardinality({k \in DOMAIN text : text[k] \notin {Combining, Selector}})
    + Cardinality({k \in DOMAIN text : text[k] = Wide})

\* The variation selectors that make the emoji before them wide.
Widened(text) ==
  {k \in DOMAIN text : k > 1 /\ text[k] = Selector /\ text[k - 1] = Emoji}

\* As a whole, UnicodeWidthStr, it is measured and padded, and a terminal shows it.
Width(text) == CharsWidth(text) + Cardinality(Widened(text))

AtMost(x, bound) == IF x <= bound THEN x ELSE bound
AtLeast(x, bound) == IF x >= bound THEN x ELSE bound

\* How many characters fit, by the widths of the beginnings of a text.
Fitting(widths, width) == Max({n \in DOMAIN widths : widths[n] <= width})

Widths(text) == [n \in 0 .. Len(text) |-> CharsWidth(SubSeq(text, 1, n))]
EscapedWidths(text) ==
  [n \in 0 .. Len(text) |-> CharsWidth(escape_terminal_text(SubSeq(text, 1, n)))]

Dots(width) == [i \in 1 .. AtMost(width, 3) |-> "."]

\* What remains of a text that does not fit.
Cut(text, width) ==
  SubSeq(text, 1, Fitting(Widths(text), width - Len(Dots(width)))) \o Dots(width)

truncate_to_width(text, width) ==
  IF Width(text) <= width THEN text ELSE Cut(text, width)

\* Only what fits is escaped; the cut may fall inside an escape.
escape_terminal_text_to_width(text, width) ==
  LET prefix == SubSeq(text, 1, Fitting(EscapedWidths(text), width)) IN
    IF prefix = text THEN escape_terminal_text(text)
    ELSE Cut(escape_terminal_text(prefix), width)

pad_to_width(text, width) ==
  text \o [i \in 1 .. AtLeast(width - Width(text), 0) |-> " "]

table_line(cells, widths) ==
  [i \in DOMAIN cells |-> pad_to_width(cells[i], widths[i])]

separator_line(widths) ==
  [i \in DOMAIN widths |-> [k \in 1 .. widths[i] |-> "-"]]
-----------------------------------------------------------------------------
(***************************************************************************)
(* column_widths: every column has width one; then, round by round in      *)
(* column order, each column that is narrower than its header gets one     *)
(* more; what is still left is dealt out in turn.                          *)
(***************************************************************************)
column_widths(headers, display_width) ==
  LET n == Len(headers)
      columns == 1 .. n
      available == AtLeast(display_width - (n - 1), n)
      desired(i) == AtLeast(Width(headers[i]), 1)
      spare == available - n
      \* the steps in which a column grows toward its header, in their order
      growths == {g \in (1 .. available) \X columns : g[1] < desired(g[2])}
      before(g) == Cardinality({h \in growths : \/ h[1] < g[1]
                                                \/ h[1] = g[1] /\ h[2] <= g[2]})
      grown(i) == Cardinality({g \in growths : g[2] = i /\ before(g) <= spare})
      left == AtLeast(spare - Cardinality(growths), 0)
      share(i) == left \div n + (IF i <= left % n THEN 1 ELSE 0)
  IN [i \in columns |-> 1 + grown(i) + share(i)]

(***************************************************************************)
(* The cells of CSV and TSV: NULL is \N, and any other text that starts    *)
(* with a backslash gains one.                                             *)
(***************************************************************************)
\* Mutant of encode_cell: a literal \N is written as it is.
encodesPlainly(cell, escape_controls) ==
  IF cell = <<>> THEN <<"\\", "N">>
  ELSE IF escape_controls THEN escape_terminal_text(cell[1]) ELSE cell[1]

encode_cell(cell, escape_controls) ==
  IF cell = <<>> THEN <<"\\", "N">>
  ELSE LET text == IF escape_controls THEN escape_terminal_text(cell[1])
                   ELSE cell[1]
       IN IF text # <<>> /\ text[1] = "\\" THEN <<"\\">> \o text ELSE text
=============================================================================
