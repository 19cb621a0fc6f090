----------------------------- MODULE SqlScanner -----------------------------
(***************************************************************************)
(* The lexical scanner of src/sql/scanner.rs, which finds the semicolons   *)
(* that end statements by looking ahead in all the text that is pending,   *)
(* and beside it a reference that sees one byte after another and never    *)
(* looks ahead or back.                                                    *)
(*                                                                         *)
(* Text is a sequence of bytes.  Of each class the code tells apart there  *)
(* are one or two members: "sp" a space, "nl" a newline, "dq" a double     *)
(* quote, "bs" a backslash, "semi" a semicolon, and "hi" and "lo" the two  *)
(* bytes of a character outside ASCII.                                     *)
(***************************************************************************)
EXTENDS Naturals, Sequences

Space == {"sp", "nl"}
NewLine == {"nl"}
Letters == {"a", "e"}
Bytes == Space \cup Letters
         \cup {"'", "dq", "bs", "$", "semi", "-", "/", "*", "1", "hi", "lo"}

is_identifier_start(c) == c \in Letters \cup {"hi", "lo"}
is_identifier_continue(c) == is_identifier_start(c) \/ c \in {"1", "$"}

LexicalState(kind, tag, depth) == [kind |-> kind, tag |-> tag, depth |-> depth]
Lexical(kind) == LexicalState(kind, <<>>, 0)
Normal == Lexical("normal")
Dollar(tag) == LexicalState("dollar", tag, 0)
Block(depth) == LexicalState("block", <<>>, depth)

\* Do the bytes of word stand in b at i?
At(b, i, word) ==
  i + Len(word) - 1 <= Len(b) /\ SubSeq(b, i, i + Len(word) - 1) = word

is_escape_string_prefix(b, i) ==
  /\ i > 1 /\ b[i - 1] = "e"
  /\ i = 2 \/ ~is_identifier_continue(b[i - 2])

\* The delimiter that starts at i, from this dollar sign to the next; empty if
\* there is none.
dollar_quote_delimiter(b, i) ==
  LET closers == {k \in i + 1 .. Len(b) :
                    /\ b[k] = "$"
                    /\ \A j \in i + 1 .. k - 1 :
                         is_identifier_continue(b[j]) /\ b[j] # "$"
                    /\ k = i + 1 \/ is_identifier_start(b[i + 1])}
  IN IF (i > 1 /\ is_identifier_continue(b[i - 1])) \/ closers = {} THEN <<>>
     ELSE SubSeq(b, i, CHOOSE k \in closers : TRUE)

To(state, width) == [state |-> state, width |-> width]

lexNormal(b, i) ==
  CASE b[i] = "'"  -> To(Lexical(IF is_escape_string_prefix(b, i) THEN "escape"
                                 ELSE "single"), 1)
    [] b[i] = "dq" -> To(Lexical("double"), 1)
    [] b[i] = "$"  -> LET tag == dollar_quote_delimiter(b, i) IN
                        IF tag = <<>> THEN To(Normal, 1) ELSE To(Dollar(tag), Len(tag))
    [] At(b, i, <<"-", "-">>) -> To(Lexical("line"), 2)
    [] At(b, i, <<"/", "*">>) -> To(Block(1), 2)
    [] OTHER -> To(Normal, 1)

lexQuoted(b, i, state, quote) ==
  CASE At(b, i, <<quote, quote>>) -> To(state, 2)
    [] b[i] = quote /\ ~At(b, i, <<quote, quote>>) -> To(Normal, 1)
    [] OTHER -> To(state, 1)

lexBlock(b, i, depth) ==
  CASE At(b, i, <<"/", "*">>) -> To(Block(depth + 1), 2)
    [] At(b, i, <<"*", "/">>) -> To(IF depth = 1 THEN Normal ELSE Block(depth - 1), 2)
    [] OTHER -> To(Block(depth), 1)

\* One iteration of scan: the next state, and how many bytes it takes.
lexNext(b, i, s) ==
  CASE s.kind = "normal" -> lexNormal(b, i)
    [] s.kind = "single" -> lexQuoted(b, i, s, "'")
    [] s.kind = "double" -> lexQuoted(b, i, s, "dq")
    [] s.kind = "escape" -> IF b[i] = "bs" THEN To(s, IF i < Len(b) THEN 2 ELSE 1)
                            ELSE lexQuoted(b, i, s, "'")
    [] s.kind = "dollar" -> IF At(b, i, s.tag) THEN To(Normal, Len(s.tag)) ELSE To(s, 1)
    [] s.kind = "line"   -> To(IF b[i] \in NewLine THEN Normal ELSE s, 1)
    [] s.kind = "block"  -> lexBlock(b, i, s.depth)

Scanned(at, state, ends) == [at |-> at, state |-> state, ends |-> ends]

\* One round of the loop of scan, which rests at the end of the text.
scanNext(b, p) ==
  IF p.at > Len(b) THEN p
  ELSE LET next == lexNext(b, p.at, p.state) IN
         Scanned(p.at + next.width, next.state,
                 IF p.state = Normal /\ b[p.at] = "semi" THEN Append(p.ends, p.at)
                 ELSE p.ends)

scan(b) ==
  LET after[n \in 0 .. Len(b)] ==
        IF n = 0 THEN Scanned(1, Normal, <<>>) ELSE scanNext(b, after[n - 1])
  IN after[Len(b)]

terminated_statement_ends(b) == scan(b).ends
is_complete(b) == scan(b).state.kind \in {"normal", "line"}

\* The pieces of text that end at the given places, and the rest.
Frames(text, ends) ==
  [n \in DOMAIN ends |->
     SubSeq(text, IF n = 1 THEN 1 ELSE ends[n - 1] + 1, ends[n])]

Rest(text, ends) ==
  IF ends = <<>> THEN text ELSE SubSeq(text, ends[Len(ends)] + 1, Len(text))

\* Where a line comment that starts at i ends.
line_end(b, i) ==
  LET ends == {k \in i .. Len(b) : b[k] \in NewLine}
  IN IF ends = {} THEN Len(b) + 1 ELSE CHOOSE k \in ends : \A j \in ends : k <= j

Over(at, depth) == [at |-> at, depth |-> depth]

\* One round of the loops of skip_trivia, which rest at a byte that is neither space
\* nor in a comment, and at the end of the text.
skipNext(b, p) ==
  IF p.at > Len(b) \/ (p.depth > 0 /\ p.at = Len(b)) THEN p
  ELSE IF p.depth > 0 THEN LET next == lexBlock(b, p.at, p.depth) IN
                             Over(p.at + next.width, next.state.depth)
  ELSE CASE b[p.at] \in Space           -> Over(p.at + 1, 0)
         [] At(b, p.at, <<"/", "*">>) -> Over(p.at + 2, 1)
         [] At(b, p.at, <<"-", "-">>) -> Over(line_end(b, p.at), 0)
         [] OTHER                     -> p

\* The index of the first byte that is neither space nor in a comment.
skip_trivia(b) ==
  LET after[n \in 0 .. Len(b)] == IF n = 0 THEN Over(1, 0) ELSE skipNext(b, after[n - 1])
  IN after[Len(b)].at

\* Mutant of is_trivia: an open comment is taken for a complete one.
isTriviaUnfinished(b) == skip_trivia(b) > Len(b)

is_trivia(b) == is_complete(b) /\ skip_trivia(b) > Len(b)
-----------------------------------------------------------------------------
(***************************************************************************)
(* The reference.  What is seen of a construct that the next byte decides  *)
(* is kept in `seen': the current word, one half of a comment mark, or a   *)
(* quote that may be doubled.  As in the code, a word goes on across the   *)
(* dollar sign that closes a string.                                       *)
(***************************************************************************)
Reader(mode, seen, solid, piece, pieces) ==
  [mode |-> mode, seen |-> seen, solid |-> solid, piece |-> piece, pieces |-> pieces]

Start == Reader(Normal, <<>>, FALSE, <<>>, <<>>)

\* The reader in another mode of the same piece.
Now(r, mode, seen, solid) == Reader(mode, seen, solid, r.piece, r.pieces)

Opens(word) == /\ word # <<>> /\ word[1] = "$" /\ \A k \in 2 .. Len(word) : word[k] # "$"
               /\ Len(word) = 1 \/ is_identifier_start(word[2])

Halves == {<<"-">>, <<"/">>}

\* What is seen after a byte that opens nothing: the word it goes on, or the half of
\* a comment mark it may be.
SeenAfter(seen, c) ==
  IF is_identifier_continue(c) THEN IF seen \in Halves THEN <<c>> ELSE Append(seen, c)
  ELSE IF c \in {"-", "/"} THEN <<c>> ELSE <<>>

\* In normal text, with the byte already in its piece.
SeeNormal(r, c) ==
  CASE c = "semi"  -> Reader(Normal, <<>>, FALSE, <<>>, Append(r.pieces, r.piece))
    [] c = "'"  -> Now(r, Lexical(IF r.seen = <<"e">> THEN "escape" ELSE "single"), <<>>, TRUE)
    [] c = "dq" -> Now(r, Lexical("double"), <<>>, TRUE)
    [] c = "-" /\ r.seen = <<"-">> -> Now(r, Lexical("line"), <<>>, r.solid)
    [] c = "*" /\ r.seen = <<"/">> -> Now(r, Block(1), <<>>, r.solid)
    [] c = "$" /\ Opens(r.seen)    -> Now(r, Dollar(Append(r.seen, c)), <<>>, TRUE)
    [] OTHER -> Now(r, Normal, SeenAfter(r.seen, c),
                    r.solid \/ c \notin Space \cup {"-", "/"} \/ r.seen \in Halves)

SeeQuoted(r, c, quote) ==
  IF r.seen = <<>> THEN Now(r, r.mode, IF c \in quote THEN <<c>> ELSE <<>>, r.solid)
  ELSE IF r.seen = <<"bs">> \/ c = r.seen[1] THEN Now(r, r.mode, <<>>, r.solid)
  ELSE SeeNormal(Now(r, Normal, <<>>, r.solid), c)

SeeDollar(r, c) ==
  LET body == Append(r.seen, c)
      tag  == r.mode.tag
      tail == SubSeq(body, Len(body) - Len(tag) + 1, Len(body))
  IN IF Len(body) >= Len(tag) /\ tail = tag THEN Now(r, Normal, tag, r.solid)
     ELSE Now(r, r.mode, body, r.solid)

SeeBlock(r, c) ==
  IF r.seen = <<"/">> /\ c = "*" THEN Now(r, Block(r.mode.depth + 1), <<>>, r.solid)
  ELSE IF r.seen = <<"*">> /\ c = "/"
  THEN Now(r, IF r.mode.depth = 1 THEN Normal ELSE Block(r.mode.depth - 1), <<>>, r.solid)
  ELSE Now(r, r.mode, <<c>>, r.solid)

\* By the mode before the byte.
SeeIn(r, c) ==
  CASE r.mode.kind = "normal" -> SeeNormal(r, c)
    [] r.mode.kind = "single" -> SeeQuoted(r, c, {"'"})
    [] r.mode.kind = "double" -> SeeQuoted(r, c, {"dq"})
    [] r.mode.kind = "escape" -> SeeQuoted(r, c, {"'", "bs"})
    [] r.mode.kind = "dollar" -> SeeDollar(r, c)
    [] r.mode.kind = "line"   -> Now(r, IF c \in NewLine THEN Normal ELSE r.mode, <<>>, r.solid)
    [] r.mode.kind = "block"  -> SeeBlock(r, c)

See(r, c) == SeeIn(Reader(r.mode, r.seen, r.solid, Append(r.piece, c), r.pieces), c)

Read(b) ==
  LET upTo[n \in 0 .. Len(b)] == IF n = 0 THEN Start ELSE See(upTo[n - 1], b[n])
  IN upTo[Len(b)]

\* Text that ends here is lexically complete: nothing is open.
Closed(r) ==
  \/ r.mode.kind \in {"normal", "line"}
  \/ r.mode.kind \in {"single", "double", "escape"} /\ r.seen \notin {<<>>, <<"bs">>}

\* What follows the last statement is space and comments.
OnlyTrivia(r) == /\ r.mode.kind \in {"normal", "line"} /\ ~r.solid
                 /\ r.seen \notin Halves
=============================================================================
