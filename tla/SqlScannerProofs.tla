-------------------------- MODULE SqlScannerProofs --------------------------
(***************************************************************************)
(* Proofs about SqlScanner, of texts of any length: the scanner of         *)
(* src/sql/scanner.rs, which looks ahead and back, and the reference that  *)
(* reads byte by byte find the same statements, the same rest and the same *)
(* trivia, and to read the pending piece again with more text is to read on. *)
(***************************************************************************)
EXTENDS SqlScanner, SequenceTheorems, DataInduction, TLAPS

(***************************************************************************)
(* The reference: its types, and what a byte does in each mode.            *)
(***************************************************************************)
Kinds == {"normal", "single", "double", "escape", "dollar", "line", "block"}
Modes == [kind : Kinds, tag : Seq(Bytes), depth : Nat]
Readers == [mode : Modes, seen : Seq(Bytes), solid : BOOLEAN, piece : Seq(Bytes),
            pieces : Seq(Seq(Bytes))]

\* The states that the constructors of LexicalState build.
LEMMA ModesAre ==
  /\ \A kind \in Kinds : Lexical(kind) \in Modes
  /\ Normal \in Modes
  /\ \A depth \in Nat : Block(depth) \in Modes
  /\ \A tag \in Seq(Bytes) : Dollar(tag) \in Modes
BY DEF Lexical, Normal, Block, Dollar, Modes, Kinds, LexicalState

\* The fields of what the constructors build.
LEMMA ModeFields ==
  /\ \A kind : Lexical(kind).kind = kind
  /\ Normal.kind = "normal"
  /\ \A depth : Block(depth).kind = "block" /\ Block(depth).depth = depth
  /\ \A tag : Dollar(tag).kind = "dollar" /\ Dollar(tag).tag = tag
BY DEF Lexical, Normal, Block, Dollar, LexicalState

\* The fields and the type of a reader.
LEMMA ReaderFields ==
  ASSUME NEW mode, NEW seen, NEW solid, NEW piece, NEW pieces
  PROVE  LET r == Reader(mode, seen, solid, piece, pieces) IN
         /\ r.mode = mode /\ r.seen = seen /\ r.solid = solid
         /\ r.piece = piece /\ r.pieces = pieces
         /\ mode \in Modes /\ seen \in Seq(Bytes) /\ solid \in BOOLEAN
            /\ piece \in Seq(Bytes) /\ pieces \in Seq(Seq(Bytes)) => r \in Readers
BY DEF Reader, Readers

\* A reader in another mode keeps its piece and its pieces.
LEMMA NowFields ==
  ASSUME NEW q, NEW mode, NEW seen, NEW solid
  PROVE  LET r == Now(q, mode, seen, solid) IN
         /\ r.mode = mode /\ r.seen = seen /\ r.solid = solid
         /\ r.piece = q.piece /\ r.pieces = q.pieces
         /\ q \in Readers /\ mode \in Modes /\ seen \in Seq(Bytes) /\ solid \in BOOLEAN
            => r \in Readers
BY ReaderFields DEF Now, Readers

\* The types of a reader's fields.
LEMMA ReaderParts ==
  ASSUME NEW r \in Readers
  PROVE  /\ r.mode \in Modes /\ r.seen \in Seq(Bytes) /\ r.solid \in BOOLEAN
         /\ r.piece \in Seq(Bytes) /\ r.pieces \in Seq(Seq(Bytes))
         /\ r.mode.kind \in Kinds /\ r.mode.tag \in Seq(Bytes) /\ r.mode.depth \in Nat
BY DEF Readers, Modes

\* The reader after a byte that goes into its piece.
Goes(r, c, mode, seen, solid) == Reader(mode, seen, solid, Append(r.piece, c), r.pieces)

\* The reader after the semicolon that ends its piece.
Ends(r, c) == Reader(Normal, <<>>, FALSE, <<>>, Append(r.pieces, Append(r.piece, c)))

\* The reader that knows that its string or identifier is closed.
Settled(r) == Reader(Normal, <<>>, r.solid, r.piece, r.pieces)

\* A byte that goes into the piece leaves the pieces before it alone.
LEMMA GoesFields ==
  ASSUME NEW q, NEW c, NEW mode, NEW seen, NEW solid
  PROVE  LET r == Goes(q, c, mode, seen, solid) IN
         /\ r.mode = mode /\ r.seen = seen /\ r.solid = solid
         /\ r.piece = Append(q.piece, c) /\ r.pieces = q.pieces
BY DEF Goes, Reader

\* After the semicolon that ends a piece the next one is empty.
LEMMA EndsFields ==
  ASSUME NEW q, NEW c
  PROVE  LET r == Ends(q, c) IN
         /\ r.mode = Normal /\ r.seen = <<>> /\ r.solid = FALSE
         /\ r.piece = <<>> /\ r.pieces = Append(q.pieces, Append(q.piece, c))
BY DEF Ends, Reader

\* Taking a byte and then changing the mode is going on with that byte.
LEMMA NowIs ==
  ASSUME NEW q, NEW c, NEW mode, NEW seen, NEW solid
  PROVE  Now(Reader(q.mode, q.seen, q.solid, Append(q.piece, c), q.pieces), mode, seen, solid)
           = Goes(q, c, mode, seen, solid)
BY ReaderFields DEF Now, Goes

\* What a byte outside quotes and comments does to the reader.
LEMMA SeesNormal ==
  ASSUME NEW r, NEW c, r.mode.kind = "normal"
  PROVE  /\ c = "semi" => See(r, c) = Ends(r, c)
         /\ c = "'" =>
              See(r, c) = Goes(r, c, Lexical(IF r.seen = <<"e">> THEN "escape" ELSE "single"),
                               <<>>, TRUE)
         /\ c = "dq" => See(r, c) = Goes(r, c, Lexical("double"), <<>>, TRUE)
         /\ c = "-" /\ r.seen = <<"-">> =>
              See(r, c) = Goes(r, c, Lexical("line"), <<>>, r.solid)
         /\ c = "*" /\ r.seen = <<"/">> => See(r, c) = Goes(r, c, Block(1), <<>>, r.solid)
         /\ c = "$" /\ Opens(r.seen) =>
              See(r, c) = Goes(r, c, Dollar(Append(r.seen, c)), <<>>, TRUE)
         /\ /\ c \notin {"semi", "'", "dq"}
            /\ c = "-" => r.seen # <<"-">>
            /\ c = "*" => r.seen # <<"/">>
            /\ c = "$" => ~Opens(r.seen)
            => See(r, c) = Goes(r, c, Normal, SeenAfter(r.seen, c),
                 r.solid \/ c \notin Space \cup {"-", "/"} \/ r.seen \in Halves)
<1> DEFINE q == Reader(r.mode, r.seen, r.solid, Append(r.piece, c), r.pieces)
<1>1. See(r, c) = SeeIn(q, c)
  BY DEF See
<1>2. q.mode = r.mode /\ q.seen = r.seen /\ q.solid = r.solid /\ q.pieces = r.pieces
      /\ q.piece = Append(r.piece, c)
  BY DEF Reader
<1>3. \A mode, seen, solid : Now(q, mode, seen, solid) = Goes(r, c, mode, seen, solid)
  BY NowIs
<1> HIDE DEF q
<1>4. SeeIn(q, c) = SeeNormal(q, c)
  <2>1. /\ q.mode.kind # "single" /\ q.mode.kind # "double" /\ q.mode.kind # "escape"
        /\ q.mode.kind # "dollar" /\ q.mode.kind # "line" /\ q.mode.kind # "block"
    BY <1>2
  <2> QED  BY <1>2, <2>1, Zenon DEF SeeIn
<1>5. ASSUME c = "semi" PROVE SeeNormal(q, c) = Ends(r, c)
  <2>1. c # "'" /\ c # "dq" /\ c # "-" /\ c # "*" /\ c # "$"
    BY <1>5
  <2> QED  BY <1>2, <1>5, <2>1, Zenon DEF SeeNormal, Ends
<1>6. ASSUME c = "'"
      PROVE  SeeNormal(q, c) = Goes(r, c, Lexical(IF r.seen = <<"e">> THEN "escape" ELSE "single"),
                                    <<>>, TRUE)
  <2>1. c # "semi" /\ c # "dq" /\ c # "-" /\ c # "*" /\ c # "$"
    BY <1>6
  <2> QED  BY <1>2, <1>3, <1>6, <2>1, Zenon DEF SeeNormal
<1>7. ASSUME c = "dq" PROVE SeeNormal(q, c) = Goes(r, c, Lexical("double"), <<>>, TRUE)
  <2>1. c # "semi" /\ c # "'" /\ c # "-" /\ c # "*" /\ c # "$"
    BY <1>7
  <2> QED  BY <1>2, <1>3, <1>7, <2>1, Zenon DEF SeeNormal
<1>8. ASSUME c = "-", r.seen = <<"-">>
      PROVE  SeeNormal(q, c) = Goes(r, c, Lexical("line"), <<>>, r.solid)
  <2>1. c # "semi" /\ c # "'" /\ c # "dq" /\ c # "*" /\ c # "$"
    BY <1>8
  <2> QED  BY <1>2, <1>3, <1>8, <2>1, Zenon DEF SeeNormal
<1>9. ASSUME c = "*", r.seen = <<"/">>
      PROVE  SeeNormal(q, c) = Goes(r, c, Block(1), <<>>, r.solid)
  <2>1. c # "semi" /\ c # "'" /\ c # "dq" /\ c # "-" /\ c # "$"
    BY <1>9
  <2> QED  BY <1>2, <1>3, <1>9, <2>1, Zenon DEF SeeNormal
<1>10. ASSUME c = "$", Opens(r.seen)
       PROVE  SeeNormal(q, c) = Goes(r, c, Dollar(Append(r.seen, c)), <<>>, TRUE)
  <2>1. c # "semi" /\ c # "'" /\ c # "dq" /\ c # "-" /\ c # "*"
    BY <1>10
  <2> QED  BY <1>2, <1>3, <1>10, <2>1, Zenon DEF SeeNormal
<1>11. ASSUME c \notin {"semi", "'", "dq"}, c = "-" => r.seen # <<"-">>,
              c = "*" => r.seen # <<"/">>, c = "$" => ~Opens(r.seen)
       PROVE  SeeNormal(q, c) = Goes(r, c, Normal, SeenAfter(r.seen, c),
                 r.solid \/ c \notin Space \cup {"-", "/"} \/ r.seen \in Halves)
  <2>1. c # "semi" /\ c # "'" /\ c # "dq"
    BY <1>11
  <2> QED  BY <1>2, <1>3, <1>11, <2>1, Zenon DEF SeeNormal
<1> QED
  BY <1>1, <1>4, <1>5, <1>6, <1>7, <1>8, <1>9, <1>10, <1>11

Quoting == {"single", "double", "escape"}
QuoteOf(kind) == IF kind = "double" THEN "dq" ELSE "'"

QuotesOf(kind) == IF kind = "escape" THEN {"'", "bs"} ELSE {QuoteOf(kind)}

\* What a byte in a string or a quoted identifier does: a quote or a backslash waits
\* for the byte after it.
LEMMA SeesQuoted ==
  ASSUME NEW r, NEW c, r.mode.kind \in Quoting
  PROVE  See(r, c) =
           IF r.seen = <<>>
           THEN Goes(r, c, r.mode, IF c \in QuotesOf(r.mode.kind) THEN <<c>> ELSE <<>>, r.solid)
           ELSE IF r.seen = <<"bs">> \/ c = r.seen[1] THEN Goes(r, c, r.mode, <<>>, r.solid)
           ELSE See(Settled(r), c)
<1> DEFINE q == Reader(r.mode, r.seen, r.solid, Append(r.piece, c), r.pieces)
           quotes == QuotesOf(r.mode.kind)
<1>1. See(r, c) = SeeIn(q, c)
  BY DEF See
<1>2. q.mode = r.mode /\ q.seen = r.seen /\ q.solid = r.solid /\ q.pieces = r.pieces
      /\ q.piece = Append(r.piece, c)
  BY DEF Reader
<1>3. \A mode, seen, solid : Now(q, mode, seen, solid) = Goes(r, c, mode, seen, solid)
  BY NowIs
<1>4. /\ SeeNormal(Now(q, Normal, <<>>, q.solid), c) = See(Settled(r), c)
  <2>1. Settled(r).mode = Normal /\ Settled(r).seen = <<>> /\ Settled(r).solid = r.solid
        /\ Settled(r).piece = r.piece /\ Settled(r).pieces = r.pieces
    BY DEF Settled, Reader
  <2>2. See(Settled(r), c) = SeeIn(Reader(Normal, <<>>, r.solid, Append(r.piece, c), r.pieces), c)
    BY <2>1 DEF See
  <2>3. Now(q, Normal, <<>>, q.solid) = Reader(Normal, <<>>, r.solid, Append(r.piece, c), r.pieces)
    BY <1>2, <1>3, Zenon DEF Goes
  <2> DEFINE p == Reader(Normal, <<>>, r.solid, Append(r.piece, c), r.pieces)
  <2>4. p.mode = Normal
    BY DEF Reader
  <2>5. p.mode.kind = "normal"
    BY <2>4, ModeFields
  <2> HIDE DEF p
  <2>6. SeeIn(p, c) = SeeNormal(p, c)
    <3>1. /\ p.mode.kind # "single" /\ p.mode.kind # "double" /\ p.mode.kind # "escape"
          /\ p.mode.kind # "dollar" /\ p.mode.kind # "line" /\ p.mode.kind # "block"
      BY <2>5
    <3> QED  BY <2>5, <3>1, Zenon DEF SeeIn
  <2> QED  BY <2>2, <2>3, <2>6, Zenon DEF p
<1> HIDE DEF q
<1>5. SeeIn(q, c) = SeeQuoted(q, c, quotes)
  <2>1. CASE r.mode.kind = "single"
    <3>1. /\ q.mode.kind = "single" /\ q.mode.kind # "normal" /\ q.mode.kind # "double"
          /\ q.mode.kind # "escape" /\ q.mode.kind # "dollar" /\ q.mode.kind # "line"
          /\ q.mode.kind # "block"
      BY <1>2, <2>1
    <3>2. quotes = {"'"}
      BY <2>1 DEF QuoteOf, QuotesOf
    <3> QED  BY <3>1, <3>2, Zenon DEF SeeIn
  <2>2. CASE r.mode.kind = "double"
    <3>1. /\ q.mode.kind = "double" /\ q.mode.kind # "normal" /\ q.mode.kind # "single"
          /\ q.mode.kind # "escape" /\ q.mode.kind # "dollar" /\ q.mode.kind # "line"
          /\ q.mode.kind # "block"
      BY <1>2, <2>2
    <3>2. quotes = {"dq"}
      BY <2>2 DEF QuoteOf, QuotesOf
    <3> QED  BY <3>1, <3>2, Zenon DEF SeeIn
  <2>3. CASE r.mode.kind = "escape"
    <3>1. /\ q.mode.kind = "escape" /\ q.mode.kind # "normal" /\ q.mode.kind # "single"
          /\ q.mode.kind # "double" /\ q.mode.kind # "dollar" /\ q.mode.kind # "line"
          /\ q.mode.kind # "block"
      BY <1>2, <2>3
    <3>2. quotes = {"'", "bs"}
      BY <2>3 DEF QuoteOf, QuotesOf
    <3> QED  BY <3>1, <3>2, Zenon DEF SeeIn
  <2> QED  BY <2>1, <2>2, <2>3 DEF Quoting
<1> HIDE DEF quotes
<1>6. SeeQuoted(q, c, quotes) =
        IF r.seen = <<>> THEN Goes(r, c, r.mode, IF c \in quotes THEN <<c>> ELSE <<>>, r.solid)
        ELSE IF r.seen = <<"bs">> \/ c = r.seen[1] THEN Goes(r, c, r.mode, <<>>, r.solid)
        ELSE See(Settled(r), c)
  BY <1>2, <1>3, <1>4, Zenon DEF SeeQuoted
<1> QED
  BY <1>1, <1>5, <1>6 DEF quotes

\* A dollar-quoted string ends with the byte that completes its tag.
LEMMA SeesDollar ==
  ASSUME NEW r, NEW c, NEW tag, r.mode = Dollar(tag)
  PROVE  LET body == Append(r.seen, c) IN
         /\ Len(body) >= Len(tag) /\ SubSeq(body, Len(body) - Len(tag) + 1, Len(body)) = tag
              => See(r, c) = Goes(r, c, Normal, tag, r.solid)
         /\ ~(Len(body) >= Len(tag) /\ SubSeq(body, Len(body) - Len(tag) + 1, Len(body)) = tag)
              => See(r, c) = Goes(r, c, r.mode, body, r.solid)
<1> DEFINE q == Reader(r.mode, r.seen, r.solid, Append(r.piece, c), r.pieces)
           body == Append(r.seen, c)
           closes == Len(body) >= Len(tag)
                       /\ SubSeq(body, Len(body) - Len(tag) + 1, Len(body)) = tag
<1>1. See(r, c) = SeeIn(q, c)
  BY DEF See
<1>2. q.mode = r.mode /\ q.seen = r.seen /\ q.solid = r.solid
  BY DEF Reader
<1>3. \A mode, seen, solid : Now(q, mode, seen, solid) = Goes(r, c, mode, seen, solid)
  BY NowIs
<1> HIDE DEF q
<1>4. q.mode.kind = "dollar" /\ q.mode.tag = tag
  BY <1>2, ModeFields
<1>5. SeeIn(q, c) = SeeDollar(q, c)
  <2>1. /\ q.mode.kind # "normal" /\ q.mode.kind # "single" /\ q.mode.kind # "double"
        /\ q.mode.kind # "escape" /\ q.mode.kind # "line" /\ q.mode.kind # "block"
    BY <1>4
  <2> QED  BY <1>4, <2>1, Zenon DEF SeeIn
<1>6. SeeDollar(q, c) = IF closes THEN Goes(r, c, Normal, tag, r.solid)
                        ELSE Goes(r, c, r.mode, body, r.solid)
  BY <1>2, <1>3, <1>4, ZenonT(30) DEF SeeDollar
<1> QED
  BY <1>1, <1>5, <1>6, Zenon

\* A line comment ends with its line.
LEMMA SeesLine ==
  ASSUME NEW r, NEW c, r.mode.kind = "line"
  PROVE  /\ c = "nl" => See(r, c) = Goes(r, c, Normal, <<>>, r.solid)
         /\ c # "nl" => See(r, c) = Goes(r, c, r.mode, <<>>, r.solid)
<1> DEFINE q == Reader(r.mode, r.seen, r.solid, Append(r.piece, c), r.pieces)
<1>1. See(r, c) = SeeIn(q, c)
  BY DEF See
<1>2. q.mode = r.mode /\ q.seen = r.seen /\ q.solid = r.solid
  BY DEF Reader
<1>3. \A mode, seen, solid : Now(q, mode, seen, solid) = Goes(r, c, mode, seen, solid)
  BY NowIs
<1> HIDE DEF q
<1>4. /\ q.mode.kind # "normal" /\ q.mode.kind # "single" /\ q.mode.kind # "double"
      /\ q.mode.kind # "escape" /\ q.mode.kind # "dollar" /\ q.mode.kind # "block"
      /\ q.mode.kind = "line"
  BY <1>2
<1>5. SeeIn(q, c) = Now(q, IF c \in NewLine THEN Normal ELSE q.mode, <<>>, q.solid)
  BY <1>4, Zenon DEF SeeIn
<1>6. c \in NewLine <=> c = "nl"
  BY DEF NewLine
<1> QED
  BY <1>1, <1>2, <1>3, <1>5, <1>6, Zenon

\* Comment marks nest: each closes the one opened last.
LEMMA SeesBlock ==
  ASSUME NEW r, NEW c, NEW depth \in Nat, r.mode = Block(depth)
  PROVE  /\ r.seen = <<"/">> /\ c = "*" =>
              See(r, c) = Goes(r, c, Block(depth + 1), <<>>, r.solid)
         /\ r.seen = <<"*">> /\ c = "/" =>
              See(r, c) = Goes(r, c, IF depth = 1 THEN Normal ELSE Block(depth - 1), <<>>,
                               r.solid)
         /\ ~(r.seen = <<"/">> /\ c = "*") /\ ~(r.seen = <<"*">> /\ c = "/") =>
              See(r, c) = Goes(r, c, r.mode, <<c>>, r.solid)
<1> DEFINE q == Reader(r.mode, r.seen, r.solid, Append(r.piece, c), r.pieces)
<1>1. See(r, c) = SeeIn(q, c)
  BY DEF See
<1>2. q.mode = r.mode /\ q.seen = r.seen /\ q.solid = r.solid
  BY DEF Reader
<1>3. \A mode, seen, solid : Now(q, mode, seen, solid) = Goes(r, c, mode, seen, solid)
  BY NowIs
<1> HIDE DEF q
<1>4. q.mode.kind = "block" /\ q.mode.depth = depth
  BY <1>2, ModeFields
<1>5. SeeIn(q, c) = SeeBlock(q, c)
  <2>1. /\ q.mode.kind # "normal" /\ q.mode.kind # "single" /\ q.mode.kind # "double"
        /\ q.mode.kind # "escape" /\ q.mode.kind # "line" /\ q.mode.kind # "dollar"
    BY <1>4
  <2> QED  BY <1>4, <2>1, Zenon DEF SeeIn
<1>6. /\ Now(q, Block(depth + 1), <<>>, r.solid) = Goes(r, c, Block(depth + 1), <<>>, r.solid)
      /\ Now(q, IF depth = 1 THEN Normal ELSE Block(depth - 1), <<>>, r.solid)
           = Goes(r, c, IF depth = 1 THEN Normal ELSE Block(depth - 1), <<>>, r.solid)
      /\ Now(q, r.mode, <<c>>, r.solid) = Goes(r, c, r.mode, <<c>>, r.solid)
  BY <1>3
<1>7. <<"/">> # <<"*">>
  OBVIOUS
<1>8. SeeBlock(q, c) =
        IF r.seen = <<"/">> /\ c = "*" THEN Now(q, Block(depth + 1), <<>>, r.solid)
        ELSE IF r.seen = <<"*">> /\ c = "/"
        THEN Now(q, IF depth = 1 THEN Normal ELSE Block(depth - 1), <<>>, r.solid)
        ELSE Now(q, r.mode, <<c>>, r.solid)
  BY <1>2, <1>4 DEF SeeBlock
<1> QED
  BY <1>1, <1>5, <1>6, <1>7, <1>8, Zenon

Tags == {tag \in Seq(Bytes) :
           /\ Len(tag) >= 2 /\ tag[1] = "$" /\ tag[Len(tag)] = "$"
           /\ \A k \in 1 .. Len(tag) : is_identifier_continue(tag[k])}
IsWord(seen) == \A k \in 1 .. Len(seen) : is_identifier_continue(seen[k])

Fits(mode, seen) ==
  \/ mode = Normal /\ (seen \in Halves \/ IsWord(seen))
  \/ \E kind \in Quoting :
       mode = Lexical(kind) /\ (seen = <<>> \/ seen = <<QuoteOf(kind)>>
                                \/ (kind = "escape" /\ seen = <<"bs">>))
  \/ \E tag \in Tags : mode = Dollar(tag)
  \/ mode = Lexical("line") /\ seen = <<>>
  \/ \E depth \in Nat \ {0} :
       mode = Block(depth) /\ (seen = <<>> \/ \E c \in Bytes : seen = <<c>>)

Proper(r) == r \in Readers /\ Fits(r.mode, r.seen)

\* A reader that goes on is proper when its new mode and word fit.
LEMMA GoesProper ==
  ASSUME NEW r \in Readers, NEW c \in Bytes, NEW mode \in Modes, NEW seen \in Seq(Bytes),
         NEW solid \in BOOLEAN, Fits(mode, seen)
  PROVE  Proper(Goes(r, c, mode, seen, solid))
<1>1. r.piece \in Seq(Bytes) /\ r.pieces \in Seq(Seq(Bytes))
  BY ReaderParts
<1>2. Append(r.piece, c) \in Seq(Bytes)
  BY <1>1
<1>3. Goes(r, c, mode, seen, solid) \in Readers
  BY <1>1, <1>2 DEF Goes, Reader, Readers
<1> QED
  BY <1>3, GoesFields DEF Proper

\* Nothing seen is a word.
LEMMA EmptyWord == <<>> \in Seq(Bytes) /\ IsWord(<<>>) /\ Fits(Normal, <<>>)
BY DEF IsWord, Fits

\* The reader starts proper.
LEMMA StartProper == Proper(Start)
<1>1. Normal \in Modes
  BY ModesAre
<1>2. Start \in Readers
  BY <1>1 DEF Start, Reader, Readers
<1> QED
  BY <1>2, EmptyWord DEF Proper, Start, Reader

\* A reader that knows its string closed is proper.
LEMMA SettledProper ==
  ASSUME NEW r \in Readers
  PROVE  Proper(Settled(r))
<1>1. r.piece \in Seq(Bytes) /\ r.pieces \in Seq(Seq(Bytes)) /\ r.solid \in BOOLEAN
      /\ Normal \in Modes
  BY ReaderParts, ModesAre
<1>2. Settled(r) \in Readers
  BY <1>1 DEF Settled, Reader, Readers
<1> QED
  BY <1>2, EmptyWord DEF Proper, Settled, Reader

\* A reader at the end of a piece is proper.
LEMMA EndsProper ==
  ASSUME NEW r \in Readers, NEW c \in Bytes
  PROVE  Proper(Ends(r, c))
<1>1. r.piece \in Seq(Bytes) /\ r.pieces \in Seq(Seq(Bytes)) /\ Normal \in Modes
  BY ReaderParts, ModesAre
<1>2. Append(r.piece, c) \in Seq(Bytes)
  BY <1>1
<1>3. Append(r.pieces, Append(r.piece, c)) \in Seq(Seq(Bytes))
  BY <1>1, <1>2
<1>4. Ends(r, c) \in Readers
  BY <1>1, <1>3 DEF Ends, Reader, Readers
<1> QED
  BY <1>4, EmptyWord DEF Proper, Ends, Reader

\* What may have been seen in each mode.
LEMMA KindsOfFits ==
  ASSUME NEW mode, NEW seen, Fits(mode, seen)
  PROVE  /\ mode.kind = "normal" => mode = Normal /\ (seen \in Halves \/ IsWord(seen))
         /\ mode.kind \in Quoting =>
              /\ mode = Lexical(mode.kind)
              /\ \/ seen = <<>> \/ seen = <<QuoteOf(mode.kind)>>
                 \/ mode.kind = "escape" /\ seen = <<"bs">>
         /\ mode.kind = "dollar" => \E tag \in Tags : mode = Dollar(tag)
         /\ mode.kind = "line" => mode = Lexical("line") /\ seen = <<>>
         /\ mode.kind = "block" =>
              /\ \E depth \in Nat \ {0} : mode = Block(depth)
              /\ seen = <<>> \/ \E c \in Bytes : seen = <<c>>
         /\ mode.kind \in Kinds
<1>1. CASE mode = Normal /\ (seen \in Halves \/ IsWord(seen))
  BY <1>1, ModeFields DEF Quoting, Kinds
<1>2. CASE \E kind \in Quoting :
             mode = Lexical(kind) /\ (seen = <<>> \/ seen = <<QuoteOf(kind)>>
                                      \/ (kind = "escape" /\ seen = <<"bs">>))
  <2>1. PICK kind \in Quoting :
             mode = Lexical(kind) /\ (seen = <<>> \/ seen = <<QuoteOf(kind)>>
                                      \/ (kind = "escape" /\ seen = <<"bs">>))
    BY <1>2
  <2>2. mode.kind = kind
    BY <2>1, ModeFields
  <2>3. kind \notin {"normal", "dollar", "line", "block"} /\ kind \in Kinds
    BY DEF Quoting, Kinds
  <2> QED  BY <2>1, <2>2, <2>3
<1>3. CASE \E tag \in Tags : mode = Dollar(tag)
  BY <1>3, ModeFields DEF Quoting, Kinds
<1>4. CASE mode = Lexical("line") /\ seen = <<>>
  BY <1>4, ModeFields DEF Quoting, Kinds
<1>5. CASE \E depth \in Nat \ {0} :
             mode = Block(depth) /\ (seen = <<>> \/ \E c \in Bytes : seen = <<c>>)
  BY <1>5, ModeFields DEF Quoting, Kinds
<1> QED
  BY <1>1, <1>2, <1>3, <1>4, <1>5, Zenon DEF Fits

\* A byte outside quotes and comments leaves the reader proper.
LEMMA SeeNormalProper ==
  ASSUME NEW r, Proper(r), NEW c \in Bytes, r.mode = Normal
  PROVE  Proper(See(r, c))
<1>1. r \in Readers /\ r.mode.kind = "normal" /\ (r.seen \in Halves \/ IsWord(r.seen))
  BY ModeFields, KindsOfFits DEF Proper
<1>2. r.seen \in Seq(Bytes) /\ r.solid \in BOOLEAN
  BY <1>1, ReaderParts
<1>3. CASE c = "semi"
  <2>1. See(r, c) = Ends(r, c)
    BY <1>1, <1>3, SeesNormal
  <2> QED  BY <1>1, <2>1, EndsProper
<1>4. ASSUME NEW kind \in {"single", "double", "escape", "line"}, NEW solid \in BOOLEAN
      PROVE  Proper(Goes(r, c, Lexical(kind), <<>>, solid))
  <2>1. Lexical(kind) \in Modes
    BY ModesAre DEF Kinds
  <2>2. Fits(Lexical(kind), <<>>)
    BY DEF Fits, Quoting
  <2> QED  BY <1>1, <2>1, <2>2, EmptyWord, GoesProper
<1>5. CASE c = "'"
  BY <1>1, <1>4, <1>5, SeesNormal, ZenonT(30)
<1>6. CASE c = "dq"
  BY <1>1, <1>4, <1>6, SeesNormal
<1>7. CASE c = "-" /\ r.seen = <<"-">>
  <2>1. See(r, c) = Goes(r, c, Lexical("line"), <<>>, r.solid)
    BY <1>1, <1>7, SeesNormal
  <2> QED  BY <1>2, <1>4, <2>1
<1>8. CASE c = "*" /\ r.seen = <<"/">>
  <2>1. Block(1) \in Modes /\ Fits(Block(1), <<>>)
    BY ModesAre DEF Fits
  <2>2. See(r, c) = Goes(r, c, Block(1), <<>>, r.solid)
    BY <1>1, <1>8, SeesNormal
  <2> QED  BY <1>1, <1>2, <2>1, <2>2, GoesProper, EmptyWord
<1>9. CASE c = "$" /\ Opens(r.seen)
  <2> DEFINE tag == Append(r.seen, c)
  <2>1. tag \in Seq(Bytes) /\ Len(tag) = Len(r.seen) + 1 /\ r.seen # <<>> /\ r.seen[1] = "$"
        /\ Len(r.seen) >= 1
    BY <1>2, <1>9 DEF Opens
  <2>2. IsWord(r.seen)
    BY <1>1, <2>1 DEF Halves
  <2>3. tag[1] = "$" /\ tag[Len(tag)] = "$"
    BY <1>2, <1>9, <2>1
  <2>4. \A k \in 1 .. Len(tag) : is_identifier_continue(tag[k])
    BY <1>2, <1>9, <2>1, <2>2 DEF IsWord, is_identifier_continue
  <2>5. tag \in Tags
    <3> HIDE DEF tag
    <3>1. Len(tag) >= 2
      BY <2>1, <1>2
    <3> QED  BY <2>1, <2>3, <2>4, <3>1 DEF Tags
  <2>6. Dollar(tag) \in Modes /\ Fits(Dollar(tag), <<>>)
    BY <2>1, <2>5, ModesAre DEF Fits
  <2>7. See(r, c) = Goes(r, c, Dollar(tag), <<>>, TRUE)
    BY <1>1, <1>9, SeesNormal
  <2> HIDE DEF tag
  <2> QED  BY <1>1, <2>6, <2>7, GoesProper, EmptyWord
<1>10. CASE /\ c \notin {"semi", "'", "dq"}
            /\ c = "-" => r.seen # <<"-">>
            /\ c = "*" => r.seen # <<"/">>
            /\ c = "$" => ~Opens(r.seen)
  <2> DEFINE solid == r.solid \/ c \notin Space \cup {"-", "/"} \/ r.seen \in Halves
             seen == SeenAfter(r.seen, c)
  <2>1. See(r, c) = Goes(r, c, Normal, seen, solid)
    BY <1>1, <1>10, SeesNormal
  <2>2. seen \in Seq(Bytes)
    BY <1>2 DEF SeenAfter
  <2>3. seen \in Halves \/ IsWord(seen)
    <3>1. CASE is_identifier_continue(c) /\ r.seen \in Halves
      BY <3>1 DEF SeenAfter, IsWord
    <3>2. CASE is_identifier_continue(c) /\ r.seen \notin Halves
      <4>1. seen = Append(r.seen, c) /\ IsWord(r.seen)
        BY <1>1, <3>2 DEF SeenAfter
      <4> QED  BY <1>2, <3>2, <4>1 DEF IsWord
    <3>3. CASE ~is_identifier_continue(c)
      BY <3>3, EmptyWord DEF SeenAfter, Halves
    <3> QED  BY <3>1, <3>2, <3>3
  <2>4. Fits(Normal, seen)
    BY <2>3 DEF Fits
  <2>5. solid \in BOOLEAN /\ Normal \in Modes
    BY ModesAre
  <2> HIDE DEF solid, seen
  <2> QED  BY <1>1, <2>1, <2>2, <2>4, <2>5, GoesProper
<1> QED
  BY <1>3, <1>5, <1>6, <1>7, <1>8, <1>9, <1>10

\* Every byte leaves the reader proper.
LEMMA SeeProper ==
  ASSUME NEW r, Proper(r), NEW c \in Bytes
  PROVE  Proper(See(r, c))
<1>1. r \in Readers /\ r.mode.kind \in Kinds /\ Fits(r.mode, r.seen)
  BY ReaderParts DEF Proper
<1>2. r.seen \in Seq(Bytes) /\ r.solid \in BOOLEAN /\ r.mode \in Modes
  BY <1>1, ReaderParts
<1>3. CASE r.mode.kind = "normal"
  BY <1>1, <1>3, KindsOfFits, SeeNormalProper
<1>4. CASE r.mode.kind \in Quoting
  <2>1. /\ r.mode = Lexical(r.mode.kind)
        /\ \/ r.seen = <<>> \/ r.seen = <<QuoteOf(r.mode.kind)>>
           \/ r.mode.kind = "escape" /\ r.seen = <<"bs">>
    BY <1>1, <1>4, KindsOfFits
  <2>2. Proper(Goes(r, c, r.mode, <<>>, r.solid))
    <3>1. Fits(r.mode, <<>>)
      BY <1>4, <2>1 DEF Fits
    <3> QED  BY <1>1, <1>2, <3>1, EmptyWord, GoesProper
  <2>3. ASSUME c = QuoteOf(r.mode.kind) \/ (c = "bs" /\ r.mode.kind = "escape")
        PROVE  Proper(Goes(r, c, r.mode, <<c>>, r.solid))
    <3>1. Fits(r.mode, <<c>>)
      BY <1>4, <2>1, <2>3 DEF Fits
    <3>2. <<c>> \in Seq(Bytes)
      OBVIOUS
    <3> QED  BY <1>1, <1>2, <3>1, <3>2, GoesProper
  <2>4. See(Settled(r), c) = See(Settled(r), c) /\ Proper(See(Settled(r), c))
    <3>1. Settled(r).mode = Normal
      BY DEF Settled, Reader
    <3> QED  BY <1>1, <3>1, SettledProper, SeeNormalProper
  <2>5. \/ See(r, c) = Goes(r, c, r.mode, <<>>, r.solid)
        \/ /\ c = QuoteOf(r.mode.kind) \/ (c = "bs" /\ r.mode.kind = "escape")
           /\ See(r, c) = Goes(r, c, r.mode, <<c>>, r.solid)
        \/ See(r, c) = See(Settled(r), c)
    <3>1. CASE r.seen = <<>>
      <4>1. See(r, c) = Goes(r, c, r.mode, IF c \in QuotesOf(r.mode.kind) THEN <<c>> ELSE <<>>,
                             r.solid)
        BY <1>4, <3>1, SeesQuoted, Zenon
      <4> QED  BY <4>1 DEF QuotesOf, QuoteOf
    <3>2. CASE r.seen # <<>>
      BY <1>4, <3>2, SeesQuoted, Zenon
    <3> QED  BY <3>1, <3>2
  <2> QED  BY <2>2, <2>3, <2>4, <2>5
<1>5. CASE r.mode.kind = "dollar"
  <2>1. PICK tag \in Tags : r.mode = Dollar(tag)
    BY <1>1, <1>5, KindsOfFits
  <2>2. tag \in Seq(Bytes) /\ Append(r.seen, c) \in Seq(Bytes)
    BY <1>2 DEF Tags
  <2>3. Fits(Normal, tag) /\ Fits(r.mode, Append(r.seen, c))
    BY <2>1 DEF Fits, Tags, IsWord
  <2>4. Proper(Goes(r, c, Normal, tag, r.solid))
    BY <1>1, <1>2, <2>2, <2>3, ModesAre, GoesProper
  <2>5. Proper(Goes(r, c, r.mode, Append(r.seen, c), r.solid))
    BY <1>1, <1>2, <2>2, <2>3, GoesProper
  <2> QED  BY <2>1, <2>4, <2>5, SeesDollar
<1>6. CASE r.mode.kind = "line"
  <2>1. r.mode = Lexical("line")
    BY <1>1, <1>6, KindsOfFits
  <2>2. Fits(r.mode, <<>>)
    BY <2>1 DEF Fits
  <2>3. Proper(Goes(r, c, r.mode, <<>>, r.solid))
    BY <1>1, <1>2, <2>2, EmptyWord, GoesProper
  <2>4. Proper(Goes(r, c, Normal, <<>>, r.solid))
    BY <1>1, <1>2, ModesAre, EmptyWord, GoesProper
  <2> QED  BY <1>6, <2>3, <2>4, SeesLine
<1>7. CASE r.mode.kind = "block"
  <2>1. PICK depth \in Nat \ {0} : r.mode = Block(depth)
    BY <1>1, <1>7, KindsOfFits
  <2>2. <<c>> \in Seq(Bytes)
    OBVIOUS
  <2>3. Fits(Block(depth + 1), <<>>) /\ Fits(r.mode, <<c>>)
        /\ (depth # 1 => Fits(Block(depth - 1), <<>>))
    BY <2>1 DEF Fits
  <2>4. Block(depth + 1) \in Modes /\ (depth # 1 => Block(depth - 1) \in Modes)
    BY ModesAre
  <2>5. Proper(Goes(r, c, Block(depth + 1), <<>>, r.solid))
    BY <1>1, <1>2, <2>3, <2>4, EmptyWord, GoesProper
  <2>6. Proper(Goes(r, c, r.mode, <<c>>, r.solid))
    BY <1>1, <1>2, <2>2, <2>3, GoesProper
  <2>7. Proper(Goes(r, c, IF depth = 1 THEN Normal ELSE Block(depth - 1), <<>>, r.solid))
    <3>1. CASE depth = 1
      BY <1>1, <1>2, <3>1, ModesAre, EmptyWord, GoesProper
    <3>2. CASE depth # 1
      BY <1>1, <1>2, <2>3, <2>4, <3>2, EmptyWord, GoesProper
    <3> QED  BY <3>1, <3>2
  <2> QED  BY <2>1, <2>5, <2>6, <2>7, SeesBlock
<1> QED
  BY <1>1, <1>3, <1>4, <1>5, <1>6, <1>7 DEF Kinds, Quoting
-----------------------------------------------------------------------------
(***************************************************************************)
(* What the reader keeps is what it read last.                             *)
(***************************************************************************)
\* The reference's states over a text, by the number of bytes read.
Reads(b, f) ==
  f = [n \in 0 .. Len(b) |-> IF n = 0 THEN Start ELSE See(f[n - 1], b[n])]

ProperReaders == {r \in Readers : Proper(r)}

\* There is a function of the reader's states over a text, and each of them is proper.
LEMMA ReadsSome ==
  ASSUME NEW b \in Seq(Bytes)
  PROVE  \E f : /\ Reads(b, f) /\ Read(b) = f[Len(b)]
                /\ f[0] = Start /\ \A n \in 1 .. Len(b) : f[n] = See(f[n - 1], b[n])
                /\ \A n \in 0 .. Len(b) : Proper(f[n])
<1> DEFINE X == ProperReaders
           step == [p \in X \X (1 .. Len(b)) |-> See(p[1], b[p[2]])]
           f == CHOOSE f : Reads(b, f)
<1>0. Len(b) \in Nat /\ \A n \in 1 .. Len(b) : b[n] \in Bytes
  OBVIOUS
<1>1. Start \in X
  BY StartProper DEF Proper, ProperReaders
<1>2. \A r \in X, n \in 1 .. Len(b) : See(r, b[n]) \in X
  BY <1>0, SeeProper DEF Proper, ProperReaders
<1>3. step \in [X \X (1 .. Len(b)) -> X]
  BY <1>2
<1>4. PICK g \in [0 .. Len(b) -> X] : Iterates(step, Start, g, Len(b))
  <2> HIDE DEF step, X
  <2> QED  BY <1>0, <1>1, <1>3, IteratesSome
<1>5. \A n \in 0 .. Len(b) : g[n] = IF n = 0 THEN Start ELSE See(g[n - 1], b[n])
  <2>1. ASSUME NEW n \in 0 .. Len(b)
        PROVE  g[n] = IF n = 0 THEN Start ELSE step[<<g[n - 1], n>>]
    <3> HIDE DEF step, X
    <3> QED  BY <1>4 DEF Iterates
  <2>2. ASSUME NEW n \in 1 .. Len(b)
        PROVE  step[<<g[n - 1], n>>] = See(g[n - 1], b[n])
    <3>1. n - 1 \in 0 .. Len(b)
      BY <1>0
    <3>2. g[n - 1] \in X
      BY <1>4, <3>1
    <3> QED  BY <3>2
  <2> HIDE DEF step, X
  <2>3. ASSUME NEW n \in 0 .. Len(b), n # 0
        PROVE  n \in 1 .. Len(b)
    BY <1>0, <2>3
  <2> QED  BY <2>1, <2>2, <2>3
<1>6. Reads(b, g)
  <2>1. g = [n \in 0 .. Len(b) |-> g[n]]
    BY <1>4
  <2> QED  BY <1>5, <2>1 DEF Reads
<1>7. Reads(b, f)
  BY <1>6
<1>8. Read(b) = f[Len(b)]
  BY DEF Read, Reads
<1> HIDE DEF f, step
<1>9. \A n \in 0 .. Len(b) : f[n] = IF n = 0 THEN Start ELSE See(f[n - 1], b[n])
  BY <1>7 DEF Reads
<1>10. f[0] = Start /\ \A n \in 1 .. Len(b) : f[n] = See(f[n - 1], b[n])
  BY <1>0, <1>9
<1>11. \A n \in 0 .. Len(b) : Proper(f[n])
  <2> DEFINE S == {n \in Nat : n <= Len(b) => Proper(f[n])}
  <2>1. 0 \in S
    BY <1>10, StartProper
  <2>2. ASSUME NEW n \in Nat, n \in S
        PROVE  n + 1 \in S
    <3> SUFFICES ASSUME n + 1 <= Len(b) PROVE Proper(f[n + 1])
      OBVIOUS
    <3>1. n + 1 \in 1 .. Len(b) /\ (n + 1) - 1 = n /\ n <= Len(b)
      BY <1>0
    <3>2. f[n + 1] = See(f[n], b[n + 1])
      BY <1>10, <3>1
    <3> QED  BY <1>0, <2>2, <3>1, <3>2, SeeProper
  <2> HIDE DEF S
  <2>3. Nat \subseteq S
    BY <2>1, <2>2, SetInduction
  <2> QED  BY <1>0, <2>3 DEF S
<1> QED
  BY <1>7, <1>8, <1>10, <1>11

\* The bytes that continue an identifier, and those that start one.
LEMMA Identifiers ==
  /\ \A c : is_identifier_continue(c) <=> c \in {"a", "e", "hi", "lo", "1", "$"}
  /\ \A c : is_identifier_start(c) <=> c \in {"a", "e", "hi", "lo"}
BY DEF is_identifier_continue, is_identifier_start, Letters

\* The last bytes of what was read.
LastRead(b, word, n) == Len(word) <= n /\ word = SubSeq(b, n - Len(word) + 1, n)

\* The empty word was read last at every place.
LEMMA LastReadNone ==
  ASSUME NEW b \in Seq(Bytes), NEW n \in 0 .. Len(b)
  PROVE  LastRead(b, <<>>, n)
BY DEF LastRead

\* The last byte read is the word of that byte.
LEMMA LastReadOne ==
  ASSUME NEW b \in Seq(Bytes), NEW n \in 1 .. Len(b)
  PROVE  LastRead(b, <<b[n]>>, n)
<1>1. SubSeq(b, n, n) = <<b[n]>>
  <2>1. b[n] \in Bytes /\ <<b[n]>> \in Seq(Bytes) /\ Len(<<b[n]>>) = 1 /\ <<b[n]>>[1] = b[n]
    OBVIOUS
  <2>2. SubSeq(b, n, n) \in Seq(Bytes) /\ Len(SubSeq(b, n, n)) = 1 /\ SubSeq(b, n, n)[1] = b[n]
    BY <2>1
  <2>3. \A k \in 1 .. 1 : <<b[n]>>[k] = SubSeq(b, n, n)[k]
    BY <2>1, <2>2
  <2> QED  BY <2>1, <2>2, <2>3, SeqEqual
<1> QED  BY <1>1 DEF LastRead

\* A word read last, with the next byte, is read last one byte on.
LEMMA LastReadAppend ==
  ASSUME NEW b \in Seq(Bytes), NEW n \in Nat, n + 1 <= Len(b), NEW word \in Seq(Bytes),
         LastRead(b, word, n)
  PROVE  LastRead(b, Append(word, b[n + 1]), n + 1)
<1> DEFINE m == n - Len(word) + 1
           w == Append(word, b[n + 1])
<1>1. Len(b) \in Nat /\ Len(word) \in Nat /\ Len(word) <= n /\ word = SubSeq(b, m, n)
      /\ m \in 1 .. n + 1 /\ b[n + 1] \in Bytes
  BY DEF LastRead
<1>2. w \in Seq(Bytes) /\ Len(w) = Len(word) + 1
  BY <1>1
<1>3. SubSeq(b, m, n + 1) \in Seq(Bytes) /\ Len(SubSeq(b, m, n + 1)) = Len(w)
  BY <1>1, <1>2
<1>4. \A k \in 1 .. Len(w) : w[k] = SubSeq(b, m, n + 1)[k]
  BY <1>1, <1>2, SMTT(30)
<1>5. w = SubSeq(b, m, n + 1)
  <2> HIDE DEF w, m
  <2> QED  BY <1>2, <1>3, <1>4, SeqEqual, Zenon
<1> QED
  BY <1>1, <1>2, <1>5 DEF LastRead

\* The bytes of a word that was read last.
LEMMA LastReadAt ==
  ASSUME NEW b \in Seq(Bytes), NEW n \in 0 .. Len(b), NEW word \in Seq(Bytes),
         LastRead(b, word, n)
  PROVE  /\ Len(word) \in 0 .. n
         /\ \A k \in 1 .. Len(word) : word[k] = b[n - Len(word) + k]
<1> DEFINE m == n - Len(word) + 1
<1>1. Len(b) \in Nat /\ Len(word) \in 0 .. n /\ m \in 1 .. n + 1 /\ word = SubSeq(b, m, n)
  BY DEF LastRead
<1>2. ASSUME NEW k \in 1 .. Len(word)
      PROVE  SubSeq(b, m, n)[k] = b[m + k - 1] /\ m + k - 1 = n - Len(word) + k
  BY <1>1
<1> QED  BY <1>1, <1>2

\* A word that goes on across the dollar sign that closed a string.
ClosesTag(word) ==
  Len(word) >= 2 /\ word[1] = "$" /\ \E k \in 2 .. Len(word) : word[k] = "$"

\* The word that is seen is all of the one that was read last.
WholeWord(b, word, n) ==
  \/ Len(word) = n
  \/ ~is_identifier_continue(b[n - Len(word)])
  \/ ClosesTag(word)

\* What the reader keeps is what was read last.
Follows(b, r, n) ==
  /\ LastRead(b, r.piece, n)
  /\ r.mode.kind \in {"normal", "dollar"} => LastRead(b, r.seen, n)
  /\ r.mode.kind = "normal" /\ r.seen \notin Halves => WholeWord(b, r.seen, n)
  /\ r.mode.kind \in Quoting /\ r.seen # <<>> => n > 0 /\ b[n] = r.seen[1]

\* At the start nothing was read and nothing is kept.
LEMMA StartFollows ==
  ASSUME NEW b \in Seq(Bytes)
  PROVE  Follows(b, Start, 0)
<1>1. Start.piece = <<>> /\ Start.seen = <<>> /\ Start.mode = Normal
  BY DEF Start, Reader
<1>2. LastRead(b, <<>>, 0) /\ WholeWord(b, <<>>, 0)
  BY LastReadNone DEF WholeWord
<1> QED
  BY <1>1, <1>2, ModeFields DEF Follows, Quoting

\* A reader that goes on keeps what was read last, when its new word does.
LEMMA GoesFollows ==
  ASSUME NEW b \in Seq(Bytes), NEW n \in Nat, n + 1 <= Len(b), NEW r \in Readers,
         LastRead(b, r.piece, n), NEW mode, NEW seen, NEW solid,
         mode.kind \in {"normal", "dollar"} => LastRead(b, seen, n + 1),
         mode.kind = "normal" /\ seen \notin Halves => WholeWord(b, seen, n + 1),
         mode.kind \in Quoting /\ seen # <<>> => b[n + 1] = seen[1]
  PROVE  Follows(b, Goes(r, b[n + 1], mode, seen, solid), n + 1)
<1>1. r.piece \in Seq(Bytes)
  BY ReaderParts
<1>2. LastRead(b, Append(r.piece, b[n + 1]), n + 1)
  BY <1>1, LastReadAppend
<1> DEFINE t == Goes(r, b[n + 1], mode, seen, solid)
<1>3. t.mode = mode /\ t.seen = seen /\ t.piece = Append(r.piece, b[n + 1])
  BY GoesFields
<1> HIDE DEF t
<1>4. Follows(b, t, n + 1)
  BY <1>2, <1>3 DEF Follows
<1> QED
  BY <1>4 DEF t

\* A reader that knows its string closed keeps nothing that was not read.
LEMMA SettledFollows ==
  ASSUME NEW b \in Seq(Bytes), NEW n \in 0 .. Len(b), NEW r, Proper(r), Follows(b, r, n),
         r.mode.kind \in Quoting, r.seen = <<QuoteOf(r.mode.kind)>>
  PROVE  Follows(b, Settled(r), n)
<1>1. Settled(r).piece = r.piece /\ Settled(r).seen = <<>> /\ Settled(r).mode = Normal
  BY DEF Settled, Reader
<1>2. n > 0 /\ b[n] = QuoteOf(r.mode.kind)
  BY DEF Follows
<1>3. ~is_identifier_continue(b[n])
  BY <1>2, Identifiers DEF QuoteOf
<1>4. LastRead(b, <<>>, n) /\ WholeWord(b, <<>>, n)
  BY <1>3, LastReadNone DEF WholeWord
<1> QED
  BY <1>1, <1>4, ModeFields DEF Follows, Quoting

\* Outside quotes and comments the reader keeps what was read last.
LEMMA SeeNormalFollows ==
  ASSUME NEW b \in Seq(Bytes), NEW n \in Nat, n + 1 <= Len(b), NEW r, Proper(r),
         r.mode = Normal, Follows(b, r, n)
  PROVE  Follows(b, See(r, b[n + 1]), n + 1)
<1> DEFINE c == b[n + 1]
<1>1. /\ r \in Readers /\ r.mode.kind = "normal" /\ r.seen \in Seq(Bytes)
      /\ (r.seen \in Halves \/ IsWord(r.seen))
      /\ LastRead(b, r.piece, n) /\ LastRead(b, r.seen, n)
      /\ (r.seen \notin Halves => WholeWord(b, r.seen, n))
  BY ModeFields, ReaderParts, KindsOfFits DEF Proper, Follows
<1>2. c \in Bytes /\ n + 1 \in 1 .. Len(b)
  OBVIOUS
<1> HIDE DEF c
<1>3. CASE c = "semi"
  <2>1. See(r, c) = Ends(r, c)
    BY <1>1, <1>3, SeesNormal
  <2>2. /\ See(r, c).piece = <<>> /\ See(r, c).seen = <<>> /\ See(r, c).mode = Normal
    BY <2>1, EndsFields, ZenonT(30)
  <2>3. LastRead(b, <<>>, n + 1) /\ WholeWord(b, <<>>, n + 1)
    <3>1. ~is_identifier_continue(b[n + 1])
      BY <1>3, Identifiers DEF c
    <3> QED  BY <1>2, <3>1, LastReadNone DEF WholeWord
  <2> QED  BY <2>2, <2>3, ModeFields DEF Follows, Quoting, c
<1>4. ASSUME NEW mode, NEW solid, mode.kind # "normal"
      PROVE  Follows(b, Goes(r, c, mode, <<>>, solid), n + 1)
  <2>1. LastRead(b, <<>>, n + 1) /\ n + 1 <= Len(b)
    BY <1>2, LastReadNone
  <2> QED  BY <1>1, <1>4, <2>1, GoesFollows DEF c
<1>5. CASE c = "'"
  <2>1. See(r, c) = Goes(r, c, Lexical(IF r.seen = <<"e">> THEN "escape" ELSE "single"), <<>>, TRUE)
    BY <1>1, <1>5, SeesNormal
  <2>2. Lexical(IF r.seen = <<"e">> THEN "escape" ELSE "single").kind # "normal"
    BY ModeFields
  <2> QED  BY <1>4, <2>1, <2>2 DEF c
<1>6. CASE c = "dq"
  <2>1. See(r, c) = Goes(r, c, Lexical("double"), <<>>, TRUE)
    BY <1>1, <1>6, SeesNormal
  <2>2. Lexical("double").kind # "normal"
    BY ModeFields
  <2> QED  BY <1>4, <2>1, <2>2 DEF c
<1>7. CASE c = "-" /\ r.seen = <<"-">>
  <2>1. See(r, c) = Goes(r, c, Lexical("line"), <<>>, r.solid)
    BY <1>1, <1>7, SeesNormal
  <2>2. Lexical("line").kind # "normal"
    BY ModeFields
  <2> QED  BY <1>4, <2>1, <2>2 DEF c
<1>8. CASE c = "*" /\ r.seen = <<"/">>
  <2>1. See(r, c) = Goes(r, c, Block(1), <<>>, r.solid)
    BY <1>1, <1>8, SeesNormal
  <2>2. Block(1).kind # "normal"
    BY ModeFields
  <2> QED  BY <1>4, <2>1, <2>2 DEF c
<1>9. CASE c = "$" /\ Opens(r.seen)
  <2>1. See(r, c) = Goes(r, c, Dollar(Append(r.seen, c)), <<>>, TRUE)
    BY <1>1, <1>9, SeesNormal
  <2>2. Dollar(Append(r.seen, c)).kind # "normal"
    BY ModeFields
  <2> QED  BY <1>4, <2>1, <2>2 DEF c
<1>10. CASE /\ c \notin {"semi", "'", "dq"}
            /\ c = "-" => r.seen # <<"-">>
            /\ c = "*" => r.seen # <<"/">>
            /\ c = "$" => ~Opens(r.seen)
  <2> DEFINE solid == r.solid \/ c \notin Space \cup {"-", "/"} \/ r.seen \in Halves
             seen == SeenAfter(r.seen, c)
  <2>1. See(r, c) = Goes(r, c, Normal, seen, solid)
    BY <1>1, <1>10, SeesNormal
  <2>2. LastRead(b, seen, n + 1) /\ (seen \notin Halves => WholeWord(b, seen, n + 1))
    <3>1. CASE is_identifier_continue(c) /\ r.seen \in Halves
      <4>1. seen = <<c>>
        BY <3>1 DEF SeenAfter
      <4>2. LastRead(b, seen, n + 1)
        BY <1>2, <4>1, LastReadOne DEF c
      <4>3. Len(r.seen) = 1 /\ n >= 1 /\ b[n] = r.seen[1]
        <5>1. n \in 0 .. Len(b)
          BY <1>2
        <5>2. Len(r.seen) = 1
          BY <3>1 DEF Halves
        <5> QED  BY <1>1, <5>1, <5>2, LastReadAt
      <4>4. ~is_identifier_continue(b[n])
        BY <3>1, <4>3, Identifiers DEF Halves
      <4>5. Len(seen) = 1
        BY <4>1
      <4>6. WholeWord(b, seen, n + 1)
        BY <4>4, <4>5 DEF WholeWord
      <4> QED  BY <4>2, <4>6
    <3>2. CASE is_identifier_continue(c) /\ r.seen \notin Halves
      <4>1. seen = Append(r.seen, c)
        BY <3>2 DEF SeenAfter
      <4>2. LastRead(b, seen, n + 1)
        BY <1>1, <4>1, LastReadAppend DEF c
      <4>3. WholeWord(b, r.seen, n) /\ Len(r.seen) \in Nat
        BY <1>1, <3>2
      <4>4. Len(seen) = Len(r.seen) + 1 /\ \A k \in 1 .. Len(r.seen) : seen[k] = r.seen[k]
        BY <1>1, <1>2, <4>1
      <4>5. ClosesTag(r.seen) => ClosesTag(seen)
        <5> HIDE DEF seen
        <5> QED  BY <4>3, <4>4 DEF ClosesTag
      <4>6. n + 1 - Len(seen) = n - Len(r.seen)
        BY <4>3, <4>4
      <4>7. WholeWord(b, seen, n + 1)
        <5> HIDE DEF seen
        <5>1. (Len(r.seen) = n => Len(seen) = n + 1)
              /\ b[n + 1 - Len(seen)] = b[n - Len(r.seen)]
          BY <4>3, <4>4, <4>6
        <5> QED  BY <4>3, <4>5, <5>1 DEF WholeWord
      <4> QED  BY <4>2, <4>7
    <3>3. CASE ~is_identifier_continue(c)
      <4>1. CASE c \in {"-", "/"}
        <5>1. seen = <<c>> /\ seen \in Halves
          BY <3>3, <4>1 DEF SeenAfter, Halves
        <5> QED  BY <1>2, <5>1, LastReadOne DEF c
      <4>2. CASE c \notin {"-", "/"}
        <5>1. seen = <<>>
          BY <3>3, <4>2 DEF SeenAfter
        <5>2. LastRead(b, <<>>, n + 1)
          BY <1>2, LastReadNone
        <5>3. WholeWord(b, <<>>, n + 1)
          BY <3>3 DEF WholeWord, c
        <5> QED  BY <5>1, <5>2, <5>3
      <4> QED  BY <4>1, <4>2
    <3> QED  BY <3>1, <3>2, <3>3
  <2>3. Normal.kind = "normal" /\ "normal" \notin Quoting
    BY ModeFields DEF Quoting
  <2> HIDE DEF solid, seen
  <2>4. Follows(b, Goes(r, b[n + 1], Normal, seen, solid), n + 1)
    BY <1>1, <1>2, <2>2, <2>3, GoesFollows
  <2> QED  BY <2>1, <2>4 DEF c
<1> QED
  BY <1>3, <1>5, <1>6, <1>7, <1>8, <1>9, <1>10 DEF c

\* Of every text, the reader keeps what was read last.
LEMMA SeeFollows ==
  ASSUME NEW b \in Seq(Bytes), NEW n \in Nat, n + 1 <= Len(b), NEW r, Proper(r),
         Follows(b, r, n)
  PROVE  Follows(b, See(r, b[n + 1]), n + 1)
<1> DEFINE c == b[n + 1]
<1>1. r \in Readers /\ r.mode.kind \in Kinds /\ Fits(r.mode, r.seen) /\ r.seen \in Seq(Bytes)
      /\ r.solid \in BOOLEAN /\ LastRead(b, r.piece, n)
  BY ReaderParts DEF Proper, Follows
<1>2. c \in Bytes /\ n + 1 \in 1 .. Len(b) /\ n \in 0 .. Len(b)
  OBVIOUS
<1>3. LastRead(b, <<>>, n + 1) /\ LastRead(b, <<c>>, n + 1)
  BY <1>2, LastReadNone, LastReadOne
<1>4. ASSUME NEW mode, NEW solid, mode.kind # "normal"
      PROVE  Follows(b, Goes(r, c, mode, <<>>, solid), n + 1)
  BY <1>1, <1>2, <1>3, <1>4, GoesFollows
<1>5. ASSUME NEW mode, NEW solid, mode.kind # "normal", mode.kind # "dollar"
      PROVE  Follows(b, Goes(r, c, mode, <<c>>, solid), n + 1)
  <2>1. <<c>>[1] = b[n + 1]
    OBVIOUS
  <2> HIDE DEF c
  <2>2. Follows(b, Goes(r, b[n + 1], mode, <<c>>, solid), n + 1)
    BY <1>1, <1>2, <1>3, <1>5, <2>1, GoesFollows
  <2> QED  BY <2>2 DEF c
<1>6. ASSUME NEW solid, ~is_identifier_continue(c)
      PROVE  Follows(b, Goes(r, c, Normal, <<>>, solid), n + 1)
  <2>1. WholeWord(b, <<>>, n + 1)
    BY <1>6 DEF WholeWord
  <2>2. Normal.kind = "normal" /\ "normal" \notin Quoting
    BY ModeFields DEF Quoting
  <2> QED  BY <1>1, <1>2, <1>3, <2>1, <2>2, GoesFollows
<1> HIDE DEF c
<1>7. CASE r.mode.kind = "normal"
  BY <1>1, <1>7, KindsOfFits, SeeNormalFollows DEF c
<1>8. CASE r.mode.kind \in Quoting
  <2>1. \/ r.seen = <<>> \/ r.seen = <<QuoteOf(r.mode.kind)>>
        \/ r.mode.kind = "escape" /\ r.seen = <<"bs">>
    BY <1>1, <1>8, KindsOfFits
  <2>2. r.mode.kind \in {"single", "double", "escape"} /\ r.mode.kind # "normal"
        /\ r.mode.kind # "dollar"
    BY <1>8 DEF Quoting
  <2>3. CASE r.seen = <<>>
    <3>1. See(r, c) = Goes(r, c, r.mode, IF c \in QuotesOf(r.mode.kind) THEN <<c>> ELSE <<>>,
                           r.solid)
      BY <1>8, <2>3, SeesQuoted, Zenon
    <3> QED  BY <1>4, <1>5, <2>2, <3>1 DEF c
  <2>4. CASE r.seen # <<>> /\ (r.seen = <<"bs">> \/ c = r.seen[1])
    <3>1. See(r, c) = Goes(r, c, r.mode, <<>>, r.solid)
      BY <1>8, <2>4, SeesQuoted, Zenon
    <3> QED  BY <1>4, <2>2, <3>1 DEF c
  <2>5. CASE r.seen # <<>> /\ r.seen # <<"bs">> /\ c # r.seen[1]
    <3>1. See(r, c) = See(Settled(r), c)
      BY <1>8, <2>5, SeesQuoted, Zenon
    <3>2. Follows(b, Settled(r), n) /\ Proper(Settled(r)) /\ Settled(r).mode = Normal
      <4>1. r.seen = <<QuoteOf(r.mode.kind)>>
        BY <2>1, <2>5
      <4>2. Settled(r).mode = Normal
        BY DEF Settled, Reader
      <4> QED  BY <1>1, <1>2, <1>8, <4>1, <4>2, SettledFollows, SettledProper
    <3> QED  BY <3>1, <3>2, SeeNormalFollows DEF c
  <2> QED  BY <2>3, <2>4, <2>5
<1>9. CASE r.mode.kind = "dollar"
  <2>1. PICK tag \in Tags : r.mode = Dollar(tag)
    BY <1>1, <1>9, KindsOfFits
  <2> DEFINE body == Append(r.seen, c)
  <2>2. LastRead(b, r.seen, n) /\ LastRead(b, body, n + 1)
    <3>1. LastRead(b, r.seen, n)
      BY <1>9 DEF Follows
    <3> QED  BY <1>1, <3>1, LastReadAppend DEF c
  <2>3. body \in Seq(Bytes) /\ tag \in Seq(Bytes) /\ Len(tag) \in Nat /\ Len(body) \in Nat
    BY <1>1, <1>2 DEF Tags
  <2> HIDE DEF body
  <2>4. CASE Len(body) >= Len(tag) /\ SubSeq(body, Len(body) - Len(tag) + 1, Len(body)) = tag
    <3>1. See(r, c) = Goes(r, c, Normal, tag, r.solid)
      BY <2>1, <2>4, SeesDollar DEF body
    <3>2. LastRead(b, tag, n + 1)
      <4> DEFINE k == Len(body)
                 m == Len(tag)
      <4>1. k \in 0 .. n + 1 /\ \A j \in 1 .. k : body[j] = b[(n + 1) - k + j]
        BY <1>2, <2>2, <2>3, LastReadAt
      <4>2. m \in 2 .. k
        BY <2>3, <2>4 DEF Tags
      <4>3. \A j \in 1 .. m : tag[j] = body[k - m + j]
        <5>1. tag = SubSeq(body, k - m + 1, k) /\ k - m + 1 \in 1 .. k
          BY <2>4, <4>1, <4>2
        <5> HIDE DEF k, m
        <5>2. \A j \in 1 .. m : SubSeq(body, k - m + 1, k)[j] = body[(k - m + 1) + j - 1]
          BY <4>1, <4>2, <5>1
        <5>3. \A j \in 1 .. m : (k - m + 1) + j - 1 = k - m + j
          BY <4>1, <4>2
        <5> QED  BY <5>1, <5>2, <5>3
      <4> DEFINE t == SubSeq(b, (n + 1) - m + 1, n + 1)
      <4>4. t \in Seq(Bytes) /\ Len(t) = m /\ \A j \in 1 .. m : t[j] = b[(n + 1) - m + j]
        <5> HIDE DEF k, m
        <5>1. Len(b) \in Nat /\ (n + 1) - m + 1 \in 1 .. n + 1
          BY <4>1, <4>2
        <5> QED  BY <1>2, <4>2, <5>1
      <4>5. \A j \in 1 .. m : tag[j] = t[j]
        <5> HIDE DEF k, m, t
        <5>1. ASSUME NEW j \in 1 .. m
              PROVE  k - m + j \in 1 .. k /\ (n + 1) - k + (k - m + j) = (n + 1) - m + j
          BY <4>1, <4>2
        <5>2. ASSUME NEW j \in 1 .. m
              PROVE  tag[j] = t[j]
          <6>1. tag[j] = body[k - m + j] /\ t[j] = b[(n + 1) - m + j]
            BY <4>3, <4>4
          <6>2. body[k - m + j] = b[(n + 1) - k + (k - m + j)]
            BY <4>1, <5>1
          <6> QED  BY <5>1, <6>1, <6>2
        <5> QED  BY <5>2
      <4>6. tag = t
        <5> HIDE DEF t
        <5> QED  BY <2>3, <4>4, <4>5, SeqEqual, Zenon
      <4> QED  BY <4>1, <4>2, <4>6 DEF LastRead
    <3>3. WholeWord(b, tag, n + 1)
      <4>1. Len(tag) \in 2 .. Len(tag)
        BY <2>3 DEF Tags
      <4> QED  BY <4>1 DEF WholeWord, ClosesTag, Tags
    <3>4. Normal.kind = "normal" /\ "normal" \notin Quoting
      BY ModeFields DEF Quoting
    <3>5. Follows(b, Goes(r, b[n + 1], Normal, tag, r.solid), n + 1)
      BY <1>1, <1>2, <3>2, <3>3, <3>4, GoesFollows
    <3> QED  BY <3>1, <3>5 DEF c
  <2>5. CASE ~(Len(body) >= Len(tag)
               /\ SubSeq(body, Len(body) - Len(tag) + 1, Len(body)) = tag)
    <3>1. See(r, c) = Goes(r, c, r.mode, body, r.solid)
      BY <2>1, <2>5, SeesDollar DEF body
    <3>2. Follows(b, Goes(r, b[n + 1], r.mode, body, r.solid), n + 1)
      BY <1>1, <1>2, <1>9, <2>2, GoesFollows DEF Quoting
    <3> QED  BY <3>1, <3>2 DEF c
  <2> QED  BY <2>4, <2>5
<1>10. CASE r.mode.kind = "line"
  <2>1. c = "nl" => ~is_identifier_continue(c)
    BY Identifiers
  <2>2. \/ See(r, c) = Goes(r, c, r.mode, <<>>, r.solid)
        \/ c = "nl" /\ See(r, c) = Goes(r, c, Normal, <<>>, r.solid)
    BY <1>10, SeesLine
  <2> QED  BY <1>4, <1>6, <1>10, <2>1, <2>2 DEF c
<1>11. CASE r.mode.kind = "block"
  <2>1. PICK depth \in Nat \ {0} : r.mode = Block(depth)
    BY <1>1, <1>11, KindsOfFits
  <2>2. \A d : Block(d).kind # "normal" /\ Block(d).kind # "dollar"
    BY ModeFields
  <2>3. c = "/" => ~is_identifier_continue(c)
    BY Identifiers
  <2>4. Follows(b, Goes(r, c, Block(depth + 1), <<>>, r.solid), n + 1)
    BY <1>4, <2>2
  <2>5. Follows(b, Goes(r, c, r.mode, <<c>>, r.solid), n + 1)
    BY <1>5, <2>1, <2>2
  <2>6. c = "/" => Follows(b, Goes(r, c, IF depth = 1 THEN Normal ELSE Block(depth - 1),
                                   <<>>, r.solid), n + 1)
    <3>1. CASE depth = 1
      BY <1>6, <2>3, <3>1
    <3>2. CASE depth # 1
      BY <1>4, <2>2, <3>2
    <3> QED  BY <3>1, <3>2
  <2>7. \/ See(r, c) = Goes(r, c, Block(depth + 1), <<>>, r.solid)
        \/ c = "/" /\ See(r, c) = Goes(r, c, IF depth = 1 THEN Normal ELSE Block(depth - 1),
                                      <<>>, r.solid)
        \/ See(r, c) = Goes(r, c, r.mode, <<c>>, r.solid)
    BY <2>1, SeesBlock
  <2> QED  BY <2>4, <2>5, <2>6, <2>7 DEF c
<1> QED
  BY <1>1, <1>7, <1>8, <1>9, <1>10, <1>11 DEF Kinds, Quoting
-----------------------------------------------------------------------------
(***************************************************************************)
(* The steps of the scanner, by what it stands at.                         *)
(***************************************************************************)
\* Two bytes stand at a place.
LEMMA AtTwo ==
  ASSUME NEW b \in Seq(Bytes), NEW i \in 1 .. Len(b), NEW x \in Bytes, NEW y \in Bytes
  PROVE  At(b, i, <<x, y>>) <=> i + 1 <= Len(b) /\ b[i] = x /\ b[i + 1] = y
<1> DEFINE w == <<x, y>>
           s == SubSeq(b, i, i + 1)
<1>1. w \in Seq(Bytes) /\ Len(w) = 2 /\ w[1] = x /\ w[2] = y
  OBVIOUS
<1>2. At(b, i, w) <=> i + 1 <= Len(b) /\ s = w
  BY <1>1 DEF At
<1>3. i + 1 <= Len(b) =>
        s \in Seq(Bytes) /\ Len(s) = 2 /\ s[1] = b[i] /\ s[2] = b[i + 1]
  <2> SUFFICES ASSUME i + 1 <= Len(b)
               PROVE  s \in Seq(Bytes) /\ Len(s) = 2 /\ s[1] = b[i] /\ s[2] = b[i + 1]
    OBVIOUS
  <2> QED  OBVIOUS
<1> HIDE DEF w, s
<1>4. i + 1 <= Len(b) /\ b[i] = x /\ b[i + 1] = y => s = w
  <2> SUFFICES ASSUME i + 1 <= Len(b), b[i] = x, b[i + 1] = y PROVE s = w
    OBVIOUS
  <2>1. \A k \in 1 .. 2 : s[k] = w[k]
    BY <1>1, <1>3
  <2>2. Len(s) = Len(w) /\ \A k \in 1 .. Len(s) : s[k] = w[k]
    BY <1>1, <1>3, <2>1
  <2> QED  BY <1>1, <1>3, <2>2, SeqEqual, Zenon
<1> QED
  BY <1>1, <1>2, <1>3, <1>4 DEF w

\* Does the delimiter that starts at i end at k?
Delimits(b, i, k) ==
  /\ k \in i + 1 .. Len(b) /\ b[k] = "$"
  /\ \A j \in i + 1 .. k - 1 : is_identifier_continue(b[j]) /\ b[j] # "$"
  /\ k = i + 1 \/ is_identifier_start(b[i + 1])

\* The delimiter that the scanner finds at a dollar: it is not inside an identifier, and
\* the next dollar closes it.
LEMMA DelimiterFound ==
  ASSUME NEW b \in Seq(Bytes), NEW i \in 1 .. Len(b), dollar_quote_delimiter(b, i) # <<>>
  PROVE  /\ ~(i > 1 /\ is_identifier_continue(b[i - 1]))
         /\ \E k \in i + 1 .. Len(b) :
              Delimits(b, i, k) /\ dollar_quote_delimiter(b, i) = SubSeq(b, i, k)
<1> DEFINE closers == {k \in i + 1 .. Len(b) :
                    /\ b[k] = "$"
                    /\ \A j \in i + 1 .. k - 1 :
                         is_identifier_continue(b[j]) /\ b[j] # "$"
                    /\ k = i + 1 \/ is_identifier_start(b[i + 1])}
<1>1. dollar_quote_delimiter(b, i) =
        IF (i > 1 /\ is_identifier_continue(b[i - 1])) \/ closers = {} THEN <<>>
        ELSE SubSeq(b, i, CHOOSE k \in closers : TRUE)
  BY DEF dollar_quote_delimiter
<1>2. \A k \in closers : k \in i + 1 .. Len(b) /\ Delimits(b, i, k)
  BY DEF Delimits
<1> HIDE DEF closers
<1>3. ~(i > 1 /\ is_identifier_continue(b[i - 1])) /\ closers # {}
  BY <1>1
<1>4. (CHOOSE k \in closers : TRUE) \in closers
  BY <1>3
<1> QED
  BY <1>1, <1>2, <1>3, <1>4

\* Where the scanner finds no delimiter, outside an identifier, there is none.
LEMMA DelimiterMissing ==
  ASSUME NEW b \in Seq(Bytes), NEW i \in 1 .. Len(b), dollar_quote_delimiter(b, i) = <<>>,
         ~(i > 1 /\ is_identifier_continue(b[i - 1]))
  PROVE  \A k : ~Delimits(b, i, k)
<1> DEFINE closers == {k \in i + 1 .. Len(b) :
                    /\ b[k] = "$"
                    /\ \A j \in i + 1 .. k - 1 :
                         is_identifier_continue(b[j]) /\ b[j] # "$"
                    /\ k = i + 1 \/ is_identifier_start(b[i + 1])}
<1>1. dollar_quote_delimiter(b, i) =
        IF (i > 1 /\ is_identifier_continue(b[i - 1])) \/ closers = {} THEN <<>>
        ELSE SubSeq(b, i, CHOOSE k \in closers : TRUE)
  BY DEF dollar_quote_delimiter
<1>2. \A k : Delimits(b, i, k) => k \in closers
  BY DEF Delimits
<1>3. \A k \in closers : k \in i + 1 .. Len(b)
  OBVIOUS
<1> HIDE DEF closers
<1>4. closers = {}
  <2> SUFFICES ASSUME closers # {} PROVE FALSE
    OBVIOUS
  <2>1. (CHOOSE k \in closers : TRUE) \in closers
    OBVIOUS
  <2>2. PICK k \in closers : SubSeq(b, i, k) = <<>>
    BY <1>1, <2>1
  <2>3. k \in i + 1 .. Len(b)
    BY <1>3
  <2>4. Len(SubSeq(b, i, k)) = k - i + 1
    BY <2>3
  <2> QED  BY <2>2, <2>3, <2>4
<1> QED
  BY <1>2, <1>4

\* The fields of a step of the scanner.
LEMMA ToFields ==
  ASSUME NEW state, NEW width
  PROVE  To(state, width).state = state /\ To(state, width).width = width
BY DEF To

\* The scanner's steps outside quotes and comments, by the byte it stands at.
LEMMA LexesNormal ==
  ASSUME NEW b \in Seq(Bytes), NEW i \in 1 .. Len(b)
  PROVE  LET c == b[i]
             tag == dollar_quote_delimiter(b, i)
             next == lexNext(b, i, Normal)
         IN
         /\ c = "'" => next = To(Lexical(IF is_escape_string_prefix(b, i) THEN "escape"
                                         ELSE "single"), 1)
         /\ c = "dq" => next = To(Lexical("double"), 1)
         /\ c = "$" /\ tag # <<>> => next = To(Dollar(tag), Len(tag))
         /\ c = "-" /\ i < Len(b) /\ b[i + 1] = "-" => next = To(Lexical("line"), 2)
         /\ c = "/" /\ i < Len(b) /\ b[i + 1] = "*" => next = To(Block(1), 2)
         /\ /\ c \notin {"'", "dq"}
            /\ c = "$" => tag = <<>>
            /\ c = "-" /\ i < Len(b) => b[i + 1] # "-"
            /\ c = "/" /\ i < Len(b) => b[i + 1] # "*"
            => next = To(Normal, 1)
<1> DEFINE c == b[i]
           tag == dollar_quote_delimiter(b, i)
<1>1. lexNext(b, i, Normal) = lexNormal(b, i)
  <2>1. /\ Normal.kind = "normal"
        /\ Normal.kind # "single" /\ Normal.kind # "double" /\ Normal.kind # "escape"
        /\ Normal.kind # "dollar" /\ Normal.kind # "line" /\ Normal.kind # "block"
    BY ModeFields
  <2> QED  BY <2>1, Zenon DEF lexNext
<1>2. /\ At(b, i, <<"-", "-">>) <=> c = "-" /\ i < Len(b) /\ b[i + 1] = "-"
      /\ At(b, i, <<"/", "*">>) <=> c = "/" /\ i < Len(b) /\ b[i + 1] = "*"
  <2>1. "-" \in Bytes /\ "/" \in Bytes /\ "*" \in Bytes
    BY DEF Bytes
  <2>2. At(b, i, <<"-", "-">>) <=> i + 1 <= Len(b) /\ c = "-" /\ b[i + 1] = "-"
    BY <2>1, AtTwo
  <2>3. At(b, i, <<"/", "*">>) <=> i + 1 <= Len(b) /\ c = "/" /\ b[i + 1] = "*"
    BY <2>1, AtTwo
  <2>4. Len(b) \in Nat /\ (i + 1 <= Len(b) <=> i < Len(b))
    OBVIOUS
  <2> QED  BY <2>2, <2>3, <2>4
<1> DEFINE dashes == At(b, i, <<"-", "-">>)
           stars  == At(b, i, <<"/", "*">>)
<1>3. ASSUME c = "'"
      PROVE  lexNormal(b, i)
               = To(Lexical(IF is_escape_string_prefix(b, i) THEN "escape" ELSE "single"), 1)
  <2>1. c # "dq" /\ c # "$" /\ ~dashes /\ ~stars
    BY <1>2, <1>3
  <2> QED  BY <1>3, <2>1, Zenon DEF lexNormal
<1>4. ASSUME c = "dq" PROVE lexNormal(b, i) = To(Lexical("double"), 1)
  <2>1. c # "'" /\ c # "$" /\ ~dashes /\ ~stars
    BY <1>2, <1>4
  <2> QED  BY <1>4, <2>1, Zenon DEF lexNormal
<1>5. ASSUME c = "$"
      PROVE  lexNormal(b, i) = IF tag = <<>> THEN To(Normal, 1) ELSE To(Dollar(tag), Len(tag))
  <2>1. c # "'" /\ c # "dq" /\ ~dashes /\ ~stars
    BY <1>2, <1>5
  <2> QED  BY <1>5, <2>1, Zenon DEF lexNormal
<1>6. ASSUME dashes PROVE lexNormal(b, i) = To(Lexical("line"), 2)
  <2>1. c # "'" /\ c # "dq" /\ c # "$" /\ ~stars
    BY <1>2, <1>6
  <2> QED  BY <1>6, <2>1, Zenon DEF lexNormal
<1>7. ASSUME stars PROVE lexNormal(b, i) = To(Block(1), 2)
  <2>1. c # "'" /\ c # "dq" /\ c # "$" /\ ~dashes
    BY <1>2, <1>7
  <2> QED  BY <1>7, <2>1, Zenon DEF lexNormal
<1>8. ASSUME c # "'", c # "dq", c # "$", ~dashes, ~stars PROVE lexNormal(b, i) = To(Normal, 1)
  BY <1>8, Zenon DEF lexNormal
<1> HIDE DEF c, tag, dashes, stars
<1>9. /\ c = "'" => lexNext(b, i, Normal) =
           To(Lexical(IF is_escape_string_prefix(b, i) THEN "escape" ELSE "single"), 1)
      /\ c = "dq" => lexNext(b, i, Normal) = To(Lexical("double"), 1)
      /\ c = "$" /\ tag # <<>> => lexNext(b, i, Normal) = To(Dollar(tag), Len(tag))
      /\ c = "-" /\ i < Len(b) /\ b[i + 1] = "-" => lexNext(b, i, Normal) = To(Lexical("line"), 2)
      /\ c = "/" /\ i < Len(b) /\ b[i + 1] = "*" => lexNext(b, i, Normal) = To(Block(1), 2)
  BY <1>1, <1>2, <1>3, <1>4, <1>5, <1>6, <1>7 DEF dashes, stars
<1>10. ASSUME c \notin {"'", "dq"}, c = "$" => tag = <<>>,
              c = "-" /\ i < Len(b) => b[i + 1] # "-", c = "/" /\ i < Len(b) => b[i + 1] # "*"
       PROVE  lexNext(b, i, Normal) = To(Normal, 1)
  BY <1>1, <1>2, <1>5, <1>8, <1>10 DEF dashes, stars
<1> QED
  BY <1>9, <1>10 DEF c, tag

\* Its steps in a string or a quoted identifier: it looks one byte ahead.
LEMMA LexesQuoted ==
  ASSUME NEW b \in Seq(Bytes), NEW i \in 1 .. Len(b), NEW kind \in Quoting
  PROVE  LET q == QuoteOf(kind)
             s == Lexical(kind)
             next == lexNext(b, i, s)
         IN
         /\ kind = "escape" /\ b[i] = "bs" => next = To(s, IF i < Len(b) THEN 2 ELSE 1)
         /\ b[i] = q /\ i < Len(b) /\ b[i + 1] = q => next = To(s, 2)
         /\ b[i] = q /\ (i < Len(b) => b[i + 1] # q) => next = To(Normal, 1)
         /\ b[i] # q /\ (kind = "escape" => b[i] # "bs") => next = To(s, 1)
<1> DEFINE q == QuoteOf(kind)
           s == Lexical(kind)
           twice == At(b, i, <<q, q>>)
<1>1. twice <=> i < Len(b) /\ b[i] = q /\ b[i + 1] = q
  <2>1. q \in Bytes
    BY DEF Bytes, QuoteOf
  <2>2. Len(b) \in Nat
    OBVIOUS
  <2> HIDE DEF q
  <2> QED  BY <2>1, <2>2, AtTwo
<1>2. lexQuoted(b, i, s, q) = IF twice THEN To(s, 2)
                              ELSE IF b[i] = q THEN To(Normal, 1) ELSE To(s, 1)
  <2>1. CASE twice
    BY <1>1, <2>1, Zenon DEF lexQuoted
  <2>2. CASE ~twice /\ b[i] = q
    BY <2>2, Zenon DEF lexQuoted
  <2>3. CASE ~twice /\ b[i] # q
    BY <2>3, Zenon DEF lexQuoted
  <2> QED  BY <2>1, <2>2, <2>3
<1>3. s.kind = kind
  BY ModeFields
<1>4. CASE kind = "single"
  <2>1. /\ s.kind = "single" /\ s.kind # "normal" /\ s.kind # "double" /\ s.kind # "escape"
        /\ s.kind # "dollar" /\ s.kind # "line" /\ s.kind # "block" /\ q = "'"
    BY <1>3, <1>4 DEF QuoteOf
  <2> HIDE DEF s, q
  <2>2. lexNext(b, i, s) = lexQuoted(b, i, s, q)
    BY <2>1, Zenon DEF lexNext
  <2> QED  BY <1>1, <1>2, <1>4, <2>1, <2>2 DEF s, q
<1>5. CASE kind = "double"
  <2>1. /\ s.kind = "double" /\ s.kind # "normal" /\ s.kind # "single" /\ s.kind # "escape"
        /\ s.kind # "dollar" /\ s.kind # "line" /\ s.kind # "block" /\ q = "dq"
    BY <1>3, <1>5 DEF QuoteOf
  <2> HIDE DEF s, q
  <2>2. lexNext(b, i, s) = lexQuoted(b, i, s, q)
    BY <2>1, Zenon DEF lexNext
  <2> QED  BY <1>1, <1>2, <1>5, <2>1, <2>2 DEF s, q
<1>6. CASE kind = "escape"
  <2>1. /\ s.kind = "escape" /\ s.kind # "normal" /\ s.kind # "single" /\ s.kind # "double"
        /\ s.kind # "dollar" /\ s.kind # "line" /\ s.kind # "block" /\ q = "'"
    BY <1>3, <1>6 DEF QuoteOf
  <2> HIDE DEF s, q
  <2>2. lexNext(b, i, s) = IF b[i] = "bs" THEN To(s, IF i < Len(b) THEN 2 ELSE 1)
                           ELSE lexQuoted(b, i, s, q)
    BY <2>1, Zenon DEF lexNext
  <2>3. q # "bs"
    BY <2>1
  <2> QED  BY <1>1, <1>2, <1>6, <2>2, <2>3 DEF s, q
<1> QED
  BY <1>4, <1>5, <1>6 DEF Quoting

\* Its steps in a dollar-quoted string: it looks for the whole tag.
LEMMA LexesDollar ==
  ASSUME NEW b, NEW i, NEW tag
  PROVE  /\ At(b, i, tag) => lexNext(b, i, Dollar(tag)) = To(Normal, Len(tag))
         /\ ~At(b, i, tag) => lexNext(b, i, Dollar(tag)) = To(Dollar(tag), 1)
<1> DEFINE s == Dollar(tag)
<1>1. /\ s.kind = "dollar" /\ s.tag = tag /\ s.kind # "normal" /\ s.kind # "single"
      /\ s.kind # "double" /\ s.kind # "escape" /\ s.kind # "line" /\ s.kind # "block"
  BY ModeFields
<1> HIDE DEF s
<1>2. lexNext(b, i, s) = IF At(b, i, s.tag) THEN To(Normal, Len(s.tag)) ELSE To(s, 1)
  BY <1>1, Zenon DEF lexNext
<1> QED
  BY <1>1, <1>2, Zenon DEF s

\* Its steps in a line comment.
LEMMA LexesLine ==
  ASSUME NEW b, NEW i
  PROVE  /\ b[i] = "nl" => lexNext(b, i, Lexical("line")) = To(Normal, 1)
         /\ b[i] # "nl" => lexNext(b, i, Lexical("line")) = To(Lexical("line"), 1)
<1> DEFINE s == Lexical("line")
<1>1. /\ s.kind = "line" /\ s.kind # "normal" /\ s.kind # "single"
      /\ s.kind # "double" /\ s.kind # "escape" /\ s.kind # "dollar" /\ s.kind # "block"
  BY ModeFields
<1> HIDE DEF s
<1>2. lexNext(b, i, s) = To(IF b[i] \in NewLine THEN Normal ELSE s, 1)
  BY <1>1, Zenon DEF lexNext
<1> QED
  BY <1>2 DEF s, NewLine

\* Its steps in a block comment: it takes both bytes of a mark.
LEMMA LexesBlock ==
  ASSUME NEW b \in Seq(Bytes), NEW i \in 1 .. Len(b), NEW depth \in Nat \ {0}
  PROVE  LET next == lexBlock(b, i, depth) IN
         /\ lexNext(b, i, Block(depth)) = next
         /\ b[i] = "/" /\ i < Len(b) /\ b[i + 1] = "*" => next = To(Block(depth + 1), 2)
         /\ b[i] = "*" /\ i < Len(b) /\ b[i + 1] = "/" =>
              next = To(IF depth = 1 THEN Normal ELSE Block(depth - 1), 2)
         /\ ~(b[i] = "/" /\ i < Len(b) /\ b[i + 1] = "*")
            /\ ~(b[i] = "*" /\ i < Len(b) /\ b[i + 1] = "/") => next = To(Block(depth), 1)
<1> DEFINE s == Block(depth)
           opens  == At(b, i, <<"/", "*">>)
           closes == At(b, i, <<"*", "/">>)
<1>1. /\ s.kind = "block" /\ s.depth = depth /\ s.kind # "normal" /\ s.kind # "single"
      /\ s.kind # "double" /\ s.kind # "escape" /\ s.kind # "dollar" /\ s.kind # "line"
  BY ModeFields
<1> HIDE DEF s
<1>2. lexNext(b, i, s) = lexBlock(b, i, depth)
  BY <1>1, Zenon DEF lexNext
<1>3. /\ opens <=> b[i] = "/" /\ i < Len(b) /\ b[i + 1] = "*"
      /\ closes <=> b[i] = "*" /\ i < Len(b) /\ b[i + 1] = "/"
  <2>0. Len(b) \in Nat
    OBVIOUS
  <2>1. "/" \in Bytes /\ "*" \in Bytes
    BY DEF Bytes
  <2>2. opens <=> i + 1 <= Len(b) /\ b[i] = "/" /\ b[i + 1] = "*"
    BY <2>1, AtTwo
  <2>3. closes <=> i + 1 <= Len(b) /\ b[i] = "*" /\ b[i + 1] = "/"
    BY <2>1, AtTwo
  <2> QED  BY <2>0, <2>2, <2>3
<1>4. ~(opens /\ closes)
  BY <1>3
<1>5. lexBlock(b, i, depth) =
        IF opens THEN To(Block(depth + 1), 2)
        ELSE IF closes THEN To(IF depth = 1 THEN Normal ELSE Block(depth - 1), 2)
        ELSE To(Block(depth), 1)
  <2>1. CASE opens
    BY <1>4, <2>1, Zenon DEF lexBlock
  <2>2. CASE closes
    BY <1>4, <2>2, Zenon DEF lexBlock
  <2>3. CASE ~opens /\ ~closes
    BY <2>3, Zenon DEF lexBlock
  <2> QED  BY <1>4, <2>1, <2>2, <2>3
<1> HIDE DEF opens, closes
<1> QED
  BY <1>2, <1>3, <1>5 DEF s
-----------------------------------------------------------------------------
(***************************************************************************)
(* The scanner and the reader in step.  Between its steps the scanner has  *)
(* decided what the reader only knows a byte later: Match says how the two *)
(* fit, and each step of the scanner leads from a match to a match.        *)
(***************************************************************************)
\* The reference's states over a text.
Reading(b, f) ==
  /\ f[0] = Start
  /\ \A n \in 1 .. Len(b) : f[n] = See(f[n - 1], b[n])
  /\ \A n \in 0 .. Len(b) : Proper(f[n]) /\ Follows(b, f[n], n)

\* Every text has a reading.
LEMMA ReadingSome ==
  ASSUME NEW b \in Seq(Bytes)
  PROVE  \E f : Reading(b, f) /\ Read(b) = f[Len(b)]
<1>0. Len(b) \in Nat
  OBVIOUS
<1>1. PICK f : /\ Read(b) = f[Len(b)]
               /\ f[0] = Start /\ \A n \in 1 .. Len(b) : f[n] = See(f[n - 1], b[n])
               /\ \A n \in 0 .. Len(b) : Proper(f[n])
  BY ReadsSome
<1> DEFINE S == {n \in Nat : n <= Len(b) => Follows(b, f[n], n)}
<1>2. 0 \in S
  BY <1>1, StartFollows
<1>3. ASSUME NEW n \in Nat, n \in S
      PROVE  n + 1 \in S
  <2> SUFFICES ASSUME n + 1 <= Len(b) PROVE Follows(b, f[n + 1], n + 1)
    OBVIOUS
  <2>1. n + 1 \in 1 .. Len(b) /\ (n + 1) - 1 = n /\ n \in 0 .. Len(b) /\ n <= Len(b)
    BY <1>0
  <2>2. f[n + 1] = See(f[n], b[n + 1]) /\ Proper(f[n]) /\ Follows(b, f[n], n)
    BY <1>1, <1>3, <2>1
  <2> QED  BY <2>2, SeeFollows
<1> HIDE DEF S
<1>4. Nat \subseteq S
  BY <1>2, <1>3, SetInduction
<1>5. \A n \in 0 .. Len(b) : Follows(b, f[n], n)
  BY <1>0, <1>4 DEF S
<1> QED
  BY <1>1, <1>5 DEF Reading

\* One more byte of a reading.
LEMMA ReadingNext ==
  ASSUME NEW b \in Seq(Bytes), NEW f, Reading(b, f), NEW n \in Nat, n + 1 <= Len(b)
  PROVE  /\ f[n + 1] = See(f[n], b[n + 1]) /\ b[n + 1] \in Bytes
         /\ Proper(f[n]) /\ Follows(b, f[n], n) /\ f[n] \in Readers
         /\ Proper(f[n + 1]) /\ Follows(b, f[n + 1], n + 1) /\ f[n + 1] \in Readers
<1>1. /\ n + 1 \in 1 .. Len(b) /\ (n + 1) - 1 = n
      /\ n \in 0 .. Len(b) /\ n + 1 \in 0 .. Len(b)
  OBVIOUS
<1>2. b[n + 1] \in Bytes
  BY <1>1
<1>3. f[n + 1] = See(f[n], b[n + 1])
  BY <1>1 DEF Reading
<1>4. /\ Proper(f[n]) /\ Follows(b, f[n], n)
      /\ Proper(f[n + 1]) /\ Follows(b, f[n + 1], n + 1)
  BY <1>1 DEF Reading
<1> QED
  BY <1>2, <1>3, <1>4 DEF Proper

\* Between q and r nothing ended, and w bytes went into the piece.
Takes(q, r, w) == r.pieces = q.pieces /\ Len(r.piece) = Len(q.piece) + w

\* A reader that goes on takes one byte.
LEMMA GoesTakes ==
  ASSUME NEW q \in Readers, NEW c \in Bytes, NEW mode, NEW seen, NEW solid
  PROVE  Takes(q, Goes(q, c, mode, seen, solid), 1)
<1> DEFINE t == Goes(q, c, mode, seen, solid)
<1>1. t.piece = Append(q.piece, c) /\ t.pieces = q.pieces
  BY GoesFields
<1>2. q.piece \in Seq(Bytes)
  BY ReaderParts
<1> HIDE DEF t
<1>3. Len(t.piece) = Len(q.piece) + 1
  BY <1>1, <1>2
<1>4. Takes(q, t, 1)
  BY <1>1, <1>3 DEF Takes
<1> QED
  BY <1>4 DEF t

\* Takes of two steps add up.
LEMMA TakesTwo ==
  ASSUME NEW q \in Readers, NEW r \in Readers, NEW t \in Readers, NEW v \in Nat, NEW w \in Nat,
         Takes(q, r, v), Takes(r, t, w)
  PROVE  Takes(q, t, v + w)
<1>1. q.piece \in Seq(Bytes) /\ r.piece \in Seq(Bytes) /\ t.piece \in Seq(Bytes)
  BY ReaderParts
<1>2. Len(q.piece) \in Nat
  BY <1>1
<1>3. /\ Len(r.piece) = Len(q.piece) + v /\ Len(t.piece) = Len(r.piece) + w
      /\ r.pieces = q.pieces /\ t.pieces = r.pieces
  BY DEF Takes
<1> DEFINE x == Len(q.piece)
           y == Len(r.piece)
           z == Len(t.piece)
<1>4. x \in Nat /\ y = x + v /\ z = y + w
  BY <1>2, <1>3
<1> HIDE DEF x, y, z
<1>5. z = x + (v + w)
  BY <1>4
<1> QED
  BY <1>3, <1>5 DEF Takes, x, y, z

\* Nothing that is seen becomes whole with the next byte, or with more that follow.
Clear(b, n, seen) ==
  /\ n < Len(b) => /\ seen = <<"-">> => b[n + 1] # "-"
                   /\ seen = <<"/">> => b[n + 1] # "*"
  /\ Opens(seen) => dollar_quote_delimiter(b, n + 1 - Len(seen)) = <<>>

\* A word that opens no dollar quote opens none with one more byte.
LEMMA WordGoesOn ==
  ASSUME NEW b \in Seq(Bytes), NEW n \in Nat, n + 1 <= Len(b), NEW seen \in Seq(Bytes),
         Opens(seen) => dollar_quote_delimiter(b, n + 1 - Len(seen)) = <<>>,
         b[n + 1] = "$" => dollar_quote_delimiter(b, n + 1) = <<>>,
         Opens(SeenAfter(seen, b[n + 1]))
  PROVE  dollar_quote_delimiter(b, (n + 1) + 1 - Len(SeenAfter(seen, b[n + 1]))) = <<>>
<1> DEFINE c == b[n + 1]
           w == SeenAfter(seen, c)
<1>1. c \in Bytes /\ n + 1 \in 1 .. Len(b)
  OBVIOUS
<1>2. CASE w = <<c>>
  <2>1. w # <<>> /\ w[1] = "$"
    BY DEF Opens
  <2>2. Len(w) = 1 /\ c = "$"
    BY <1>2, <2>1
  <2>3. (n + 1) + 1 - Len(w) = n + 1
    BY <2>2
  <2> QED  BY <2>2, <2>3
<1>3. CASE w = <<>>
  BY <1>3 DEF Opens
<1>4. CASE w = Append(seen, c) /\ seen # <<>>
  <2>1. /\ Len(w) = Len(seen) + 1 /\ Len(seen) >= 1 /\ Len(seen) \in Nat
        /\ \A k \in 1 .. Len(seen) : w[k] = seen[k]
    BY <1>1, <1>4
  <2> HIDE DEF w
  <2>2. /\ w[1] = "$" /\ (\A k \in 2 .. Len(w) : w[k] # "$")
        /\ (Len(w) = 1 \/ is_identifier_start(w[2]))
    BY DEF Opens, w
  <2>3. seen[1] = "$"
    BY <2>1, <2>2
  <2>4. \A k \in 2 .. Len(seen) : seen[k] # "$"
    BY <2>1, <2>2
  <2>5. Len(seen) = 1 \/ is_identifier_start(seen[2])
    <3> DEFINE l == Len(seen)
    <3>1. ASSUME l >= 2 PROVE is_identifier_start(seen[2])
      <4>1. w[2] = seen[2] /\ Len(w) # 1
        BY <2>1, <3>1
      <4> QED  BY <2>2, <4>1
    <3>2. l \in Nat /\ l >= 1
      BY <2>1
    <3> HIDE DEF l
    <3>3. l = 1 \/ is_identifier_start(seen[2])
      BY <3>1, <3>2
    <3> QED  BY <3>3 DEF l
  <2>6. Opens(seen)
    BY <1>4, <2>3, <2>4, <2>5 DEF Opens
  <2>7. (n + 1) + 1 - Len(w) = n + 1 - Len(seen)
    BY <2>1
  <2> QED  BY <2>6, <2>7 DEF w
<1>5. w = <<c>> \/ w = <<>> \/ (w = Append(seen, c) /\ seen # <<>>)
  <2>1. seen = <<>> => Append(seen, c) = <<c>>
    OBVIOUS
  <2> QED  BY <2>1 DEF SeenAfter
<1> QED
  BY <1>2, <1>3, <1>4, <1>5

\* The reader is not about to see a dollar quote that the scanner did not open.
LEMMA NothingOpens ==
  ASSUME NEW b \in Seq(Bytes), NEW n \in Nat, n + 1 <= Len(b), NEW seen \in Seq(Bytes),
         IsWord(seen), LastRead(b, seen, n), WholeWord(b, seen, n),
         Opens(seen), dollar_quote_delimiter(b, n + 1 - Len(seen)) = <<>>
  PROVE  b[n + 1] # "$"
<1> SUFFICES ASSUME b[n + 1] = "$" PROVE FALSE
  OBVIOUS
<1> DEFINE i == n + 1 - Len(seen)
<1>1. /\ Len(seen) \in 1 .. n
      /\ \A k \in 1 .. Len(seen) : seen[k] = b[n - Len(seen) + k]
  <2>1. n \in 0 .. Len(b)
    OBVIOUS
  <2>2. Len(seen) # 0
    BY DEF Opens
  <2> QED  BY <2>1, <2>2, LastReadAt
<1>2. i \in 1 .. Len(b) /\ n + 1 \in i + 1 .. Len(b) /\ i \in Int
  BY <1>1
<1>3. \A j \in i .. n : j - i + 1 \in 1 .. Len(seen) /\ b[j] = seen[j - i + 1]
  <2> TAKE j \in i .. n
  <2>1. j - i + 1 \in 1 .. Len(seen) /\ n - Len(seen) + (j - i + 1) = j
    BY <1>1, <1>2
  <2> QED  BY <1>1, <2>1
<1>4. /\ \A k \in 2 .. Len(seen) : seen[k] # "$"
      /\ Len(seen) = 1 \/ is_identifier_start(seen[2])
  BY DEF Opens
<1> HIDE DEF i
<1>5. ASSUME NEW j \in i + 1 .. (n + 1) - 1
      PROVE  is_identifier_continue(b[j]) /\ b[j] # "$"
  <2>1. j \in i .. n /\ j - i + 1 \in 2 .. Len(seen) /\ j - i + 1 \in 1 .. Len(seen)
    BY <1>1, <1>2 DEF i
  <2>2. b[j] = seen[j - i + 1]
    BY <1>3, <2>1
  <2> QED  BY <1>4, <2>1, <2>2 DEF IsWord
<1>6. n + 1 = i + 1 \/ is_identifier_start(b[i + 1])
  <2>1. CASE Len(seen) = 1
    BY <2>1 DEF i
  <2>2. CASE Len(seen) # 1
    <3>0. i + 1 <= n
      <4> DEFINE l == Len(seen)
      <4>1. l \in 1 .. n /\ l # 1 /\ i = n + 1 - l
        BY <1>1, <2>2 DEF i
      <4> HIDE DEF l
      <4> QED  BY <4>1
    <3>1. i + 1 \in i .. n /\ (i + 1) - i + 1 = 2
      BY <1>2, <3>0
    <3>2. b[i + 1] = seen[2]
      BY <1>3, <3>1
    <3> QED  BY <1>4, <2>2, <3>2
  <2> QED  BY <2>1, <2>2
<1>7. Delimits(b, i, n + 1)
  BY <1>2, <1>5, <1>6 DEF Delimits
<1>8. ~(i > 1 /\ is_identifier_continue(b[i - 1]))
  <2>1. ~ClosesTag(seen)
    BY <1>4 DEF ClosesTag
  <2>2. i - 1 = n - Len(seen) /\ (Len(seen) = n => i = 1)
    BY <1>1 DEF i
  <2> QED  BY <2>1, <2>2 DEF WholeWord
<1>9. dollar_quote_delimiter(b, i) = <<>>
  BY DEF i
<1> QED
  BY <1>2, <1>7, <1>8, <1>9, DelimiterMissing

\* The scanner looks back for the e of an escape string; the reader has seen it.
LEMMA EscapePrefix ==
  ASSUME NEW b \in Seq(Bytes), NEW n \in Nat, n + 1 <= Len(b), NEW seen \in Seq(Bytes),
         seen \in Halves \/ (IsWord(seen) /\ WholeWord(b, seen, n)), LastRead(b, seen, n)
  PROVE  is_escape_string_prefix(b, n + 1) <=> seen = <<"e">>
<1> DEFINE prefix == is_escape_string_prefix(b, n + 1)
<1>1. prefix <=> n > 0 /\ b[n] = "e" /\ (n = 1 \/ ~is_identifier_continue(b[n - 1]))
  <2>1. (n + 1) - 1 = n /\ (n + 1) - 2 = n - 1 /\ (n + 1 > 1 <=> n > 0) /\ (n + 1 = 2 <=> n = 1)
    OBVIOUS
  <2> QED  BY <2>1 DEF is_escape_string_prefix
<1>2. /\ Len(seen) \in 0 .. n
      /\ \A k \in 1 .. Len(seen) : seen[k] = b[n - Len(seen) + k]
  BY LastReadAt
<1>3. is_identifier_continue("e") /\ ~is_identifier_continue("-") /\ ~is_identifier_continue("/")
  BY Identifiers
<1> HIDE DEF prefix
<1>4. ASSUME seen = <<"e">> PROVE prefix
  <2>1. Len(seen) = 1 /\ seen[1] = "e"
    BY <1>4
  <2>2. n - Len(seen) + 1 = n /\ 1 \in 1 .. Len(seen) /\ n > 0
    BY <1>2, <2>1
  <2>3. b[n] = "e"
    BY <1>2, <2>1, <2>2
  <2>4. seen \notin Halves
    BY <2>1 DEF Halves
  <2>5. ~ClosesTag(seen)
    BY <2>1 DEF ClosesTag
  <2>6. n = 1 \/ ~is_identifier_continue(b[n - 1])
    BY <2>1, <2>4, <2>5 DEF WholeWord
  <2> QED  BY <1>1, <2>2, <2>3, <2>6
<1>5. ASSUME prefix PROVE seen = <<"e">>
  <2>1. n > 0 /\ b[n] = "e" /\ (n = 1 \/ ~is_identifier_continue(b[n - 1]))
    BY <1>1, <1>5
  <2>2. Len(seen) >= 1 => seen[Len(seen)] = b[n]
    BY <1>2
  <2>3. seen \notin Halves
    <3> SUFFICES ASSUME seen \in Halves PROVE FALSE
      OBVIOUS
    <3>1. Len(seen) = 1 /\ seen[1] \in {"-", "/"}
      BY DEF Halves
    <3> QED  BY <1>3, <2>1, <2>2, <3>1
  <2>4. Len(seen) # 0
    <3> SUFFICES ASSUME Len(seen) = 0 PROVE FALSE
      OBVIOUS
    <3>1. n - Len(seen) = n /\ ~ClosesTag(seen)
      BY DEF ClosesTag
    <3> QED  BY <1>3, <2>1, <2>3, <3>1 DEF WholeWord
  <2>5. ~(Len(seen) >= 2)
    <3> SUFFICES ASSUME Len(seen) >= 2 PROVE FALSE
      OBVIOUS
    <3>1. Len(seen) - 1 \in 1 .. Len(seen) /\ n - Len(seen) + (Len(seen) - 1) = n - 1 /\ n # 1
      BY <1>2
    <3>2. seen[Len(seen) - 1] = b[n - 1]
      BY <1>2, <3>1
    <3> QED  BY <2>1, <2>3, <3>1, <3>2 DEF IsWord
  <2>6. Len(seen) = 1
    <3> DEFINE l == Len(seen)
    <3>1. l \in Nat /\ l # 0 /\ ~(l >= 2)
      BY <1>2, <2>4, <2>5
    <3> HIDE DEF l
    <3>2. l = 1
      BY <3>1
    <3> QED  BY <3>2 DEF l
  <2>7. seen[1] = "e"
    BY <2>1, <2>2, <2>6
  <2> QED  BY <2>6, <2>7
<1> QED
  BY <1>4, <1>5 DEF prefix

\* The length, the type and the items of a part of a sequence.
LEMMA Part ==
  ASSUME NEW S, NEW b \in Seq(S), NEW m \in Nat, NEW n \in Nat,
         1 <= m, m <= n + 1, n <= Len(b)
  PROVE  /\ SubSeq(b, m, n) \in Seq(S) /\ Len(SubSeq(b, m, n)) = n + 1 - m
         /\ \A k \in 1 .. n + 1 - m : SubSeq(b, m, n)[k] = b[m + k - 1]
<1>1. /\ \A i \in m .. n : b[i] \in S
      /\ m \in Int /\ n \in Int /\ n - m + 1 = n + 1 - m /\ (~(m <= n) => n + 1 - m = 0)
  OBVIOUS
<1> DEFINE s == SubSeq(b, m, n)
<1>2. /\ s \in Seq(S) /\ Len(s) = IF m <= n THEN n - m + 1 ELSE 0
      /\ \A i \in 1 .. n - m + 1 : s[i] = b[m + i - 1]
  BY <1>1, SubSeqProperties
<1> HIDE DEF s
<1>3. s \in Seq(S) /\ Len(s) = n + 1 - m
  BY <1>1, <1>2
<1>4. \A k \in 1 .. n + 1 - m : s[k] = b[m + k - 1]
  BY <1>1, <1>2
<1> QED
  BY <1>3, <1>4 DEF s

\* The byte after n, when there is one.
LEMMA ByteAt ==
  ASSUME NEW b \in Seq(Bytes), NEW n \in Nat, n + 1 <= Len(b)
  PROVE  /\ b[n + 1] \in Bytes /\ n + 1 \in 1 .. Len(b) /\ n < Len(b)
         /\ n \in 0 .. Len(b) /\ Len(b) \in Nat
<1>1. Len(b) \in Nat
  OBVIOUS
<1>2. n + 1 \in 1 .. Len(b)
  BY <1>1
<1> QED
  BY <1>1, <1>2

\* The reader in normal text, with what a closing quote leaves open settled.
Stands(b, f, n, q) ==
  /\ Proper(q) /\ Follows(b, q, n) /\ q.mode = Normal
  /\ q.piece = f[n].piece /\ q.pieces = f[n].pieces
  /\ f[n + 1] = See(q, b[n + 1])

\* What is known of a reader that stands for f at n.
LEMMA StandsParts ==
  ASSUME NEW b, NEW f, NEW n, NEW q, Stands(b, f, n, q)
  PROVE  /\ q \in Readers /\ q.mode = Normal /\ q.mode.kind = "normal" /\ q.seen \in Seq(Bytes)
         /\ q.seen \in Halves \/ (IsWord(q.seen) /\ WholeWord(b, q.seen, n))
         /\ LastRead(b, q.seen, n)
         /\ \A r, w : Takes(q, r, w) <=> Takes(f[n], r, w)
<1>1. /\ q \in Readers /\ q.mode = Normal /\ q.mode.kind = "normal" /\ q.seen \in Seq(Bytes)
      /\ LastRead(b, q.seen, n)
      /\ q.seen \notin Halves => WholeWord(b, q.seen, n)
      /\ q.piece = f[n].piece /\ q.pieces = f[n].pieces
  BY ModeFields, ReaderParts DEF Stands, Proper, Follows
<1>2. q.seen \in Halves \/ IsWord(q.seen)
  BY <1>1, KindsOfFits DEF Stands, Proper
<1>3. \A r, w : Takes(q, r, w) <=> Takes(f[n], r, w)
  BY <1>1 DEF Takes
<1> QED
  BY <1>1, <1>2, <1>3

\* A byte that opens nothing.
LEMMA PlainByte ==
  ASSUME NEW b \in Seq(Bytes), NEW f, NEW n \in Nat, n + 1 <= Len(b), NEW q,
         Stands(b, f, n, q), Clear(b, n, q.seen),
         b[n + 1] \notin {"semi", "'", "dq"},
         b[n + 1] = "$" => dollar_quote_delimiter(b, n + 1) = <<>>
  PROVE  LET seen == SeenAfter(q.seen, b[n + 1])
             r    == f[n + 1]
         IN
         /\ r.mode = Normal /\ r.seen = seen /\ Takes(f[n], r, 1)
         /\ r.solid <=> q.solid \/ b[n + 1] \notin Space \cup {"-", "/"} \/ q.seen \in Halves
         /\ Opens(seen) => dollar_quote_delimiter(b, (n + 1) + 1 - Len(seen)) = <<>>
<1> DEFINE c == b[n + 1]
           seen == SeenAfter(q.seen, c)
           solid == q.solid \/ c \notin Space \cup {"-", "/"} \/ q.seen \in Halves
           r == Goes(q, c, Normal, seen, solid)
<1>1. /\ q \in Readers /\ q.mode.kind = "normal" /\ q.seen \in Seq(Bytes)
      /\ q.seen \in Halves \/ (IsWord(q.seen) /\ WholeWord(b, q.seen, n))
      /\ LastRead(b, q.seen, n)
      /\ \A t, w : Takes(q, t, w) <=> Takes(f[n], t, w)
  BY StandsParts
<1>2. c \in Bytes /\ n < Len(b) /\ n + 1 \in 1 .. Len(b)
  BY ByteAt
<1>3. /\ c = "-" => q.seen # <<"-">>
      /\ c = "*" => q.seen # <<"/">>
      /\ Opens(q.seen) => dollar_quote_delimiter(b, n + 1 - Len(q.seen)) = <<>>
  BY <1>2 DEF Clear
<1>4. c = "$" => ~Opens(q.seen)
  <2> SUFFICES ASSUME c = "$", Opens(q.seen) PROVE FALSE
    OBVIOUS
  <2>1. Len(q.seen) # 0 /\ q.seen[1] = "$"
    BY <1>1 DEF Opens
  <2>2. q.seen \notin Halves
    BY <2>1 DEF Halves
  <2> QED  BY <1>1, <1>3, <2>2, NothingOpens
<1>5. c \notin {"semi", "'", "dq"}
  OBVIOUS
<1>6. Opens(seen) => dollar_quote_delimiter(b, (n + 1) + 1 - Len(seen)) = <<>>
  BY <1>1, <1>3, WordGoesOn
<1>7. See(q, c) = r
  <2> HIDE DEF c
  <2> QED  BY <1>1, <1>3, <1>4, <1>5, SeesNormal, Zenon
<1>8. f[n + 1] = r
  BY <1>7 DEF Stands
<1>9. r.mode = Normal /\ r.seen = seen /\ r.solid = solid
  <2> HIDE DEF seen, c
  <2> QED  BY DEF Goes, Reader
<1>10. Takes(q, r, 1)
  BY <1>1, <1>2, GoesTakes
<1> HIDE DEF r
<1>11. Takes(f[n], r, 1)
  BY <1>1, <1>10
<1> QED
  BY <1>6, <1>8, <1>9, <1>11

\* The bytes of a delimiter, one by one.
LEMMA OpensDollar ==
  ASSUME NEW b \in Seq(Bytes), NEW f, Reading(b, f), NEW n \in Nat, n + 1 <= Len(b), NEW q,
         Stands(b, f, n, q), Clear(b, n, q.seen), b[n + 1] = "$",
         NEW k \in n + 2 .. Len(b), Delimits(b, n + 1, k),
         ~(n + 1 > 1 /\ is_identifier_continue(b[n]))
  PROVE  /\ f[k].mode = Dollar(SubSeq(b, n + 1, k)) /\ f[k].seen = <<>>
         /\ Takes(f[n], f[k], k - n) /\ SubSeq(b, n + 1, k) \in Tags
<1> DEFINE word(m) == SubSeq(b, n + 1, m)
           Along(m) == /\ f[m].mode = Normal /\ f[m].seen = word(m)
                       /\ Takes(f[n], f[m], m - n)
<1>0. /\ Len(b) \in Nat /\ k \in Nat /\ n + 1 \in 1 .. Len(b) /\ b[k] = "$"
      /\ \A j \in n + 2 .. k - 1 : is_identifier_continue(b[j]) /\ b[j] # "$"
      /\ k = n + 2 \/ is_identifier_start(b[n + 2])
  <2>1. (n + 1) + 1 = n + 2
    OBVIOUS
  <2> QED  BY <2>1 DEF Delimits
<1>1. ASSUME NEW m \in n + 1 .. k
      PROVE  /\ word(m) \in Seq(Bytes) /\ Len(word(m)) = m - n /\ word(m)[1] = "$"
             /\ \A j \in 1 .. m - n : word(m)[j] = b[n + j]
             /\ m \in 1 .. Len(b)
  <2>1. /\ n + 1 \in Nat /\ m \in Nat /\ 1 <= n + 1 /\ n + 1 <= m + 1 /\ m <= Len(b)
        /\ m + 1 - (n + 1) = m - n
    BY <1>0
  <2>2. 1 \in 1 .. m - n /\ m \in 1 .. Len(b)
    BY <1>0
  <2> DEFINE s == SubSeq(b, n + 1, m)
  <2>4. /\ s \in Seq(Bytes) /\ Len(s) = m + 1 - (n + 1)
        /\ \A j \in 1 .. m + 1 - (n + 1) : s[j] = b[(n + 1) + j - 1]
    BY <2>1, Part
  <2> HIDE DEF s
  <2>5. Len(s) = m - n /\ \A j \in 1 .. m - n : s[j] = b[(n + 1) + j - 1]
    BY <2>1, <2>4
  <2>3. /\ word(m) \in Seq(Bytes) /\ Len(word(m)) = m - n
        /\ \A j \in 1 .. m - n : word(m)[j] = b[(n + 1) + j - 1]
    BY <2>4, <2>5 DEF s
  <2>6. \A j \in 1 .. m - n : (n + 1) + j - 1 = n + j
    OBVIOUS
  <2> QED  BY <2>2, <2>3, <2>6
<1>2. Along(n + 1)
  <2>1. /\ q \in Readers /\ q.mode.kind = "normal" /\ q.seen \in Seq(Bytes)
        /\ q.seen \in Halves \/ (IsWord(q.seen) /\ WholeWord(b, q.seen, n))
        /\ LastRead(b, q.seen, n)
        /\ \A t, w : Takes(q, t, w) <=> Takes(f[n], t, w)
    BY StandsParts
  <2>2. /\ Len(q.seen) \in 0 .. n
        /\ \A j \in 1 .. Len(q.seen) : q.seen[j] = b[n - Len(q.seen) + j]
    <3>1. n \in 0 .. Len(b)
      BY <1>0
    <3> QED  BY <2>1, <3>1, LastReadAt
  <2>3. q.seen \in Halves \/ q.seen = <<>>
    <3> SUFFICES ASSUME q.seen \notin Halves, q.seen # <<>> PROVE FALSE
      OBVIOUS
    <3>1. Len(q.seen) \in 1 .. n
      BY <2>1, <2>2
    <3>2. Len(q.seen) \in 1 .. Len(q.seen) /\ n - Len(q.seen) + Len(q.seen) = n /\ n > 0
      BY <3>1
    <3>3. q.seen[Len(q.seen)] = b[n]
      BY <2>2, <3>2
    <3>4. is_identifier_continue(q.seen[Len(q.seen)])
      BY <2>1, <3>2 DEF IsWord
    <3>5. n + 1 > 1
      BY <3>2
    <3> QED  BY <3>3, <3>4, <3>5
  <2>4. SeenAfter(q.seen, "$") = <<"$">>
    <3>1. is_identifier_continue("$") /\ Append(<<>>, "$") = <<"$">>
      BY Identifiers
    <3> QED  BY <2>3, <3>1, Zenon DEF SeenAfter
  <2>5. ~Opens(q.seen)
    <3>1. q.seen # <<>> => q.seen[1] # "$"
      BY <2>3 DEF Halves
    <3> QED  BY <3>1 DEF Opens
  <2> DEFINE solid == q.solid \/ b[n + 1] \notin Space \cup {"-", "/"} \/ q.seen \in Halves
             r == Goes(q, b[n + 1], Normal, SeenAfter(q.seen, b[n + 1]), solid)
  <2>6. See(q, b[n + 1]) = r
    <3>1. b[n + 1] \notin {"semi", "'", "dq"} /\ b[n + 1] # "-" /\ b[n + 1] # "*"
      OBVIOUS
    <3> QED  BY <2>1, <2>5, <3>1, SeesNormal, Zenon
  <2>7. f[n + 1] = r
    BY <2>6 DEF Stands
  <2>8. r.mode = Normal /\ r.seen = <<"$">>
    <3>1. r.mode = Normal /\ r.seen = SeenAfter(q.seen, b[n + 1])
      BY GoesFields
    <3> HIDE DEF r
    <3> QED  BY <2>4, <3>1
  <2>9. Takes(q, r, 1)
    BY <1>0, <2>1, GoesTakes
  <2> HIDE DEF r
  <2>10. word(n + 1) = <<"$">>
    <3>1. n + 1 \in n + 1 .. k /\ (n + 1) - n = 1
      BY <1>0
    <3>2. word(n + 1) \in Seq(Bytes) /\ Len(word(n + 1)) = 1 /\ word(n + 1)[1] = "$"
      BY <1>1, <3>1
    <3> HIDE DEF word
    <3> QED  BY <3>2
  <2>11. Takes(f[n], r, 1) /\ (n + 1) - n = 1
    BY <2>1, <2>9
  <2> QED  BY <2>7, <2>8, <2>10, <2>11
<1>3. ASSUME NEW m \in n + 1 .. k - 1, Along(m)
      PROVE  /\ m + 1 < k => Along(m + 1)
             /\ m + 1 = k => /\ f[k].mode = Dollar(word(k)) /\ f[k].seen = <<>>
                             /\ Takes(f[n], f[k], k - n)
  <2> DEFINE c == b[m + 1]
             r == f[m]
  <2>1. /\ m \in Nat /\ m + 1 <= Len(b) /\ m \in n + 1 .. k /\ m + 1 \in n + 1 .. k
        /\ m + 1 \in 1 .. Len(b) /\ n \in 0 .. Len(b) /\ n <= Len(b)
    BY <1>0
  <2>2. f[m + 1] = See(r, c) /\ c \in Bytes /\ r \in Readers /\ f[m + 1] \in Readers
    BY <2>1, ReadingNext
  <2>3. r.mode.kind = "normal" /\ r.mode = Normal /\ r.seen = word(m) /\ Takes(f[n], r, m - n)
    BY <1>3, ModeFields
  <2>4. /\ word(m) \in Seq(Bytes) /\ Len(word(m)) = m - n /\ word(m)[1] = "$"
        /\ \A j \in 1 .. m - n : word(m)[j] = b[n + j]
    BY <1>1, <2>1
  <2>5. Append(word(m), c) = word(m + 1)
    <3>1. /\ word(m + 1) \in Seq(Bytes) /\ Len(word(m + 1)) = (m + 1) - n
          /\ \A j \in 1 .. (m + 1) - n : word(m + 1)[j] = b[n + j]
      BY <1>1, <2>1
    <3> DEFINE v == word(m)
               s == Append(v, c)
               t == word(m + 1)
    <3>2. /\ s \in Seq(Bytes) /\ Len(s) = Len(v) + 1 /\ s[Len(v) + 1] = c
          /\ \A j \in 1 .. Len(v) : s[j] = v[j]
      <4>1. v \in Seq(Bytes) /\ c \in Bytes
        BY <2>2, <2>4
      <4> HIDE DEF v, c
      <4> QED  BY <4>1
    <3>3. Len(v) = m - n /\ \A j \in 1 .. m - n : v[j] = b[n + j]
      BY <2>4
    <3>4. t \in Seq(Bytes) /\ Len(t) = m + 1 - n /\ \A j \in 1 .. m + 1 - n : t[j] = b[n + j]
      BY <3>1
    <3> HIDE DEF s, t, v
    <3>5. ASSUME NEW j \in 1 .. Len(s) PROVE s[j] = t[j]
      <4>1. j \in 1 .. m + 1 - n
        BY <2>1, <3>2, <3>3, <3>5
      <4>2. CASE j <= m - n
        <5>1. j \in 1 .. m - n /\ j \in 1 .. Len(v)
          BY <2>1, <3>3, <4>1, <4>2
        <5> QED  BY <3>2, <3>3, <3>4, <4>1, <5>1
      <4>3. CASE ~(j <= m - n)
        <5>1. j = m + 1 - n /\ j = Len(v) + 1 /\ n + j = m + 1
          BY <2>1, <3>3, <4>1, <4>3
        <5> QED  BY <3>2, <3>4, <4>1, <5>1
      <4> QED  BY <4>2, <4>3
    <3>6. Len(s) = Len(t)
      BY <2>1, <3>2, <3>3, <3>4
    <3>7. s = t
      BY <3>2, <3>4, <3>5, <3>6, SeqEqual, Zenon
    <3> QED  BY <3>7 DEF s, t, v
  <2> HIDE DEF word
  <2>6. (m - n) + 1 = (m + 1) - n /\ m - n \in Nat /\ 1 \in Nat
    BY <2>1
  <2>7. f[n] \in Readers
    <3>1. n \in 0 .. Len(b)
      BY <2>1
    <3> QED  BY <3>1 DEF Reading, Proper
  <2>8. ASSUME NEW mode, NEW seen, NEW solid, f[m + 1] = Goes(r, c, mode, seen, solid)
        PROVE  /\ f[m + 1].mode = mode /\ f[m + 1].seen = seen
               /\ Takes(f[n], f[m + 1], (m + 1) - n)
    <3> DEFINE t == Goes(r, c, mode, seen, solid)
    <3>1. t.mode = mode /\ t.seen = seen
      BY GoesFields
    <3>2. Takes(r, t, 1)
      BY <2>2, GoesTakes
    <3> HIDE DEF t
    <3>3. t = f[m + 1]
      BY <2>8 DEF t
    <3>4. Takes(f[n], f[m + 1], (m - n) + 1)
      BY <2>2, <2>3, <2>6, <2>7, <3>2, <3>3, TakesTwo, ZenonT(30)
    <3> QED  BY <2>6, <3>1, <3>3, <3>4
  <2>9. ASSUME m + 1 < k PROVE Along(m + 1)
    <3>1. m + 1 \in n + 2 .. k - 1
      BY <2>1, <2>9
    <3>2. is_identifier_continue(c) /\ c # "$"
      BY <1>0, <3>1
    <3>3. c \notin {"semi", "'", "dq"} /\ c # "-" /\ c # "*"
      BY <3>2, Identifiers
    <3>4. word(m) \notin Halves
      BY <2>4 DEF Halves
    <3>5. SeenAfter(word(m), c) = word(m + 1)
      BY <2>5, <3>2, <3>4, Zenon DEF SeenAfter
    <3> DEFINE solid == r.solid \/ c \notin Space \cup {"-", "/"} \/ r.seen \in Halves
    <3>6. See(r, c) = Goes(r, c, Normal, SeenAfter(r.seen, c), solid)
      <4> HIDE DEF c, r
      <4> QED  BY <2>3, <3>2, <3>3, SeesNormal, Zenon
    <3> HIDE DEF solid
    <3>7. f[m + 1] = Goes(r, c, Normal, word(m + 1), solid)
      BY <2>2, <2>3, <3>5, <3>6
    <3> QED  BY <2>8, <3>7
  <2>10. ASSUME m + 1 = k
         PROVE  /\ f[k].mode = Dollar(word(k)) /\ f[k].seen = <<>>
                /\ Takes(f[n], f[k], k - n)
    <3>1. c = "$"
      BY <1>0, <2>10
    <3>2. Opens(word(m))
      <4>1. Len(word(m)) # 0
        BY <2>1, <2>4
      <4>2. ASSUME NEW j \in 2 .. Len(word(m)) PROVE word(m)[j] # "$"
        <5>1. j \in 1 .. m - n /\ n + j \in n + 2 .. k - 1
          BY <2>1, <2>4, <4>2
        <5> QED  BY <1>0, <2>4, <5>1
      <4>3. Len(word(m)) = 1 \/ is_identifier_start(word(m)[2])
        <5>1. CASE k = n + 2
          BY <2>1, <2>4, <2>10, <5>1
        <5>2. CASE k # n + 2
          <6>1. 2 \in 1 .. m - n
            BY <2>1, <2>10, <5>2
          <6> QED  BY <1>0, <2>4, <5>2, <6>1
        <5> QED  BY <5>1, <5>2
      <4>4. word(m) # <<>>
        BY <4>1
      <4> QED  BY <2>4, <4>2, <4>3, <4>4 DEF Opens
    <3>3. See(r, c) = Goes(r, c, Dollar(Append(r.seen, c)), <<>>, TRUE)
      <4> HIDE DEF c, r
      <4> QED  BY <2>3, <3>1, <3>2, SeesNormal, Zenon
    <3>4. f[m + 1] = Goes(r, c, Dollar(word(m + 1)), <<>>, TRUE)
      BY <2>2, <2>3, <2>5, <3>3
    <3> QED  BY <2>8, <2>10, <3>4
  <2> QED  BY <2>9, <2>10
<1> DEFINE S == {j \in Nat : n + 1 + j < k => Along(n + 1 + j)}
<1>4. Nat \subseteq S
  <2>1. 0 \in S
    <3>1. n + 1 + 0 = n + 1
      OBVIOUS
    <3> QED  BY <1>2, <3>1
  <2>2. ASSUME NEW j \in Nat, j \in S PROVE j + 1 \in S
    <3> SUFFICES ASSUME n + 1 + (j + 1) < k PROVE Along(n + 1 + (j + 1))
      OBVIOUS
    <3> DEFINE m == n + 1 + j
    <3>1. m \in n + 1 .. k - 1 /\ m < k /\ m + 1 < k /\ m + 1 = n + 1 + (j + 1)
      BY <1>0
    <3>2. Along(m)
      BY <2>2, <3>1
    <3> HIDE DEF m, Along
    <3>3. Along(m + 1)
      BY <1>3, <3>1, <3>2
    <3> QED  BY <3>1, <3>3
  <2> HIDE DEF S
  <2> QED  BY <2>1, <2>2, SetInduction
<1>5. Along(k - 1)
  <2> DEFINE j == k - 1 - (n + 1)
  <2>1. j \in Nat /\ n + 1 + j = k - 1 /\ k - 1 < k
    BY <1>0
  <2> HIDE DEF j, Along
  <2> QED  BY <1>4, <2>1
<1>6. SubSeq(b, n + 1, k) \in Tags
  <2> DEFINE t == word(k)
  <2>1. k \in n + 1 .. k /\ k - n >= 2 /\ k - n \in Nat /\ n + (k - n) = k /\ k - n \in 1 .. k - n
    BY <1>0
  <2>2. /\ t \in Seq(Bytes) /\ Len(t) = k - n /\ t[1] = "$"
        /\ \A j \in 1 .. k - n : t[j] = b[n + j]
    BY <1>1, <2>1
  <2>3. t[Len(t)] = "$" /\ Len(t) >= 2
    BY <1>0, <2>1, <2>2
  <2>4. ASSUME NEW j \in 1 .. k - n PROVE is_identifier_continue(b[n + j])
    <3>1. CASE j = 1 \/ j = k - n
      <4>1. b[n + j] = "$"
        BY <1>0, <2>1, <3>1
      <4> QED  BY <4>1, Identifiers
    <3>2. CASE ~(j = 1 \/ j = k - n)
      <4>1. n + j \in n + 2 .. k - 1
        BY <1>0, <2>1, <3>2
      <4> QED  BY <1>0, <4>1
    <3> QED  BY <3>1, <3>2
  <2> HIDE DEF t
  <2>5. \A j \in 1 .. Len(t) : is_identifier_continue(t[j])
    BY <2>2, <2>4
  <2>6. t \in Tags
    BY <2>2, <2>3, <2>5 DEF Tags
  <2> QED  BY <2>6 DEF t
<1>7. k - 1 \in n + 1 .. k - 1 /\ (k - 1) + 1 = k
  BY <1>0
<1> HIDE DEF Along
<1> QED
  BY <1>3, <1>5, <1>6, <1>7

\* The scanner that has taken n bytes and the reader that has seen them agree.
MatchNormal(b, n, r) == r.mode = Normal /\ Clear(b, n, r.seen)
MatchClosed(b, n, r) ==
  /\ r.mode.kind \in Quoting /\ r.seen = <<QuoteOf(r.mode.kind)>>
  /\ n < Len(b) => b[n + 1] # QuoteOf(r.mode.kind)
MatchQuoted(b, n, s, r) ==
  /\ s.kind \in Quoting /\ r.mode = s
  /\ r.seen = <<>> \/ (n = Len(b) /\ r.seen = <<"bs">>)
MatchDollar(b, n, s, r) ==
  \E tag \in Tags : /\ s = Dollar(tag) /\ r.mode = s
                    /\ \A j \in n - Len(r.seen) + 1 .. n : ~At(b, j, tag)
MatchBlock(b, n, s, r) ==
  /\ \E depth \in Nat \ {0} : s = Block(depth)
  /\ r.mode = s
  /\ n < Len(b) => /\ r.seen = <<"/">> => b[n + 1] # "*"
                   /\ r.seen = <<"*">> => b[n + 1] # "/"
Match(b, n, s, r) ==
  \/ s = Normal /\ (MatchNormal(b, n, r) \/ MatchClosed(b, n, r))
  \/ MatchQuoted(b, n, s, r)
  \/ MatchDollar(b, n, s, r)
  \/ s = Lexical("line") /\ r.mode = s
  \/ MatchBlock(b, n, s, r)

\* What the scanner takes, the reader takes byte by byte, and they agree again.
Moves(b, f, n, next) ==
  /\ next.width \in 1 .. Len(b) - n
  /\ Match(b, n + next.width, next.state, f[n + next.width])
  /\ Takes(f[n], f[n + next.width], next.width)

\* The scanner moves by w bytes when the reader gets there too.
LEMMA MovesBy ==
  ASSUME NEW b, NEW f, NEW n \in Nat, NEW w \in Nat \ {0}, n + w <= Len(b), Len(b) \in Nat,
         NEW s, Match(b, n + w, s, f[n + w]), Takes(f[n], f[n + w], w)
  PROVE  Moves(b, f, n, To(s, w))
<1>1. To(s, w).state = s /\ To(s, w).width = w
  BY ToFields
<1>2. w \in 1 .. Len(b) - n
  OBVIOUS
<1> QED
  BY <1>1, <1>2 DEF Moves

\* What a reader is after a byte that goes into its piece.
LEMMA GoesTo ==
  ASSUME NEW q \in Readers, NEW c \in Bytes, NEW mode, NEW seen, NEW solid,
         NEW t, t = Goes(q, c, mode, seen, solid)
  PROVE  t.mode = mode /\ t.seen = seen /\ t.solid = solid /\ Takes(q, t, 1)
<1>1. Takes(q, t, 1)
  BY GoesTakes
<1>2. t.mode = mode /\ t.seen = seen /\ t.solid = solid
  BY DEF Goes, Reader
<1> QED
  BY <1>1, <1>2

\* The reader at a semicolon, and at the second byte of a comment mark.
LEMMA SeesMarks ==
  ASSUME NEW r, r.mode.kind = "normal"
  PROVE  /\ See(r, "semi") = Ends(r, "semi")
         /\ r.seen = <<"-">> => See(r, "-") = Goes(r, "-", Lexical("line"), <<>>, r.solid)
         /\ r.seen = <<"/">> => See(r, "*") = Goes(r, "*", Block(1), <<>>, r.solid)
<1>1. ASSUME NEW c, c = "semi" PROVE See(r, c) = Ends(r, c)
  BY <1>1, SeesNormal
<1>2. ASSUME NEW c, c = "-", r.seen = <<"-">>
      PROVE  See(r, c) = Goes(r, c, Lexical("line"), <<>>, r.solid)
  BY <1>2, SeesNormal
<1>3. ASSUME NEW c, c = "*", r.seen = <<"/">>
      PROVE  See(r, c) = Goes(r, c, Block(1), <<>>, r.solid)
  BY <1>3, SeesNormal
<1> QED
  BY <1>1, <1>2, <1>3

\* Nothing seen says nothing of what is next.
LEMMA EmptyClear ==
  ASSUME NEW b, NEW n
  PROVE  Clear(b, n, <<>>)
<1>1. <<>> # <<"-">> /\ <<>> # <<"/">> /\ ~Opens(<<>>)
  BY DEF Opens
<1> QED
  BY <1>1, Zenon DEF Clear

\* Scanner and reader end a statement at the same semicolon.
LEMMA NormalEnds ==
  ASSUME NEW b \in Seq(Bytes), NEW f, NEW n \in Nat, n + 1 <= Len(b), NEW q,
         Stands(b, f, n, q), b[n + 1] \in {"semi"}
  PROVE  /\ lexNext(b, n + 1, Normal) = To(Normal, 1)
         /\ f[n + 1] = Ends(f[n], "semi")
         /\ Match(b, n + 1, Normal, f[n + 1])
<1>1. /\ q.mode.kind = "normal"
      /\ f[n + 1] = See(q, "semi") /\ q.piece = f[n].piece /\ q.pieces = f[n].pieces
  BY StandsParts DEF Stands
<1>2. See(q, "semi") = Ends(q, "semi")
  BY <1>1, SeesMarks
<1>3. f[n + 1] = Ends(f[n], "semi")
  BY <1>1, <1>2 DEF Ends
<1>4. MatchNormal(b, n + 1, f[n + 1])
  <2>1. f[n + 1].mode = Normal /\ f[n + 1].seen = <<>>
    BY <1>3 DEF Ends, Reader
  <2> QED  BY <2>1, EmptyClear DEF MatchNormal
<1>5. n + 1 \in 1 .. Len(b)
  BY ByteAt
<1>6. lexNext(b, n + 1, Normal) = To(Normal, 1)
  BY <1>5, LexesNormal
<1> QED
  BY <1>3, <1>4, <1>6 DEF Match

\* Outside quotes and comments, what the scanner takes in one step the reader takes byte
\* by byte.
LEMMA NormalMoves ==
  ASSUME NEW b \in Seq(Bytes), NEW f, Reading(b, f), NEW n \in Nat, n + 1 <= Len(b), NEW q,
         Stands(b, f, n, q), Clear(b, n, q.seen), b[n + 1] \notin {"semi"}
  PROVE  Moves(b, f, n, lexNext(b, n + 1, Normal))
<1> DEFINE c == b[n + 1]
           r == f[n + 1]
           next == lexNext(b, n + 1, Normal)
           tag == dollar_quote_delimiter(b, n + 1)
<1>1. c \in Bytes /\ n + 1 \in 1 .. Len(b) /\ n < Len(b) /\ n \in 0 .. Len(b) /\ Len(b) \in Nat
  BY ByteAt
<1>2. /\ q \in Readers /\ q.mode.kind = "normal" /\ q.seen \in Seq(Bytes)
      /\ q.seen \in Halves \/ (IsWord(q.seen) /\ WholeWord(b, q.seen, n))
      /\ LastRead(b, q.seen, n)
      /\ \A t, w : Takes(q, t, w) <=> Takes(f[n], t, w)
  BY StandsParts
<1>3. /\ f[n] \in Readers /\ r \in Readers
  BY ReadingNext
<1>4. r = See(q, c)
  BY DEF Stands
<1>5. n + 1 < Len(b) =>
        /\ n + 2 <= Len(b) /\ n + 1 + 1 = n + 2
        /\ f[n + 2] = See(r, b[n + 2]) /\ f[n + 2] \in Readers /\ b[n + 2] \in Bytes
  <2> SUFFICES ASSUME n + 1 < Len(b)
               PROVE  /\ n + 2 <= Len(b) /\ n + 1 + 1 = n + 2
                      /\ f[n + 2] = See(r, b[n + 2]) /\ f[n + 2] \in Readers /\ b[n + 2] \in Bytes
    OBVIOUS
  <2>1. n + 1 \in Nat /\ (n + 1) + 1 <= Len(b) /\ (n + 1) + 1 = n + 2
    BY <1>1
  <2>2. f[(n + 1) + 1] = See(r, b[(n + 1) + 1]) /\ f[(n + 1) + 1] \in Readers
        /\ b[(n + 1) + 1] \in Bytes
    BY <2>1, ReadingNext
  <2> QED  BY <2>1, <2>2
<1>6. ASSUME NEW s, Match(b, n + 1, s, r), Takes(f[n], r, 1)
      PROVE  Moves(b, f, n, To(s, 1))
  BY <1>1, <1>6, MovesBy
<1>7. ASSUME NEW s, n + 1 < Len(b), Match(b, n + 2, s, f[n + 2]), Takes(f[n], r, 1),
             Takes(r, f[n + 2], 1)
      PROVE  Moves(b, f, n, To(s, 2))
  <2>1. Takes(f[n], f[n + 2], 1 + 1) /\ 1 + 1 = 2
    BY <1>3, <1>5, <1>7, TakesTwo
  <2>2. n + 2 <= Len(b)
    BY <1>5, <1>7
  <2> QED  BY <1>1, <1>7, <2>1, <2>2, MovesBy
<1>8. ASSUME NEW kind \in Quoting, next = To(Lexical(kind), 1), NEW solid,
             r = Goes(q, c, Lexical(kind), <<>>, solid)
      PROVE  Moves(b, f, n, next)
  <2>1. r.mode = Lexical(kind) /\ r.seen = <<>> /\ Takes(q, r, 1)
    BY <1>1, <1>2, <1>8, GoesTo
  <2>2. Lexical(kind).kind = kind
    BY ModeFields
  <2>3. MatchQuoted(b, n + 1, Lexical(kind), r)
    BY <2>1, <2>2 DEF MatchQuoted
  <2>4. Match(b, n + 1, Lexical(kind), r) /\ Takes(f[n], r, 1)
    BY <1>2, <2>1, <2>3 DEF Match
  <2> QED  BY <1>6, <1>8, <2>4
<1>9. CASE c = "'"
  <2>1. is_escape_string_prefix(b, n + 1) <=> q.seen = <<"e">>
    BY <1>1, <1>2, EscapePrefix
  <2> DEFINE kind == IF q.seen = <<"e">> THEN "escape" ELSE "single"
  <2>2. See(q, c) = Goes(q, c, Lexical(kind), <<>>, TRUE)
    <3> HIDE DEF c
    <3> QED  BY <1>2, <1>9, SeesNormal, Zenon
  <2>3. next = To(Lexical(IF is_escape_string_prefix(b, n + 1) THEN "escape" ELSE "single"), 1)
    BY <1>1, <1>9, LexesNormal
  <2>4. next = To(Lexical(kind), 1)
    BY <2>1, <2>3
  <2>5. kind \in Quoting
    BY DEF Quoting
  <2>6. r = Goes(q, c, Lexical(kind), <<>>, TRUE)
    BY <1>4, <2>2, Zenon
  <2> HIDE DEF kind, next
    <2>7. PICK z : z = TRUE
    OBVIOUS
  <2>8. r = Goes(q, c, Lexical(kind), <<>>, z)
    BY <2>6, <2>7
  <2> HIDE DEF r
  <2>9. Moves(b, f, n, next)
    BY <1>8, <2>4, <2>5, <2>8
  <2> QED  BY <2>9 DEF next
<1>10. CASE c = "dq"
  <2>1. See(q, c) = Goes(q, c, Lexical("double"), <<>>, TRUE)
    BY <1>2, <1>10, SeesNormal
  <2>2. next = To(Lexical("double"), 1)
    BY <1>1, <1>10, LexesNormal
  <2>3. "double" \in Quoting
    BY DEF Quoting
  <2> QED  BY <1>4, <1>8, <2>1, <2>2, <2>3
<1>11. CASE c = "$" /\ tag # <<>>
  <2>1. /\ ~(n + 1 > 1 /\ is_identifier_continue(b[(n + 1) - 1]))
        /\ \E k \in (n + 1) + 1 .. Len(b) :
             Delimits(b, n + 1, k) /\ tag = SubSeq(b, n + 1, k)
    BY <1>1, <1>11, DelimiterFound
  <2>2. (n + 1) - 1 = n /\ (n + 1) + 1 = n + 2
    OBVIOUS
  <2>3. PICK k \in n + 2 .. Len(b) : Delimits(b, n + 1, k) /\ tag = SubSeq(b, n + 1, k)
    BY <2>1, <2>2
  <2>4. /\ f[k].mode = Dollar(tag) /\ f[k].seen = <<>> /\ Takes(f[n], f[k], k - n) /\ tag \in Tags
    <3>1. ~(n + 1 > 1 /\ is_identifier_continue(b[n]))
      BY <2>1, <2>2
    <3> QED  BY <1>1, <1>11, <2>3, <3>1, OpensDollar, ZenonT(30)
  <2>5. Len(tag) = k - n
    <3>1. /\ n + 1 \in Nat /\ k \in Nat /\ 1 <= n + 1 /\ n + 1 <= k + 1 /\ k <= Len(b)
          /\ k + 1 - (n + 1) = k - n
      BY <1>1
    <3>2. Len(SubSeq(b, n + 1, k)) = k + 1 - (n + 1)
      BY <3>1, Part
    <3> QED  BY <2>3, <3>1, <3>2
  <2>6. next = To(Dollar(tag), k - n)
    <3>1. next = To(Dollar(tag), Len(tag))
      BY <1>1, <1>11, LexesNormal
    <3> QED  BY <2>5, <3>1
  <2>7. k - n \in Nat \ {0} /\ n + (k - n) = k /\ k <= Len(b)
    BY <1>1
  <2>8. MatchDollar(b, k, Dollar(tag), f[k])
    <3>1. \A j \in k - Len(f[k].seen) + 1 .. k : FALSE
      <4>1. Len(f[k].seen) = 0
        BY <2>4
      <4> QED  BY <4>1, <2>7
    <3> QED  BY <2>4, <3>1 DEF MatchDollar
  <2>9. Match(b, k, Dollar(tag), f[k])
    BY <2>8 DEF Match
  <2> HIDE DEF tag, next
  <2> DEFINE w == k - n
  <2>10. w \in Nat \ {0} /\ n + w = k
    BY <2>7
  <2>11. next = To(Dollar(tag), w) /\ Takes(f[n], f[k], w)
    BY <2>4, <2>6
  <2> HIDE DEF w
  <2>12. Match(b, n + w, Dollar(tag), f[n + w]) /\ Takes(f[n], f[n + w], w) /\ n + w <= Len(b)
    BY <2>7, <2>9, <2>10, <2>11
  <2>13. Moves(b, f, n, next)
    BY <1>1, <2>10, <2>11, <2>12, MovesBy, Zenon
  <2> QED  BY <2>13 DEF next
<1>12. ASSUME c \notin {"semi", "'", "dq"}, c = "$" => tag = <<>>
       PROVE  /\ r.mode = Normal /\ r.seen = SeenAfter(q.seen, c) /\ Takes(f[n], r, 1)
              /\ Opens(r.seen) => dollar_quote_delimiter(b, (n + 1) + 1 - Len(r.seen)) = <<>>
  <2>1. /\ b[n + 1] \notin {"semi", "'", "dq"}
        /\ b[n + 1] = "$" => dollar_quote_delimiter(b, n + 1) = <<>>
    BY <1>12
  <2>2. /\ f[n + 1].mode = Normal /\ f[n + 1].seen = SeenAfter(q.seen, b[n + 1])
        /\ Takes(f[n], f[n + 1], 1)
    BY <2>1, PlainByte
  <2>3. Opens(SeenAfter(q.seen, b[n + 1])) =>
          dollar_quote_delimiter(b, (n + 1) + 1 - Len(SeenAfter(q.seen, b[n + 1]))) = <<>>
    BY <2>1, PlainByte
  <2> QED  BY <2>2, <2>3
<1>13. CASE c = "-"
  <2>1. SeenAfter(q.seen, c) = <<"-">>
    BY <1>13, Identifiers DEF SeenAfter
  <2>2. c \notin {"semi", "'", "dq"} /\ c # "$"
    BY <1>13
  <2>3. r.mode = Normal /\ r.seen = <<"-">> /\ Takes(f[n], r, 1)
    BY <1>12, <2>1, <2>2
  <2>4. CASE n + 1 < Len(b) /\ b[n + 2] = "-"
    <3>1. next = To(Lexical("line"), 2)
      BY <1>1, <1>5, <1>13, <2>4, LexesNormal
    <3>2. See(r, "-") = Goes(r, "-", Lexical("line"), <<>>, r.solid)
      <4>1. r.mode.kind = "normal"
        BY <2>3, ModeFields
      <4> QED  BY <2>3, <4>1, SeesMarks
    <3>3. f[n + 2].mode = Lexical("line") /\ Takes(r, f[n + 2], 1)
      BY <1>3, <1>5, <2>4, <3>2, GoesTo
    <3>4. Match(b, n + 2, Lexical("line"), f[n + 2])
      BY <3>3 DEF Match
    <3> QED  BY <1>7, <2>3, <2>4, <3>1, <3>3, <3>4
  <2>5. CASE n + 1 < Len(b) => b[n + 2] # "-"
    <3>1. next = To(Normal, 1)
      <4>1. /\ c \notin {"'", "dq"} /\ c # "$" /\ c # "/"
            /\ n + 1 < Len(b) => b[(n + 1) + 1] # "-"
        BY <1>5, <1>13, <2>5
      <4> QED  BY <1>1, <4>1, LexesNormal
    <3>2. Clear(b, n + 1, <<"-">>)
      <4>1. <<"-">> # <<"/">> /\ ~Opens(<<"-">>)
        BY DEF Opens
      <4> QED  BY <1>5, <2>5, <4>1 DEF Clear
    <3>3. Match(b, n + 1, Normal, r)
      BY <2>3, <3>2 DEF Match, MatchNormal
    <3> QED  BY <1>6, <2>3, <3>1, <3>3
  <2> QED  BY <2>4, <2>5
<1>14. CASE c = "/"
  <2>1. SeenAfter(q.seen, c) = <<"/">>
    BY <1>14, Identifiers DEF SeenAfter
  <2>2. c \notin {"semi", "'", "dq"} /\ c # "$"
    BY <1>14
  <2>3. r.mode = Normal /\ r.seen = <<"/">> /\ Takes(f[n], r, 1)
    BY <1>12, <2>1, <2>2
  <2>4. CASE n + 1 < Len(b) /\ b[n + 2] = "*"
    <3>1. next = To(Block(1), 2)
      BY <1>1, <1>5, <1>14, <2>4, LexesNormal
    <3>2. See(r, "*") = Goes(r, "*", Block(1), <<>>, r.solid)
      <4>1. r.mode.kind = "normal"
        BY <2>3, ModeFields
      <4> QED  BY <2>3, <4>1, SeesMarks
    <3>3. f[n + 2].mode = Block(1) /\ f[n + 2].seen = <<>> /\ Takes(r, f[n + 2], 1)
      BY <1>3, <1>5, <2>4, <3>2, GoesTo
    <3>4. MatchBlock(b, n + 2, Block(1), f[n + 2])
      BY <3>3 DEF MatchBlock
    <3>5. Match(b, n + 2, Block(1), f[n + 2])
      BY <3>4 DEF Match
    <3> QED  BY <1>7, <2>3, <2>4, <3>1, <3>3, <3>5
  <2>5. CASE n + 1 < Len(b) => b[n + 2] # "*"
    <3>1. next = To(Normal, 1)
      <4>1. /\ c \notin {"'", "dq"} /\ c # "$" /\ c # "-"
            /\ n + 1 < Len(b) => b[(n + 1) + 1] # "*"
        BY <1>5, <1>14, <2>5
      <4> QED  BY <1>1, <4>1, LexesNormal
    <3>2. Clear(b, n + 1, <<"/">>)
      <4>1. <<"/">> # <<"-">> /\ ~Opens(<<"/">>)
        BY DEF Opens
      <4> QED  BY <1>5, <2>5, <4>1 DEF Clear
    <3>3. Match(b, n + 1, Normal, r)
      BY <2>3, <3>2 DEF Match, MatchNormal
    <3> QED  BY <1>6, <2>3, <3>1, <3>3
  <2> QED  BY <2>4, <2>5
<1>15. CASE c \notin {"'", "dq", "-", "/"} /\ (c = "$" => tag = <<>>)
  <2>1. c \notin {"semi", "'", "dq"}
    BY <1>15
  <2>2. /\ r.mode = Normal /\ r.seen = SeenAfter(q.seen, c) /\ Takes(f[n], r, 1)
        /\ Opens(r.seen) => dollar_quote_delimiter(b, (n + 1) + 1 - Len(r.seen)) = <<>>
    BY <1>12, <1>15, <2>1
  <2>3. next = To(Normal, 1)
    <3>1. c # "-" /\ c # "/" /\ c \notin {"'", "dq"}
      BY <1>15
    <3> QED  BY <1>1, <1>15, <3>1, LexesNormal
  <2>4. r.seen # <<"-">> /\ r.seen # <<"/">>
    <3>1. CASE is_identifier_continue(c) /\ q.seen \in Halves
      BY <1>15, <2>2, <3>1 DEF SeenAfter
    <3>2. CASE is_identifier_continue(c) /\ q.seen \notin Halves
      <4> DEFINE t == Append(q.seen, c)
      <4>1. r.seen = t
        BY <2>2, <3>2 DEF SeenAfter
      <4>2. t[Len(t)] = c /\ c # "-" /\ c # "/"
        BY <1>1, <1>2, <1>15
      <4> HIDE DEF t, c
      <4>3. ASSUME NEW x, t = <<x>> PROVE c = x
        <5>1. Len(t) = 1 /\ t[1] = x
          BY <4>3
        <5> QED  BY <4>2, <5>1
      <4> QED  BY <4>1, <4>2, <4>3
    <3>3. CASE ~is_identifier_continue(c)
      BY <1>15, <2>2, <3>3 DEF SeenAfter
    <3> QED  BY <3>1, <3>2, <3>3
  <2>5. Clear(b, n + 1, r.seen)
    BY <2>2, <2>4 DEF Clear
  <2>6. Match(b, n + 1, Normal, r)
    BY <2>2, <2>5 DEF Match, MatchNormal
  <2> QED  BY <1>6, <2>2, <2>3, <2>6
<1> QED
  BY <1>9, <1>10, <1>11, <1>13, <1>14, <1>15

\* The first two steps from a place of the text.
LEMMA NextTwo ==
  ASSUME NEW b \in Seq(Bytes), NEW f, Reading(b, f), NEW n \in Nat, n + 1 <= Len(b)
  PROVE  /\ n + 1 \in 1 .. Len(b) /\ n < Len(b) /\ Len(b) \in Nat
         /\ f[n + 1] = See(f[n], b[n + 1]) /\ b[n + 1] \in Bytes
         /\ f[n] \in Readers /\ f[n + 1] \in Readers /\ Proper(f[n]) /\ Follows(b, f[n], n)
         /\ n + 1 < Len(b) =>
              /\ n + 2 <= Len(b) /\ (n + 1) + 1 = n + 2
              /\ f[n + 2] = See(f[n + 1], b[n + 2]) /\ f[n + 2] \in Readers
              /\ b[n + 2] \in Bytes
<1>1. n + 1 \in 1 .. Len(b) /\ n < Len(b) /\ Len(b) \in Nat
  BY ByteAt
<1>2. /\ f[n + 1] = See(f[n], b[n + 1]) /\ b[n + 1] \in Bytes
      /\ f[n] \in Readers /\ f[n + 1] \in Readers /\ Proper(f[n]) /\ Follows(b, f[n], n)
  BY ReadingNext
<1>3. ASSUME n + 1 < Len(b)
      PROVE  /\ n + 2 <= Len(b) /\ (n + 1) + 1 = n + 2
             /\ f[n + 2] = See(f[n + 1], b[n + 2]) /\ f[n + 2] \in Readers
             /\ b[n + 2] \in Bytes
  <2>1. n + 1 \in Nat /\ (n + 1) + 1 <= Len(b) /\ (n + 1) + 1 = n + 2 /\ n + 2 <= Len(b)
    BY <1>1, <1>3
  <2>2. f[(n + 1) + 1] = See(f[n + 1], b[(n + 1) + 1]) /\ f[(n + 1) + 1] \in Readers
        /\ b[(n + 1) + 1] \in Bytes
    BY <2>1, ReadingNext
  <2> QED  BY <2>1, <2>2
<1> QED
  BY <1>1, <1>2, <1>3

\* A step of one byte.
LEMMA MovesOne ==
  ASSUME NEW b \in Seq(Bytes), NEW f, Reading(b, f), NEW n \in Nat, n + 1 <= Len(b),
         NEW s, Match(b, n + 1, s, f[n + 1]), Takes(f[n], f[n + 1], 1)
  PROVE  Moves(b, f, n, To(s, 1))
<1>1. Len(b) \in Nat
  BY ByteAt
<1> QED
  BY <1>1, MovesBy

\* A step of two bytes.
LEMMA MovesTwo ==
  ASSUME NEW b \in Seq(Bytes), NEW f, Reading(b, f), NEW n \in Nat, n + 1 < Len(b),
         NEW s, Match(b, n + 2, s, f[n + 2]), Takes(f[n], f[n + 1], 1),
         Takes(f[n + 1], f[n + 2], 1)
  PROVE  Moves(b, f, n, To(s, 2))
<1>1. n + 1 <= Len(b)
  <2>1. Len(b) \in Nat
    OBVIOUS
  <2> QED  BY <2>1
<1>2. /\ Len(b) \in Nat /\ n + 2 <= Len(b)
      /\ f[n] \in Readers /\ f[n + 1] \in Readers /\ f[n + 2] \in Readers
  BY <1>1, NextTwo
<1>3. Takes(f[n], f[n + 2], 1 + 1) /\ 1 + 1 = 2
  BY <1>2, TakesTwo
<1> QED
  BY <1>2, <1>3, MovesBy

\* The same in a string or a quoted identifier: a doubled quote and an escaped byte are
\* one step of the scanner and two of the reader.
LEMMA QuotedMoves ==
  ASSUME NEW b \in Seq(Bytes), NEW f, Reading(b, f), NEW n \in Nat, n + 1 <= Len(b),
         NEW s, MatchQuoted(b, n, s, f[n])
  PROVE  Moves(b, f, n, lexNext(b, n + 1, s))
<1> DEFINE c == b[n + 1]
           p == f[n]
           r == f[n + 1]
           kind == p.mode.kind
           quote == QuoteOf(kind)
           next == lexNext(b, n + 1, s)
<1>1. /\ n + 1 \in 1 .. Len(b) /\ n < Len(b) /\ Len(b) \in Nat
      /\ r = See(p, c) /\ c \in Bytes
      /\ p \in Readers /\ r \in Readers /\ Proper(p)
      /\ n + 1 < Len(b) =>
           /\ n + 2 <= Len(b) /\ (n + 1) + 1 = n + 2
           /\ f[n + 2] = See(r, b[n + 2]) /\ f[n + 2] \in Readers /\ b[n + 2] \in Bytes
  BY NextTwo
<1>2. p.mode = s /\ kind \in Quoting /\ p.seen = <<>>
  BY <1>1 DEF MatchQuoted
<1>3. s = Lexical(kind)
  BY <1>1, <1>2, KindsOfFits DEF Proper
<1>4. /\ kind = "escape" /\ c = "bs" => next = To(s, IF n + 1 < Len(b) THEN 2 ELSE 1)
      /\ c = quote /\ n + 1 < Len(b) /\ b[n + 2] = quote => next = To(s, 2)
      /\ c = quote /\ (n + 1 < Len(b) => b[n + 2] # quote) => next = To(Normal, 1)
      /\ c # quote /\ (kind = "escape" => c # "bs") => next = To(s, 1)
  <2> HIDE DEF kind
  <2> DEFINE k == kind
  <2>1. /\ k = "escape" /\ c = "bs" =>
              lexNext(b, n + 1, Lexical(k)) = To(Lexical(k), IF n + 1 < Len(b) THEN 2 ELSE 1)
        /\ c = quote /\ n + 1 < Len(b) /\ b[(n + 1) + 1] = quote =>
              lexNext(b, n + 1, Lexical(k)) = To(Lexical(k), 2)
        /\ c = quote /\ (n + 1 < Len(b) => b[(n + 1) + 1] # quote) =>
              lexNext(b, n + 1, Lexical(k)) = To(Normal, 1)
        /\ c # quote /\ (k = "escape" => c # "bs") =>
              lexNext(b, n + 1, Lexical(k)) = To(Lexical(k), 1)
    BY <1>1, <1>2, LexesQuoted
  <2>2. (n + 1) + 1 = n + 2
    OBVIOUS
  <2> HIDE DEF c, quote
  <2> QED  BY <1>3, <2>1, <2>2
<1>5. r = Goes(p, c, s, IF c \in QuotesOf(kind) THEN <<c>> ELSE <<>>, p.solid)
  BY <1>1, <1>2, SeesQuoted, Zenon
<1>6. c \in QuotesOf(kind) <=> c = quote \/ (kind = "escape" /\ c = "bs")
  BY <1>2 DEF QuotesOf, QuoteOf
<1>7. r.mode = s /\ Takes(p, r, 1)
  <2> HIDE DEF c, p, r, kind
  <2> QED  BY <1>1, <1>5, GoesTo
<1>8. r.seen = IF c \in QuotesOf(kind) THEN <<c>> ELSE <<>>
  <2> DEFINE w == IF c \in QuotesOf(kind) THEN <<c>> ELSE <<>>
  <2>1. r = Goes(p, c, s, w, p.solid)
    BY <1>5
  <2> HIDE DEF c, p, r, kind, w
  <2>2. r.seen = w
    BY <1>1, <2>1, GoesTo
  <2> QED  BY <2>2 DEF w
<1>9. s.kind = kind
  BY <1>2
<1> HIDE DEF kind
\* A second byte that the first one takes with it.
<1>10. ASSUME n + 1 < Len(b), r.seen = <<"bs">> \/ r.seen = <<b[n + 2]>>
       PROVE  Moves(b, f, n, To(s, 2))
  <2> DEFINE t == f[n + 2]
             d == b[n + 2]
  <2>1. t = See(r, d) /\ d \in Bytes /\ t \in Readers
    BY <1>1, <1>10
  <2>2. r.seen # <<>> /\ (r.seen = <<"bs">> \/ d = r.seen[1])
    <3> DEFINE w == r.seen
    <3>1. w = <<"bs">> \/ w = <<d>>
      BY <1>10
    <3>2. <<"bs">> # <<>> /\ <<d>> # <<>> /\ <<d>>[1] = d
      OBVIOUS
    <3> HIDE DEF w, d
    <3>3. w # <<>> /\ (w = <<"bs">> \/ d = w[1])
      BY <3>1, <3>2
    <3> QED  BY <3>3 DEF w
  <2>3. t = Goes(r, d, s, <<>>, r.solid)
    <3>1. r.mode.kind \in Quoting /\ r.mode = s
      BY <1>2, <1>7, <1>9
    <3> HIDE DEF r, d
    <3>2. See(r, d) = Goes(r, d, r.mode, <<>>, r.solid)
      BY <2>2, <3>1, SeesQuoted, Zenon
    <3> QED  BY <2>1, <3>1, <3>2
  <2>4. t.mode = s /\ t.seen = <<>> /\ Takes(r, t, 1)
    BY <1>1, <2>1, <2>3, GoesTo
  <2>5. MatchQuoted(b, n + 2, s, t)
    BY <1>2, <1>9, <2>4 DEF MatchQuoted
  <2>6. Match(b, n + 2, s, t)
    BY <2>5 DEF Match
  <2> QED  BY <1>7, <1>10, <2>4, <2>6, MovesTwo
<1>11. CASE kind = "escape" /\ c = "bs"
  <2>1. r.seen = <<"bs">>
    BY <1>6, <1>8, <1>11
  <2>2. CASE n + 1 < Len(b)
    <3>1. next = To(s, 2)
      BY <1>4, <1>11, <2>2
    <3> QED  BY <1>10, <2>1, <2>2, <3>1
  <2>3. CASE ~(n + 1 < Len(b))
    <3>1. next = To(s, 1) /\ n + 1 = Len(b)
      BY <1>1, <1>4, <1>11, <2>3
    <3>2. MatchQuoted(b, n + 1, s, r)
      BY <1>2, <1>7, <1>9, <2>1, <3>1 DEF MatchQuoted
    <3>3. Match(b, n + 1, s, r)
      BY <3>2 DEF Match
    <3> QED  BY <1>7, <3>1, <3>3, MovesOne
  <2> QED  BY <2>2, <2>3
<1>12. CASE c = quote
  <2>1. r.seen = <<quote>>
    BY <1>6, <1>8, <1>12
  <2>2. CASE n + 1 < Len(b) /\ b[n + 2] = quote
    <3>1. next = To(s, 2)
      BY <1>4, <1>12, <2>2
    <3> QED  BY <1>10, <2>1, <2>2, <3>1
  <2>3. CASE n + 1 < Len(b) => b[n + 2] # quote
    <3>1. next = To(Normal, 1)
      BY <1>4, <1>12, <2>3
    <3>2. MatchClosed(b, n + 1, r)
      BY <1>1, <1>2, <1>7, <1>9, <2>1, <2>3 DEF MatchClosed
    <3>3. Match(b, n + 1, Normal, r)
      BY <3>2 DEF Match
    <3> QED  BY <1>7, <3>1, <3>3, MovesOne
  <2> QED  BY <2>2, <2>3
<1>13. CASE c # quote /\ ~(kind = "escape" /\ c = "bs")
  <2>1. next = To(s, 1)
    BY <1>4, <1>13
  <2>2. r.seen = <<>>
    BY <1>6, <1>8, <1>13
  <2>3. MatchQuoted(b, n + 1, s, r)
    BY <1>2, <1>7, <1>9, <2>2 DEF MatchQuoted
  <2>4. Match(b, n + 1, s, r)
    BY <2>3 DEF Match
  <2> QED  BY <1>7, <2>1, <2>4, MovesOne
<1> QED
  BY <1>11, <1>12, <1>13

\* The same in a line comment.
LEMMA LineMoves ==
  ASSUME NEW b \in Seq(Bytes), NEW f, Reading(b, f), NEW n \in Nat, n + 1 <= Len(b),
         f[n].mode = Lexical("line")
  PROVE  Moves(b, f, n, lexNext(b, n + 1, Lexical("line")))
<1> DEFINE c == b[n + 1]
           p == f[n]
           r == f[n + 1]
           next == lexNext(b, n + 1, Lexical("line"))
<1>1. r = See(p, c) /\ c \in Bytes /\ p \in Readers
  BY NextTwo
<1>2. p.mode.kind = "line"
  BY ModeFields
<1>3. CASE c = "nl"
  <2>1. r = Goes(p, c, Normal, <<>>, p.solid)
    BY <1>1, <1>2, <1>3, SeesLine
  <2>2. r.mode = Normal /\ r.seen = <<>> /\ Takes(p, r, 1)
    BY <1>1, <2>1, GoesTo
  <2>3. Match(b, n + 1, Normal, r)
    BY <2>2, EmptyClear DEF Match, MatchNormal
  <2>4. next = To(Normal, 1)
    BY <1>3, LexesLine
  <2> QED  BY <2>2, <2>3, <2>4, MovesOne
<1>4. CASE c # "nl"
  <2>1. r = Goes(p, c, p.mode, <<>>, p.solid)
    BY <1>1, <1>2, <1>4, SeesLine
  <2>2. r.mode = Lexical("line") /\ Takes(p, r, 1)
    BY <1>1, <2>1, GoesTo
  <2>3. Match(b, n + 1, Lexical("line"), r)
    BY <2>2 DEF Match
  <2>4. next = To(Lexical("line"), 1)
    BY <1>4, LexesLine
  <2> QED  BY <2>2, <2>3, <2>4, MovesOne
<1> QED
  BY <1>3, <1>4

\* The end of a block comment leaves nothing seen, and a comment nothing solid.
LEMMA BlockMoves ==
  ASSUME NEW b \in Seq(Bytes), NEW f, Reading(b, f), NEW n \in Nat, n + 1 <= Len(b),
         NEW depth \in Nat \ {0}, MatchBlock(b, n, Block(depth), f[n]),
         NEW next, next = lexBlock(b, n + 1, depth)
  PROVE  /\ Moves(b, f, n, next) /\ f[n + next.width].solid = f[n].solid
         /\ \/ /\ next.state = Normal
               /\ f[n + next.width].mode = Normal /\ f[n + next.width].seen = <<>>
            \/ /\ MatchBlock(b, n + next.width, next.state, f[n + next.width])
               /\ next.state \in {Block(depth), Block(depth + 1), Block(depth - 1)}
<1> DEFINE c == b[n + 1]
           p == f[n]
           r == f[n + 1]
           t == f[n + 2]
           d == b[n + 2]
<1>1. /\ n + 1 \in 1 .. Len(b) /\ n < Len(b) /\ Len(b) \in Nat
      /\ r = See(p, c) /\ c \in Bytes
      /\ p \in Readers /\ r \in Readers
      /\ n + 1 < Len(b) => /\ (n + 1) + 1 = n + 2 /\ t = See(r, d) /\ t \in Readers
                           /\ d \in Bytes
  BY NextTwo
<1>2. /\ p.mode = Block(depth)
      /\ p.seen = <<"/">> => c # "*"
      /\ p.seen = <<"*">> => c # "/"
  BY <1>1 DEF MatchBlock
<1>3. r = Goes(p, c, Block(depth), <<c>>, p.solid)
  <2>1. ~(p.seen = <<"/">> /\ c = "*") /\ ~(p.seen = <<"*">> /\ c = "/")
    BY <1>2
  <2> HIDE DEF c, p, r
  <2> QED  BY <1>1, <1>2, <2>1, SeesBlock
<1>4. r.mode = Block(depth) /\ r.seen = <<c>> /\ r.solid = p.solid /\ Takes(p, r, 1)
  <2> HIDE DEF c, p, r
  <2> QED  BY <1>1, <1>3, GoesTo
<1>5. /\ c = "/" /\ n + 1 < Len(b) /\ d = "*" => next = To(Block(depth + 1), 2)
      /\ c = "*" /\ n + 1 < Len(b) /\ d = "/" =>
           next = To(IF depth = 1 THEN Normal ELSE Block(depth - 1), 2)
      /\ ~(c = "/" /\ n + 1 < Len(b) /\ d = "*")
         /\ ~(c = "*" /\ n + 1 < Len(b) /\ d = "/") => next = To(Block(depth), 1)
  <2>1. /\ c = "/" /\ n + 1 < Len(b) /\ b[(n + 1) + 1] = "*" => next = To(Block(depth + 1), 2)
        /\ c = "*" /\ n + 1 < Len(b) /\ b[(n + 1) + 1] = "/" =>
             next = To(IF depth = 1 THEN Normal ELSE Block(depth - 1), 2)
        /\ ~(c = "/" /\ n + 1 < Len(b) /\ b[(n + 1) + 1] = "*")
           /\ ~(c = "*" /\ n + 1 < Len(b) /\ b[(n + 1) + 1] = "/") => next = To(Block(depth), 1)
    BY <1>1, LexesBlock
  <2>2. (n + 1) + 1 = n + 2
    OBVIOUS
  <2> HIDE DEF c
  <2> QED  BY <2>1, <2>2
<1>6. CASE c = "/" /\ n + 1 < Len(b) /\ d = "*"
  <2>1. next.state = Block(depth + 1) /\ next.width = 2 /\ next = To(Block(depth + 1), 2)
    BY <1>5, <1>6, ToFields
  <2>2. r.seen = <<"/">>
    BY <1>4, <1>6
  <2>3. t = Goes(r, d, Block(depth + 1), <<>>, r.solid)
    BY <1>1, <1>4, <1>6, <2>2, SeesBlock
  <2>4. t.mode = Block(depth + 1) /\ t.seen = <<>> /\ t.solid = r.solid /\ Takes(r, t, 1)
    BY <1>1, <1>6, <2>3, GoesTo
  <2>5. MatchBlock(b, n + 2, Block(depth + 1), t)
    BY <2>4 DEF MatchBlock
  <2>6. Match(b, n + 2, Block(depth + 1), t)
    BY <2>5 DEF Match
  <2>7. Moves(b, f, n, To(Block(depth + 1), 2))
    BY <1>4, <1>6, <2>4, <2>6, MovesTwo
  <2> QED  BY <1>4, <2>1, <2>4, <2>5, <2>7
<1>7. CASE c = "*" /\ n + 1 < Len(b) /\ d = "/"
  <2> DEFINE m == IF depth = 1 THEN Normal ELSE Block(depth - 1)
  <2>1. next.state = m /\ next.width = 2 /\ next = To(m, 2)
    BY <1>5, <1>7, ToFields
  <2>2. r.seen = <<"*">>
    BY <1>4, <1>7
  <2>3. t = Goes(r, d, m, <<>>, r.solid)
    BY <1>1, <1>4, <1>7, <2>2, SeesBlock, ZenonT(30)
  <2>4. t.mode = m /\ t.seen = <<>> /\ t.solid = r.solid /\ Takes(r, t, 1)
    <3> HIDE DEF m
    <3> QED  BY <1>1, <1>7, <2>3, GoesTo
  <2>5. (m = Normal /\ Match(b, n + 2, m, t))
        \/ (MatchBlock(b, n + 2, m, t) /\ m = Block(depth - 1))
    <3>1. CASE depth = 1
      BY <2>4, <3>1, EmptyClear DEF Match, MatchNormal
    <3>2. CASE depth # 1
      <4>1. m = Block(depth - 1) /\ depth - 1 \in Nat \ {0}
        BY <3>2
      <4> HIDE DEF m
      <4> QED  BY <2>4, <4>1 DEF MatchBlock
    <3> QED  BY <3>1, <3>2
  <2> HIDE DEF m
  <2>6. Match(b, n + 2, m, t)
    BY <2>5 DEF Match
  <2>7. Moves(b, f, n, To(m, 2))
    BY <1>4, <1>7, <2>4, <2>6, MovesTwo
  <2> QED  BY <1>4, <2>1, <2>4, <2>5, <2>7
<1>8. CASE /\ ~(c = "/" /\ n + 1 < Len(b) /\ d = "*")
           /\ ~(c = "*" /\ n + 1 < Len(b) /\ d = "/")
  <2>1. next.state = Block(depth) /\ next.width = 1 /\ next = To(Block(depth), 1)
    BY <1>5, <1>8, ToFields
  <2>2. MatchBlock(b, n + 1, Block(depth), r)
    <3>1. n + 1 < Len(b) => /\ r.seen = <<"/">> => b[(n + 1) + 1] # "*"
                            /\ r.seen = <<"*">> => b[(n + 1) + 1] # "/"
      BY <1>1, <1>4, <1>8
    <3> QED  BY <1>4, <3>1 DEF MatchBlock
  <2>3. Match(b, n + 1, Block(depth), r)
    BY <2>2 DEF Match
  <2>4. Moves(b, f, n, To(Block(depth), 1))
    BY <1>4, <2>3, MovesOne
  <2> QED  BY <1>4, <2>1, <2>2, <2>4
<1> QED
  BY <1>6, <1>7, <1>8

\* The tag of a dollar quote is at least two bytes, and opens nothing as a word.
LEMMA TagParts ==
  ASSUME NEW tag \in Tags
  PROVE  /\ tag \in Seq(Bytes) /\ Len(tag) \in Nat /\ Len(tag) >= 2
         /\ \A b, n : Clear(b, n, tag)
<1>1. /\ tag \in Seq(Bytes) /\ Len(tag) \in Nat /\ Len(tag) >= 2
      /\ tag[Len(tag)] = "$"
  BY DEF Tags
<1>2. tag # <<"-">> /\ tag # <<"/">>
  BY <1>1
<1>3. ~Opens(tag)
  <2>1. Len(tag) \in 2 .. Len(tag)
    BY <1>1
  <2> QED  BY <1>1, <2>1 DEF Opens
<1>4. \A b, n : Clear(b, n, tag)
  BY <1>2, <1>3, Zenon DEF Clear
<1> QED
  BY <1>1, <1>4

\* The reader finds the delimiter that ends a string by looking back.
LEMMA DollarSees ==
  ASSUME NEW b \in Seq(Bytes), NEW f, Reading(b, f), NEW n \in Nat, n + 1 <= Len(b),
         NEW tag \in Tags, f[n].mode = Dollar(tag),
         NEW closes \in BOOLEAN,
         closes <=> Len(tag) <= Len(f[n].seen) + 1 /\ At(b, n + 2 - Len(tag), tag)
  PROVE  /\ closes => f[n + 1] = Goes(f[n], b[n + 1], Normal, tag, f[n].solid)
         /\ ~closes => f[n + 1] = Goes(f[n], b[n + 1], Dollar(tag), Append(f[n].seen, b[n + 1]),
                                       f[n].solid)
<1> DEFINE c == b[n + 1]
           p == f[n]
           seen == p.seen
           body == Append(seen, c)
           l == Len(tag)
           m == Len(body)
           tail == SubSeq(body, m - l + 1, m)
           part == SubSeq(b, n + 2 - l, n + 1)
<1>1. /\ f[n + 1] = See(p, c) /\ c \in Bytes /\ p \in Readers /\ Follows(b, p, n)
      /\ Len(b) \in Nat
  BY NextTwo
<1>2. seen \in Seq(Bytes) /\ LastRead(b, seen, n)
  BY <1>1, ReaderParts, ModeFields DEF Follows
<1>3. body \in Seq(Bytes) /\ LastRead(b, body, n + 1) /\ m = Len(seen) + 1 /\ Len(seen) \in Nat
  BY <1>1, <1>2, LastReadAppend
<1>4. n + 1 \in 0 .. Len(b)
  BY <1>1
<1> HIDE DEF body
<1>5. m \in 0 .. n + 1 /\ \A k \in 1 .. m : body[k] = b[n + 1 - m + k]
  <2>1. /\ Len(body) \in 0 .. n + 1
        /\ \A k \in 1 .. Len(body) : body[k] = b[(n + 1) - Len(body) + k]
    BY <1>3, <1>4, LastReadAt
  <2> QED  BY <2>1
<1>6. tag \in Seq(Bytes) /\ l \in Nat /\ l >= 2
  BY TagParts
<1> HIDE DEF l, m, seen, c
<1>7. ASSUME l <= m PROVE tail = part
  <2>1. /\ m - l + 1 \in Nat /\ m \in Nat /\ 1 <= m - l + 1 /\ m - l + 1 <= m + 1
        /\ n + 2 - l \in Nat /\ n + 1 \in Nat /\ 1 <= n + 2 - l /\ n + 2 - l <= (n + 1) + 1
        /\ n + 1 <= Len(b) /\ m + 1 - (m - l + 1) = l /\ (n + 1) + 1 - (n + 2 - l) = l
    BY <1>1, <1>5, <1>6, <1>7
  <2>2. m <= Len(body)
    BY <2>1 DEF m
  <2>3. /\ tail \in Seq(Bytes) /\ Len(tail) = l
        /\ \A k \in 1 .. l : tail[k] = body[(m - l + 1) + k - 1]
    <3> DEFINE x == m - l + 1
    <3>1. x \in Nat /\ m \in Nat /\ 1 <= x /\ x <= m + 1 /\ m <= Len(body) /\ m + 1 - x = l
      BY <2>1, <2>2
    <3> HIDE DEF x
    <3>3. body \in Seq(Bytes)
      BY <1>3
    <3>2. /\ SubSeq(body, x, m) \in Seq(Bytes) /\ Len(SubSeq(body, x, m)) = m + 1 - x
          /\ \A k \in 1 .. m + 1 - x : SubSeq(body, x, m)[k] = body[x + k - 1]
      BY <3>1, <3>3, Part
    <3> QED  BY <3>1, <3>2 DEF x
  <2>4. /\ part \in Seq(Bytes) /\ Len(part) = l
        /\ \A k \in 1 .. l : part[k] = b[(n + 2 - l) + k - 1]
    <3> DEFINE x == n + 2 - l
               y == n + 1
    <3>1. x \in Nat /\ y \in Nat /\ 1 <= x /\ x <= y + 1 /\ y <= Len(b) /\ y + 1 - x = l
      BY <2>1
    <3> HIDE DEF x, y
    <3>2. /\ SubSeq(b, x, y) \in Seq(Bytes) /\ Len(SubSeq(b, x, y)) = y + 1 - x
          /\ \A k \in 1 .. y + 1 - x : SubSeq(b, x, y)[k] = b[x + k - 1]
      BY <3>1, Part
    <3> QED  BY <3>1, <3>2 DEF x, y
  <2> HIDE DEF tail, part
  <2>5. ASSUME NEW k \in 1 .. l PROVE tail[k] = part[k]
    <3>1. /\ (m - l + 1) + k - 1 \in 1 .. m
          /\ n + 1 - m + ((m - l + 1) + k - 1) = (n + 2 - l) + k - 1
      BY <1>5, <1>6, <1>7
    <3>2. body[(m - l + 1) + k - 1] = b[n + 1 - m + ((m - l + 1) + k - 1)]
      BY <1>5, <3>1
    <3> QED  BY <2>3, <2>4, <3>1, <3>2
  <2>6. \A k \in 1 .. Len(tail) : tail[k] = part[k]
    BY <2>3, <2>5
  <2> QED  BY <2>3, <2>4, <2>6, SeqEqual, Zenon
<1>8. At(b, n + 2 - l, tag) <=> part = tag
  <2>1. n + 2 - l + l - 1 = n + 1
    BY <1>6
  <2> QED  BY <2>1 DEF At, l
<1>9. closes <=> m >= l /\ tail = tag
  <2>1. closes <=> l <= m /\ At(b, n + 2 - l, tag)
    BY <1>3 DEF l, seen
  <2>2. m >= l <=> l <= m
    BY <1>5, <1>6
  <2> HIDE DEF tail, part
  <2> QED  BY <1>7, <1>8, <2>1, <2>2
<1>10. /\ m >= l /\ tail = tag => See(p, c) = Goes(p, c, Normal, tag, p.solid)
       /\ ~(m >= l /\ tail = tag) => See(p, c) = Goes(p, c, p.mode, body, p.solid)
  BY SeesDollar DEF body, m, l, seen
<1>11. f[n].mode = p.mode
  OBVIOUS
<1> HIDE DEF tail, p
<1> QED
  BY <1>1, <1>9, <1>10, <1>11 DEF c, body, p, seen

\* The same in a dollar-quoted string: the scanner looks ahead for the tag that the reader
\* waits for.
LEMMA DollarMoves ==
  ASSUME NEW b \in Seq(Bytes), NEW f, Reading(b, f), NEW n \in Nat, n + 1 <= Len(b),
         NEW s, MatchDollar(b, n, s, f[n])
  PROVE  Moves(b, f, n, lexNext(b, n + 1, s))
<1>1. PICK tag \in Tags : /\ s = Dollar(tag) /\ f[n].mode = s
                          /\ \A j \in n - Len(f[n].seen) + 1 .. n : ~At(b, j, tag)
  BY DEF MatchDollar
<1> DEFINE l == Len(tag)
           size == Len(f[n].seen)
           Inside(m) == /\ f[n + m].mode = s /\ Len(f[n + m].seen) = size + m
                        /\ Takes(f[n], f[n + m], m)
<1>2. tag \in Seq(Bytes) /\ l \in Nat /\ l >= 2
  BY TagParts
<1>3. f[n] \in Readers /\ Len(b) \in Nat /\ size \in Nat /\ n + 1 \in 1 .. Len(b)
  <2>1. f[n] \in Readers /\ Len(b) \in Nat /\ n + 1 \in 1 .. Len(b)
    BY NextTwo
  <2>2. f[n].seen \in Seq(Bytes)
    BY <2>1, ReaderParts
  <2> QED  BY <2>1, <2>2
<1>4. Inside(0)
  <2>1. n + 0 = n /\ f[n].mode = s /\ Len(f[n].seen) = size + 0
    BY <1>1, <1>3
  <2>2. Len(f[n].piece) \in Nat
    <3>1. f[n].piece \in Seq(Bytes)
      BY <1>3, ReaderParts
    <3> QED  BY <3>1
  <2>3. Takes(f[n], f[n], 0)
    BY <2>2 DEF Takes
  <2> QED  BY <2>1, <2>3
<1> HIDE DEF l, size
<1>5. ASSUME NEW m \in Nat, n + m + 1 <= Len(b), Inside(m),
             ~(l <= size + m + 1 /\ At(b, n + m + 2 - l, tag))
      PROVE  Inside(m + 1)
  <2> DEFINE k == n + m
             p == f[k]
             c == b[k + 1]
             r == f[k + 1]
  <2>1. k \in Nat /\ k + 1 <= Len(b) /\ k + 2 - l = n + m + 2 - l
    BY <1>2, <1>5
  <2>2. p \in Readers /\ r \in Readers /\ c \in Bytes
    BY <2>1, NextTwo
  <2>3. p.mode = Dollar(tag) /\ Len(p.seen) = size + m /\ Takes(f[n], p, m)
    BY <1>1, <1>5
  <2>4. ~(l <= Len(p.seen) + 1 /\ At(b, k + 2 - l, tag))
    BY <1>5, <2>1, <2>3
  <2>5. r = Goes(p, c, Dollar(tag), Append(p.seen, c), p.solid)
    <3>1. PICK closes \in BOOLEAN :
            closes <=> l <= Len(p.seen) + 1 /\ At(b, k + 2 - l, tag)
      OBVIOUS
    <3> HIDE DEF k
    <3> QED  BY <2>1, <2>3, <2>4, <3>1, DollarSees DEF l
  <2>6. r.mode = s /\ r.seen = Append(p.seen, c) /\ Takes(p, r, 1)
    <3> DEFINE w == Append(p.seen, c)
    <3>1. r = Goes(p, c, s, w, p.solid)
      BY <1>1, <2>5
    <3> HIDE DEF p, c, r, w
    <3>2. r.mode = s /\ r.seen = w /\ Takes(p, r, 1)
      BY <2>2, <3>1, GoesTo
    <3> QED  BY <3>2 DEF w
  <2>7. Len(r.seen) = size + (m + 1)
    <3>1. p.seen \in Seq(Bytes)
      BY <2>2, ReaderParts
    <3> DEFINE w == p.seen
    <3>2. Len(Append(w, c)) = Len(w) + 1
      BY <2>2, <3>1
    <3>3. Len(w) = size + m /\ r.seen = Append(w, c)
      BY <2>3, <2>6
    <3> HIDE DEF w, r, c
    <3> QED  BY <1>3, <3>2, <3>3
  <2>8. Takes(f[n], r, m + 1)
    BY <1>3, <2>2, <2>3, <2>6, TakesTwo
  <2>9. k + 1 = n + (m + 1)
    OBVIOUS
  <2>10. r = f[n + (m + 1)]
    BY <2>9
  <2> HIDE DEF k, r, p
  <2> QED  BY <2>6, <2>7, <2>8, <2>10
<1>6. CASE ~At(b, n + 1, tag)
  <2>1. ~(l <= size + 0 + 1 /\ At(b, n + 0 + 2 - l, tag))
    <3> SUFFICES ASSUME l <= size + 0 + 1, At(b, n + 0 + 2 - l, tag) PROVE FALSE
      OBVIOUS
    <3> DEFINE j == n + 0 + 2 - l
    <3>1. j \in n - size + 1 .. n
      BY <1>2, <1>3
    <3>2. ~At(b, j, tag)
      <4> HIDE DEF j
      <4> QED  BY <1>1, <3>1 DEF size
    <3> QED  BY <3>2
  <2>2. Inside(1)
    <3>1. 0 \in Nat /\ n + 0 + 1 <= Len(b) /\ 0 + 1 = 1
      BY <1>3
    <3> HIDE DEF Inside
    <3> QED  BY <1>4, <1>5, <2>1, <3>1
  <2>3. f[n + 1].mode = s /\ Len(f[n + 1].seen) = size + 1 /\ Takes(f[n], f[n + 1], 1)
    BY <2>2
  <2>4. ASSUME NEW j \in (n + 1) - Len(f[n + 1].seen) + 1 .. n + 1 PROVE ~At(b, j, tag)
    <3>1. j \in n - size + 1 .. n + 1
      BY <1>3, <2>3
    <3>2. CASE j = n + 1
      BY <1>6, <3>2
    <3>3. CASE j # n + 1
      <4>1. j \in n - size + 1 .. n
        BY <1>3, <3>1, <3>3
      <4> QED  BY <1>1, <4>1 DEF size
    <3> QED  BY <3>2, <3>3
  <2>5. MatchDollar(b, n + 1, s, f[n + 1])
    BY <1>1, <2>3, <2>4 DEF MatchDollar
  <2>6. Match(b, n + 1, s, f[n + 1])
    BY <2>5 DEF Match
  <2>7. Moves(b, f, n, To(s, 1))
    BY <2>3, <2>6, MovesOne
  <2>8. lexNext(b, n + 1, s) = To(s, 1)
    BY <1>1, <1>6, LexesDollar
  <2> QED  BY <2>7, <2>8
<1>7. CASE At(b, n + 1, tag)
  <2>1. n + l <= Len(b)
    <3>1. (n + 1) + Len(tag) - 1 <= Len(b)
      BY <1>7 DEF At
    <3> QED  BY <1>2, <3>1 DEF l
  <2> DEFINE S == {m \in Nat : m + 1 <= l => Inside(m)}
  <2>2. 0 \in S
    BY <1>4
  <2>3. ASSUME NEW m \in Nat, m \in S PROVE m + 1 \in S
    <3> SUFFICES ASSUME (m + 1) + 1 <= l PROVE Inside(m + 1)
      OBVIOUS
    <3>1. Inside(m) /\ n + m + 1 <= Len(b)
      <4>1. m + 1 <= l /\ n + m + 1 <= Len(b)
        BY <1>2, <1>3, <2>1
      <4> HIDE DEF Inside
      <4> QED  BY <2>3, <4>1
    <3>2. ~(l <= size + m + 1 /\ At(b, n + m + 2 - l, tag))
      <4> SUFFICES ASSUME l <= size + m + 1, At(b, n + m + 2 - l, tag) PROVE FALSE
        OBVIOUS
      <4> DEFINE j == n + m + 2 - l
      <4>1. j \in n - size + 1 .. n
        BY <1>2, <1>3
      <4>2. ~At(b, j, tag)
        <5> HIDE DEF j
        <5> QED  BY <1>1, <4>1 DEF size
      <4> QED  BY <4>2
    <3> HIDE DEF Inside
    <3> QED  BY <1>5, <3>1, <3>2
  <2> HIDE DEF S
  <2>4. Nat \subseteq S
    BY <2>2, <2>3, SetInduction
  <2> DEFINE m == l - 1
             k == n + m
             p == f[k]
             c == b[k + 1]
             r == f[k + 1]
  <2>5. m \in Nat /\ m + 1 = l /\ k \in Nat /\ k + 1 = n + l /\ k + 1 <= Len(b) /\ k + 2 - l = n + 1
    BY <1>2, <2>1
  <2>6. Inside(m)
    <3>1. m \in S /\ m + 1 <= l
      BY <2>4, <2>5
    <3> HIDE DEF m, Inside
    <3> QED  BY <3>1 DEF S
  <2>7. p.mode = Dollar(tag) /\ Len(p.seen) = size + m /\ Takes(f[n], p, m)
    BY <1>1, <2>6
  <2>8. p \in Readers /\ r \in Readers /\ c \in Bytes
    BY <2>5, NextTwo
  <2>9. r = Goes(p, c, Normal, tag, p.solid)
    <3>1. PICK closes \in BOOLEAN :
            closes <=> l <= Len(p.seen) + 1 /\ At(b, k + 2 - l, tag)
      OBVIOUS
    <3>2. l <= Len(p.seen) + 1
      BY <1>2, <1>3, <2>5, <2>7
    <3>3. At(b, k + 2 - l, tag)
      BY <1>7, <2>5
    <3>4. closes
      BY <3>1, <3>2, <3>3
    <3> HIDE DEF k
    <3> QED  BY <2>5, <2>7, <3>1, <3>4, DollarSees DEF l
  <2>10. r.mode = Normal /\ r.seen = tag /\ Takes(p, r, 1)
    <3> HIDE DEF p, c, r
    <3> QED  BY <2>8, <2>9, GoesTo
  <2>11. Takes(f[n], r, m + 1)
    BY <1>3, <2>5, <2>7, <2>8, <2>10, TakesTwo
  <2>12. r = f[n + l] /\ m + 1 = l
    BY <2>5
  <2>13. Takes(f[n], f[n + l], l) /\ f[n + l].mode = Normal /\ f[n + l].seen = tag
    <3> HIDE DEF r, m
    <3> QED  BY <2>10, <2>11, <2>12
  <2>14. MatchNormal(b, n + l, f[n + l])
    BY <2>13, TagParts DEF MatchNormal
  <2>15. Match(b, n + l, Normal, f[n + l])
    BY <2>14 DEF Match
  <2>16. l \in Nat \ {0}
    BY <1>2
  <2>17. Moves(b, f, n, To(Normal, l))
    BY <1>3, <2>1, <2>13, <2>15, <2>16, MovesBy, Zenon
  <2>18. lexNext(b, n + 1, s) = To(Normal, l)
    BY <1>1, <1>7, LexesDollar DEF l
  <2> QED  BY <2>17, <2>18
<1> QED
  BY <1>6, <1>7

\* One round of the scanner: it finds the end of a statement where the reader ends a
\* piece, or both go on.
LEMMA ScannerMoves ==
  ASSUME NEW b \in Seq(Bytes), NEW f, Reading(b, f), NEW n \in Nat, n + 1 <= Len(b),
         NEW s, Match(b, n, s, f[n])
  PROVE  /\ s = Normal /\ b[n + 1] = "semi" =>
              /\ lexNext(b, n + 1, s) = To(Normal, 1)
              /\ f[n + 1] = Ends(f[n], "semi")
              /\ Match(b, n + 1, Normal, f[n + 1])
         /\ ~(s = Normal /\ b[n + 1] = "semi") => Moves(b, f, n, lexNext(b, n + 1, s))
<1> DEFINE Steps == /\ s = Normal /\ b[n + 1] = "semi" =>
                         /\ lexNext(b, n + 1, s) = To(Normal, 1)
                         /\ f[n + 1] = Ends(f[n], "semi")
                         /\ Match(b, n + 1, Normal, f[n + 1])
                    /\ ~(s = Normal /\ b[n + 1] = "semi") => Moves(b, f, n, lexNext(b, n + 1, s))
<1>1. /\ f[n + 1] = See(f[n], b[n + 1]) /\ b[n + 1] \in Bytes /\ n < Len(b)
      /\ f[n] \in Readers /\ Proper(f[n]) /\ Follows(b, f[n], n) /\ n \in 0 .. Len(b)
  BY NextTwo, ByteAt
<1>2. ASSUME s = Normal, NEW q, Stands(b, f, n, q), Clear(b, n, q.seen) PROVE Steps
  <2>1. CASE b[n + 1] = "semi"
    <3>1. b[n + 1] \in {"semi"}
      BY <2>1
    <3> QED  BY <1>2, <2>1, <3>1, NormalEnds
  <2>2. CASE b[n + 1] # "semi"
    <3>1. b[n + 1] \notin {"semi"}
      BY <2>2
    <3> QED  BY <1>2, <2>2, <3>1, NormalMoves
  <2> QED  BY <2>1, <2>2
<1>3. CASE s = Normal /\ MatchNormal(b, n, f[n])
  <2>1. Stands(b, f, n, f[n]) /\ Clear(b, n, f[n].seen)
    BY <1>1, <1>3 DEF Stands, MatchNormal
  <2> HIDE DEF Steps
  <2>2. Steps
    BY <1>2, <1>3, <2>1
  <2> QED  BY <2>2 DEF Steps
<1>4. CASE s = Normal /\ MatchClosed(b, n, f[n])
  <2> DEFINE q == Settled(f[n])
             kind == f[n].mode.kind
             c == b[n + 1]
  <2>1. kind \in Quoting /\ f[n].seen = <<QuoteOf(kind)>> /\ c # QuoteOf(kind)
    BY <1>1, <1>4 DEF MatchClosed
  <2>2. q.mode = Normal /\ q.seen = <<>> /\ q.piece = f[n].piece /\ q.pieces = f[n].pieces
    BY DEF Settled, Reader
  <2>3. Proper(q) /\ Follows(b, q, n)
    BY <1>1, <2>1, SettledProper, SettledFollows
  <2>4. See(f[n], c) = See(q, c)
    <3> DEFINE w == f[n].seen
    <3>1. w # <<>> /\ w # <<"bs">> /\ c # w[1]
      <4>1. QuoteOf(kind) # "bs"
        BY DEF QuoteOf
      <4>2. \A x : <<x>> # <<>> /\ <<x>>[1] = x
        OBVIOUS
      <4>3. \A x, y : <<x>> = <<y>> => x = y
        OBVIOUS
      <4> HIDE DEF kind, c
      <4>4. w = <<QuoteOf(kind)>> /\ c # QuoteOf(kind)
        BY <2>1
      <4> HIDE DEF w
      <4> QED  BY <4>1, <4>2, <4>3, <4>4, Zenon
    <3> HIDE DEF c
    <3> QED  BY <2>1, <3>1, SeesQuoted, Zenon
  <2>5. Stands(b, f, n, q)
    BY <1>1, <2>2, <2>3, <2>4 DEF Stands
  <2>6. Clear(b, n, q.seen)
    BY <2>2, EmptyClear
  <2> HIDE DEF q, Steps
  <2>7. Steps
    BY <1>2, <1>4, <2>5, <2>6
  <2> QED  BY <2>7 DEF Steps
<1>5. CASE MatchQuoted(b, n, s, f[n])
  <2>1. s # Normal
    BY <1>5, ModeFields DEF MatchQuoted, Quoting
  <2> QED  BY <1>5, <2>1, QuotedMoves
<1>6. CASE MatchDollar(b, n, s, f[n])
  <2>1. s # Normal
    BY <1>6, ModeFields DEF MatchDollar
  <2> QED  BY <1>6, <2>1, DollarMoves
<1>7. CASE s = Lexical("line") /\ f[n].mode = s
  <2>1. s # Normal
    BY <1>7, ModeFields
  <2> QED  BY <1>7, <2>1, LineMoves
<1>8. CASE MatchBlock(b, n, s, f[n])
  <2>1. PICK depth \in Nat \ {0} : s = Block(depth)
    BY <1>8 DEF MatchBlock
  <2>2. s # Normal
    BY <2>1, ModeFields
  <2>3. lexNext(b, n + 1, s) = lexBlock(b, n + 1, depth)
    <3>1. n + 1 \in 1 .. Len(b)
      BY ByteAt
    <3> QED  BY <2>1, <3>1, LexesBlock
  <2>4. Moves(b, f, n, lexNext(b, n + 1, s))
    BY <1>8, <2>1, <2>3, BlockMoves
  <2> QED  BY <2>2, <2>4
<1>9. Match(b, n, s, f[n])
  OBVIOUS
<1> QED
  BY <1>3, <1>4, <1>5, <1>6, <1>7, <1>8, <1>9, Zenon DEF Match
-----------------------------------------------------------------------------
(***************************************************************************)
(* The loop of terminated_statement_ends.                                  *)
(***************************************************************************)
LastEnd(ends) == IF ends = <<>> THEN 0 ELSE ends[Len(ends)]

\* One more end makes one more piece.
LEMMA FramesAppend ==
  ASSUME NEW b, NEW ends \in Seq(Nat), NEW a \in Nat
  PROVE  Frames(b, Append(ends, a)) = Append(Frames(b, ends), SubSeq(b, LastEnd(ends) + 1, a))
<1> DEFINE l == Len(ends)
           more == Append(ends, a)
           s == Frames(b, ends)
           t == Frames(b, more)
           e == SubSeq(b, LastEnd(ends) + 1, a)
           X == {t[n] : n \in 1 .. l + 1}
<1>1. /\ l \in Nat /\ Len(more) = l + 1 /\ more[l + 1] = a /\ \A n \in 1 .. l : more[n] = ends[n]
      /\ DOMAIN ends = 1 .. l /\ DOMAIN more = 1 .. l + 1
  OBVIOUS
<1>2. /\ s = [n \in 1 .. l |-> SubSeq(b, IF n = 1 THEN 1 ELSE ends[n - 1] + 1, ends[n])]
      /\ t = [n \in 1 .. l + 1 |-> SubSeq(b, IF n = 1 THEN 1 ELSE more[n - 1] + 1, more[n])]
  BY <1>1 DEF Frames
<1> HIDE DEF more, s, t, l
<1>3. ASSUME NEW n \in 1 .. l PROVE s[n] = t[n]
  <2>1. n \in 1 .. l + 1 /\ more[n] = ends[n] /\ (n # 1 => more[n - 1] = ends[n - 1])
    BY <1>1
  <2> QED  BY <1>2, <2>1
<1>4. t[l + 1] = e
  <2>1. l + 1 \in 1 .. l + 1 /\ (l + 1) - 1 = l /\ (l + 1 = 1 <=> l = 0)
    BY <1>1
  <2>2. t[l + 1] = SubSeq(b, IF l = 0 THEN 1 ELSE more[l] + 1, a)
    BY <1>1, <1>2, <2>1
  <2>3. CASE l = 0
    <3>1. ends = <<>>
      BY <2>3 DEF l
    <3>2. LastEnd(ends) + 1 = 1
      BY <3>1 DEF LastEnd
    <3> QED  BY <2>2, <2>3, <3>2
  <2>4. CASE l # 0
    <3>1. ends # <<>> /\ more[l] = ends[l]
      BY <1>1, <2>4 DEF l
    <3>2. LastEnd(ends) = ends[l]
      BY <3>1 DEF LastEnd, l
    <3> QED  BY <2>2, <2>4, <3>1, <3>2
  <2> QED  BY <2>3, <2>4
<1> HIDE DEF e
<1>5. t \in [1 .. l + 1 -> X] /\ s \in [1 .. l -> X]
  <2>1. \A n \in 1 .. l : n \in 1 .. l + 1
    BY <1>1
  <2> QED  BY <1>2, <1>3, <2>1
<1>6. t \in Seq(X) /\ s \in Seq(X) /\ e \in X /\ Len(t) = l + 1 /\ Len(s) = l
  <2>1. l + 1 \in 1 .. l + 1 /\ l + 1 \in Nat
    BY <1>1
  <2>2. e \in X
    BY <1>4, <2>1
  <2> HIDE DEF X
  <2> QED  BY <1>1, <1>5, <2>1, <2>2
<1> HIDE DEF X
<1>7. /\ Append(s, e) \in Seq(X) /\ Len(Append(s, e)) = l + 1
      /\ Append(s, e)[l + 1] = e /\ \A n \in 1 .. l : Append(s, e)[n] = s[n]
  BY <1>6
<1>8. ASSUME NEW n \in 1 .. Len(t) PROVE t[n] = Append(s, e)[n]
  <2>1. n \in 1 .. l \/ n = l + 1
    BY <1>1, <1>6
  <2> QED  BY <1>3, <1>4, <1>7, <2>1
<1>9. t = Append(s, e)
  BY <1>6, <1>7, <1>8, SeqEqual, Zenon
<1> QED
  BY <1>9 DEF t, s, e, more

\* The ends that the scanner found make the pieces that the reader has, and the reader's
\* piece is what follows the last of them.
Framed(b, n, ends, r) == r.pieces = Frames(b, ends) /\ Len(r.piece) + LastEnd(ends) = n

\* What the scanner may know when the reader is f.
ScanStates(b, f) ==
  {p \in [at : 1 .. Len(b) + 1, state : Modes, ends : Seq(Nat)] :
     /\ Match(b, p.at - 1, p.state, f[p.at - 1])
     /\ Framed(b, p.at - 1, p.ends, f[p.at - 1])}

\* The fields of the scanner's state.
LEMMA ScannedFields ==
  ASSUME NEW at, NEW state, NEW ends
  PROVE  /\ Scanned(at, state, ends).at = at /\ Scanned(at, state, ends).state = state
         /\ Scanned(at, state, ends).ends = ends
  BY DEF Scanned

\* A state of the scanner that matches the reader at its place.
LEMMA ScannedStates ==
  ASSUME NEW b \in Seq(Bytes), NEW f, Reading(b, f), NEW n \in 0 .. Len(b), NEW s,
         NEW ends \in Seq(Nat), Match(b, n, s, f[n]), Framed(b, n, ends, f[n])
  PROVE  Scanned(n + 1, s, ends) \in ScanStates(b, f)
<1> DEFINE p == Scanned(n + 1, s, ends)
<1>1. f[n] \in Readers
  BY DEF Reading, Proper
<1>2. s \in Modes
  <2>1. Normal \in Modes /\ f[n].mode \in Modes
    BY <1>1, ModesAre, ReaderParts
  <2>2. s = Normal \/ s = f[n].mode
    BY Zenon DEF Match, MatchQuoted, MatchDollar, MatchBlock
  <2> QED  BY <2>1, <2>2
<1>3. n + 1 \in 1 .. Len(b) + 1 /\ (n + 1) - 1 = n
  OBVIOUS
<1>4. p \in [at : 1 .. Len(b) + 1, state : Modes, ends : Seq(Nat)]
  BY <1>2, <1>3 DEF Scanned
<1>5. p.at - 1 = n /\ p.state = s /\ p.ends = ends
  BY <1>3, ScannedFields
<1> HIDE DEF p
<1>6. p \in ScanStates(b, f)
  BY <1>4, <1>5 DEF ScanStates
<1> QED
  BY <1>6 DEF p

\* A round of the scanner keeps it in step with the reader and, before the end, moves it.
LEMMA ScanRound ==
  ASSUME NEW b \in Seq(Bytes), NEW f, Reading(b, f), NEW p \in ScanStates(b, f)
  PROVE  /\ scanNext(b, p) \in ScanStates(b, f)
         /\ p.at > Len(b) => scanNext(b, p) = p
         /\ p.at <= Len(b) => scanNext(b, p).at > p.at
<1> DEFINE n == p.at - 1
           s == p.state
           ends == p.ends
           next == lexNext(b, p.at, s)
           q == scanNext(b, p)
<1>1. /\ p.at \in 1 .. Len(b) + 1 /\ n \in 0 .. Len(b) /\ n + 1 = p.at /\ ends \in Seq(Nat)
      /\ Match(b, n, s, f[n]) /\ Framed(b, n, ends, f[n]) /\ Len(b) \in Nat
  <2>1. Len(b) \in Nat
    OBVIOUS
  <2>2. p \in [at : 1 .. Len(b) + 1, state : Modes, ends : Seq(Nat)]
    BY DEF ScanStates
  <2>3. Match(b, n, s, f[n]) /\ Framed(b, n, ends, f[n])
    BY DEF ScanStates
  <2> QED  BY <2>1, <2>2, <2>3
<1>2. CASE p.at > Len(b)
  BY <1>1, <1>2 DEF scanNext
<1>3. CASE p.at <= Len(b)
  <2> DEFINE more == IF s = Normal /\ b[p.at] = "semi" THEN Append(ends, p.at) ELSE ends
  <2>1. q = Scanned(p.at + next.width, next.state, more)
    BY <1>1, <1>3 DEF scanNext
  <2>2. n \in Nat /\ n + 1 <= Len(b)
    BY <1>1, <1>3
  <2>3. f[n] \in Readers /\ f[n].piece \in Seq(Bytes) /\ LastRead(b, f[n].piece, n)
    BY <2>2, NextTwo, ReaderParts DEF Follows
  <2> HIDE DEF n, s, ends
  <2>4. CASE s = Normal /\ b[p.at] = "semi"
    <3>1. /\ lexNext(b, n + 1, s) = To(Normal, 1)
          /\ f[n + 1] = Ends(f[n], "semi")
          /\ Match(b, n + 1, Normal, f[n + 1])
      BY <1>1, <2>2, <2>4, ScannerMoves
    <3>2. next.state = Normal /\ next.width = 1
      BY <1>1, <3>1, ToFields
    <3>3. more = Append(ends, n + 1) /\ more \in Seq(Nat)
      BY <1>1, <2>2, <2>4
    <3>4. /\ f[n + 1].pieces = Append(f[n].pieces, Append(f[n].piece, "semi"))
          /\ f[n + 1].piece = <<>>
      <4> DEFINE c == "semi"
                 r == f[n]
      <4>1. f[n + 1] = Ends(r, c)
        BY <3>1
      <4> HIDE DEF c, r
      <4>2. f[n + 1].pieces = Append(r.pieces, Append(r.piece, c)) /\ f[n + 1].piece = <<>>
        BY <4>1 DEF Ends, Reader
      <4> QED  BY <4>2 DEF c, r
    <3>5. Append(f[n].piece, "semi") = SubSeq(b, LastEnd(ends) + 1, n + 1)
      <4> DEFINE piece == f[n].piece
      <4>1. b[n + 1] = "semi"
        BY <1>1, <2>4
      <4>2. LastRead(b, Append(piece, b[n + 1]), n + 1)
        BY <2>2, <2>3, LastReadAppend
      <4>3. Append(piece, b[n + 1]) =
              SubSeq(b, (n + 1) - Len(Append(piece, b[n + 1])) + 1, n + 1)
        BY <4>2 DEF LastRead
      <4>4. Len(Append(piece, b[n + 1])) = Len(piece) + 1 /\ Len(piece) \in Nat
        <5>1. b[n + 1] \in Bytes
          BY <2>2, NextTwo
        <5> QED  BY <2>3, <5>1
      <4> DEFINE l == Len(piece)
                 e == LastEnd(ends)
      <4>5. l + e = n
        BY <1>1 DEF Framed
      <4>6. e \in Nat
        BY <1>1 DEF LastEnd
      <4> HIDE DEF l, e
      <4>7. l \in Nat
        BY <4>4 DEF l
      <4>8. (n + 1) - (l + 1) + 1 = e + 1
        BY <2>2, <4>5, <4>6, <4>7
      <4>9. Append(piece, b[n + 1]) = SubSeq(b, e + 1, n + 1)
        BY <4>3, <4>4, <4>8 DEF l
      <4> QED  BY <4>1, <4>9 DEF e
    <3>6. Framed(b, n + 1, more, f[n + 1])
      <4>1. f[n].pieces = Frames(b, ends)
        BY <1>1 DEF Framed
      <4>2. n + 1 \in Nat
        BY <2>2
      <4>3. Frames(b, more) = f[n + 1].pieces
        <5>1. Frames(b, more) = Append(Frames(b, ends), SubSeq(b, LastEnd(ends) + 1, n + 1))
          BY <1>1, <3>3, <4>2, FramesAppend
        <5> QED  BY <3>4, <3>5, <4>1, <5>1
      <4>4. LastEnd(more) = n + 1
        <5>1. more # <<>> /\ more[Len(more)] = n + 1
          <6> HIDE DEF more
          <6>1. Len(more) = Len(ends) + 1 /\ more[Len(ends) + 1] = n + 1 /\ Len(ends) \in Nat
            BY <1>1, <3>3, <4>2
          <6> QED  BY <6>1
        <5> QED  BY <5>1 DEF LastEnd
      <4>5. Len(f[n + 1].piece) = 0
        BY <3>4
      <4> HIDE DEF more
      <4> QED  BY <4>2, <4>3, <4>4, <4>5 DEF Framed
    <3>7. n + 1 \in 0 .. Len(b) /\ p.at + 1 = (n + 1) + 1
      BY <1>1, <2>2
    <3>8. Scanned((n + 1) + 1, Normal, more) \in ScanStates(b, f)
      <4> HIDE DEF more
      <4> QED  BY <3>1, <3>3, <3>6, <3>7, ScannedStates
    <3>9. q = Scanned((n + 1) + 1, Normal, more)
      BY <2>1, <3>2, <3>7
    <3> HIDE DEF q, more
    <3>10. q.at = (n + 1) + 1
      BY <3>9, ScannedFields
    <3>11. q \in ScanStates(b, f) /\ q.at > p.at
      BY <1>1, <3>7, <3>8, <3>9, <3>10
    <3> QED  BY <1>1, <1>3, <3>11 DEF q
  <2>5. CASE ~(s = Normal /\ b[p.at] = "semi")
    <3> DEFINE w == next.width
    <3>1. Moves(b, f, n, lexNext(b, n + 1, s))
      BY <1>1, <2>2, <2>5, ScannerMoves
    <3>2. lexNext(b, n + 1, s) = next
      BY <1>1
    <3> HIDE DEF next
    <3>3. /\ w \in 1 .. Len(b) - n /\ Match(b, n + w, next.state, f[n + w])
          /\ Takes(f[n], f[n + w], w)
      BY <3>1, <3>2 DEF Moves
    <3> HIDE DEF w
    <3>4. more = ends
      BY <2>5
    <3>5. n + w \in 0 .. Len(b) /\ p.at + w = (n + w) + 1 /\ p.at + w > p.at
      <4> DEFINE x == p.at
                 l == Len(b)
      <4>1. n \in Nat /\ l \in Nat /\ x = n + 1
        BY <1>1, <2>2
      <4>2. w \in 1 .. l - n
        BY <3>3
      <4> HIDE DEF x, l
      <4>3. n + w \in 0 .. l /\ x + w = (n + w) + 1 /\ x + w > x
        BY <4>1, <4>2
      <4> QED  BY <4>3 DEF x, l
    <3>6. Framed(b, n + w, ends, f[n + w])
      <4> DEFINE x == Len(f[n].piece)
                 y == Len(f[n + w].piece)
                 e == LastEnd(ends)
      <4>1. x \in Nat
        BY <2>3
      <4>2. y = x + w /\ x + e = n /\ f[n + w].pieces = Frames(b, ends)
        BY <1>1, <3>3 DEF Takes, Framed
      <4>3. e \in Nat
        BY <1>1 DEF LastEnd
      <4> HIDE DEF x, y, e
      <4>4. y + e = n + w
        BY <3>3, <4>1, <4>2, <4>3
      <4> QED  BY <4>2, <4>4 DEF Framed, y, e
    <3>7. Scanned((n + w) + 1, next.state, ends) \in ScanStates(b, f)
      BY <1>1, <3>3, <3>5, <3>6, ScannedStates
    <3>8. q = Scanned((n + w) + 1, next.state, ends)
      BY <2>1, <3>4, <3>5 DEF w
    <3> HIDE DEF q
    <3>9. q.at = (n + w) + 1
      BY <3>8, ScannedFields
    <3>10. q \in ScanStates(b, f) /\ q.at > p.at
      BY <3>5, <3>7, <3>8, <3>9
    <3> QED  BY <1>1, <1>3, <3>10 DEF q
  <2> QED  BY <2>4, <2>5
<1> QED
  BY <1>1, <1>2, <1>3

\* The scanner reaches the end of the text in step with the reader.
LEMMA ScanReads ==
  ASSUME NEW b \in Seq(Bytes)
  PROVE  \E f : /\ Reading(b, f) /\ Read(b) = f[Len(b)]
                /\ scan(b) \in ScanStates(b, f) /\ scan(b).at = Len(b) + 1
<1> DEFINE start == Scanned(1, Normal, <<>>)
           Scans(g) == g = [n \in 0 .. Len(b) |-> IF n = 0 THEN start ELSE scanNext(b, g[n - 1])]
           g == CHOOSE g : Scans(g)
<1>0. Len(b) \in Nat
  OBVIOUS
<1>1. PICK f : Reading(b, f) /\ Read(b) = f[Len(b)]
  BY ReadingSome
<1> DEFINE X == ScanStates(b, f)
           step == [p \in X |-> scanNext(b, p)]
<1>2. start \in X
  <2>1. f[0] = Start
    BY <1>1 DEF Reading
  <2>2. Start.mode = Normal /\ Start.seen = <<>> /\ Start.piece = <<>> /\ Start.pieces = <<>>
    BY DEF Start, Reader
  <2>3. Match(b, 0, Normal, f[0])
    BY <2>1, <2>2, EmptyClear DEF Match, MatchNormal
  <2>4. Frames(b, <<>>) = <<>>
    <3>1. DOMAIN <<>> = {}
      OBVIOUS
    <3> QED  BY <3>1 DEF Frames
  <2>5. Framed(b, 0, <<>>, f[0])
    <3>1. Len(<<>>) = 0 /\ LastEnd(<<>>) = 0
      BY DEF LastEnd
    <3> QED  BY <2>1, <2>2, <2>4, <3>1 DEF Framed
  <2>6. 0 \in 0 .. Len(b) /\ <<>> \in Seq(Nat) /\ 0 + 1 = 1
    BY <1>0
  <2>7. Scanned(0 + 1, Normal, <<>>) \in X
    BY <1>1, <2>3, <2>5, <2>6, ScannedStates
  <2> QED  BY <2>6, <2>7
<1>3. \A p \in X : /\ scanNext(b, p) \in X /\ p.at \in 1 .. Len(b) + 1
                   /\ p.at > Len(b) => scanNext(b, p) = p
                   /\ p.at <= Len(b) => scanNext(b, p).at > p.at
  <2> TAKE p \in X
  <2>1. p.at \in 1 .. Len(b) + 1
    BY DEF ScanStates
  <2> QED  BY <1>1, <2>1, ScanRound
<1> HIDE DEF X
<1>4. step \in [X -> X]
  BY <1>3
<1>5. PICK h \in [0 .. Len(b) -> X] : Loops(step, start, h, Len(b))
  <2> HIDE DEF step, start
  <2> QED  BY <1>0, <1>2, <1>4, LoopSome
<1>6. \A i \in 0 .. Len(b) : i # 0 => step[h[i - 1]] = scanNext(b, h[i - 1])
  <2> TAKE i \in 0 .. Len(b)
  <2> SUFFICES ASSUME i # 0 PROVE step[h[i - 1]] = scanNext(b, h[i - 1])
    OBVIOUS
  <2>1. i - 1 \in 0 .. Len(b)
    BY <1>0
  <2>2. h[i - 1] \in X
    BY <1>5, <2>1
  <2> QED  BY <2>2
<1>7. Scans(h)
  <2> HIDE DEF step, start
  <2>1. \A i \in 0 .. Len(b) : h[i] = IF i = 0 THEN start ELSE scanNext(b, h[i - 1])
    BY <1>5, <1>6 DEF Loops
  <2>2. h = [i \in 0 .. Len(b) |-> h[i]]
    BY <1>5
  <2> QED  BY <2>1, <2>2
<1>8. Scans(g)
  BY <1>7
<1>9. scan(b) = g[Len(b)]
  BY DEF scan
<1> HIDE DEF g, start, step
<1>10. g[0] = start /\ \A n \in 1 .. Len(b) : g[n] = scanNext(b, g[n - 1])
  BY <1>0, <1>8
<1> DEFINE S == {n \in Nat : n <= Len(b) => g[n] \in X /\ g[n].at >= n + 1}
<1>11. 0 \in S
  <2>1. start.at = 1
    BY ScannedFields DEF start
  <2> QED  BY <1>2, <1>10, <2>1
<1>12. ASSUME NEW n \in Nat, n \in S PROVE n + 1 \in S
  <2> SUFFICES ASSUME n + 1 <= Len(b) PROVE g[n + 1] \in X /\ g[n + 1].at >= (n + 1) + 1
    OBVIOUS
  <2>1. n + 1 \in 1 .. Len(b) /\ (n + 1) - 1 = n /\ n <= Len(b)
    BY <1>0
  <2>2. g[n] \in X /\ g[n].at >= n + 1
    BY <1>12, <2>1
  <2>3. g[n + 1] = scanNext(b, g[n])
    BY <1>10, <2>1
  <2> DEFINE p == g[n]
             q == g[n + 1]
             x == p.at
             y == q.at
  <2>4. /\ q \in X /\ x \in 1 .. Len(b) + 1 /\ y \in 1 .. Len(b) + 1 /\ x >= n + 1
        /\ x > Len(b) => y = x
        /\ x <= Len(b) => y > x
    BY <1>3, <2>2, <2>3
  <2> HIDE DEF x, y
  <2>5. y >= (n + 1) + 1
    BY <1>0, <2>4, <2>1
  <2> QED  BY <2>4, <2>5 DEF y
<1> HIDE DEF S
<1>13. Nat \subseteq S
  BY <1>11, <1>12, SetInduction
<1>14. g[Len(b)] \in X /\ g[Len(b)].at >= Len(b) + 1
  BY <1>0, <1>13 DEF S
<1>15. g[Len(b)].at = Len(b) + 1
  <2> DEFINE x == g[Len(b)].at
  <2>1. x \in 1 .. Len(b) + 1 /\ x >= Len(b) + 1
    BY <1>3, <1>14
  <2> HIDE DEF x
  <2>2. x = Len(b) + 1
    BY <1>0, <2>1
  <2> QED  BY <2>2 DEF x
<1> QED
  BY <1>1, <1>9, <1>14, <1>15 DEF X

\* Of every text, the scanner that looks ahead and the reader that does not find the same
\* statements and the same rest, and agree whether the text is complete.
THEOREM ScannerFrames ==
  ASSUME NEW b \in Seq(Bytes)
  PROVE  /\ Frames(b, terminated_statement_ends(b)) = Read(b).pieces
         /\ Rest(b, terminated_statement_ends(b)) = Read(b).piece
         /\ is_complete(b) <=> Closed(Read(b))
<1> DEFINE p == scan(b)
           ends == p.ends
           n == Len(b)
           r == Read(b)
<1>1. PICK f : /\ Reading(b, f) /\ Read(b) = f[n]
               /\ p \in ScanStates(b, f) /\ p.at = n + 1
  BY ScanReads
<1>2. n \in Nat /\ p.at - 1 = n
  BY <1>1
<1>3. /\ ends \in Seq(Nat) /\ Match(b, n, p.state, r) /\ Framed(b, n, ends, r)
  BY <1>1, <1>2 DEF ScanStates
<1>4. Proper(r) /\ Follows(b, r, n) /\ r \in Readers
  <2>1. n \in 0 .. Len(b)
    BY <1>2
  <2> QED  BY <1>1, <2>1 DEF Reading, Proper
<1>5. Frames(b, ends) = r.pieces
  BY <1>3 DEF Framed
<1>6. Rest(b, ends) = r.piece
  <2> DEFINE l == Len(r.piece)
             e == LastEnd(ends)
  <2>1. l + e = n /\ r.piece = SubSeq(b, n - l + 1, n)
    BY <1>3, <1>4 DEF Framed, Follows, LastRead
  <2>2. l \in Nat
    <3>1. r.piece \in Seq(Bytes)
      BY <1>4, ReaderParts
    <3> QED  BY <3>1
  <2>3. e \in Nat
    BY <1>3 DEF LastEnd
  <2> HIDE DEF l, e
  <2>4. n - l + 1 = e + 1
    BY <1>2, <2>1, <2>2, <2>3
  <2>5. CASE ends = <<>>
    <3>1. e = 0
      BY <2>5 DEF e, LastEnd
    <3>2. r.piece = SubSeq(b, 1, n)
      BY <2>1, <2>4, <3>1
    <3>3. SubSeq(b, 1, n) = b
      BY SubSeqFull
    <3> QED  BY <2>5, <3>2, <3>3 DEF Rest
  <2>6. CASE ends # <<>>
    <3>1. e = ends[Len(ends)]
      BY <2>6 DEF e, LastEnd
    <3> HIDE DEF ends, n
    <3>2. Rest(b, ends) = SubSeq(b, ends[Len(ends)] + 1, n)
      BY <2>6 DEF Rest, n
    <3> QED  BY <2>1, <2>4, <3>1, <3>2
  <2> QED  BY <2>5, <2>6
<1>7. is_complete(b) <=> Closed(r)
  <2> DEFINE s == p.state
  <2>1. is_complete(b) <=> s.kind \in {"normal", "line"}
    BY DEF is_complete
  <2>2. /\ Normal.kind = "normal" /\ Lexical("line").kind = "line"
        /\ \A kind \in Quoting : kind \in {"single", "double", "escape"} /\ kind # "normal"
                                 /\ kind # "line"
        /\ \A tag : Dollar(tag).kind = "dollar"
        /\ \A depth \in Nat : Block(depth).kind = "block"
    BY ModeFields DEF Quoting
  <2> HIDE DEF s, r
  <2>3. CASE s = Normal /\ MatchNormal(b, n, r)
    BY <2>1, <2>2, <2>3 DEF Closed, MatchNormal
  <2>4. CASE s = Normal /\ MatchClosed(b, n, r)
    <3>1. r.mode.kind \in {"single", "double", "escape"}
      BY <2>2, <2>4 DEF MatchClosed
    <3>2. r.seen \notin {<<>>, <<"bs">>}
      <4>1. r.seen = <<QuoteOf(r.mode.kind)>> /\ QuoteOf(r.mode.kind) # "bs"
        BY <2>4 DEF MatchClosed, QuoteOf
      <4>2. \A x, y : <<x>> # <<>> /\ (<<x>> = <<y>> => x = y)
        OBVIOUS
      <4> QED  BY <4>1, <4>2, Zenon
    <3> QED  BY <2>1, <2>2, <2>4, <3>1, <3>2 DEF Closed
  <2>5. CASE MatchQuoted(b, n, s, r)
    <3>1. r.mode = s /\ s.kind \in Quoting /\ r.seen \in {<<>>, <<"bs">>}
      BY <2>5 DEF MatchQuoted
    <3>2. s.kind # "normal" /\ s.kind # "line"
      BY <2>2, <3>1
    <3> QED  BY <2>1, <3>1, <3>2 DEF Closed
  <2>6. CASE MatchDollar(b, n, s, r)
    <3>1. r.mode = s /\ s.kind = "dollar"
      BY <2>2, <2>6 DEF MatchDollar
    <3> QED  BY <2>1, <3>1 DEF Closed
  <2>7. CASE s = Lexical("line") /\ r.mode = s
    BY <2>1, <2>2, <2>7 DEF Closed
  <2>8. CASE MatchBlock(b, n, s, r)
    <3>1. r.mode = s /\ s.kind = "block"
      BY <2>2, <2>8 DEF MatchBlock
    <3> QED  BY <2>1, <3>1 DEF Closed
  <2>9. Match(b, n, s, r)
    BY <1>3 DEF s
  <2> HIDE DEF n
  <2> QED  BY <2>3, <2>4, <2>5, <2>6, <2>7, <2>8, <2>9, Zenon DEF Match
<1> QED
  BY <1>5, <1>6, <1>7 DEF terminated_statement_ends
-----------------------------------------------------------------------------
(***************************************************************************)
(* The loop of skip_trivia.                                                *)
(***************************************************************************)
\* Where skip_trivia may stand when the reader is f: in a block comment, before the
\* line break that ends a line comment, or in normal text; with nothing solid before.
SkipStands(b, f, n, depth) ==
  /\ f[n].pieces = <<>> /\ ~f[n].solid
  /\ \/ depth = 0 /\ f[n].mode = Normal /\ f[n].seen = <<>>
     \/ depth = 0 /\ f[n].mode = Lexical("line") /\ (n < Len(b) => b[n + 1] = "nl")
     \/ depth # 0 /\ MatchBlock(b, n, Block(depth), f[n])

SkipStates(b, f) ==
  {p \in [at : 1 .. Len(b) + 1, depth : Nat] : SkipStands(b, f, p.at - 1, p.depth)}

\* The fields of what skip_trivia has passed.
LEMMA OverStates ==
  ASSUME NEW b \in Seq(Bytes), NEW f, NEW n \in 0 .. Len(b), NEW depth \in Nat,
         SkipStands(b, f, n, depth)
  PROVE  /\ Over(n + 1, depth) \in SkipStates(b, f)
         /\ Over(n + 1, depth).at = n + 1 /\ Over(n + 1, depth).depth = depth
<1>1. Len(b) \in Nat /\ n + 1 \in 1 .. Len(b) + 1 /\ (n + 1) - 1 = n
  OBVIOUS
<1> QED
  BY <1>1 DEF Over, SkipStates

\* A byte of normal text with nothing solid before it.
LEMMA FirstByte ==
  ASSUME NEW b \in Seq(Bytes), NEW f, Reading(b, f), NEW n \in Nat, n + 1 <= Len(b),
         f[n].mode = Normal, f[n].seen = <<>>, ~f[n].solid
  PROVE  /\ b[n + 1] \in Space =>
              /\ f[n + 1].mode = Normal /\ f[n + 1].seen = <<>> /\ ~f[n + 1].solid
              /\ f[n + 1].pieces = f[n].pieces
         /\ b[n + 1] \in {"-", "/"} =>
              /\ f[n + 1].mode = Normal /\ f[n + 1].seen = <<b[n + 1]>> /\ ~f[n + 1].solid
              /\ f[n + 1].pieces = f[n].pieces
<1> DEFINE c == b[n + 1]
           r == f[n + 1]
<1>1. f[n + 1] = See(f[n], c) /\ c \in Bytes /\ Proper(f[n]) /\ Follows(b, f[n], n)
  BY NextTwo
<1>2. Stands(b, f, n, f[n])
  BY <1>1 DEF Stands
<1>3. Clear(b, n, f[n].seen)
  BY EmptyClear
<1>4. <<>> \notin Halves
  BY DEF Halves
<1>5. c \in Space \cup {"-", "/"} =>
        /\ r.mode = Normal /\ r.seen = SeenAfter(<<>>, c) /\ Takes(f[n], r, 1) /\ ~r.solid
  <2> SUFFICES ASSUME c \in Space \cup {"-", "/"}
               PROVE  /\ r.mode = Normal /\ r.seen = SeenAfter(<<>>, c)
                      /\ Takes(f[n], r, 1) /\ ~r.solid
    OBVIOUS
  <2>1. c \notin {"semi", "'", "dq"} /\ c # "$"
    BY DEF Space
  <2>2. /\ r.mode = Normal /\ r.seen = SeenAfter(f[n].seen, c) /\ Takes(f[n], r, 1)
        /\ r.solid <=> f[n].solid \/ c \notin Space \cup {"-", "/"} \/ f[n].seen \in Halves
    BY <1>2, <1>3, <2>1, PlainByte
  <2> QED  BY <1>4, <2>2
<1>6. /\ c \in Space => SeenAfter(<<>>, c) = <<>>
      /\ c \in {"-", "/"} => SeenAfter(<<>>, c) = <<c>>
  <2>1. c \in Space \cup {"-", "/"} => ~is_identifier_continue(c)
    BY Identifiers DEF Space
  <2>2. c \in Space => c \notin {"-", "/"}
    BY DEF Space
  <2> QED  BY <2>1, <2>2 DEF SeenAfter
<1> QED
  BY <1>5, <1>6 DEF Takes

\* Both see a block comment open.
LEMMA OpensBlock ==
  ASSUME NEW b \in Seq(Bytes), NEW f, Reading(b, f), NEW n \in Nat, n + 1 < Len(b),
         f[n].mode = Normal, f[n].seen = <<>>, ~f[n].solid, f[n].pieces = <<>>,
         b[n + 1] = "/", b[n + 2] = "*"
  PROVE  SkipStands(b, f, n + 2, 1)
<1> DEFINE r == f[n + 1]
           t == f[n + 2]
<1>1. t = See(r, "*") /\ r \in Readers
  BY NextTwo
<1>2. r.mode = Normal /\ r.seen = <<"/">> /\ ~r.solid /\ r.pieces = <<>>
  BY FirstByte
<1>3. r.mode.kind = "normal"
  BY <1>2, ModeFields
<1> HIDE DEF r, t
<1>4. t = Goes(r, "*", Block(1), <<>>, r.solid)
  BY <1>1, <1>2, <1>3, SeesMarks
<1>5. t.mode = Block(1) /\ t.seen = <<>> /\ t.solid = r.solid /\ t.pieces = r.pieces
  BY <1>4, GoesFields
<1>6. MatchBlock(b, n + 2, Block(1), t)
  BY <1>5 DEF MatchBlock
<1> QED
  BY <1>2, <1>5, <1>6 DEF SkipStands, t

\* A line comment is read up to the line break.
LEMMA OpensLine ==
  ASSUME NEW b \in Seq(Bytes), NEW f, Reading(b, f), NEW n \in Nat, n + 1 < Len(b),
         f[n].mode = Normal, f[n].seen = <<>>, ~f[n].solid, f[n].pieces = <<>>,
         b[n + 1] = "-", b[n + 2] = "-"
  PROVE  \E m \in n + 2 .. Len(b) : line_end(b, n + 1) = m + 1 /\ SkipStands(b, f, m, 0)
<1> DEFINE r == f[n + 1]
           t == f[n + 2]
           ends == {k \in n + 1 .. Len(b) : b[k] \in NewLine}
           last == line_end(b, n + 1)
<1>0. Len(b) \in Nat
  OBVIOUS
<1>1. t = See(r, "-") /\ r \in Readers
  BY NextTwo
<1>2. r.mode = Normal /\ r.seen = <<"-">> /\ ~r.solid /\ r.pieces = <<>>
  BY FirstByte
<1>3. r.mode.kind = "normal"
  BY <1>2, ModeFields
<1>4. t = Goes(r, "-", Lexical("line"), <<>>, r.solid)
  <2> HIDE DEF r, t
  <2> QED  BY <1>1, <1>2, <1>3, SeesMarks
<1>5. t.mode = Lexical("line") /\ ~t.solid /\ t.pieces = <<>>
  <2> HIDE DEF r, t
  <2> QED  BY <1>2, <1>4, GoesFields
<1>6. /\ last \in n + 3 .. Len(b) + 1
      /\ last <= Len(b) => b[last] = "nl"
      /\ \A k \in n + 1 .. last - 1 : b[k] # "nl"
  <2>1. \A k : k \in ends <=> k \in n + 1 .. Len(b) /\ b[k] = "nl"
    BY DEF NewLine
  <2>2. n + 1 \notin ends /\ n + 2 \notin ends
    BY <2>1
  <2>3. CASE ends = {}
    <3>1. last = Len(b) + 1
      BY <2>3 DEF line_end
    <3> QED  BY <1>0, <2>1, <2>3, <3>1
  <2>4. CASE ends # {}
    <3>1. ends \subseteq Nat
      OBVIOUS
    <3> DEFINE IsLeast(k) == k \in ends /\ \A j \in ends : k <= j
    <3>2. last = CHOOSE k \in ends : \A j \in ends : k <= j
      BY <2>4 DEF line_end
    <3> HIDE DEF ends, last
    <3>3. \E k \in ends : \A j \in ends : k <= j
      BY <2>4, <3>1, Least
    <3>4. last \in ends /\ \A j \in ends : last <= j
      BY <3>2, <3>3
    <3>5. last \in n + 1 .. Len(b) /\ b[last] = "nl" /\ last # n + 1 /\ last # n + 2
      BY <2>1, <2>2, <3>4
    <3>6. last \in n + 3 .. Len(b) + 1
      BY <1>0, <3>5
    <3>7. ASSUME NEW k \in n + 1 .. last - 1 PROVE b[k] # "nl"
      <4>1. k \in n + 1 .. Len(b) /\ ~(last <= k)
        BY <1>0, <3>5
      <4> QED  BY <2>1, <3>4, <4>1
    <3> QED  BY <3>5, <3>6, <3>7
  <2> QED  BY <2>3, <2>4
<1> HIDE DEF last, r, t, ends
<1> DEFINE S == {k \in Nat : n + 2 + k <= last - 1 =>
                   /\ f[n + 2 + k].mode = Lexical("line")
                   /\ ~f[n + 2 + k].solid /\ f[n + 2 + k].pieces = <<>>}
<1>7. 0 \in S
  <2>1. n + 2 + 0 = n + 2
    OBVIOUS
  <2> QED  BY <1>5, <2>1 DEF t
<1>8. ASSUME NEW k \in Nat, k \in S PROVE k + 1 \in S
  <2> SUFFICES ASSUME n + 2 + (k + 1) <= last - 1
               PROVE  /\ f[n + 2 + (k + 1)].mode = Lexical("line")
                      /\ ~f[n + 2 + (k + 1)].solid /\ f[n + 2 + (k + 1)].pieces = <<>>
    OBVIOUS
  <2> DEFINE m == n + 2 + k
             q == f[m]
             u == f[m + 1]
             c == b[m + 1]
  <2>1. m \in Nat /\ m + 1 <= Len(b) /\ n + 2 + (k + 1) = m + 1 /\ m <= last - 1
        /\ m + 1 \in n + 1 .. last - 1
    BY <1>0, <1>6
  <2>2. q.mode = Lexical("line") /\ ~q.solid /\ q.pieces = <<>>
    BY <1>8, <2>1
  <2> HIDE DEF m
  <2>3. u = See(q, c) /\ q \in Readers
    BY <2>1, NextTwo
  <2>4. c # "nl"
    BY <1>6, <2>1
  <2>5. q.mode.kind = "line"
    BY <2>2, ModeFields
  <2> HIDE DEF q, u, c
  <2>6. u = Goes(q, c, q.mode, <<>>, q.solid)
    BY <2>3, <2>4, <2>5, SeesLine
  <2>7. u.mode = Lexical("line") /\ ~u.solid /\ u.pieces = <<>>
    BY <2>2, <2>6, GoesFields
  <2> QED  BY <2>1, <2>7 DEF u
<1> HIDE DEF S
<1>9. Nat \subseteq S
  BY <1>7, <1>8, SetInduction
<1> DEFINE m == last - 1
<1>10. m \in n + 2 .. Len(b) /\ last = m + 1 /\ m - (n + 2) \in Nat /\ n + 2 + (m - (n + 2)) = m
  BY <1>0, <1>6
<1>11. f[m].mode = Lexical("line") /\ ~f[m].solid /\ f[m].pieces = <<>>
  <2> HIDE DEF m
  <2> DEFINE k == m - (n + 2)
  <2>1. k \in S /\ n + 2 + k = m /\ n + 2 + k <= last - 1
    BY <1>9, <1>10
  <2> HIDE DEF k
  <2> QED  BY <2>1 DEF S
<1>12. m < Len(b) => b[m + 1] = "nl"
  BY <1>6, <1>10
<1> HIDE DEF m
<1>13. SkipStands(b, f, m, 0)
  BY <1>11, <1>12 DEF SkipStands
<1> QED
  BY <1>10, <1>13 DEF last

\* Where skip_trivia rests.
Stuck(b, p) ==
  /\ p.at <= Len(b) /\ p.depth = 0 /\ b[p.at] \notin Space
  /\ ~At(b, p.at, <<"/", "*">>) /\ ~At(b, p.at, <<"-", "-">>)
SkipRests(b, p) == p.at > Len(b) \/ (p.depth > 0 /\ p.at = Len(b)) \/ Stuck(b, p)

\* The reader in a block comment is where the loop of skip_trivia for comments is.
LEMMA SkipInBlock ==
  ASSUME NEW b \in Seq(Bytes), NEW f, Reading(b, f), NEW n \in Nat, n + 1 < Len(b),
         NEW depth \in Nat \ {0}, SkipStands(b, f, n, depth),
         NEW next, next = lexBlock(b, n + 1, depth)
  PROVE  /\ next.width \in 1 .. Len(b) - n /\ next.state.depth \in Nat
         /\ SkipStands(b, f, n + next.width, next.state.depth)
<1> DEFINE w == next.width
           t == f[n + w]
           s == next.state
<1>1. n + 1 <= Len(b) /\ MatchBlock(b, n, Block(depth), f[n]) /\ f[n].pieces = <<>> /\ ~f[n].solid
  BY DEF SkipStands
<1>2. /\ Moves(b, f, n, next) /\ f[n + next.width].solid = f[n].solid
      /\ \/ /\ next.state = Normal
            /\ f[n + next.width].mode = Normal /\ f[n + next.width].seen = <<>>
         \/ /\ MatchBlock(b, n + next.width, next.state, f[n + next.width])
            /\ next.state \in {Block(depth), Block(depth + 1), Block(depth - 1)}
  BY <1>1, BlockMoves
<1>3. w \in 1 .. Len(b) - n /\ t.pieces = <<>> /\ ~t.solid
  BY <1>1, <1>2 DEF Moves, Takes
<1>4. CASE s = Normal /\ t.mode = Normal /\ t.seen = <<>>
  <2>1. s.depth = 0
    BY <1>4 DEF Normal, Lexical, LexicalState
  <2> QED  BY <1>3, <1>4, <2>1 DEF SkipStands
<1>5. CASE MatchBlock(b, n + w, s, t)
  <2>1. PICK d \in Nat \ {0} : s = Block(d)
    BY <1>5 DEF MatchBlock
  <2>2. s.depth = d
    BY <2>1, ModeFields
  <2>3. MatchBlock(b, n + w, Block(s.depth), t) /\ s.depth # 0 /\ s.depth \in Nat
    BY <1>5, <2>1, <2>2
  <2> HIDE DEF w, s, t
  <2>4. SkipStands(b, f, n + w, s.depth)
    BY <1>3, <2>3 DEF SkipStands, t
  <2> QED  BY <1>3, <2>3, <2>4 DEF w, s
<1> QED  BY <1>2, <1>4, <1>5

\* The reader in normal text is where the loop of skip_trivia for space is.
LEMMA SkipInNormal ==
  ASSUME NEW b \in Seq(Bytes), NEW f, Reading(b, f), NEW n \in Nat, n + 1 <= Len(b),
         SkipStands(b, f, n, 0)
  PROVE  /\ b[n + 1] \in Space => SkipStands(b, f, n + 1, 0)
         /\ At(b, n + 1, <<"/", "*">>) => n + 2 <= Len(b) /\ SkipStands(b, f, n + 2, 1)
         /\ At(b, n + 1, <<"-", "-">>) =>
              \E m \in n + 2 .. Len(b) : line_end(b, n + 1) = m + 1 /\ SkipStands(b, f, m, 0)
<1> DEFINE c == b[n + 1]
           r == f[n + 1]
<1>0. /\ n + 1 \in 1 .. Len(b) /\ (n + 1) + 1 = n + 2 /\ n < Len(b)
      /\ "/" \in Bytes /\ "*" \in Bytes /\ "-" \in Bytes
  BY DEF Bytes
<1>1. f[n].pieces = <<>> /\ ~f[n].solid /\ r = See(f[n], c)
  BY NextTwo DEF SkipStands
<1>2. \/ f[n].mode = Normal /\ f[n].seen = <<>>
      \/ f[n].mode = Lexical("line") /\ c = "nl"
  BY <1>0 DEF SkipStands
<1>3. /\ At(b, n + 1, <<"/", "*">>) <=> n + 2 <= Len(b) /\ c = "/" /\ b[n + 2] = "*"
      /\ At(b, n + 1, <<"-", "-">>) <=> n + 2 <= Len(b) /\ c = "-" /\ b[n + 2] = "-"
  BY <1>0, AtTwo
<1>4. CASE f[n].mode = Normal /\ f[n].seen = <<>>
  <2>1. c \in Space => SkipStands(b, f, n + 1, 0)
    BY <1>1, <1>4, FirstByte DEF SkipStands
  <2>2. n + 2 <= Len(b) /\ c = "/" /\ b[n + 2] = "*" => SkipStands(b, f, n + 2, 1)
    BY <1>1, <1>4, OpensBlock
  <2>3. n + 2 <= Len(b) /\ c = "-" /\ b[n + 2] = "-" =>
          \E m \in n + 2 .. Len(b) : line_end(b, n + 1) = m + 1 /\ SkipStands(b, f, m, 0)
    BY <1>1, <1>4, OpensLine
  <2> QED  BY <1>3, <2>1, <2>2, <2>3
<1>5. CASE f[n].mode = Lexical("line") /\ c = "nl"
  <2>1. f[n].mode.kind = "line"
    BY <1>5, ModeFields
  <2> DEFINE q == f[n]
  <2> HIDE DEF q, r, c
  <2>2. r = Goes(q, c, Normal, <<>>, q.solid)
    BY <1>1, <1>5, <2>1, SeesLine DEF q
  <2>3. r.mode = Normal /\ r.seen = <<>> /\ r.solid = q.solid /\ r.pieces = q.pieces
    BY <2>2, GoesFields
  <2>4. SkipStands(b, f, n + 1, 0)
    BY <1>1, <2>3 DEF SkipStands, q, r
  <2> QED  BY <1>3, <1>5, <2>4 DEF c
<1> QED  BY <1>2, <1>4, <1>5

\* A round of skip_trivia keeps it in step with the reader and, where it may, moves it.
LEMMA SkipRound ==
  ASSUME NEW b \in Seq(Bytes), NEW f, Reading(b, f), NEW p \in SkipStates(b, f)
  PROVE  /\ skipNext(b, p) \in SkipStates(b, f)
         /\ SkipRests(b, p) => skipNext(b, p) = p
         /\ ~SkipRests(b, p) => skipNext(b, p).at > p.at
<1> DEFINE n == p.at - 1
           q == skipNext(b, p)
           c == b[p.at]
           d == p.depth
           l == Len(b)
<1>1. /\ p \in [at : 1 .. l + 1, depth : Nat] /\ SkipStands(b, f, n, d)
      /\ l \in Nat /\ n \in 0 .. l /\ p.at = n + 1 /\ d \in Nat
  BY DEF SkipStates
<1>2. CASE p.at > l \/ (d > 0 /\ p.at = l)
  <2>1. q = p
    BY <1>2 DEF skipNext
  <2> QED  BY <1>2, <2>1 DEF SkipRests
<1>3. CASE p.at < l /\ d > 0
  <2> DEFINE next == lexBlock(b, n + 1, d)
             w == next.width
             e == next.state.depth
  <2>1. n \in Nat /\ n + 1 < l /\ d \in Nat \ {0}
    BY <1>1, <1>3
  <2>2. next.width \in 1 .. Len(b) - n /\ next.state.depth \in Nat
        /\ SkipStands(b, f, n + next.width, next.state.depth)
    <3> HIDE DEF next, n, d
    <3>1. next = lexBlock(b, n + 1, d)
      BY DEF next
    <3> QED  BY <1>1, <2>1, <3>1, SkipInBlock
  <2>3. q = Over(n + 1 + w, e)
    BY <1>1, <1>3 DEF skipNext
  <2> HIDE DEF next, q
  <2>4. w \in 1 .. l - n /\ e \in Nat /\ SkipStands(b, f, n + w, e)
    BY <2>2
  <2> HIDE DEF w, e, n, l
  <2>5. n + w \in 0 .. l /\ n + 1 + w = (n + w) + 1 /\ (n + w) + 1 > n + 1
    BY <1>1, <2>4
  <2>6. /\ Over((n + w) + 1, e) \in SkipStates(b, f)
        /\ Over((n + w) + 1, e).at = (n + w) + 1
    BY <2>4, <2>5, OverStates DEF l
  <2>7. ~SkipRests(b, p)
    BY <1>1, <1>3 DEF SkipRests, Stuck, l
  <2>8. q \in SkipStates(b, f) /\ q.at > p.at
    BY <1>1, <2>3, <2>5, <2>6
  <2> QED  BY <2>7, <2>8 DEF q
<1>4. CASE p.at <= l /\ d = 0
  <2>1. n \in Nat /\ n + 1 <= l /\ n + 1 \in 0 .. l
    BY <1>1, <1>4
  <2>2. /\ b[n + 1] \in Space => SkipStands(b, f, n + 1, 0)
        /\ At(b, n + 1, <<"/", "*">>) => n + 2 <= l /\ SkipStands(b, f, n + 2, 1)
        /\ At(b, n + 1, <<"-", "-">>) =>
             \E m \in n + 2 .. Len(b) : line_end(b, n + 1) = m + 1 /\ SkipStands(b, f, m, 0)
    BY <1>1, <1>4, <2>1, SkipInNormal
  <2>3. ~(p.at > l \/ (d > 0 /\ p.at = l))
    BY <1>1, <1>4
  <2>4. /\ c \in Space => q = Over(p.at + 1, 0)
        /\ c \notin Space /\ At(b, p.at, <<"/", "*">>) => q = Over(p.at + 2, 1)
        /\ c \notin Space /\ ~At(b, p.at, <<"/", "*">>) /\ At(b, p.at, <<"-", "-">>) =>
             q = Over(line_end(b, p.at), 0)
        /\ c \notin Space /\ ~At(b, p.at, <<"/", "*">>) /\ ~At(b, p.at, <<"-", "-">>) => q = p
    <3>1. c \in Space => ~At(b, p.at, <<"/", "*">>) /\ ~At(b, p.at, <<"-", "-">>)
      <4>1. p.at \in 1 .. Len(b) /\ "/" \in Bytes /\ "*" \in Bytes /\ "-" \in Bytes
        BY <1>1, <1>4 DEF Bytes
      <4>2. /\ At(b, p.at, <<"/", "*">>) => c = "/"
            /\ At(b, p.at, <<"-", "-">>) => c = "-"
        BY <4>1, AtTwo
      <4> QED  BY <4>2 DEF Space
    <3>2. At(b, p.at, <<"/", "*">>) => ~At(b, p.at, <<"-", "-">>)
      <4>1. p.at \in 1 .. Len(b) /\ "/" \in Bytes /\ "*" \in Bytes /\ "-" \in Bytes
        BY <1>1, <1>4 DEF Bytes
      <4>2. /\ At(b, p.at, <<"/", "*">>) => c = "/"
            /\ At(b, p.at, <<"-", "-">>) => c = "-"
        BY <4>1, AtTwo
      <4> QED  BY <4>2
    <3> DEFINE x == (p.at > l \/ (d > 0 /\ p.at = l))
    <3>3. ~(d > 0)
      BY <1>4
    <3>4. q = CASE b[p.at] \in Space           -> Over(p.at + 1, 0)
                [] At(b, p.at, <<"/", "*">>) -> Over(p.at + 2, 1)
                [] At(b, p.at, <<"-", "-">>) -> Over(line_end(b, p.at), 0)
                [] OTHER                     -> p
      BY <2>3, <3>3, Zenon DEF skipNext
    <3> HIDE DEF q
    <3> QED  BY <3>1, <3>2, <3>4, Zenon
  <2>5. CASE c \in Space
    <3>1. Over((n + 1) + 1, 0) \in SkipStates(b, f) /\ Over((n + 1) + 1, 0).at = (n + 1) + 1
      BY <1>1, <2>1, <2>2, <2>5, OverStates
    <3>2. q = Over((n + 1) + 1, 0)
      BY <1>1, <2>4, <2>5
    <3>3. ~SkipRests(b, p)
      BY <2>3, <2>5 DEF SkipRests, Stuck
    <3> HIDE DEF q
    <3>4. q \in SkipStates(b, f) /\ q.at > p.at
      BY <1>1, <3>1, <3>2
    <3> QED  BY <3>3, <3>4 DEF q
  <2>6. CASE c \notin Space /\ At(b, p.at, <<"/", "*">>)
    <3>1. n + 2 \in 0 .. l /\ SkipStands(b, f, n + 2, 1)
      BY <1>1, <2>1, <2>2, <2>6
    <3>2. Over((n + 2) + 1, 1) \in SkipStates(b, f) /\ Over((n + 2) + 1, 1).at = (n + 2) + 1
      BY <3>1, OverStates
    <3>3. q = Over((n + 2) + 1, 1)
      <4>1. p.at + 2 = (n + 2) + 1
        BY <1>1
      <4> QED  BY <2>4, <2>6, <4>1
    <3>4. ~SkipRests(b, p)
      BY <2>3, <2>6 DEF SkipRests, Stuck
    <3> HIDE DEF q
    <3>5. q \in SkipStates(b, f) /\ q.at > p.at
      BY <1>1, <3>2, <3>3
    <3> QED  BY <3>4, <3>5 DEF q
  <2>7. CASE c \notin Space /\ ~At(b, p.at, <<"/", "*">>) /\ At(b, p.at, <<"-", "-">>)
    <3>1. PICK m \in n + 2 .. l : line_end(b, n + 1) = m + 1 /\ SkipStands(b, f, m, 0)
      BY <1>1, <2>2, <2>7
    <3>2. m \in 0 .. l
      BY <1>1, <2>1, <3>1
    <3>3. Over(m + 1, 0) \in SkipStates(b, f) /\ Over(m + 1, 0).at = m + 1
      BY <3>1, <3>2, OverStates
    <3>4. q = Over(m + 1, 0)
      BY <1>1, <2>4, <2>7, <3>1
    <3>5. ~SkipRests(b, p)
      BY <2>3, <2>7 DEF SkipRests, Stuck
    <3> HIDE DEF q
    <3>6. q \in SkipStates(b, f) /\ q.at > p.at
      BY <1>1, <3>1, <3>3, <3>4
    <3> QED  BY <3>5, <3>6 DEF q
  <2>8. CASE c \notin Space /\ ~At(b, p.at, <<"/", "*">>) /\ ~At(b, p.at, <<"-", "-">>)
    <3>1. q = p
      BY <2>4, <2>8
    <3>2. SkipRests(b, p)
      BY <1>1, <1>4, <2>8 DEF SkipRests, Stuck
    <3> HIDE DEF q
    <3> QED  BY <3>1, <3>2 DEF q
  <2> QED  BY <2>5, <2>6, <2>7, <2>8
<1> QED
  BY <1>1, <1>2, <1>3, <1>4

\* Two readers that differ in nothing but their text, and what a byte does to both.
Alike(q, r) == q.mode = r.mode /\ q.seen = r.seen /\ q.solid = r.solid

SeesAlike(q, r, c) ==
  \/ See(q, c) = Ends(q, c) /\ See(r, c) = Ends(r, c)
  \/ \E mode, seen, solid :
       /\ solid \in BOOLEAN /\ (r.solid => solid)
       /\ See(q, c) = Goes(q, c, mode, seen, solid) /\ See(r, c) = Goes(r, c, mode, seen, solid)

\* Two readers that go on to the same mode see alike.
LEMMA GoesAlike ==
  ASSUME NEW q, NEW r, NEW c, NEW mode, NEW seen, NEW solid,
         solid \in BOOLEAN, r.solid => solid,
         See(q, c) = Goes(q, c, mode, seen, solid), See(r, c) = Goes(r, c, mode, seen, solid)
  PROVE  SeesAlike(q, r, c)
BY DEF SeesAlike

\* Outside quotes and comments, readers in the same mode and word see alike.
LEMMA NormalAlike ==
  ASSUME NEW q \in Readers, NEW r \in Readers, NEW c, Alike(q, r), r.mode = Normal
  PROVE  SeesAlike(q, r, c)
<1>1. q.mode.kind = "normal" /\ r.mode.kind = "normal" /\ q.seen = r.seen /\ q.solid = r.solid
  BY ModeFields DEF Alike
<1>2. r.solid \in BOOLEAN
  BY ReaderParts
<1>3. CASE c = "semi"
  BY <1>1, <1>3, SeesNormal, ZenonT(30) DEF SeesAlike
<1>4. CASE c = "'"
  <2> DEFINE mode == Lexical(IF r.seen = <<"e">> THEN "escape" ELSE "single")
  <2>1. See(q, c) = Goes(q, c, mode, <<>>, TRUE) /\ See(r, c) = Goes(r, c, mode, <<>>, TRUE)
    BY <1>1, <1>4, SeesNormal, ZenonT(30)
  <2> HIDE DEF mode
  <2>2. PICK z : z = TRUE
    OBVIOUS
  <2>3. See(q, c) = Goes(q, c, mode, <<>>, z) /\ See(r, c) = Goes(r, c, mode, <<>>, z)
    BY <2>1, <2>2
  <2> QED  BY <2>2, <2>3, GoesAlike
<1>5. CASE c = "dq"
  <2>1. PICK z : z = TRUE
    OBVIOUS
  <2>2. See(q, c) = Goes(q, c, Lexical("double"), <<>>, z)
        /\ See(r, c) = Goes(r, c, Lexical("double"), <<>>, z)
    BY <1>1, <1>5, <2>1, SeesNormal
  <2> QED  BY <2>1, <2>2, GoesAlike
<1>6. CASE c = "-" /\ r.seen = <<"-">>
  <2>1. See(q, c) = Goes(q, c, Lexical("line"), <<>>, r.solid)
        /\ See(r, c) = Goes(r, c, Lexical("line"), <<>>, r.solid)
    <3>1. c = "-" /\ q.seen = <<"-">>
      BY <1>1, <1>6
    <3>2. See(q, c) = Goes(q, c, Lexical("line"), <<>>, q.solid)
      BY <1>1, <3>1, SeesNormal, Zenon
    <3>3. See(r, c) = Goes(r, c, Lexical("line"), <<>>, r.solid)
      BY <1>1, <1>6, SeesNormal, Zenon
    <3> QED  BY <1>1, <3>2, <3>3
  <2> QED  BY <1>2, <2>1, GoesAlike
<1>7. CASE c = "*" /\ r.seen = <<"/">>
  <2>1. See(q, c) = Goes(q, c, Block(1), <<>>, r.solid)
        /\ See(r, c) = Goes(r, c, Block(1), <<>>, r.solid)
    <3>1. c = "*" /\ q.seen = <<"/">>
      BY <1>1, <1>7
    <3>2. See(q, c) = Goes(q, c, Block(1), <<>>, q.solid)
      BY <1>1, <3>1, SeesNormal, Zenon
    <3>3. See(r, c) = Goes(r, c, Block(1), <<>>, r.solid)
      BY <1>1, <1>7, SeesNormal, Zenon
    <3> QED  BY <1>1, <3>2, <3>3
  <2> QED  BY <1>2, <2>1, GoesAlike
<1>8. CASE c = "$" /\ Opens(r.seen)
  <2>1. PICK z : z = TRUE
    OBVIOUS
  <2>2. See(q, c) = Goes(q, c, Dollar(Append(r.seen, c)), <<>>, z)
        /\ See(r, c) = Goes(r, c, Dollar(Append(r.seen, c)), <<>>, z)
    <3>1. c = "$" /\ Opens(q.seen)
      BY <1>1, <1>8
    <3>2. See(q, c) = Goes(q, c, Dollar(Append(q.seen, c)), <<>>, TRUE)
      BY <1>1, <3>1, SeesNormal, ZenonT(30)
    <3>3. See(r, c) = Goes(r, c, Dollar(Append(r.seen, c)), <<>>, TRUE)
      BY <1>1, <1>8, SeesNormal, ZenonT(30)
    <3> QED  BY <1>1, <2>1, <3>2, <3>3
  <2> QED  BY <2>1, <2>2, GoesAlike
<1>9. CASE /\ c \notin {"semi", "'", "dq"}
           /\ c = "-" => r.seen # <<"-">>
           /\ c = "*" => r.seen # <<"/">>
           /\ c = "$" => ~Opens(r.seen)
  <2> DEFINE z == r.solid \/ c \notin Space \cup {"-", "/"} \/ r.seen \in Halves
             y == q.solid \/ c \notin Space \cup {"-", "/"} \/ q.seen \in Halves
  <2>1. See(q, c) = Goes(q, c, Normal, SeenAfter(q.seen, c), y)
    <3>1. /\ c \notin {"semi", "'", "dq"}
          /\ c = "-" => q.seen # <<"-">>
          /\ c = "*" => q.seen # <<"/">>
          /\ c = "$" => ~Opens(q.seen)
      BY <1>1, <1>9
    <3> QED  BY <1>1, <3>1, SeesNormal, Zenon
  <2>2. See(r, c) = Goes(r, c, Normal, SeenAfter(r.seen, c), z)
    BY <1>1, <1>9, SeesNormal, Zenon
  <2>3. y = z /\ z \in BOOLEAN /\ (r.solid => z)
    BY <1>1, <1>2
  <2> HIDE DEF y, z
  <2>4. PICK x : x = z
    OBVIOUS
  <2>5. See(q, c) = Goes(q, c, Normal, SeenAfter(r.seen, c), x)
        /\ See(r, c) = Goes(r, c, Normal, SeenAfter(r.seen, c), x)
    BY <1>1, <2>1, <2>2, <2>3, <2>4
  <2>6. x \in BOOLEAN /\ (r.solid => x)
    BY <2>3, <2>4
  <2> QED  BY <2>5, <2>6, GoesAlike
<1>10. c \notin {"semi", "'", "dq"} <=> c # "semi" /\ c # "'" /\ c # "dq"
  OBVIOUS
<1> QED
  BY <1>3, <1>4, <1>5, <1>6, <1>7, <1>8, <1>9, <1>10, Zenon

\* What a byte does depends on the mode and on what is seen, never on the text before.
LEMMA SeeAlike ==
  ASSUME NEW q, Proper(q), NEW r, Proper(r), NEW c, Alike(q, r)
  PROVE  SeesAlike(q, r, c)
<1>1. /\ q \in Readers /\ r \in Readers /\ Fits(r.mode, r.seen) /\ r.solid \in BOOLEAN
      /\ q.mode = r.mode /\ q.seen = r.seen /\ q.solid = r.solid
  BY ReaderParts DEF Proper, Alike
<1>2. CASE r.mode.kind = "normal"
  BY <1>1, <1>2, KindsOfFits, NormalAlike
<1>3. CASE r.mode.kind \in Quoting
  <2>1. q.mode.kind \in Quoting
    BY <1>1, <1>3
  <2> DEFINE s == IF c \in QuotesOf(r.mode.kind) THEN <<c>> ELSE <<>>
  <2>2. CASE r.seen = <<>>
    <3>1. See(q, c) = Goes(q, c, r.mode, s, r.solid)
      BY <1>1, <2>1, <2>2, SeesQuoted
    <3>2. See(r, c) = Goes(r, c, r.mode, s, r.solid)
      BY <1>1, <1>3, <2>2, SeesQuoted
    <3> HIDE DEF s
    <3> QED  BY <1>1, <3>1, <3>2, GoesAlike
  <2>3. CASE r.seen # <<>> /\ (r.seen = <<"bs">> \/ c = r.seen[1])
    <3>1. See(q, c) = Goes(q, c, r.mode, <<>>, r.solid)
      BY <1>1, <2>1, <2>3, SeesQuoted
    <3>2. See(r, c) = Goes(r, c, r.mode, <<>>, r.solid)
      BY <1>1, <1>3, <2>3, SeesQuoted
    <3> QED  BY <1>1, <3>1, <3>2, GoesAlike
  <2>4. CASE r.seen # <<>> /\ ~(r.seen = <<"bs">> \/ c = r.seen[1])
    <3>1. See(q, c) = See(Settled(q), c) /\ See(r, c) = See(Settled(r), c)
      BY <1>1, <1>3, <2>1, <2>4, SeesQuoted
    <3>2. /\ Settled(q) \in Readers /\ Settled(r) \in Readers
          /\ Alike(Settled(q), Settled(r)) /\ Settled(r).mode = Normal
          /\ Settled(r).solid = r.solid
          /\ Settled(q).piece = q.piece /\ Settled(q).pieces = q.pieces
          /\ Settled(r).piece = r.piece /\ Settled(r).pieces = r.pieces
      BY <1>1, SettledProper DEF Proper, Settled, Reader, Alike
    <3>3. SeesAlike(Settled(q), Settled(r), c)
      BY <3>2, NormalAlike
    <3>4. /\ Ends(Settled(q), c) = Ends(q, c) /\ Ends(Settled(r), c) = Ends(r, c)
          /\ \A mode, seen, solid :
               /\ Goes(Settled(q), c, mode, seen, solid) = Goes(q, c, mode, seen, solid)
               /\ Goes(Settled(r), c, mode, seen, solid) = Goes(r, c, mode, seen, solid)
      <4> DEFINE t == Settled(q)
                 u == Settled(r)
      <4> HIDE DEF t, u
      <4> QED  BY <3>2 DEF Ends, Goes, t, u
    <3> QED  BY <3>1, <3>2, <3>3, <3>4 DEF SeesAlike
  <2> QED  BY <2>2, <2>3, <2>4
<1>4. CASE r.mode.kind = "dollar"
  <2>1. PICK tag \in Tags : r.mode = Dollar(tag)
    BY <1>1, <1>4, KindsOfFits
  <2> DEFINE body == Append(r.seen, c)
             closes == Len(body) >= Len(tag)
                       /\ SubSeq(body, Len(body) - Len(tag) + 1, Len(body)) = tag
  <2>2. /\ closes => See(q, c) = Goes(q, c, Normal, tag, r.solid)
        /\ ~closes => See(q, c) = Goes(q, c, r.mode, body, r.solid)
    BY <1>1, <2>1, SeesDollar
  <2>3. /\ closes => See(r, c) = Goes(r, c, Normal, tag, r.solid)
        /\ ~closes => See(r, c) = Goes(r, c, r.mode, body, r.solid)
    BY <1>1, <2>1, SeesDollar
  <2> HIDE DEF closes, body
  <2> QED  BY <1>1, <2>2, <2>3, GoesAlike
<1>5. CASE r.mode.kind = "line"
  <2>1. /\ c = "nl" => See(q, c) = Goes(q, c, Normal, <<>>, r.solid)
        /\ c # "nl" => See(q, c) = Goes(q, c, r.mode, <<>>, r.solid)
    BY <1>1, <1>5, SeesLine
  <2>2. /\ c = "nl" => See(r, c) = Goes(r, c, Normal, <<>>, r.solid)
        /\ c # "nl" => See(r, c) = Goes(r, c, r.mode, <<>>, r.solid)
    BY <1>1, <1>5, SeesLine
  <2> QED  BY <1>1, <2>1, <2>2, GoesAlike
<1>6. CASE r.mode.kind = "block"
  <2>1. PICK depth \in Nat \ {0} : r.mode = Block(depth)
    BY <1>1, <1>6, KindsOfFits
  <2> DEFINE mode == IF depth = 1 THEN Normal ELSE Block(depth - 1)
  <2>2. /\ r.seen = <<"/">> /\ c = "*" =>
             See(q, c) = Goes(q, c, Block(depth + 1), <<>>, r.solid)
        /\ r.seen = <<"*">> /\ c = "/" => See(q, c) = Goes(q, c, mode, <<>>, r.solid)
        /\ ~(r.seen = <<"/">> /\ c = "*") /\ ~(r.seen = <<"*">> /\ c = "/") =>
             See(q, c) = Goes(q, c, r.mode, <<c>>, r.solid)
    BY <1>1, <2>1, SeesBlock
  <2>3. /\ r.seen = <<"/">> /\ c = "*" =>
             See(r, c) = Goes(r, c, Block(depth + 1), <<>>, r.solid)
        /\ r.seen = <<"*">> /\ c = "/" => See(r, c) = Goes(r, c, mode, <<>>, r.solid)
        /\ ~(r.seen = <<"/">> /\ c = "*") /\ ~(r.seen = <<"*">> /\ c = "/") =>
             See(r, c) = Goes(r, c, r.mode, <<c>>, r.solid)
    BY <1>1, <2>1, SeesBlock
  <2> HIDE DEF mode
  <2>4. CASE r.seen = <<"/">> /\ c = "*"
    BY <1>1, <2>2, <2>3, <2>4, GoesAlike
  <2>5. CASE r.seen = <<"*">> /\ c = "/"
    BY <1>1, <2>2, <2>3, <2>5, GoesAlike
  <2>6. CASE ~(r.seen = <<"/">> /\ c = "*") /\ ~(r.seen = <<"*">> /\ c = "/")
    BY <1>1, <2>2, <2>3, <2>6, GoesAlike
  <2> QED  BY <2>4, <2>5, <2>6
<1>7. r.mode.kind \in Kinds
  BY <1>1, KindsOfFits
<1> HIDE DEF Quoting
<1>8. \/ r.mode.kind = "normal" \/ r.mode.kind \in Quoting \/ r.mode.kind = "dollar"
      \/ r.mode.kind = "line" \/ r.mode.kind = "block"
  BY <1>7 DEF Kinds, Quoting
<1> QED
  BY <1>2, <1>3, <1>4, <1>5, <1>6, <1>8, Zenon

\* Something other than space and comments was read, or a statement has ended.
Marked(r) == r.solid \/ r.pieces # <<>>

\* A sequence with an item more is not empty.
LEMMA AppendSome ==
  ASSUME NEW S, NEW s \in Seq(S), NEW x
  PROVE  Append(s, x) # <<>>
<1>1. Len(Append(s, x)) = Len(s) + 1 /\ Len(s) \in Nat
  OBVIOUS
<1>2. SUFFICES ASSUME Append(s, x) = <<>> PROVE FALSE
  OBVIOUS
<1>3. Len(s) + 1 = 0
  BY <1>1, <1>2
<1> QED
  BY <1>1, <1>3

\* A byte ends a statement, or is the piece's next and takes no mark away.
LEMMA SeeSteps ==
  ASSUME NEW r, Proper(r), NEW c
  PROVE  \/ See(r, c) = Ends(r, c)
         \/ /\ See(r, c).piece = Append(r.piece, c) /\ See(r, c).pieces = r.pieces
            /\ r.solid => See(r, c).solid
<1>1. SeesAlike(r, r, c)
  BY SeeAlike DEF Alike
<1>2. CASE See(r, c) = Ends(r, c)
  BY <1>2
<1>3. ASSUME NEW mode, NEW seen, NEW solid, r.solid => solid,
             See(r, c) = Goes(r, c, mode, seen, solid)
      PROVE  /\ See(r, c).piece = Append(r.piece, c) /\ See(r, c).pieces = r.pieces
             /\ r.solid => See(r, c).solid
  <2> DEFINE t == See(r, c)
  <2> HIDE DEF t
  <2>1. t = Goes(r, c, mode, seen, solid)
    BY <1>3 DEF t
  <2>2. t.piece = Append(r.piece, c) /\ t.pieces = r.pieces /\ t.solid = solid
    BY <2>1, GoesFields
  <2> QED  BY <1>3, <2>2 DEF t
<1> QED
  BY <1>1, <1>2, <1>3 DEF SeesAlike

\* Once there is a statement or more than trivia, there stays one.
LEMMA MarkedOnce ==
  ASSUME NEW b \in Seq(Bytes), NEW f, Reading(b, f), NEW n \in 0 .. Len(b), Marked(f[n])
  PROVE  Marked(f[Len(b)])
<1>0. Len(b) \in Nat /\ n \in Nat
  OBVIOUS
<1> DEFINE S == {k \in Nat : n + k <= Len(b) => Marked(f[n + k])}
<1>1. 0 \in S
  <2>1. n + 0 = n
    BY <1>0
  <2> QED  BY <2>1
<1>2. ASSUME NEW k \in Nat, k \in S PROVE k + 1 \in S
  <2> SUFFICES ASSUME n + (k + 1) <= Len(b) PROVE Marked(f[n + (k + 1)])
    OBVIOUS
  <2> DEFINE m == n + k
             q == f[m]
             c == b[m + 1]
  <2>1. m \in Nat /\ m + 1 <= Len(b) /\ m <= Len(b) /\ n + (k + 1) = m + 1
    BY <1>0
  <2>2. Marked(q)
    BY <1>2, <2>1
  <2> HIDE DEF m
  <2>3. f[m + 1] = See(q, c) /\ Proper(q) /\ q \in Readers
    BY <2>1, NextTwo
  <2>4. q.pieces \in Seq(Seq(Bytes)) /\ q.solid \in BOOLEAN
    BY <2>3, ReaderParts
  <2> HIDE DEF q, c
  <2>5. CASE See(q, c) = Ends(q, c)
    <3> DEFINE t == Ends(q, c)
               x == Append(q.piece, c)
    <3>1. t.pieces = Append(q.pieces, x)
      BY EndsFields
    <3> HIDE DEF t, x
    <3>2. Append(q.pieces, x) # <<>>
      BY <2>4, AppendSome
    <3> QED  BY <2>1, <2>3, <2>5, <3>1, <3>2 DEF Marked, t
  <2>6. CASE /\ See(q, c).piece = Append(q.piece, c) /\ See(q, c).pieces = q.pieces
             /\ q.solid => See(q, c).solid
    BY <2>1, <2>2, <2>3, <2>6 DEF Marked
  <2> QED  BY <2>3, <2>5, <2>6, SeeSteps
<1> HIDE DEF S
<1>3. Nat \subseteq S
  BY <1>1, <1>2, SetInduction
<1>4. Len(b) - n \in Nat /\ n + (Len(b) - n) = Len(b)
  BY <1>0
<1> QED
  BY <1>3, <1>4 DEF S

\* Where skip_trivia finds something solid, the reader finds it too, at the latest with
\* the byte after it.
LEMMA StuckReads ==
  ASSUME NEW b \in Seq(Bytes), NEW f, Reading(b, f), NEW n \in Nat, n + 1 <= Len(b),
         SkipStands(b, f, n, 0), b[n + 1] \notin Space,
         ~At(b, n + 1, <<"/", "*">>), ~At(b, n + 1, <<"-", "-">>)
  PROVE  Marked(f[Len(b)]) \/ (f[Len(b)].mode = Normal /\ f[Len(b)].seen \in Halves)
<1> DEFINE q == f[n]
           r == f[n + 1]
           c == b[n + 1]
<1>0. /\ n + 1 \in 1 .. Len(b) /\ n < Len(b) /\ Len(b) \in Nat /\ (n + 1) + 1 = n + 2
      /\ "/" \in Bytes /\ "*" \in Bytes /\ "-" \in Bytes
  BY DEF Bytes
<1>1. r = See(q, c) /\ c \in Bytes /\ q \in Readers /\ Proper(q) /\ Follows(b, q, n)
  BY NextTwo
<1>2. q.mode = Normal /\ q.seen = <<>> /\ ~q.solid /\ q.pieces = <<>>
  BY <1>0, ModeFields DEF SkipStands, Space
<1>3. /\ ~(n + 2 <= Len(b) /\ c = "/" /\ b[n + 2] = "*")
      /\ ~(n + 2 <= Len(b) /\ c = "-" /\ b[n + 2] = "-")
  BY <1>0, AtTwo
<1>4. q.mode.kind = "normal"
  BY <1>2, ModeFields
<1>5. ASSUME NEW m \in 1 .. Len(b), NEW p, p \in Readers, f[m] = See(p, b[m]),
             p.mode.kind = "normal", b[m] \in {"semi", "'", "dq"}
      PROVE  Marked(f[m])
  <2> DEFINE d == b[m]
             mode == Lexical(IF p.seen = <<"e">> THEN "escape" ELSE "single")
             t == f[m]
  <2>1. /\ d = "semi" => t = Ends(p, d)
        /\ d = "'" => t = Goes(p, d, mode, <<>>, TRUE)
        /\ d = "dq" => t = Goes(p, d, Lexical("double"), <<>>, TRUE)
    BY <1>5, SeesNormal
  <2> HIDE DEF d, mode, t
  <2>2. PICK z : z = TRUE
    OBVIOUS
  <2>3. CASE d = "semi"
    <3> DEFINE x == Append(p.piece, d)
    <3>1. t.pieces = Append(p.pieces, x)
      BY <2>1, <2>3, EndsFields
    <3>2. p.pieces \in Seq(Seq(Bytes))
      BY <1>5, ReaderParts
    <3> HIDE DEF x
    <3>3. Append(p.pieces, x) # <<>>
      BY <3>2, AppendSome
    <3> QED  BY <3>1, <3>3 DEF Marked, t
  <2>4. CASE d = "'"
    <3>1. t = Goes(p, d, mode, <<>>, z)
      BY <2>1, <2>2, <2>4
    <3>2. t.solid = z
      BY <3>1, GoesFields
    <3> QED  BY <2>2, <3>2 DEF Marked, t
  <2>5. CASE d = "dq"
    <3>1. t = Goes(p, d, Lexical("double"), <<>>, z)
      BY <2>1, <2>2, <2>5
    <3>2. t.solid = z
      BY <3>1, GoesFields
    <3> QED  BY <2>2, <3>2 DEF Marked, t
  <2> QED  BY <1>5, <2>3, <2>4, <2>5 DEF d
<1>6. ASSUME NEW m \in 1 .. Len(b), NEW p, f[m] = See(p, b[m]), p.mode.kind = "normal",
             b[m] \notin {"semi", "'", "dq"},
             b[m] = "-" => p.seen # <<"-">>, b[m] = "*" => p.seen # <<"/">>, ~Opens(p.seen),
             b[m] \notin Space \cup {"-", "/"} \/ p.seen \in Halves
      PROVE  Marked(f[m])
  <2> DEFINE d == b[m]
             seen == SeenAfter(p.seen, d)
             z == p.solid \/ d \notin Space \cup {"-", "/"} \/ p.seen \in Halves
             t == f[m]
  <2>1. t = Goes(p, d, Normal, seen, z)
    <3>1. /\ d \notin {"semi", "'", "dq"}
          /\ d = "-" => p.seen # <<"-">>
          /\ d = "*" => p.seen # <<"/">>
          /\ d = "$" => ~Opens(p.seen)
      BY <1>6
    <3> QED  BY <1>6, <3>1, SeesNormal, Zenon
  <2>2. z
    BY <1>6
  <2>3. t.solid = z
    <3> HIDE DEF d, seen, z, t
    <3>1. PICK x : x = z
      OBVIOUS
    <3>2. t = Goes(p, d, Normal, seen, x)
      BY <2>1, <3>1
    <3>3. t.solid = x
      BY <3>2, GoesFields
    <3> QED  BY <3>1, <3>3
  <2> HIDE DEF t
  <2> QED  BY <2>2, <2>3 DEF Marked, t
<1>7. ~Opens(<<>>) /\ ~Opens(<<"-">>) /\ ~Opens(<<"/">>)
  BY DEF Opens
<1>8. CASE c \notin {"-", "/"}
  <2>1. CASE c \in {"semi", "'", "dq"}
    <3>1. Marked(f[n + 1])
      BY <1>0, <1>1, <1>4, <1>5, <2>1
    <3> QED  BY <1>0, <3>1, MarkedOnce
  <2>2. CASE c \notin {"semi", "'", "dq"}
    <3>1. c \notin Space \cup {"-", "/"} /\ q.seen # <<"-">> /\ q.seen # <<"/">>
      BY <1>2, <1>8
    <3>2. Marked(f[n + 1])
      BY <1>0, <1>1, <1>2, <1>4, <1>6, <1>7, <2>2, <3>1
    <3> QED  BY <1>0, <3>2, MarkedOnce
  <2> QED  BY <2>1, <2>2
<1>9. CASE c \in {"-", "/"}
  <2>1. r.mode = Normal /\ r.seen = <<c>> /\ ~r.solid /\ r.pieces = <<>>
    BY <1>2, <1>9, FirstByte
  <2>2. r.seen \in Halves
    BY <1>9, <2>1 DEF Halves
  <2>3. CASE n + 1 = Len(b)
    BY <2>1, <2>2, <2>3
  <2>4. CASE n + 2 <= Len(b)
    <3> DEFINE d == b[n + 2]
               t == f[n + 2]
    <3>1. t = See(r, d) /\ n + 2 \in 1 .. Len(b) /\ n + 2 \in 0 .. Len(b) /\ r \in Readers
      BY <1>0, <2>4, NextTwo
    <3>2. r.mode.kind = "normal"
      BY <2>1, ModeFields
    <3>3. CASE d \in {"semi", "'", "dq"}
      <4>1. Marked(f[n + 2])
        BY <1>5, <3>1, <3>2, <3>3
      <4> QED  BY <3>1, <4>1, MarkedOnce
    <3>4. CASE d \notin {"semi", "'", "dq"}
      <4>1. ~Opens(r.seen)
        BY <1>7, <1>9, <2>1
      <4>2. (d = "-" => r.seen # <<"-">>) /\ (d = "*" => r.seen # <<"/">>)
        BY <1>3, <2>1, <2>4
      <4>3. Marked(f[n + 2])
        BY <1>6, <2>2, <3>1, <3>2, <3>4, <4>1, <4>2
      <4> QED  BY <3>1, <4>3, MarkedOnce
    <3> QED  BY <3>3, <3>4
  <2> QED  BY <1>0, <2>3, <2>4
<1> QED
  BY <1>8, <1>9

\* skip_trivia comes to rest where it agrees with the reader.
LEMMA SkipReads ==
  ASSUME NEW b \in Seq(Bytes)
  PROVE  \E f : /\ Reading(b, f) /\ Read(b) = f[Len(b)]
                /\ \E p \in SkipStates(b, f) : SkipRests(b, p) /\ skip_trivia(b) = p.at
<1> DEFINE start == Over(1, 0)
           Skips(g) == g = [n \in 0 .. Len(b) |-> IF n = 0 THEN start ELSE skipNext(b, g[n - 1])]
           g == CHOOSE g : Skips(g)
<1>0. Len(b) \in Nat
  OBVIOUS
<1>1. PICK f : Reading(b, f) /\ Read(b) = f[Len(b)]
  BY ReadingSome
<1> DEFINE X == SkipStates(b, f)
           step == [p \in X |-> skipNext(b, p)]
<1>2. start \in X /\ start.at = 1
  <2>1. f[0] = Start
    BY <1>1 DEF Reading
  <2>2. Start.mode = Normal /\ Start.seen = <<>> /\ Start.pieces = <<>> /\ ~Start.solid
    BY DEF Start, Reader
  <2>3. SkipStands(b, f, 0, 0)
    BY <2>1, <2>2 DEF SkipStands
  <2>4. 0 \in 0 .. Len(b) /\ 0 + 1 = 1
    BY <1>0
  <2>5. Over(0 + 1, 0) \in X /\ Over(0 + 1, 0).at = 0 + 1
    BY <2>3, <2>4, OverStates
  <2> QED  BY <2>4, <2>5
<1>3. \A p \in X : /\ skipNext(b, p) \in X /\ p.at \in 1 .. Len(b) + 1
                   /\ SkipRests(b, p) => skipNext(b, p) = p
                   /\ ~SkipRests(b, p) => skipNext(b, p).at > p.at
  <2> TAKE p \in X
  <2>1. p.at \in 1 .. Len(b) + 1
    BY DEF SkipStates
  <2> QED  BY <1>1, <2>1, SkipRound
<1> HIDE DEF X
<1>4. step \in [X -> X]
  BY <1>3
<1>5. PICK h \in [0 .. Len(b) -> X] : Loops(step, start, h, Len(b))
  <2> HIDE DEF step, start
  <2> QED  BY <1>0, <1>2, <1>4, LoopSome
<1>6. \A i \in 0 .. Len(b) : i # 0 => step[h[i - 1]] = skipNext(b, h[i - 1])
  <2> TAKE i \in 0 .. Len(b)
  <2> SUFFICES ASSUME i # 0 PROVE step[h[i - 1]] = skipNext(b, h[i - 1])
    OBVIOUS
  <2>1. i - 1 \in 0 .. Len(b)
    BY <1>0
  <2>2. h[i - 1] \in X
    BY <1>5, <2>1
  <2> QED  BY <2>2
<1>7. Skips(h)
  <2> HIDE DEF step, start
  <2>1. \A i \in 0 .. Len(b) : h[i] = IF i = 0 THEN start ELSE skipNext(b, h[i - 1])
    BY <1>5, <1>6 DEF Loops
  <2>2. h = [i \in 0 .. Len(b) |-> h[i]]
    BY <1>5
  <2> QED  BY <2>1, <2>2
<1>8. Skips(g)
  BY <1>7
<1>9. skip_trivia(b) = g[Len(b)].at
  BY DEF skip_trivia
<1> HIDE DEF g, start, step
<1>10. g[0] = start /\ \A n \in 1 .. Len(b) : g[n] = skipNext(b, g[n - 1])
  BY <1>0, <1>8
<1> DEFINE S == {n \in Nat : n <= Len(b) => g[n] \in X /\ (g[n].at >= n + 1 \/ SkipRests(b, g[n]))}
<1>11. 0 \in S
  BY <1>2, <1>10
<1>12. ASSUME NEW n \in Nat, n \in S PROVE n + 1 \in S
  <2> SUFFICES ASSUME n + 1 <= Len(b)
               PROVE  g[n + 1] \in X /\ (g[n + 1].at >= (n + 1) + 1 \/ SkipRests(b, g[n + 1]))
    OBVIOUS
  <2>1. n + 1 \in 1 .. Len(b) /\ (n + 1) - 1 = n /\ n <= Len(b)
    BY <1>0
  <2>2. g[n] \in X /\ (g[n].at >= n + 1 \/ SkipRests(b, g[n]))
    BY <1>12, <2>1
  <2>3. g[n + 1] = skipNext(b, g[n])
    BY <1>10, <2>1
  <2> DEFINE p == g[n]
             q == g[n + 1]
             x == p.at
             y == q.at
  <2>4. /\ q \in X /\ x \in 1 .. Len(b) + 1 /\ y \in 1 .. Len(b) + 1
        /\ SkipRests(b, p) => q = p
        /\ ~SkipRests(b, p) => y > x /\ x >= n + 1
    BY <1>3, <2>2, <2>3
  <2> HIDE DEF x, y, p, q
  <2>5. y >= (n + 1) + 1 \/ SkipRests(b, q)
    BY <1>0, <2>4, <2>1
  <2> QED  BY <2>4, <2>5 DEF y, q
<1> HIDE DEF S
<1>13. Nat \subseteq S
  BY <1>11, <1>12, SetInduction
<1> DEFINE p == g[Len(b)]
<1>14. p \in X /\ (p.at >= Len(b) + 1 \/ SkipRests(b, p))
  BY <1>0, <1>13 DEF S
<1>15. SkipRests(b, p)
  <2> DEFINE x == p.at
  <2>1. x \in 1 .. Len(b) + 1
    BY <1>3, <1>14
  <2> HIDE DEF x
  <2>2. x >= Len(b) + 1 => x > Len(b)
    BY <1>0, <2>1
  <2> QED  BY <1>14, <2>2 DEF SkipRests, x
<1> QED
  BY <1>1, <1>9, <1>14, <1>15 DEF X

\* Of text in which no statement ends, the scanner and the reader agree whether it is only
\* space and comments.
THEOREM TriviaReads ==
  ASSUME NEW b \in Seq(Bytes), Read(b).pieces = <<>>
  PROVE  is_trivia(b) <=> OnlyTrivia(Read(b))
<1> DEFINE r == Read(b)
           l == Len(b)
<1>1. PICK f : /\ Reading(b, f) /\ r = f[l]
               /\ \E p \in SkipStates(b, f) : SkipRests(b, p) /\ skip_trivia(b) = p.at
  BY SkipReads
<1>2. PICK p \in SkipStates(b, f) : SkipRests(b, p) /\ skip_trivia(b) = p.at
  BY <1>1
<1> DEFINE n == p.at - 1
           d == p.depth
<1>3. /\ p \in [at : 1 .. l + 1, depth : Nat] /\ SkipStands(b, f, n, d)
      /\ l \in Nat /\ n \in 0 .. l /\ p.at = n + 1 /\ d \in Nat
  BY DEF SkipStates
<1>4. is_complete(b) <=> Closed(r)
  BY ScannerFrames
<1>5. OnlyTrivia(r) => Closed(r)
  BY DEF OnlyTrivia, Closed
<1>6. r \in Readers
  <2>1. l \in 0 .. l
    BY <1>3
  <2> QED  BY <1>1, <2>1 DEF Reading, Proper
<1> HIDE DEF r
<1>7. CASE n = l /\ d = 0
  <2>1. is_trivia(b) <=> Closed(r)
    BY <1>2, <1>3, <1>4, <1>7 DEF is_trivia
  <2>2. /\ ~r.solid
        /\ (r.mode = Normal /\ r.seen = <<>>) \/ r.mode = Lexical("line")
    BY <1>1, <1>3, <1>7 DEF SkipStands
  <2>3. CASE r.mode = Normal /\ r.seen = <<>>
    <3>1. r.mode.kind = "normal" /\ <<>> \notin Halves
      BY <2>3, ModeFields DEF Halves
    <3> QED  BY <1>5, <2>1, <2>2, <2>3, <3>1 DEF OnlyTrivia, r
  <2>4. CASE r.mode = Lexical("line")
    <3>1. r.mode.kind = "line"
      BY <2>4, ModeFields
    <3>2. Fits(r.mode, r.seen)
      <4>1. l \in 0 .. l
        BY <1>3
      <4> QED  BY <1>1, <4>1 DEF Reading, Proper
    <3>3. r.seen = <<>> /\ <<>> \notin Halves
      BY <3>1, <3>2, KindsOfFits DEF Halves
    <3> QED  BY <1>5, <2>1, <2>2, <3>1, <3>3 DEF OnlyTrivia, r
  <2> QED  BY <2>2, <2>3, <2>4
<1>8. CASE n = l /\ d # 0
  <2>1. MatchBlock(b, l, Block(d), r)
    BY <1>1, <1>3, <1>8 DEF SkipStands
  <2>2. r.mode = Block(d)
    BY <2>1 DEF MatchBlock
  <2>3. r.mode.kind = "block"
    BY <2>2, ModeFields
  <2>4. ~OnlyTrivia(r) /\ ~Closed(r)
    BY <2>3 DEF OnlyTrivia, Closed
  <2> QED  BY <1>4, <2>4 DEF is_trivia, r
<1>9. CASE n < l /\ d # 0
  <2>1. p.at = l /\ n + 1 = l /\ n \in Nat
    BY <1>2, <1>3, <1>9 DEF SkipRests, Stuck
  <2>2. ~(skip_trivia(b) > Len(b))
    BY <1>2, <1>3, <2>1
  <2>3. ~is_trivia(b)
    BY <2>2 DEF is_trivia
  <2>4. MatchBlock(b, n, Block(d), f[n])
    BY <1>3, <1>9 DEF SkipStands
  <2> DEFINE q == f[n]
             c == b[n + 1]
  <2>5. /\ q.mode = Block(d)
        /\ q.seen = <<"/">> => c # "*"
        /\ q.seen = <<"*">> => c # "/"
    BY <1>9, <2>4 DEF MatchBlock
  <2>6. r = See(q, c)
    <3>1. n + 1 <= Len(b)
      BY <2>1, <1>3
    <3>2. f[n + 1] = See(f[n], b[n + 1])
      BY <1>1, <2>1, <3>1, NextTwo
    <3> QED  BY <1>1, <2>1, <3>2
  <2> HIDE DEF q, c
  <2>7. r = Goes(q, c, q.mode, <<c>>, q.solid)
    BY <1>3, <2>5, <2>6, SeesBlock
  <2>8. r.mode = Block(d)
    BY <2>5, <2>7, GoesFields
  <2>9. r.mode.kind = "block"
    BY <2>8, ModeFields
  <2>10. ~OnlyTrivia(r)
    BY <2>9 DEF OnlyTrivia
  <2> QED  BY <2>3, <2>10 DEF r
<1>10. CASE n < l /\ d = 0
  <2>1. Stuck(b, p)
    BY <1>2, <1>3, <1>10 DEF SkipRests
  <2>2. ~(skip_trivia(b) > Len(b))
    BY <1>2, <1>3, <1>10
  <2>3. ~is_trivia(b)
    BY <2>2 DEF is_trivia
  <2>4. /\ n \in Nat /\ n + 1 <= Len(b) /\ SkipStands(b, f, n, 0) /\ b[n + 1] \notin Space
        /\ ~At(b, n + 1, <<"/", "*">>) /\ ~At(b, n + 1, <<"-", "-">>)
    BY <1>3, <1>10, <2>1 DEF Stuck
  <2> HIDE DEF n, d
  <2>5. Marked(f[Len(b)]) \/ (f[Len(b)].mode = Normal /\ f[Len(b)].seen \in Halves)
    BY <1>1, <2>4, StuckReads
  <2>6. r.solid \/ r.seen \in Halves
    BY <1>1, <2>5 DEF Marked, r
  <2>7. ~OnlyTrivia(r)
    BY <2>6 DEF OnlyTrivia
  <2> QED  BY <2>3, <2>7 DEF r
<1> QED
  BY <1>3, <1>7, <1>8, <1>9, <1>10
-----------------------------------------------------------------------------
(***************************************************************************)
(* Prefixes: what was read, and how a reader goes on from its pending piece. *)
(***************************************************************************)
\* Concatenation and append associate.
LEMMA ConcatAppend ==
  ASSUME NEW S, NEW s \in Seq(S), NEW t \in Seq(S), NEW x \in S
  PROVE  s \o Append(t, x) = Append(s \o t, x)
<1>1. /\ Append(t, x) \in Seq(S) /\ s \o t \in Seq(S) /\ Len(s) \in Nat /\ Len(t) \in Nat
      /\ Len(Append(t, x)) = Len(t) + 1 /\ Len(s \o t) = Len(s) + Len(t)
  OBVIOUS
<1>2. /\ s \o Append(t, x) \in Seq(S) /\ Append(s \o t, x) \in Seq(S)
      /\ Len(s \o Append(t, x)) = Len(s) + (Len(t) + 1)
      /\ Len(Append(s \o t, x)) = Len(s) + Len(t) + 1
  BY <1>1
<1>3. ASSUME NEW k \in 1 .. Len(s) + (Len(t) + 1)
      PROVE  (s \o Append(t, x))[k] = Append(s \o t, x)[k]
  <2>1. CASE k \in 1 .. Len(s)
    <3>1. (s \o Append(t, x))[k] = s[k]
      BY <1>1, <2>1
    <3>2. k \in 1 .. Len(s \o t)
      BY <1>1, <2>1
    <3>3. Append(s \o t, x)[k] = (s \o t)[k]
      BY <1>1, <3>2
    <3> QED  BY <2>1, <3>1, <3>3
  <2>2. CASE k \in Len(s) + 1 .. Len(s) + Len(t)
    <3>1. k - Len(s) \in 1 .. Len(t) /\ k \in Len(s) + 1 .. Len(s) + Len(Append(t, x))
      BY <1>1, <2>2
    <3>2. (s \o Append(t, x))[k] = Append(t, x)[k - Len(s)]
      BY <1>1, <3>1
    <3>3. Append(t, x)[k - Len(s)] = t[k - Len(s)]
      BY <1>1, <3>1
    <3>4. k \in 1 .. Len(s \o t) /\ (s \o t)[k] = t[k - Len(s)]
      BY <1>1, <2>2
    <3>5. Append(s \o t, x)[k] = (s \o t)[k]
      BY <1>1, <3>4
    <3> QED  BY <3>2, <3>3, <3>4, <3>5
  <2>3. CASE k = Len(s) + Len(t) + 1
    <3>1. k - Len(s) = Len(t) + 1 /\ k \in Len(s) + 1 .. Len(s) + Len(Append(t, x))
      BY <1>1, <2>3
    <3>2. (s \o Append(t, x))[k] = Append(t, x)[k - Len(s)]
      BY <1>1, <3>1
    <3>3. Append(t, x)[Len(t) + 1] = x
      OBVIOUS
    <3>4. Append(s \o t, x)[Len(s \o t) + 1] = x
      BY <1>1
    <3>5. k = Len(s \o t) + 1
      BY <1>1, <2>3
    <3> QED  BY <3>1, <3>2, <3>3, <3>4, <3>5
  <2> QED  BY <1>1, <2>1, <2>2, <2>3
<1> DEFINE u == s \o Append(t, x)
           v == Append(s \o t, x)
<1>4. u \in Seq(S) /\ v \in Seq(S) /\ Len(u) = Len(v) /\ \A k \in 1 .. Len(u) : u[k] = v[k]
  BY <1>1, <1>2, <1>3
<1> HIDE DEF u, v
<1>5. u = v
  BY <1>4, SeqEqual, Zenon
<1> QED  BY <1>5 DEF u, v

\* A part of a sequence grows by its next item.
LEMMA PartNext ==
  ASSUME NEW S, NEW b \in Seq(S), NEW n \in Nat, NEW m \in Nat, n <= m, m + 1 <= Len(b)
  PROVE  SubSeq(b, n + 1, m + 1) = Append(SubSeq(b, n + 1, m), b[m + 1])
<1> DEFINE u == SubSeq(b, n + 1, m + 1)
           v == SubSeq(b, n + 1, m)
           c == b[m + 1]
<1>0. Len(b) \in Nat /\ m + 1 \in 1 .. Len(b)
  OBVIOUS
<1>1. /\ u \in Seq(S) /\ Len(u) = (m + 1) - n
      /\ \A k \in 1 .. (m + 1) - n : u[k] = b[n + k]
  <2>1. /\ n + 1 \in Nat /\ m + 1 \in Nat /\ 1 <= n + 1 /\ n + 1 <= (m + 1) + 1
        /\ (m + 1) + 1 - (n + 1) = (m + 1) - n
    OBVIOUS
  <2>2. \A k \in 1 .. (m + 1) - n : (n + 1) + k - 1 = n + k
    OBVIOUS
  <2>3. /\ u \in Seq(S) /\ Len(u) = (m + 1) + 1 - (n + 1)
        /\ \A k \in 1 .. (m + 1) + 1 - (n + 1) : u[k] = b[(n + 1) + k - 1]
    BY <2>1, Part
  <2> QED  BY <2>1, <2>2, <2>3
<1>2. /\ v \in Seq(S) /\ Len(v) = m - n
      /\ \A k \in 1 .. m - n : v[k] = b[n + k]
  <2>1. n + 1 \in Nat /\ 1 <= n + 1 /\ n + 1 <= m + 1 /\ m + 1 - (n + 1) = m - n /\ m <= Len(b)
    BY <1>0
  <2>2. \A k \in 1 .. m - n : (n + 1) + k - 1 = n + k
    OBVIOUS
  <2>3. /\ v \in Seq(S) /\ Len(v) = m + 1 - (n + 1)
        /\ \A k \in 1 .. m + 1 - (n + 1) : v[k] = b[(n + 1) + k - 1]
    BY <2>1, Part
  <2> QED  BY <2>1, <2>2, <2>3
<1>3. c \in S
  BY <1>0
<1> HIDE DEF u, v
<1> DEFINE w == Append(v, c)
<1>4. w \in Seq(S) /\ Len(w) = (m - n) + 1
  BY <1>2, <1>3
<1>5. ASSUME NEW k \in 1 .. (m + 1) - n PROVE u[k] = w[k]
  <2>1. CASE k \in 1 .. m - n
    <3>1. w[k] = v[k]
      BY <1>2, <1>3, <2>1
    <3> QED  BY <1>1, <1>2, <2>1, <3>1
  <2>2. CASE k = (m - n) + 1
    <3>1. n + k = m + 1
      BY <2>2
    <3>2. u[k] = b[m + 1]
      BY <1>1, <3>1
    <3>3. w[Len(v) + 1] = c
      BY <1>2, <1>3
    <3>4. k = Len(v) + 1
      BY <1>2, <2>2
    <3>5. w[k] = c
      <4> HIDE DEF w, c
      <4> QED  BY <3>3, <3>4
    <3> QED  BY <3>2, <3>5
  <2>3. k \in 1 .. m - n \/ k = (m - n) + 1
    OBVIOUS
  <2> QED  BY <2>1, <2>2, <2>3, Zenon
<1>6. Len(u) = Len(w) /\ \A k \in 1 .. Len(u) : u[k] = w[k]
  <2>1. (m + 1) - n = (m - n) + 1
    OBVIOUS
  <2> QED  BY <1>1, <1>4, <1>5, <2>1
<1> HIDE DEF w
<1>7. u = w
  BY <1>1, <1>4, <1>6, SeqEqual, Zenon
<1> QED  BY <1>7 DEF u, v, w

\* What is read of a text does not depend on what follows.
LEMMA PrefixReads ==
  ASSUME NEW b \in Seq(Bytes), NEW f, Reading(b, f), NEW n \in 0 .. Len(b)
  PROVE  Read(SubSeq(b, 1, n)) = f[n]
<1> DEFINE c == SubSeq(b, 1, n)
<1>0. Len(b) \in Nat /\ n \in Nat /\ n <= Len(b)
  OBVIOUS
<1>1. c \in Seq(Bytes) /\ Len(c) = n /\ \A k \in 1 .. n : c[k] = b[k]
  <2>1. 1 \in Nat /\ 1 <= 1 /\ 1 <= n + 1 /\ n + 1 - 1 = n
    BY <1>0
  <2>2. \A k \in 1 .. n : 1 + k - 1 = k
    BY <1>0
  <2>3. /\ c \in Seq(Bytes) /\ Len(c) = n + 1 - 1
        /\ \A k \in 1 .. n + 1 - 1 : c[k] = b[1 + k - 1]
    BY <1>0, <2>1, Part
  <2> QED  BY <2>1, <2>2, <2>3
<1> HIDE DEF c
<1>2. PICK g : Reading(c, g) /\ Read(c) = g[n]
  BY <1>1, ReadingSome
<1> DEFINE S == {k \in Nat : k <= n => g[k] = f[k]}
<1>3. 0 \in S
  BY <1>2 DEF Reading
<1>4. ASSUME NEW k \in Nat, k \in S PROVE k + 1 \in S
  <2> SUFFICES ASSUME k + 1 <= n PROVE g[k + 1] = f[k + 1]
    OBVIOUS
  <2>1. k + 1 <= Len(b) /\ k + 1 <= Len(c) /\ k + 1 \in 1 .. n /\ k <= n
    BY <1>0, <1>1
  <2>2. g[k + 1] = See(g[k], c[k + 1])
    BY <1>1, <1>2, <2>1, ReadingNext
  <2>3. f[k + 1] = See(f[k], b[k + 1])
    BY <2>1, ReadingNext
  <2>4. g[k] = f[k]
    BY <1>4, <2>1
  <2> QED  BY <1>1, <2>1, <2>2, <2>3, <2>4
<1> HIDE DEF S
<1>5. Nat \subseteq S
  BY <1>3, <1>4, SetInduction
<1>6. g[n] = f[n]
  BY <1>0, <1>5 DEF S
<1> QED
  BY <1>2, <1>6 DEF c

\* What the reference makes of a text is a proper reader.
LEMMA ReadProper ==
  ASSUME NEW b \in Seq(Bytes)
  PROVE  Proper(Read(b)) /\ Read(b) \in Readers
<1>1. PICK f : Reading(b, f) /\ Read(b) = f[Len(b)]
  BY ReadingSome
<1>2. Len(b) \in 0 .. Len(b)
  OBVIOUS
<1> QED
  BY <1>1, <1>2 DEF Reading, Proper

\* Of an empty text the reference makes its start.
LEMMA ReadNone == Read(<<>>) = Start
<1>1. <<>> \in Seq(Bytes) /\ Len(<<>>) = 0
  OBVIOUS
<1>2. PICK f : Reading(<<>>, f) /\ Read(<<>>) = f[Len(<<>>)]
  BY <1>1, ReadingSome
<1> QED
  BY <1>1, <1>2 DEF Reading

\* The reference reads one byte more by seeing it.
LEMMA ReadAppend ==
  ASSUME NEW b \in Seq(Bytes), NEW c \in Bytes
  PROVE  Read(Append(b, c)) = See(Read(b), c)
<1> DEFINE d == Append(b, c)
           n == Len(b)
<1>1. n \in Nat /\ d \in Seq(Bytes) /\ Len(d) = n + 1 /\ d[n + 1] = c
  OBVIOUS
<1>2. \A k \in 1 .. n : d[k] = b[k]
  OBVIOUS
<1> HIDE DEF d
<1>3. SubSeq(d, 1, n) = b
  <2> DEFINE e == SubSeq(d, 1, n)
  <2>1. e \in Seq(Bytes) /\ Len(e) = n /\ \A k \in 1 .. n : e[k] = d[k]
    <3>1. 1 \in Nat /\ 1 <= 1 /\ 1 <= n + 1 /\ n + 1 - 1 = n /\ n <= Len(d)
      BY <1>1
    <3>2. \A k \in 1 .. n : 1 + k - 1 = k
      BY <1>1
    <3>3. /\ e \in Seq(Bytes) /\ Len(e) = n + 1 - 1
          /\ \A k \in 1 .. n + 1 - 1 : e[k] = d[1 + k - 1]
      BY <1>1, <3>1, Part
    <3> QED  BY <3>1, <3>2, <3>3
  <2> HIDE DEF e
  <2>2. \A k \in 1 .. Len(e) : e[k] = b[k]
    BY <1>2, <2>1
  <2>3. e = b
    BY <2>1, <2>2, SeqEqual, Zenon
  <2> QED  BY <2>3 DEF e
<1>4. PICK f : Reading(d, f) /\ Read(d) = f[n + 1]
  BY <1>1, ReadingSome
<1>5. f[n + 1] = See(f[n], c)
  BY <1>1, <1>4, ReadingNext
<1>6. n \in 0 .. Len(d)
  BY <1>1
<1>7. f[n] = Read(b)
  BY <1>1, <1>3, <1>4, <1>6, PrefixReads
<1> QED
  BY <1>4, <1>5, <1>7 DEF d

\* Reader r stands where q would, had the statements in pre ended before.
After(pre, q, r) == Alike(q, r) /\ q.piece = r.piece /\ r.pieces = pre \o q.pieces

\* A reader that starts after whole statements sees what one from the start sees.
LEMMA AfterSee ==
  ASSUME NEW pre \in Seq(Seq(Bytes)), NEW q, Proper(q), NEW r, Proper(r), NEW c \in Bytes,
         After(pre, q, r)
  PROVE  After(pre, See(q, c), See(r, c))
<1>1. /\ Alike(q, r) /\ q.piece = r.piece /\ r.pieces = pre \o q.pieces
      /\ q.piece \in Seq(Bytes) /\ q.pieces \in Seq(Seq(Bytes))
  BY ReaderParts DEF After, Proper
<1>2. SeesAlike(q, r, c)
  BY <1>1, SeeAlike
<1> DEFINE t == See(q, c)
           u == See(r, c)
<1>3. CASE See(q, c) = Ends(q, c) /\ See(r, c) = Ends(r, c)
  <2> DEFINE x == Append(q.piece, c)
  <2>1. x \in Seq(Bytes) /\ x = Append(r.piece, c)
    BY <1>1
  <2> HIDE DEF t, u, x
  <2>2. t = Ends(q, c) /\ u = Ends(r, c)
    BY <1>3 DEF t, u
  <2>3. /\ t.mode = Normal /\ t.seen = <<>> /\ t.solid = FALSE
        /\ t.piece = <<>> /\ t.pieces = Append(q.pieces, x)
    BY <2>2, EndsFields DEF x
  <2>4. /\ u.mode = Normal /\ u.seen = <<>> /\ u.solid = FALSE
        /\ u.piece = <<>> /\ u.pieces = Append(r.pieces, x)
    BY <2>1, <2>2, EndsFields
  <2>5. pre \o Append(q.pieces, x) = Append(pre \o q.pieces, x)
    <3> DEFINE ps == q.pieces
               T == Seq(Bytes)
    <3>1. ps \in Seq(T) /\ pre \in Seq(T) /\ x \in T
      BY <1>1, <2>1
    <3> HIDE DEF ps, T
    <3>2. pre \o Append(ps, x) = Append(pre \o ps, x)
      BY <3>1, ConcatAppend
    <3> QED  BY <3>2 DEF ps
  <2>6. After(pre, t, u)
    BY <1>1, <2>3, <2>4, <2>5 DEF After, Alike
  <2> QED  BY <2>6 DEF t, u
<1>4. ASSUME NEW mode, NEW seen, NEW solid, See(q, c) = Goes(q, c, mode, seen, solid),
             See(r, c) = Goes(r, c, mode, seen, solid)
      PROVE  After(pre, See(q, c), See(r, c))
  <2> HIDE DEF t, u
  <2>1. t = Goes(q, c, mode, seen, solid) /\ u = Goes(r, c, mode, seen, solid)
    BY <1>4 DEF t, u
  <2>2. /\ t.mode = mode /\ t.seen = seen /\ t.solid = solid
        /\ t.piece = Append(q.piece, c) /\ t.pieces = q.pieces
    BY <2>1, GoesFields
  <2>3. /\ u.mode = mode /\ u.seen = seen /\ u.solid = solid
        /\ u.piece = Append(r.piece, c) /\ u.pieces = r.pieces
    BY <2>1, GoesFields
  <2>4. After(pre, t, u)
    BY <1>1, <2>2, <2>3 DEF After, Alike
  <2> QED  BY <2>4 DEF t, u
<1> QED
  BY <1>2, <1>3, <1>4 DEF SeesAlike

\* The piece that is being read, read from its start, leaves a reader in the same state.
Bare(q, r) == Alike(q, r) /\ q.piece = r.piece /\ q.pieces = <<>>

\* The pending piece, read by itself, gives the reader that it is pending in.
LEMMA PieceReads ==
  ASSUME NEW b \in Seq(Bytes), NEW f, Reading(b, f), NEW n \in 0 .. Len(b)
  PROVE  Bare(Read(f[n].piece), f[n])
<1>0. Len(b) \in Nat /\ n \in Nat /\ n <= Len(b)
  OBVIOUS
<1> DEFINE S == {k \in Nat : k <= Len(b) => Bare(Read(f[k].piece), f[k])}
<1>1. 0 \in S
  <2>1. f[0] = Start /\ Start.piece = <<>> /\ Start.pieces = <<>>
    BY DEF Reading, Start, Reader
  <2>2. Bare(Start, Start)
    BY <2>1 DEF Bare, Alike
  <2> QED  BY <2>1, <2>2, ReadNone
<1>2. ASSUME NEW k \in Nat, k \in S PROVE k + 1 \in S
  <2> SUFFICES ASSUME k + 1 <= Len(b) PROVE Bare(Read(f[k + 1].piece), f[k + 1])
    OBVIOUS
  <2> DEFINE r == f[k]
             u == f[k + 1]
             c == b[k + 1]
             q == Read(r.piece)
  <2>1. u = See(r, c) /\ c \in Bytes /\ Proper(r) /\ r \in Readers
    BY NextTwo
  <2>2. Bare(q, r)
    BY <1>0, <1>2
  <2>3. r.piece \in Seq(Bytes)
    BY <2>1, ReaderParts
  <2>4. Proper(q)
    BY <2>3, ReadProper
  <2>5. Alike(q, r) /\ q.piece = r.piece /\ q.pieces = <<>>
    BY <2>2 DEF Bare
  <2>6. SeesAlike(q, r, c)
    BY <2>1, <2>4, <2>5, SeeAlike
  <2>7. Read(Append(r.piece, c)) = See(q, c)
    BY <2>1, <2>3, ReadAppend
  <2> HIDE DEF q, r, u, c
  <2>8. CASE See(q, c) = Ends(q, c) /\ See(r, c) = Ends(r, c)
    <3>1. u.mode = Normal /\ u.seen = <<>> /\ u.solid = FALSE /\ u.piece = <<>>
      <4>1. u = Ends(r, c)
        BY <2>1, <2>8
      <4> QED  BY <4>1, EndsFields
    <3>2. /\ Start.mode = Normal /\ Start.seen = <<>> /\ Start.solid = FALSE
          /\ Start.piece = <<>> /\ Start.pieces = <<>>
      BY DEF Start, Reader
    <3>3. Bare(Start, u)
      BY <3>1, <3>2 DEF Bare, Alike
    <3> QED  BY <3>1, <3>3, ReadNone DEF u
  <2>9. ASSUME NEW mode, NEW seen, NEW solid, See(q, c) = Goes(q, c, mode, seen, solid),
               See(r, c) = Goes(r, c, mode, seen, solid)
        PROVE  Bare(Read(f[k + 1].piece), f[k + 1])
    <3> DEFINE t == See(q, c)
    <3> HIDE DEF t
    <3>1. t = Goes(q, c, mode, seen, solid) /\ u = Goes(r, c, mode, seen, solid)
      BY <2>1, <2>9 DEF t
    <3>2. /\ t.mode = mode /\ t.seen = seen /\ t.solid = solid
          /\ t.piece = Append(q.piece, c) /\ t.pieces = q.pieces
      BY <3>1, GoesFields
    <3>3. /\ u.mode = mode /\ u.seen = seen /\ u.solid = solid /\ u.piece = Append(r.piece, c)
      BY <3>1, GoesFields
    <3>4. Bare(t, u)
      BY <2>5, <3>2, <3>3 DEF Bare, Alike
    <3>5. Read(u.piece) = t
      BY <2>7, <3>3 DEF t
    <3> QED  BY <3>4, <3>5 DEF u
  <2> QED  BY <2>6, <2>8, <2>9 DEF SeesAlike
<1> HIDE DEF S
<1>3. Nat \subseteq S
  BY <1>1, <1>2, SetInduction
<1> QED
  BY <1>0, <1>3 DEF S

\* Reading on from the piece that is pending comes to the same as reading on from the
\* start of the text.
THEOREM GoesOn ==
  ASSUME NEW b \in Seq(Bytes), NEW f, Reading(b, f), NEW n \in Nat, NEW m \in Nat,
         n <= m, m <= Len(b)
  PROVE  After(f[n].pieces, Read(f[n].piece \o SubSeq(b, n + 1, m)), f[m])
<1> DEFINE pre == f[n].pieces
           piece == f[n].piece
           text(k) == piece \o SubSeq(b, n + 1, n + k)
<1>0. Len(b) \in Nat /\ n \in 0 .. Len(b)
  OBVIOUS
<1>1. pre \in Seq(Seq(Bytes)) /\ piece \in Seq(Bytes)
  <2>1. f[n] \in Readers
    BY <1>0 DEF Reading, Proper
  <2> QED  BY <2>1, ReaderParts
<1> DEFINE S == {k \in Nat : n + k <= m => After(pre, Read(text(k)), f[n + k])}
<1>2. ASSUME NEW k \in Nat, n + k <= Len(b)
      PROVE  SubSeq(b, n + 1, n + k) \in Seq(Bytes)
  <2>1. n + 1 \in Nat /\ n + k \in Nat /\ 1 <= n + 1 /\ n + 1 <= (n + k) + 1
    OBVIOUS
  <2> QED  BY <1>2, <2>1, Part
<1>3. 0 \in S
  <2>1. n + 0 = n
    OBVIOUS
  <2>2. SubSeq(b, n + 1, n) = <<>>
    <3>1. n + 1 \in Nat /\ 1 <= n + 1 /\ n + 1 <= n + 1 /\ n <= Len(b) /\ n + 1 - (n + 1) = 0
      BY <1>0
    <3> DEFINE e == SubSeq(b, n + 1, n)
    <3>2. e \in Seq(Bytes) /\ Len(e) = 0
      BY <3>1, Part
    <3> HIDE DEF e
    <3>3. e = <<>>
      BY <3>2
    <3> QED  BY <3>3 DEF e
  <2>3. piece \o <<>> = piece
    <3> HIDE DEF piece
    <3> QED  BY <1>1, ConcatEmptySeq
  <2>4. text(0) = piece
    BY <2>1, <2>2, <2>3
  <2>5. Bare(Read(piece), f[n])
    BY <1>0, PieceReads
  <2>6. pre \o <<>> = pre
    <3> HIDE DEF pre
    <3> QED  BY <1>1, ConcatEmptySeq
  <2> HIDE DEF pre, piece
  <2>7. After(pre, Read(piece), f[n])
    BY <2>5, <2>6 DEF Bare, After, pre
  <2> HIDE DEF text
  <2> QED  BY <2>1, <2>4, <2>7
<1>4. ASSUME NEW k \in Nat, k \in S PROVE k + 1 \in S
  <2> SUFFICES ASSUME n + (k + 1) <= m PROVE After(pre, Read(text(k + 1)), f[n + (k + 1)])
    OBVIOUS
  <2> DEFINE i == n + k
             c == b[i + 1]
  <2>1. i \in Nat /\ i + 1 <= Len(b) /\ i <= Len(b) /\ n <= i /\ n + (k + 1) = i + 1 /\ i <= m
    BY <1>0
  <2>2. After(pre, Read(text(k)), f[i])
    BY <1>4, <2>1
  <2>3. SubSeq(b, n + 1, i) \in Seq(Bytes)
    BY <1>2, <2>1
  <2>4. SubSeq(b, n + 1, i + 1) = Append(SubSeq(b, n + 1, i), c)
    <3> HIDE DEF i
    <3> QED  BY <2>1, PartNext
  <2> HIDE DEF i
  <2>5. f[i + 1] = See(f[i], c) /\ c \in Bytes /\ Proper(f[i])
    BY <2>1, NextTwo
  <2> HIDE DEF c, piece, pre
  <2>6. text(k + 1) = Append(text(k), c)
    <3>1. text(k + 1) = piece \o Append(SubSeq(b, n + 1, i), c)
      BY <2>1, <2>4
    <3>2. text(k) = piece \o SubSeq(b, n + 1, i)
      BY DEF i
    <3> DEFINE x == SubSeq(b, n + 1, i)
    <3>3. x \in Seq(Bytes)
      BY <2>3
    <3> HIDE DEF text, x
    <3>4. piece \o Append(x, c) = Append(piece \o x, c)
      BY <1>1, <2>5, <3>3, ConcatAppend
    <3> QED  BY <3>1, <3>2, <3>4 DEF x
  <2>7. text(k) \in Seq(Bytes)
    BY <1>1, <2>3 DEF i
  <2> HIDE DEF text
  <2>8. Read(text(k + 1)) = See(Read(text(k)), c)
    BY <2>5, <2>6, <2>7, ReadAppend
  <2>9. Proper(Read(text(k)))
    BY <2>7, ReadProper
  <2>10. After(pre, See(Read(text(k)), c), See(f[i], c))
    BY <1>1, <2>2, <2>5, <2>9, AfterSee
  <2> QED  BY <2>1, <2>5, <2>8, <2>10
<1> HIDE DEF S
<1>5. Nat \subseteq S
  BY <1>3, <1>4, SetInduction
<1> DEFINE k == m - n
<1>6. k \in Nat /\ n + k = m
  OBVIOUS
<1> HIDE DEF k
<1>7. After(pre, Read(text(k)), f[n + k])
  <2> HIDE DEF text, pre
  <2>1. k \in S /\ n + k <= m
    BY <1>5, <1>6
  <2> QED  BY <2>1 DEF S
<1> QED
  BY <1>6, <1>7

\* The bytes after n and up to m.
LEMMA Stretch ==
  ASSUME NEW S, NEW b \in Seq(S), NEW n \in Nat, NEW m \in Nat, n <= m, m <= Len(b)
  PROVE  /\ SubSeq(b, n + 1, m) \in Seq(S) /\ Len(SubSeq(b, n + 1, m)) = m - n
         /\ \A k \in 1 .. m - n : SubSeq(b, n + 1, m)[k] = b[n + k]
<1> DEFINE v == SubSeq(b, n + 1, m)
<1>1. n + 1 \in Nat /\ 1 <= n + 1 /\ n + 1 <= m + 1 /\ m + 1 - (n + 1) = m - n
  OBVIOUS
<1>2. \A k \in 1 .. m - n : (n + 1) + k - 1 = n + k
  OBVIOUS
<1>3. /\ v \in Seq(S) /\ Len(v) = m + 1 - (n + 1)
      /\ \A k \in 1 .. m + 1 - (n + 1) : v[k] = b[(n + 1) + k - 1]
  BY <1>1, Part
<1> QED  BY <1>1, <1>2, <1>3

\* Two stretches of a text that meet, and a stretch of a stretch.
LEMMA StretchesMeet ==
  ASSUME NEW S, NEW b \in Seq(S), NEW n \in Nat, NEW p \in Nat, NEW m \in Nat,
         n <= p, p <= m, m <= Len(b)
  PROVE  SubSeq(b, n + 1, p) \o SubSeq(b, p + 1, m) = SubSeq(b, n + 1, m)
<1> DEFINE u == SubSeq(b, n + 1, p)
           v == SubSeq(b, p + 1, m)
           w == SubSeq(b, n + 1, m)
           t == u \o v
<1>0. p <= Len(b) /\ n <= m
  OBVIOUS
<1>1. u \in Seq(S) /\ Len(u) = p - n /\ \A k \in 1 .. p - n : u[k] = b[n + k]
  BY <1>0, Stretch
<1>2. v \in Seq(S) /\ Len(v) = m - p /\ \A k \in 1 .. m - p : v[k] = b[p + k]
  BY <1>0, Stretch
<1>3. w \in Seq(S) /\ Len(w) = m - n /\ \A k \in 1 .. m - n : w[k] = b[n + k]
  BY <1>0, Stretch
<1> HIDE DEF u, v, w
<1>4. t \in Seq(S) /\ Len(t) = m - n
  <2>1. t \in Seq(S) /\ Len(t) = Len(u) + Len(v)
    BY <1>1, <1>2, ConcatProperties, Zenon
  <2>2. (p - n) + (m - p) = m - n
    OBVIOUS
  <2> QED  BY <1>1, <1>2, <2>1, <2>2
<1>5. ASSUME NEW k \in 1 .. m - n PROVE t[k] = w[k]
  <2>1. CASE k <= p - n
    <3>1. k \in 1 .. Len(u)
      BY <1>1, <2>1
    <3>2. t[k] = u[k]
      BY <1>1, <1>2, <3>1
    <3> QED  BY <1>1, <1>3, <3>1, <3>2
  <2>2. CASE k > p - n
    <3>1. k - (p - n) \in 1 .. m - p /\ k \in Len(u) + 1 .. Len(u) + Len(v)
      BY <1>1, <1>2, <2>2
    <3>2. t[k] = v[k - Len(u)]
      BY <1>1, <1>2, <3>1, SMTT(30)
    <3>3. p + (k - (p - n)) = n + k
      OBVIOUS
    <3>4. v[k - (p - n)] = b[n + k]
      BY <1>2, <3>1, <3>3
    <3> QED  BY <1>1, <1>3, <3>2, <3>4
  <2>3. k <= p - n \/ k > p - n
    OBVIOUS
  <2> QED  BY <2>1, <2>2, <2>3, Zenon
<1>6. Len(t) = Len(w) /\ \A k \in 1 .. Len(t) : t[k] = w[k]
  BY <1>3, <1>4, <1>5
<1> HIDE DEF t
<1>7. t = w
  BY <1>3, <1>4, <1>6, SeqEqual, Zenon
<1> QED  BY <1>7 DEF t, u, v, w

\* A part of a part of a sequence.
LEMMA StretchOfStretch ==
  ASSUME NEW S, NEW b \in Seq(S), NEW n \in Nat, NEW m \in Nat, n <= m, m <= Len(b),
         NEW i \in Nat, NEW j \in Nat, i <= j, j <= m - n
  PROVE  SubSeq(SubSeq(b, n + 1, m), i + 1, j) = SubSeq(b, n + i + 1, n + j)
<1> DEFINE u == SubSeq(b, n + 1, m)
           v == SubSeq(u, i + 1, j)
           w == SubSeq(b, n + i + 1, n + j)
<1>1. u \in Seq(S) /\ Len(u) = m - n /\ \A k \in 1 .. m - n : u[k] = b[n + k]
  BY Stretch
<1> HIDE DEF u
<1>2. v \in Seq(S) /\ Len(v) = j - i /\ \A k \in 1 .. j - i : v[k] = u[i + k]
  BY <1>1, Stretch
<1>3. w \in Seq(S) /\ Len(w) = j - i /\ \A k \in 1 .. j - i : w[k] = b[(n + i) + k]
  <2>1. /\ n + i \in Nat /\ n + j \in Nat /\ n + i <= n + j /\ n + j <= Len(b)
        /\ (n + j) - (n + i) = j - i
    OBVIOUS
  <2>2. /\ w \in Seq(S) /\ Len(w) = (n + j) - (n + i)
        /\ \A k \in 1 .. (n + j) - (n + i) : w[k] = b[(n + i) + k]
    BY <2>1, Stretch
  <2> QED  BY <2>1, <2>2
<1> HIDE DEF v, w
<1>4. ASSUME NEW k \in 1 .. j - i PROVE v[k] = w[k]
  <2>1. i + k \in 1 .. m - n /\ n + (i + k) = (n + i) + k
    OBVIOUS
  <2> QED  BY <1>1, <1>2, <1>3, <2>1
<1>5. Len(v) = Len(w) /\ \A k \in 1 .. Len(v) : v[k] = w[k]
  BY <1>2, <1>3, <1>4
<1>6. v = w
  BY <1>2, <1>3, <1>5, SeqEqual, Zenon
<1> QED  BY <1>6 DEF u, v, w

\* The pieces only grow: what has ended stays, and what is pending goes into a piece at
\* least as long.
Grown(q, r) ==
  /\ Len(q.pieces) <= Len(r.pieces)
  /\ \A k \in 1 .. Len(q.pieces) : r.pieces[k] = q.pieces[k]
  /\ \/ Len(r.pieces) = Len(q.pieces) /\ Len(r.piece) >= Len(q.piece)
     \/ Len(r.pieces) > Len(q.pieces) /\ Len(r.pieces[Len(q.pieces) + 1]) >= Len(q.piece)

\* A byte more only adds to the pieces, or to the one that is pending.
LEMMA GrownSee ==
  ASSUME NEW q \in Readers, NEW r, Proper(r), NEW c \in Bytes, Grown(q, r)
  PROVE  Grown(q, See(r, c))
<1> DEFINE t == See(r, c)
           i == Len(q.pieces)
           j == Len(r.pieces)
           x == Append(r.piece, c)
           lq == Len(q.piece)
           lr == Len(r.piece)
<1>1. /\ r.piece \in Seq(Bytes) /\ r.pieces \in Seq(Seq(Bytes)) /\ i \in Nat /\ j \in Nat
      /\ lq \in Nat /\ lr \in Nat
  BY ReaderParts DEF Proper
<1>2. x \in Seq(Bytes) /\ Len(x) = lr + 1
  BY <1>1
<1>3. /\ i <= j /\ \A k \in 1 .. i : r.pieces[k] = q.pieces[k]
      /\ \/ j = i /\ lr >= lq
         \/ j > i /\ Len(r.pieces[i + 1]) >= lq
  BY DEF Grown
<1>4. CASE t = Ends(r, c)
  <2> HIDE DEF x, t
  <2>1. t.pieces = Append(r.pieces, x)
    BY <1>4, EndsFields DEF x
  <2> DEFINE ps == r.pieces
             more == Append(ps, x)
  <2>2. Len(more) = j + 1 /\ more[j + 1] = x /\ \A k \in 1 .. j : more[k] = ps[k]
    <3>1. ps \in Seq(Seq(Bytes)) /\ j = Len(ps)
      BY <1>1
    <3> HIDE DEF ps, j
    <3> QED  BY <1>2, <3>1
  <2>3. t.pieces = more
    BY <2>1
  <2> HIDE DEF more, ps, i, j, lq, lr
  <2>4. \A k \in 1 .. i : more[k] = q.pieces[k]
    <3> TAKE k \in 1 .. i
    <3>1. k \in 1 .. j
      BY <1>1, <1>3
    <3> QED  BY <1>3, <2>2, <3>1 DEF ps
  <2>5. j + 1 > i /\ Len(more[i + 1]) >= lq
    <3>1. CASE j = i /\ lr >= lq
      <4>1. more[i + 1] = x
        BY <2>2, <3>1
      <4>2. lr + 1 >= lq /\ j + 1 > i
        BY <1>1, <3>1
      <4> QED  BY <1>2, <4>1, <4>2
    <3>2. CASE j > i /\ Len(r.pieces[i + 1]) >= lq
      <4>1. i + 1 \in 1 .. j /\ j + 1 > i
        BY <1>1, <3>2
      <4>2. more[i + 1] = r.pieces[i + 1]
        BY <2>2, <4>1 DEF ps
      <4> QED  BY <3>2, <4>1, <4>2
    <3> QED  BY <1>3, <3>1, <3>2
  <2>6. i <= j + 1
    BY <1>1, <1>3
  <2>7. Grown(q, t)
    BY <2>2, <2>3, <2>4, <2>5, <2>6 DEF Grown, i, lq
  <2> QED  BY <2>7 DEF t
<1>5. CASE t.piece = x /\ t.pieces = r.pieces
  <2> HIDE DEF x, t, lq, lr, i, j
  <2>1. j = i /\ lr >= lq => lr + 1 >= lq
    BY <1>1
  <2>2. Grown(q, t)
    BY <1>2, <1>3, <1>5, <2>1 DEF Grown, i, j, lq
  <2> QED  BY <2>2 DEF t
<1> QED
  BY <1>4, <1>5, SeeSteps

\* What was read stays read.
LEMMA Grows ==
  ASSUME NEW b \in Seq(Bytes), NEW f, Reading(b, f), NEW n \in Nat, NEW m \in Nat,
         n <= m, m <= Len(b)
  PROVE  Grown(f[n], f[m])
<1>0. Len(b) \in Nat /\ n \in 0 .. Len(b)
  OBVIOUS
<1>1. f[n] \in Readers
  BY <1>0 DEF Reading, Proper
<1> DEFINE S == {k \in Nat : n + k <= m => Grown(f[n], f[n + k])}
<1>2. 0 \in S
  <2>1. n + 0 = n
    OBVIOUS
  <2> DEFINE q == f[n]
             i == Len(q.pieces)
             lq == Len(q.piece)
  <2>2. i \in Nat /\ lq \in Nat
    BY <1>1, ReaderParts
  <2>3. i <= i /\ lq >= lq
    BY <2>2
  <2>4. Grown(q, q)
    BY <2>3 DEF Grown
  <2> QED  BY <2>1, <2>4
<1>3. ASSUME NEW k \in Nat, k \in S PROVE k + 1 \in S
  <2> SUFFICES ASSUME n + (k + 1) <= m PROVE Grown(f[n], f[n + (k + 1)])
    OBVIOUS
  <2> DEFINE i == n + k
  <2>1. i \in Nat /\ i + 1 <= Len(b) /\ n + (k + 1) = i + 1 /\ i <= m
    BY <1>0
  <2>2. Grown(f[n], f[i])
    BY <1>3, <2>1
  <2> HIDE DEF i
  <2>3. f[i + 1] = See(f[i], b[i + 1]) /\ b[i + 1] \in Bytes /\ Proper(f[i])
    BY <2>1, NextTwo
  <2>4. Grown(f[n], See(f[i], b[i + 1]))
    BY <1>1, <2>2, <2>3, GrownSee
  <2> QED  BY <2>1, <2>3, <2>4
<1> HIDE DEF S
<1>4. Nat \subseteq S
  BY <1>2, <1>3, SetInduction
<1> DEFINE k == m - n
<1>5. k \in Nat /\ n + k = m
  OBVIOUS
<1> HIDE DEF k
<1>6. Grown(f[n], f[n + k])
  <2>1. k \in S /\ n + k <= m
    BY <1>4, <1>5
  <2> QED  BY <2>1 DEF S
<1> QED
  BY <1>5, <1>6
=============================================================================
