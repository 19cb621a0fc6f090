------------------------- MODULE ScriptReaderProofs -------------------------
(***************************************************************************)
(* Proofs about ScriptReader, for every script, limit and way to cut the   *)
(* text into chunks.  The reference reads the whole script byte by byte; the *)
(* program frames a chunk with the text pending before it, or the whole.   *)
(***************************************************************************)
EXTENDS ScriptReader, SqlScannerProofs

(***************************************************************************)
(* What push_bounded makes of the pending text and of more.                *)
(***************************************************************************)
\* The fields of what push_bounded returns.
LEMMA PushFields ==
  ASSUME NEW pending, NEW input
  PROVE  LET p    == push_bounded(pending, input)
             text == pending \o input
             ends == terminated_statement_ends(text)
         IN /\ p.statements = Frames(text, ends) /\ p.pending = Rest(text, ends)
            /\ p.ok <=> /\ ~TooLong(p.pending)
                        /\ \A k \in DOMAIN p.statements : ~TooLong(p.statements[k])
BY DEF push_bounded

\* What is pushed onto the pending piece of a text frames the statements that the text
\* goes on with.
LEMMA PushReads ==
  ASSUME NEW b \in Seq(Bytes), NEW f, Reading(b, f), NEW n \in Nat, NEW m \in Nat,
         n <= m, m <= Len(b)
  PROVE  LET p == push_bounded(f[n].piece, SubSeq(b, n + 1, m)) IN
         /\ p.statements \in Seq(Seq(Bytes)) /\ f[n].pieces \o p.statements = f[m].pieces
         /\ p.pending = f[m].piece
         /\ p.ok <=> /\ ~TooLong(p.pending)
                     /\ \A k \in DOMAIN p.statements : ~TooLong(p.statements[k])
<1> DEFINE piece == f[n].piece
           input == SubSeq(b, n + 1, m)
           text == piece \o input
           p == push_bounded(piece, input)
           ends == terminated_statement_ends(text)
           r == Read(text)
<1>1. f[n] \in Readers
  <2>1. n \in 0 .. Len(b)
    OBVIOUS
  <2> QED  BY <2>1 DEF Reading, Proper
<1>2. input \in Seq(Bytes)
  BY Stretch
<1>3. text \in Seq(Bytes)
  <2>1. piece \in Seq(Bytes)
    BY <1>1, ReaderParts
  <2> HIDE DEF piece, input
  <2> QED  BY <1>2, <2>1
<1>4. After(f[n].pieces, r, f[m])
  BY GoesOn
<1>5. /\ p.statements = Frames(text, ends) /\ p.pending = Rest(text, ends)
      /\ p.ok <=> /\ ~TooLong(p.pending)
                  /\ \A k \in DOMAIN p.statements : ~TooLong(p.statements[k])
  BY PushFields
<1> HIDE DEF text
<1>6. Frames(text, ends) = r.pieces /\ Rest(text, ends) = r.piece
  BY <1>3, ScannerFrames
<1>7. r \in Readers
  BY <1>3, ReadProper
<1>8. r.pieces \in Seq(Seq(Bytes))
  BY <1>7, ReaderParts
<1> HIDE DEF r, ends
<1>9. p.statements = r.pieces /\ p.pending = r.piece
  BY <1>5, <1>6
<1>10. f[n].pieces \o r.pieces = f[m].pieces /\ r.piece = f[m].piece
  BY <1>4 DEF After
<1> QED
  BY <1>5, <1>8, <1>9, <1>10

\* The scanner finds in the piece that is pending what the reader knows of the text.
LEMMA PieceKnown ==
  ASSUME NEW b \in Seq(Bytes), NEW f, Reading(b, f), NEW n \in 0 .. Len(b)
  PROVE  /\ is_trivia(f[n].piece) <=> OnlyTrivia(f[n])
         /\ is_complete(f[n].piece) <=> Closed(f[n])
<1> DEFINE q == Read(f[n].piece)
<1>1. Alike(q, f[n]) /\ q.pieces = <<>>
  BY PieceReads DEF Bare
<1>2. f[n].piece \in Seq(Bytes)
  BY ReaderParts DEF Reading, Proper
<1>3. is_trivia(f[n].piece) <=> OnlyTrivia(q)
  BY <1>1, <1>2, TriviaReads
<1>4. is_complete(f[n].piece) <=> Closed(q)
  BY <1>2, ScannerFrames
<1> HIDE DEF q
<1> QED
  BY <1>1, <1>3, <1>4 DEF Alike, OnlyTrivia, Closed

\* The first k bytes are UTF-8 but for a character that the last one leads.
LeadsTo(b, k) ==
  /\ \A i \in 1 .. k : b[i] = "lo" => i > 1 /\ b[i - 1] = "hi"
  /\ \A i \in 1 .. k - 1 : b[i] = "hi" => b[i + 1] = "lo"

\* Whether the text goes on as UTF-8 is seen in the bytes after the last whole character.
LEMMA LeadsOn ==
  ASSUME NEW b \in Seq(Bytes), NEW n \in Nat, NEW m \in Nat, n <= m, m <= Len(b),
         LeadsTo(b, n), n > 0 => b[n] # "hi"
  PROVE  LeadsAndContinues(SubSeq(b, n + 1, m)) <=> LeadsTo(b, m)
<1> DEFINE w == SubSeq(b, n + 1, m)
<1>1. w \in Seq(Bytes) /\ Len(w) = m - n /\ \A k \in 1 .. m - n : w[k] = b[n + k]
  BY Stretch
<1>2. DOMAIN w = 1 .. m - n
  BY <1>1
<1> HIDE DEF w
<1>3. ASSUME LeadsAndContinues(w) PROVE LeadsTo(b, m)
  <2>1. ASSUME NEW i \in 1 .. m, b[i] = "lo" PROVE i > 1 /\ b[i - 1] = "hi"
    <3>1. CASE i <= n
      <4>1. i \in 1 .. n
        BY <3>1
      <4> QED  BY <2>1, <4>1 DEF LeadsTo
    <3>2. CASE i > n
      <4> DEFINE k == i - n
      <4>1. k \in 1 .. m - n /\ n + k = i
        BY <3>2
      <4> HIDE DEF k
      <4>2. w[k] = "lo"
        BY <1>1, <2>1, <4>1
      <4>3. k > 1 /\ w[k - 1] = "hi"
        BY <1>2, <1>3, <4>1, <4>2 DEF LeadsAndContinues
      <4>4. k - 1 \in 1 .. m - n /\ n + (k - 1) = i - 1 /\ i > 1
        BY <4>1, <4>3
      <4> QED  BY <1>1, <4>3, <4>4
    <3> QED  BY <3>1, <3>2
  <2>2. ASSUME NEW i \in 1 .. m - 1, b[i] = "hi" PROVE b[i + 1] = "lo"
    <3>1. CASE i < n
      <4>1. i \in 1 .. n - 1
        BY <3>1
      <4> QED  BY <2>2, <4>1 DEF LeadsTo
    <3>2. CASE i > n
      <4> DEFINE k == i - n
      <4>1. k \in 1 .. (m - n) - 1 /\ k \in 1 .. m - n /\ k + 1 \in 1 .. m - n /\ n + k = i
            /\ n + (k + 1) = i + 1
        BY <3>2
      <4> HIDE DEF k
      <4>2. w[k] = "hi"
        BY <1>1, <2>2, <4>1
      <4>3. w[k + 1] = "lo"
        BY <1>1, <1>3, <4>1, <4>2 DEF LeadsAndContinues
      <4> QED  BY <1>1, <4>1, <4>3
    <3>3. i # n
      BY <2>2
    <3> QED  BY <3>1, <3>2, <3>3
  <2> QED  BY <2>1, <2>2 DEF LeadsTo
<1>4. ASSUME LeadsTo(b, m) PROVE LeadsAndContinues(w)
  <2>1. ASSUME NEW k \in 1 .. m - n, w[k] = "lo" PROVE k > 1 /\ w[k - 1] = "hi"
    <3> DEFINE i == n + k
    <3>1. i \in 1 .. m /\ b[i] = "lo"
      BY <1>1, <2>1
    <3>2. i > 1 /\ b[i - 1] = "hi"
      BY <1>4, <3>1 DEF LeadsTo
    <3>3. k # 1
      <4>1. k = 1 => i - 1 = n /\ n > 0
        BY <3>2
      <4> HIDE DEF i
      <4> QED  BY <3>2, <4>1
    <3>4. k - 1 \in 1 .. m - n /\ n + (k - 1) = i - 1 /\ k > 1
      BY <3>3
    <3> HIDE DEF i
    <3> QED  BY <1>1, <3>2, <3>4
  <2>2. ASSUME NEW k \in 1 .. (m - n) - 1, w[k] = "hi" PROVE w[k + 1] = "lo"
    <3> DEFINE i == n + k
    <3>1. k \in 1 .. m - n /\ k + 1 \in 1 .. m - n /\ i \in 1 .. m - 1 /\ n + (k + 1) = i + 1
      OBVIOUS
    <3>2. b[i] = "hi"
      BY <1>1, <2>2, <3>1
    <3> HIDE DEF i
    <3>3. b[i + 1] = "lo"
      BY <1>4, <3>1, <3>2 DEF LeadsTo
    <3> QED  BY <1>1, <3>1, <3>3
  <2> QED  BY <1>1, <1>2, <2>1, <2>2 DEF LeadsAndContinues
<1> QED
  BY <1>3, <1>4 DEF w

\* UTF-8, by its prefixes.
LEMMA LeadsOf ==
  ASSUME NEW b \in Seq(Bytes)
  PROVE  /\ IsUtf8(b) <=> LeadsTo(b, Len(b)) /\ (Len(b) > 0 => b[Len(b)] # "hi")
         /\ \A n \in 0 .. Len(b) : LeadsTo(b, Len(b)) => LeadsTo(b, n)
<1>1. Len(b) \in Nat /\ DOMAIN b = 1 .. Len(b) /\ (b = <<>> <=> ~(Len(b) > 0))
  OBVIOUS
<1>2. LeadsAndContinues(b) <=> LeadsTo(b, Len(b))
  BY <1>1 DEF LeadsAndContinues, LeadsTo
<1>3. valid_up_to(b) = Len(b) <=> (Len(b) > 0 => b[Len(b)] # "hi")
  <2> DEFINE l == Len(b)
             leads == b # <<>> /\ b[Len(b)] = "hi"
  <2>1. valid_up_to(b) = IF leads THEN l - 1 ELSE l
    BY DEF valid_up_to
  <2>2. leads <=> l > 0 /\ b[l] = "hi"
    BY <1>1
  <2>3. l \in Nat
    BY <1>1
  <2> HIDE DEF leads, l
  <2>4. valid_up_to(b) = l <=> ~leads
    BY <2>1, <2>3
  <2> QED  BY <2>2, <2>4 DEF l
<1>4. ASSUME NEW n \in 0 .. Len(b), LeadsTo(b, Len(b)) PROVE LeadsTo(b, n)
  <2>1. \A i \in 1 .. n : i \in 1 .. Len(b)
    BY <1>1
  <2>2. \A i \in 1 .. n - 1 : i \in 1 .. Len(b) - 1
    BY <1>1
  <2> QED  BY <1>4, <2>1, <2>2 DEF LeadsTo
<1> QED
  BY <1>2, <1>3, <1>4 DEF IsUtf8

\* Nothing read is in order.
LEMMA LeadsNone ==
  ASSUME NEW b
  PROVE  LeadsTo(b, 0)
BY DEF LeadsTo

Begins(s, e) == Len(s) <= Len(e) /\ \A k \in 1 .. Len(s) : e[k] = s[k]
Sized(pieces) == \A k \in DOMAIN pieces : ~TooLong(pieces[k])

\* What is pushed as a whole is what the reference makes of it.
LEMMA WholeReads ==
  ASSUME NEW b \in Seq(Bytes)
  PROVE  LET p == push_bounded(<<>>, b) IN
         /\ p.statements = Read(b).pieces /\ p.pending = Read(b).piece
         /\ p.ok <=> ~TooLong(Read(b).piece) /\ Sized(Read(b).pieces)
         /\ is_trivia(p.pending) <=> OnlyTrivia(Read(b))
         /\ is_complete(p.pending) <=> Closed(Read(b))
<1> DEFINE l == Len(b)
<1>1. PICK f : Reading(b, f) /\ Read(b) = f[l]
  BY ReadingSome
<1>2. l \in Nat /\ l \in 0 .. l /\ 0 <= l /\ 0 + 1 = 1 /\ l <= Len(b)
  OBVIOUS
<1>3. f[0].piece = <<>> /\ f[0].pieces = <<>>
  BY <1>1 DEF Reading, Start, Reader
<1>4. SubSeq(b, 0 + 1, l) = b
  BY <1>2, SubSeqFull
<1> DEFINE p == push_bounded(f[0].piece, SubSeq(b, 0 + 1, l))
<1>5. /\ p.statements \in Seq(Seq(Bytes)) /\ f[0].pieces \o p.statements = f[l].pieces
      /\ p.pending = f[l].piece
      /\ p.ok <=> /\ ~TooLong(p.pending)
                  /\ \A k \in DOMAIN p.statements : ~TooLong(p.statements[k])
  BY <1>1, <1>2, PushReads
<1>6. p = push_bounded(<<>>, b)
  BY <1>3, <1>4
<1>7. is_trivia(f[l].piece) <=> OnlyTrivia(f[l])
  BY <1>1, <1>2, PieceKnown
<1>8. is_complete(f[l].piece) <=> Closed(f[l])
  BY <1>1, <1>2, PieceKnown
<1> HIDE DEF p, l
<1>9. <<>> \o p.statements = p.statements
  <2> DEFINE s == p.statements
             T == Seq(Bytes)
  <2>1. s \in Seq(T)
    BY <1>5
  <2> HIDE DEF s, T
  <2>2. <<>> \o s = s
    BY <2>1, ConcatEmptySeq
  <2> QED  BY <2>2 DEF s
<1>10. p.statements = f[l].pieces
  BY <1>3, <1>5, <1>9
<1> QED
  BY <1>1, <1>5, <1>6, <1>7, <1>8, <1>10 DEF Sized

\* A piece that is too long on the way is part of one that is too long in the end.
LEMMA LargeStays ==
  ASSUME NEW b \in Seq(Bytes), NEW f, Reading(b, f), NEW n \in Nat, NEW m \in Nat,
         n <= m, m <= Len(b), ~push_bounded(f[n].piece, SubSeq(b, n + 1, m)).ok
  PROVE  TooLong(f[Len(b)].piece) \/ ~Sized(f[Len(b)].pieces)
<1> DEFINE p == push_bounded(f[n].piece, SubSeq(b, n + 1, m))
           r == f[m]
           e == f[Len(b)]
           i == Len(r.pieces)
           j == Len(e.pieces)
<1>0. Len(b) \in Nat /\ m \in 0 .. Len(b) /\ n \in 0 .. Len(b) /\ Len(b) \in 0 .. Len(b)
  OBVIOUS
<1>1. /\ p.statements \in Seq(Seq(Bytes)) /\ f[n].pieces \o p.statements = r.pieces
      /\ p.pending = r.piece
      /\ p.ok <=> /\ ~TooLong(p.pending)
                  /\ \A k \in DOMAIN p.statements : ~TooLong(p.statements[k])
  BY PushReads
<1>2. r \in Readers /\ e \in Readers /\ f[n] \in Readers
  BY <1>0 DEF Reading, Proper
<1>3. /\ r.pieces \in Seq(Seq(Bytes)) /\ e.pieces \in Seq(Seq(Bytes)) /\ r.piece \in Seq(Bytes)
      /\ e.piece \in Seq(Bytes) /\ f[n].pieces \in Seq(Seq(Bytes))
  BY <1>2, ReaderParts
<1>4. Grown(r, e)
  BY <1>0, Grows
<1>5. /\ i <= j /\ \A k \in 1 .. i : e.pieces[k] = r.pieces[k]
      /\ \/ j = i /\ Len(e.piece) >= Len(r.piece)
         \/ j > i /\ Len(e.pieces[i + 1]) >= Len(r.piece)
  BY <1>4 DEF Grown
<1>6. i \in Nat /\ j \in Nat /\ DOMAIN e.pieces = 1 .. j
  BY <1>3
<1>7. CASE TooLong(r.piece)
  <2> DEFINE x == Len(r.piece)
             y == Len(e.piece)
             z == Len(e.pieces[i + 1])
  <2>1. x \in Nat /\ y \in Nat /\ MaxStatementBytes \in Nat /\ x > MaxStatementBytes
    BY <1>3, <1>7, LimitsAssumption DEF TooLong
  <2>2. CASE j = i /\ y >= x
    <3> HIDE DEF x, y
    <3>1. y > MaxStatementBytes
      BY <2>1, <2>2
    <3> QED  BY <3>1 DEF TooLong, y
  <2>3. CASE j > i /\ z >= x
    <3>1. i + 1 \in 1 .. j
      BY <1>6, <2>3
    <3> DEFINE w == e.pieces
    <3>2. w[i + 1] \in Seq(Bytes)
      <4>1. w \in Seq(Seq(Bytes)) /\ i + 1 \in 1 .. Len(w)
        BY <1>3, <3>1
      <4> HIDE DEF w
      <4> QED  BY <4>1
    <3>3. z \in Nat
      <4> DEFINE u == e.pieces[i + 1]
      <4>1. u \in Seq(Bytes)
        BY <3>2
      <4> HIDE DEF u
      <4>2. Len(u) \in Nat
        BY <4>1
      <4> QED  BY <4>2 DEF u
    <3> HIDE DEF x, z
    <3>4. z > MaxStatementBytes
      BY <2>1, <2>3, <3>3
    <3>5. TooLong(e.pieces[i + 1])
      BY <3>4 DEF TooLong, z
    <3> QED  BY <1>6, <3>1, <3>5 DEF Sized
  <2> QED  BY <1>5, <2>2, <2>3
<1>8. CASE ~TooLong(r.piece)
  <2>1. PICK k \in DOMAIN p.statements : TooLong(p.statements[k])
    BY <1>1, <1>8
  <2> DEFINE s == p.statements
             pre == f[n].pieces
             q == pre \o s
             h == Len(pre)
             T == Seq(Bytes)
  <2>2. s \in Seq(T) /\ pre \in Seq(T) /\ k \in DOMAIN s
    BY <1>1, <1>3
  <2> HIDE DEF s, pre, T
  <2>3. k \in 1 .. Len(s) /\ Len(s) \in Nat /\ h \in Nat
    BY <2>2
  <2>4. /\ Len(q) = h + Len(s)
        /\ \A a \in 1 .. h + Len(s) : q[a] = IF a <= h THEN pre[a] ELSE s[a - h]
    BY <2>2, ConcatProperties, Zenon
  <2> HIDE DEF q, h
  <2>5. h + k \in 1 .. h + Len(s) /\ ~(h + k <= h) /\ (h + k) - h = k
    BY <2>3
  <2>6. q[h + k] = s[k]
    BY <2>4, <2>5
  <2>7. q = r.pieces
    BY <1>1 DEF q, pre, s
  <2>8. h + k \in 1 .. i
    BY <2>4, <2>5, <2>7
  <2> HIDE DEF i, j, r, e
  <2>9. h + k \in 1 .. j
    BY <1>5, <1>6, <2>8
  <2>10. e.pieces[h + k] = s[k]
    BY <1>5, <2>6, <2>7, <2>8
  <2> QED  BY <1>6, <2>1, <2>9, <2>10 DEF Sized, s, e
<1> QED
  BY <1>7, <1>8

\* The statements of what was read are the first of the script.
LEMMA BeginsReads ==
  ASSUME NEW b \in Seq(Bytes), NEW f, Reading(b, f), NEW n \in Nat, n <= Len(b)
  PROVE  Begins(f[n].pieces, f[Len(b)].pieces)
<1>1. Len(b) \in Nat /\ Len(b) <= Len(b)
  OBVIOUS
<1>2. Grown(f[n], f[Len(b)])
  BY <1>1, Grows
<1> QED
  BY <1>2 DEF Grown, Begins

\* The bytes after n, kept up to p and read up to m.
Kept(b, n, p, m) == SubSeq(b, n + 1, p) \o SubSeq(b, p + 1, m)

\* What is known of b when the text from n to m makes v bytes of whole characters.
Cut(b, n, m, text, v) ==
  /\ ~LeadsAndContinues(text) => ~IsUtf8(b)
  /\ LeadsAndContinues(text) =>
       /\ LeadsTo(b, m) /\ v \in Nat /\ n + v <= m
       /\ n + v = m \/ (n + v = m - 1 /\ b[m] = "hi")
       /\ n + v > 0 => b[n + v] # "hi"
       /\ SubSeq(text, v + 1, Len(text)) = SubSeq(b, n + v + 1, m)
       /\ SubSeq(text, 1, v) = SubSeq(b, n + 1, n + v)

\* The next chunk of a text that is read up to n, but for the lead byte of a character.
LEMMA ChunkReads ==
  ASSUME NEW b \in Seq(Bytes), NEW n \in Nat, NEW p \in Nat, NEW m \in Nat,
         n <= p, p < m, m <= Len(b), LeadsTo(b, p), n > 0 => b[n] # "hi",
         NEW text, text = Kept(b, n, p, m),
         NEW v, v = valid_up_to(text)
  PROVE  Cut(b, n, m, text, v)
<1>0. PICK l \in Nat : /\ n <= m /\ n <= Len(b) /\ p <= m /\ m \in 0 .. Len(b)
                       /\ l > 0 /\ n + l = m /\ l = m - n
  <2>1. m - n \in Nat /\ m - n > 0 /\ n + (m - n) = m
    OBVIOUS
  <2> QED  BY <2>1
<1>1. text = SubSeq(b, n + 1, m)
  BY <1>0, StretchesMeet DEF Kept
<1>2. text \in Seq(Bytes) /\ Len(text) = l /\ \A k \in 1 .. l : text[k] = b[n + k]
  <2>1. /\ SubSeq(b, n + 1, m) \in Seq(Bytes) /\ Len(SubSeq(b, n + 1, m)) = m - n
        /\ \A k \in 1 .. m - n : SubSeq(b, n + 1, m)[k] = b[n + k]
    BY <1>0, Stretch, SMTT(30)
  <2>2. m - n = l
    BY <1>0
  <2> QED  BY <1>1, <2>1, <2>2
<1>3. LeadsTo(b, n)
  <2>1. \A i \in 1 .. n : i \in 1 .. p
    OBVIOUS
  <2>2. \A i \in 1 .. n - 1 : i \in 1 .. p - 1
    OBVIOUS
  <2> QED  BY <2>1, <2>2 DEF LeadsTo
<1>4. LeadsAndContinues(text) <=> LeadsTo(b, m)
  BY <1>0, <1>1, <1>3, LeadsOn
<1>5. ~LeadsTo(b, m) => ~IsUtf8(b)
  BY <1>0, LeadsOf
<1>6. ASSUME LeadsTo(b, m)
      PROVE  /\ v \in Nat /\ v <= l /\ n + v <= m
             /\ n + v = m \/ (n + v = m - 1 /\ b[m] = "hi")
             /\ n + v > 0 => b[n + v] # "hi"
  <2>1. text # <<>>
    <3>1. Len(text) > 0 /\ Len(<<>>) = 0
      BY <1>0, <1>2
    <3> QED  BY <3>1
  <2>2. text[l] = b[m]
    BY <1>0, <1>2
  <2>3. v = IF b[m] = "hi" THEN l - 1 ELSE l
    BY <1>2, <2>1, <2>2 DEF valid_up_to
  <2>4. CASE b[m] # "hi"
    BY <1>0, <2>3, <2>4
  <2>5. CASE b[m] = "hi"
    <3>1. v = l - 1 /\ v \in Nat /\ v <= l /\ n + v = m - 1 /\ n + v <= m
      BY <1>0, <2>3, <2>5
    <3>2. ASSUME m - 1 > 0 PROVE b[m - 1] # "hi"
      <4>1. m - 1 \in 1 .. m - 1 /\ (m - 1) + 1 = m
        BY <3>2
      <4>2. b[m - 1] = "hi" => b[m] = "lo"
        BY <1>6, <4>1 DEF LeadsTo
      <4> QED  BY <2>5, <4>2
    <3> QED  BY <2>5, <3>1, <3>2
  <2> QED  BY <2>4, <2>5
<1>7. ASSUME LeadsTo(b, m)
      PROVE  /\ SubSeq(text, v + 1, Len(text)) = SubSeq(b, n + v + 1, m)
             /\ SubSeq(text, 1, v) = SubSeq(b, n + 1, n + v)
  <2>1. v \in Nat /\ v <= l
    BY <1>6, <1>7
  <2>2. SubSeq(text, v + 1, l) = SubSeq(b, n + v + 1, n + l)
    <3>1. l \in Nat /\ l <= m - n /\ n <= m
      BY <1>0
    <3>2. SubSeq(SubSeq(b, n + 1, m), v + 1, l) = SubSeq(b, n + v + 1, n + l)
      <4>1. \A i \in Nat, j \in Nat : i <= j /\ j <= m - n =>
              SubSeq(SubSeq(b, n + 1, m), i + 1, j) = SubSeq(b, n + i + 1, n + j)
        BY <3>1, StretchOfStretch
      <4> QED  BY <2>1, <3>1, <4>1, Zenon
    <3> QED  BY <1>1, <3>2
  <2>3. SubSeq(text, 0 + 1, v) = SubSeq(b, n + 0 + 1, n + v)
    <3>1. v <= m - n /\ n <= m /\ 0 \in Nat /\ 0 <= v
      BY <1>0, <2>1
    <3>2. SubSeq(SubSeq(b, n + 1, m), 0 + 1, v) = SubSeq(b, n + 0 + 1, n + v)
      BY <2>1, <3>1, StretchOfStretch
    <3> QED  BY <1>1, <3>2
  <2>4. 0 + 1 = 1 /\ n + 0 + 1 = n + 1
    OBVIOUS
  <2> QED  BY <1>0, <1>2, <2>2, <2>3, <2>4
<1> QED
  BY <1>4, <1>5, <1>6, <1>7 DEF Cut
-----------------------------------------------------------------------------
(***************************************************************************)
(* The inductive invariant.  A file is read up to some place, that of the  *)
(* last whole character; what was framed so far is what the reference makes *)
(* of the text up to it.  A command or a submission is not framed yet, or  *)
(* is framed as a whole.                                                   *)
(***************************************************************************)
Given ==
  /\ source \in Sources /\ script \in Seq(Bytes) /\ reference = Read(script)
  /\ pos \in 0 .. Len(script)
  /\ executed \in Seq(Seq(Bytes)) /\ queue \in Seq(Seq(Bytes))
  /\ source # "reader" => IsUtf8(script)
  /\ source = "shell" => script # <<>> /\ validate(script)

\* A file is read up to n, but for the lead byte of a character.
ReadUpTo(n) ==
  /\ n <= pos /\ (n = pos \/ (n = pos - 1 /\ script[pos] = "hi"))
  /\ n > 0 => script[n] # "hi"
  /\ utf8 = SubSeq(script, n + 1, pos) /\ LeadsTo(script, pos)
  /\ executed \o queue = Read(SubSeq(script, 1, n)).pieces
  /\ stream = Read(SubSeq(script, 1, n)).piece /\ ~TooLong(stream)

\* A command or a submission is not framed, or is framed as a whole.
Untouched == pos = 0 /\ executed = <<>> /\ queue = <<>> /\ stream = <<>>
Whole ==
  /\ pos = Len(script) /\ executed \o queue = Expected /\ is_trivia(stream)
  /\ WellFormed /\ ~Oversized

Underway ==
  outcome = "running" =>
    IF source = "reader" THEN \E n \in Nat : ReadUpTo(n)
    ELSE utf8 = <<>> /\ (Untouched \/ Whole)

InOrder == Begins(executed \o queue, Expected) /\ Sized(executed \o queue)

ScriptInv == Given /\ Underway /\ InOrder /\ OutcomeIsJust /\ RefusedAsAWhole

\* Limits hold of a concatenation when they hold of both parts.
LEMMA SizedConcat ==
  ASSUME NEW s \in Seq(Seq(Bytes)), NEW t \in Seq(Seq(Bytes))
  PROVE  /\ Sized(s \o t) <=> Sized(s) /\ Sized(t)
         /\ s \o <<>> = s /\ <<>> \o s = s
<1> DEFINE T == Seq(Bytes)
           u == s \o t
           i == Len(s)
           j == Len(t)
<1>1. s \in Seq(T) /\ t \in Seq(T)
  OBVIOUS
<1> HIDE DEF T
<1>2. i \in Nat /\ j \in Nat /\ DOMAIN s = 1 .. i /\ DOMAIN t = 1 .. j
  BY <1>1
<1>3. /\ u \in Seq(T) /\ Len(u) = i + j
      /\ \A a \in 1 .. i + j : u[a] = IF a <= i THEN s[a] ELSE t[a - i]
  BY <1>1, ConcatProperties, Zenon
<1>4. DOMAIN u = 1 .. i + j
  BY <1>3
<1>5. s \o <<>> = s /\ <<>> \o s = s
  BY <1>1, ConcatEmptySeq
<1> HIDE DEF u, i, j
<1>6. \A k \in 1 .. i : k \in 1 .. i + j /\ u[k] = s[k]
  BY <1>2, <1>3
<1>7. \A k \in 1 .. j : i + k \in 1 .. i + j /\ u[i + k] = t[k]
  <2> TAKE k \in 1 .. j
  <2>1. i + k \in 1 .. i + j /\ ~(i + k <= i) /\ (i + k) - i = k
    BY <1>2
  <2> QED  BY <1>3, <2>1
<1>8. ASSUME Sized(u) PROVE Sized(s) /\ Sized(t)
  BY <1>2, <1>4, <1>6, <1>7, <1>8 DEF Sized
<1>9. ASSUME Sized(s), Sized(t) PROVE Sized(u)
  <2> SUFFICES ASSUME NEW a \in 1 .. i + j PROVE ~TooLong(u[a])
    BY <1>4 DEF Sized
  <2>1. CASE a <= i
    <3>1. a \in 1 .. i
      BY <1>2, <2>1
    <3> QED  BY <1>2, <1>6, <1>9, <3>1 DEF Sized
  <2>2. CASE a > i
    <3>1. a - i \in 1 .. j /\ ~(a <= i)
      BY <1>2, <2>2
    <3>2. u[a] = t[a - i]
      BY <1>3, <3>1
    <3> QED  BY <1>2, <1>9, <3>1, <3>2 DEF Sized
  <2> QED  BY <1>2, <2>1, <2>2
<1> QED
  BY <1>5, <1>8, <1>9 DEF u

\* Moving the head of a queue to the end of what was run keeps them in order.
LEMMA QueueMoves ==
  ASSUME NEW s \in Seq(Seq(Bytes)), NEW t \in Seq(Seq(Bytes)), t # <<>>
  PROVE  /\ Append(s, Head(t)) \o Tail(t) = s \o t
         /\ Append(s, Head(t)) \in Seq(Seq(Bytes)) /\ Tail(t) \in Seq(Seq(Bytes))
<1> DEFINE T == Seq(Bytes)
           x == Head(t)
           r == Tail(t)
           v == Append(s, x)
           i == Len(s)
           j == Len(t)
<1>1. s \in Seq(T) /\ t \in Seq(T)
  OBVIOUS
<1> HIDE DEF T
<1>2. /\ x \in T /\ r \in Seq(T) /\ i \in Nat /\ j \in Nat /\ j >= 1 /\ Len(r) = j - 1
      /\ x = t[1] /\ \A k \in 1 .. j - 1 : r[k] = t[k + 1]
  BY <1>1
<1> HIDE DEF x, r
<1>3. v \in Seq(T) /\ Len(v) = i + 1 /\ v[i + 1] = x /\ \A k \in 1 .. i : v[k] = s[k]
  BY <1>1, <1>2
<1> HIDE DEF v
<1> DEFINE a == v \o r
           b == s \o t
           lv == Len(v)
           lr == Len(r)
<1>4. /\ a \in Seq(T) /\ Len(a) = lv + lr
      /\ \A k \in 1 .. lv + lr : a[k] = IF k <= lv THEN v[k] ELSE r[k - lv]
  BY <1>2, <1>3, ConcatProperties, Zenon
<1>5. /\ b \in Seq(T) /\ Len(b) = i + j
      /\ \A k \in 1 .. i + j : b[k] = IF k <= i THEN s[k] ELSE t[k - i]
  BY <1>1, ConcatProperties, Zenon
<1>6. lv = i + 1 /\ lr = j - 1
  BY <1>2, <1>3
<1> HIDE DEF a, b, i, j, lv, lr
<1>7. lv + lr = i + j
  BY <1>2, <1>6
<1>8. ASSUME NEW k \in 1 .. i + j PROVE a[k] = b[k]
  <2>1. CASE k <= i
    <3>1. k \in 1 .. i /\ k <= lv /\ k \in 1 .. lv + lr
      BY <1>2, <1>6, <2>1
    <3> QED  BY <1>3, <1>4, <1>5, <2>1, <3>1
  <2>2. CASE k = i + 1
    <3>1. k <= lv /\ k \in 1 .. lv + lr /\ ~(k <= i) /\ k - i = 1
      BY <1>2, <1>6, <2>2
    <3>2. a[k] = v[i + 1]
      BY <1>4, <2>2, <3>1
    <3>3. b[k] = t[1]
      BY <1>5, <3>1
    <3> QED  BY <1>2, <1>3, <3>2, <3>3
  <2>3. CASE k > i + 1
    <3>1. /\ ~(k <= lv) /\ k \in 1 .. lv + lr /\ ~(k <= i)
          /\ k - lv \in 1 .. j - 1 /\ (k - lv) + 1 = k - i
      BY <1>2, <1>6, <2>3
    <3>2. a[k] = r[k - lv]
      BY <1>4, <3>1
    <3>3. b[k] = t[k - i]
      BY <1>5, <3>1
    <3>4. r[k - lv] = t[(k - lv) + 1]
      BY <1>2, <3>1 DEF j
    <3> QED  BY <3>1, <3>2, <3>3, <3>4
  <2> QED  BY <1>2, <2>1, <2>2, <2>3
<1>9. Len(a) = Len(b) /\ \A k \in 1 .. Len(a) : a[k] = b[k]
  BY <1>4, <1>5, <1>7, <1>8
<1>10. a = b
  BY <1>4, <1>5, <1>9, SeqEqual, Zenon
<1> QED
  BY <1>2, <1>3, <1>10 DEF a, b, v, x, r, T

\* The empty text is small and trivia.
LEMMA SmallNone == ~TooLong(<<>>) /\ is_trivia(<<>>) /\ Sized(<<>>)
<1>1. <<>> \in Seq(Bytes) /\ Len(<<>>) = 0 /\ DOMAIN <<>> = {}
  OBVIOUS
<1>2. ~TooLong(<<>>)
  BY <1>1, LimitsAssumption DEF TooLong
<1>3. Start.pieces = <<>> /\ OnlyTrivia(Start)
  <2>1. /\ Start.mode = Normal /\ Start.seen = <<>> /\ Start.solid = FALSE
        /\ Start.pieces = <<>>
    BY DEF Start, Reader
  <2>2. Start.mode.kind = "normal" /\ <<>> \notin Halves
    BY <2>1, ModeFields DEF Halves
  <2> QED  BY <2>1, <2>2 DEF OnlyTrivia
<1>4. is_trivia(<<>>)
  BY <1>1, <1>3, ReadNone, TriviaReads
<1> QED
  BY <1>1, <1>2, <1>4 DEF Sized

\* What the script is stays, and what follows from it.
LEMMA ScriptStays ==
  ASSUME UNCHANGED <<source, script, reference>>
  PROVE  /\ Expected' = Expected /\ (WellFormed' <=> WellFormed)
         /\ (Oversized' <=> Oversized)
BY DEF Expected, WellFormed, Oversized, TooLong

\* The type of what the reference makes of the script.
LEMMA GivenReads ==
  ASSUME Given
  PROVE  /\ reference \in Readers /\ reference.pieces \in Seq(Seq(Bytes))
         /\ reference.piece \in Seq(Bytes) /\ Expected \in Seq(Seq(Bytes))
         /\ Oversized <=> \/ (source # "reader" /\ TooLong(script)) \/ TooLong(reference.piece)
                          \/ ~Sized(reference.pieces)
<1>1. reference \in Readers
  BY ReadProper DEF Given
<1>2. reference.pieces \in Seq(Seq(Bytes)) /\ reference.piece \in Seq(Bytes)
  BY <1>1, ReaderParts
<1>3. Expected \in Seq(Seq(Bytes))
  BY <1>2 DEF Expected
<1> QED
  BY <1>1, <1>2, <1>3 DEF Oversized, Sized
-----------------------------------------------------------------------------
\* A sequence begins with itself and with the empty one.
LEMMA BeginsSelf ==
  ASSUME NEW s \in Seq(Seq(Bytes))
  PROVE  Begins(s, s) /\ Begins(<<>>, s)
<1>1. Len(s) \in Nat /\ Len(<<>>) = 0
  OBVIOUS
<1> QED
  BY <1>1 DEF Begins

\* The invariant holds at the start.
LEMMA ScriptInit == Init => ScriptInv
<1> SUFFICES ASSUME Init PROVE ScriptInv
  OBVIOUS
<1>1. /\ source \in Sources /\ script \in Seq(Bytes) /\ reference = Read(script)
      /\ pos = 0 /\ utf8 = <<>> /\ stream = <<>> /\ queue = <<>> /\ executed = <<>>
      /\ outcome = "running"
      /\ source # "reader" => IsUtf8(script)
      /\ source = "shell" => script # <<>> /\ validate(script)
  BY ScriptsAssumption DEF Init
<1>2. 0 \in 0 .. Len(script) /\ <<>> \in Seq(Seq(Bytes)) /\ <<>> \in Seq(Bytes)
  BY <1>1
<1>3. Given
  BY <1>1, <1>2 DEF Given
<1>4. <<>> \o <<>> = <<>>
  BY <1>2, SizedConcat
<1>5. InOrder
  BY <1>1, <1>3, <1>4, GivenReads, BeginsSelf, SmallNone DEF InOrder
<1>6. Underway
  <2>1. CASE source = "reader"
    <3>1. SubSeq(script, 0 + 1, 0) = <<>> /\ SubSeq(script, 1, 0) = <<>>
      <4> DEFINE e == SubSeq(script, 0 + 1, 0)
      <4>1. e \in Seq(Bytes) /\ Len(e) = 0 - 0
        <5>1. 0 \in Nat /\ 0 <= 0 /\ 0 <= Len(script)
          BY <1>1
        <5> QED  BY <1>1, <5>1, Stretch
      <4> HIDE DEF e
      <4>2. e = <<>>
        BY <4>1
      <4>3. 0 + 1 = 1
        OBVIOUS
      <4> QED  BY <4>2, <4>3 DEF e
    <3>2. Start.pieces = <<>> /\ Start.piece = <<>>
      BY DEF Start, Reader
    <3>3. Read(SubSeq(script, 1, 0)) = Start
      BY <3>1, ReadNone
    <3>4. LeadsTo(script, 0)
      BY LeadsNone
    <3>5. ReadUpTo(0)
      BY <1>1, <1>4, <3>1, <3>2, <3>3, <3>4, SmallNone DEF ReadUpTo
    <3> QED  BY <2>1, <3>5 DEF Underway
  <2>2. CASE source # "reader"
    BY <1>1, <2>2 DEF Underway, Untouched
  <2> QED  BY <2>1, <2>2
<1>7. OutcomeIsJust /\ RefusedAsAWhole
  BY <1>1 DEF OutcomeIsJust, RefusedAsAWhole
<1> QED
  BY <1>3, <1>5, <1>6, <1>7 DEF ScriptInv

\* What follows of a script once its text is refused, or the server refuses a statement.
LEMMA ScriptRefused ==
  ASSUME Given, InOrder, UNCHANGED <<source, script, reference, executed, queue>>,
         pos' \in 0 .. Len(script), outcome' \in {"utf8", "large", "incomplete"},
         outcome' = "utf8" => ~IsUtf8(script),
         outcome' = "large" => Oversized,
         outcome' = "incomplete" => ~WellFormed,
         source # "reader" => executed = <<>>
  PROVE  ScriptInv'
<1>1. Expected' = Expected /\ (WellFormed' <=> WellFormed) /\ (Oversized' <=> Oversized)
  BY ScriptStays
<1>2. Given'
  BY DEF Given, validate, TooLong, push_bounded
<1>3. InOrder'
  BY <1>1 DEF InOrder, Begins, Sized, TooLong
<1>4. Underway'
  BY DEF Underway
<1>5. OutcomeIsJust'
  BY <1>1 DEF OutcomeIsJust
<1>6. RefusedAsAWhole'
  BY DEF RefusedAsAWhole
<1> QED
  BY <1>2, <1>3, <1>4, <1>5, <1>6 DEF ScriptInv

\* The next chunk keeps the invariant: the pending text is scanned again with what was
\* read, and the bytes of a character that is cut wait.
LEMMA ChunkKeeps ==
  ASSUME ScriptInv, ReadChunk
  PROVE  ScriptInv'
<1> DEFINE b == script
           l == Len(b)
<1>1. /\ source = "reader" /\ outcome = "running" /\ queue = <<>>
      /\ UNCHANGED <<source, script, executed, reference>>
  BY DEF ReadChunk
<1>2. /\ Given /\ Underway /\ InOrder
      /\ b \in Seq(Bytes) /\ l \in Nat /\ pos \in 0 .. l /\ reference = Read(b)
      /\ executed \in Seq(Seq(Bytes))
  BY DEF ScriptInv, Given
<1>3. PICK k \in 1 .. MaxChunk :
        /\ pos + k <= l /\ pos' = pos + k
        /\ LET text == utf8 \o SubSeq(script, pos + 1, pos + k) IN
             IF ~LeadsAndContinues(text) THEN Fail("utf8") /\ UNCHANGED utf8
             ELSE Push(text)
  BY DEF ReadChunk
<1>4. PICK n \in Nat : ReadUpTo(n)
  BY <1>1, <1>2 DEF Underway
<1> DEFINE m == pos + k
           text == utf8 \o SubSeq(b, pos + 1, m)
           v == valid_up_to(text)
<1>5. n <= pos /\ pos \in Nat /\ m \in Nat /\ pos < m /\ m <= l /\ n <= l /\ m \in 0 .. l
  BY <1>2, <1>3, <1>4, LimitsAssumption DEF ReadUpTo
<1>6. /\ n > 0 => b[n] # "hi"
      /\ utf8 = SubSeq(b, n + 1, pos) /\ LeadsTo(b, pos)
      /\ executed \o queue = Read(SubSeq(b, 1, n)).pieces
      /\ stream = Read(SubSeq(b, 1, n)).piece
  BY <1>4 DEF ReadUpTo
<1>7. /\ ~LeadsAndContinues(text) => ~IsUtf8(b)
      /\ LeadsAndContinues(text) =>
           /\ LeadsTo(b, m) /\ v \in Nat /\ n + v <= m
           /\ n + v = m \/ (n + v = m - 1 /\ b[m] = "hi")
           /\ n + v > 0 => b[n + v] # "hi"
           /\ SubSeq(text, v + 1, Len(text)) = SubSeq(b, n + v + 1, m)
           /\ SubSeq(text, 1, v) = SubSeq(b, n + 1, n + v)
  <2> HIDE DEF text, v, m
  <2>1. text = Kept(b, n, pos, m)
    BY <1>6 DEF text, Kept
  <2>2. v = valid_up_to(text)
    BY DEF v
  <2>3. /\ b \in Seq(Bytes) /\ n \in Nat /\ pos \in Nat /\ m \in Nat
        /\ n <= pos /\ pos < m /\ m <= Len(b) /\ LeadsTo(b, pos) /\ (n > 0 => b[n] # "hi")
    BY <1>2, <1>4, <1>5, <1>6
  <2> HIDE DEF b
  <2>4. Cut(b, n, m, text, v)
    BY <2>1, <2>2, <2>3, ChunkReads
  <2> QED  BY <2>4 DEF Cut
<1>8. PICK f : Reading(b, f) /\ Read(b) = f[l]
  BY <1>2, ReadingSome
<1>9. Read(SubSeq(b, 1, n)) = f[n]
  BY <1>2, <1>5, <1>8, PrefixReads
<1>10. executed = f[n].pieces /\ stream = f[n].piece
  BY <1>1, <1>2, <1>6, <1>9, SizedConcat
<1>11. CASE ~LeadsAndContinues(text)
  <2>1. outcome' = "utf8" /\ UNCHANGED <<stream, queue, utf8>>
    BY <1>3, <1>11 DEF Fail
  <2> QED  BY <1>1, <1>2, <1>3, <1>5, <1>7, <1>11, <2>1, ScriptRefused
<1>12. CASE LeadsAndContinues(text)
  <2> DEFINE input == SubSeq(text, 1, v)
             p == push_bounded(stream, input)
  <2>1. /\ utf8' = SubSeq(text, v + 1, Len(text))
        /\ IF ~p.ok THEN outcome' = "large" /\ UNCHANGED <<stream, queue>>
           ELSE stream' = p.pending /\ queue' = p.statements /\ UNCHANGED outcome
    BY <1>3, <1>12, Zenon DEF Push, Fail
  <2>2. PICK q \in Nat : q = n + v
    BY <1>5, <1>7, <1>12
  <2>3. n <= q /\ q <= m /\ q <= l /\ input = SubSeq(b, n + 1, q)
    <3>1. v \in Nat /\ q <= m /\ SubSeq(text, 1, v) = SubSeq(b, n + 1, q)
      BY <1>7, <1>12, <2>2
    <3> HIDE DEF v, m, l
    <3>2. n <= q /\ q <= l
      BY <1>2, <1>4, <1>5, <2>2, <3>1
    <3> QED  BY <3>1, <3>2
  <2>4. p = push_bounded(f[n].piece, SubSeq(b, n + 1, q))
    BY <1>10, <2>3
  <2> HIDE DEF input, p
  <2>5. CASE ~p.ok
    <3>1. TooLong(f[l].piece) \/ ~Sized(f[l].pieces)
      BY <1>2, <1>8, <2>3, <2>4, <2>5, LargeStays
    <3>2. Oversized
      BY <1>2, <1>8, <3>1, GivenReads
    <3>3. outcome' = "large" /\ UNCHANGED <<stream, queue>>
      BY <2>1, <2>5
    <3> QED  BY <1>1, <1>2, <1>3, <1>5, <3>2, <3>3, ScriptRefused
  <2>6. CASE p.ok
    <3>1. stream' = p.pending /\ queue' = p.statements /\ outcome' = "running"
      BY <1>1, <2>1, <2>6
    <3>2. /\ p.statements \in Seq(Seq(Bytes)) /\ f[n].pieces \o p.statements = f[q].pieces
          /\ p.pending = f[q].piece
          /\ p.ok <=> /\ ~TooLong(p.pending)
                      /\ \A j \in DOMAIN p.statements : ~TooLong(p.statements[j])
      BY <1>2, <1>8, <2>3, <2>4, PushReads, ZenonT(30)
    <3>3. Read(SubSeq(b, 1, q)) = f[q]
      <4>1. q \in 0 .. Len(b)
        BY <2>3
      <4> QED  BY <1>2, <1>8, <4>1, PrefixReads
    <3>4. executed' \o queue' = f[q].pieces /\ stream' = f[q].piece
      BY <1>1, <1>10, <3>1, <3>2
    <3>5. ReadUpTo(q)'
      <4>1. /\ q <= m /\ (q = m \/ (q = m - 1 /\ b[m] = "hi"))
            /\ q > 0 => b[q] # "hi"
            /\ SubSeq(text, v + 1, Len(text)) = SubSeq(b, q + 1, m) /\ LeadsTo(b, m)
        BY <1>7, <1>12, <2>2
      <4>2. pos' = m /\ script' = b
        BY <1>1, <1>3
      <4>3. ~TooLong(stream')
        BY <2>6, <3>1, <3>2
      <4> HIDE DEF m, text, v
      <4> QED  BY <2>1, <3>3, <3>4, <4>1, <4>2, <4>3 DEF ReadUpTo, TooLong
    <3>6. Underway'
      BY <1>1, <2>2, <3>5 DEF Underway
    <3>7. Given'
      BY <1>1, <1>2, <1>3, <1>5, <3>1, <3>2 DEF Given
    <3>8. InOrder'
      <4>1. Begins(f[q].pieces, f[l].pieces)
        BY <1>2, <1>8, <2>3, BeginsReads
      <4>2. Expected' = f[l].pieces
        BY <1>1, <1>2, <1>8, ScriptStays DEF Expected
      <4>3. Sized(executed) /\ Sized(p.statements)
        <5>1. Sized(executed)
          BY <1>1, <1>2, SizedConcat DEF InOrder
        <5> QED  BY <2>6, <3>2, <5>1 DEF Sized
      <4>4. Sized(f[q].pieces)
        <5>1. executed \o p.statements = f[q].pieces
          BY <1>10, <3>2
        <5>2. Sized(executed \o p.statements)
          BY <1>2, <3>2, <4>3, SizedConcat, Zenon
        <5> QED  BY <5>1, <5>2
      <4> QED  BY <3>4, <4>1, <4>2, <4>4 DEF InOrder, Begins, Sized, TooLong
    <3>9. OutcomeIsJust' /\ RefusedAsAWhole'
      BY <3>1 DEF OutcomeIsJust, RefusedAsAWhole
    <3> QED  BY <3>6, <3>7, <3>8, <3>9 DEF ScriptInv
  <2> QED  BY <2>5, <2>6
<1> QED
  BY <1>11, <1>12

\* A small statement more.
LEMMA SizedAppend ==
  ASSUME NEW s \in Seq(Seq(Bytes)), NEW x \in Seq(Bytes), Sized(s), ~TooLong(x)
  PROVE  Append(s, x) \in Seq(Seq(Bytes)) /\ Sized(Append(s, x))
<1> DEFINE T == Seq(Bytes)
           u == Append(s, x)
           i == Len(s)
<1>1. s \in Seq(T) /\ x \in T
  OBVIOUS
<1> HIDE DEF T
<1>2. /\ u \in Seq(T) /\ i \in Nat /\ DOMAIN u = 1 .. i + 1 /\ DOMAIN s = 1 .. i
      /\ u[i + 1] = x /\ \A k \in 1 .. i : u[k] = s[k]
  BY <1>1
<1> HIDE DEF u, i
<1>3. Sized(u)
  <2> SUFFICES ASSUME NEW k \in DOMAIN u PROVE ~TooLong(u[k])
    BY DEF Sized
  <2>1. k \in 1 .. i \/ k = i + 1
    BY <1>2
  <2>2. CASE k \in 1 .. i
    BY <1>2, <2>2 DEF Sized
  <2>3. CASE k = i + 1
    BY <1>2, <2>3
  <2> QED  BY <2>1, <2>2, <2>3
<1> QED
  BY <1>2, <1>3 DEF u, T

\* What begins with a concatenation begins with its first part.
LEMMA BeginsLess ==
  ASSUME NEW s \in Seq(Seq(Bytes)), NEW t \in Seq(Seq(Bytes)), NEW e \in Seq(Seq(Bytes)),
         Begins(s \o t, e)
  PROVE  Begins(s, e)
<1> DEFINE T == Seq(Bytes)
           u == s \o t
           i == Len(s)
           j == Len(t)
           k == Len(e)
<1>1. s \in Seq(T) /\ t \in Seq(T) /\ e \in Seq(T)
  OBVIOUS
<1> HIDE DEF T
<1>2. i \in Nat /\ j \in Nat /\ k \in Nat
  BY <1>1
<1>3. /\ Len(u) = i + j
      /\ \A a \in 1 .. i + j : u[a] = IF a <= i THEN s[a] ELSE t[a - i]
  BY <1>1, ConcatProperties, Zenon
<1>4. Len(u) <= k /\ \A a \in 1 .. Len(u) : e[a] = u[a]
  BY DEF Begins
<1> HIDE DEF u, i, j, k
<1>5. i <= k
  BY <1>2, <1>3, <1>4
<1>6. \A a \in 1 .. i : e[a] = s[a]
  <2> TAKE a \in 1 .. i
  <2>1. a \in 1 .. i + j /\ a <= i
    BY <1>2
  <2> QED  BY <1>3, <1>4, <2>1
<1> QED
  BY <1>5, <1>6 DEF Begins, i, k

\* A text that ends in trivia is complete.
LEMMA TriviaCloses ==
  ASSUME NEW r, OnlyTrivia(r)
  PROVE  Closed(r)
BY DEF OnlyTrivia, Closed

\* A command or a submission once it is framed.
LEMMA ScriptFramed ==
  ASSUME Given, source # "reader", UNCHANGED <<source, script, utf8, executed, reference>>,
         utf8 = <<>>, executed = <<>>, pos' = Len(script), queue' = Expected,
         is_trivia(stream'), WellFormed, ~Oversized, Sized(Expected), outcome' = "running"
  PROVE  ScriptInv'
<1>1. Expected' = Expected /\ (WellFormed' <=> WellFormed) /\ (Oversized' <=> Oversized)
  BY ScriptStays
<1>2. Expected \in Seq(Seq(Bytes)) /\ <<>> \o Expected = Expected
  BY GivenReads, SizedConcat
<1>3. pos' \in 0 .. Len(script)
  BY DEF Given
<1>4. Given'
  BY <1>2, <1>3 DEF Given, validate, TooLong, push_bounded
<1>5. InOrder'
  <2>1. Begins(Expected, Expected)
    BY <1>2, BeginsSelf
  <2> QED  BY <1>1, <1>2, <2>1 DEF InOrder, Begins, Sized, TooLong
<1>6. Underway'
  <2>1. Whole'
    BY <1>1, <1>2 DEF Whole
  <2> QED  BY <2>1 DEF Underway
<1>7. OutcomeIsJust' /\ RefusedAsAWhole'
  BY DEF OutcomeIsJust, RefusedAsAWhole
<1> QED
  BY <1>4, <1>5, <1>6, <1>7 DEF ScriptInv

\* What the framing of a command and of a submission start from.
LEMMA NotFramed ==
  ASSUME ScriptInv, source # "reader", outcome = "running", pos < Len(script)
  PROVE  /\ Given /\ InOrder /\ utf8 = <<>> /\ executed = <<>> /\ IsUtf8(script)
         /\ reference = Read(script) /\ script \in Seq(Bytes)
         /\ Len(script) \in 0 .. Len(script)
<1>1. Given /\ InOrder /\ utf8 = <<>> /\ (Untouched \/ Whole)
  BY DEF ScriptInv, Underway
<1>2. /\ script \in Seq(Bytes) /\ reference = Read(script) /\ IsUtf8(script)
      /\ pos \in 0 .. Len(script)
  BY <1>1 DEF Given
<1>3. ~Whole
  BY <1>2 DEF Whole
<1> QED
  BY <1>1, <1>2, <1>3 DEF Untouched

\* split_command keeps the invariant.
LEMMA CommandKeeps ==
  ASSUME ScriptInv, FrameCommand
  PROVE  ScriptInv'
<1> DEFINE p == push_bounded(<<>>, script)
<1>1. /\ source = "command" /\ outcome = "running" /\ pos < Len(script) /\ pos' = Len(script)
      /\ UNCHANGED <<source, script, utf8, executed, reference>>
  BY DEF FrameCommand
<1>2. IF TooLong(script) \/ ~p.ok THEN Fail("large")
      ELSE IF is_trivia(p.pending)
      THEN queue' = p.statements /\ stream' = p.pending /\ UNCHANGED outcome
      ELSE IF is_complete(p.pending)
      THEN queue' = Append(p.statements, p.pending) /\ stream' = <<>> /\ UNCHANGED outcome
      ELSE Fail("incomplete")
  BY DEF FrameCommand
<1>3. /\ Given /\ InOrder /\ utf8 = <<>> /\ executed = <<>> /\ IsUtf8(script)
      /\ reference = Read(script) /\ script \in Seq(Bytes)
      /\ Len(script) \in 0 .. Len(script)
  BY <1>1, NotFramed
<1>4. /\ p.statements = reference.pieces /\ p.pending = reference.piece
      /\ p.ok <=> ~TooLong(reference.piece) /\ Sized(reference.pieces)
      /\ is_trivia(p.pending) <=> OnlyTrivia(reference)
      /\ is_complete(p.pending) <=> Closed(reference)
  BY <1>3, WholeReads
<1> HIDE DEF p
<1>5. /\ reference.pieces \in Seq(Seq(Bytes)) /\ reference.piece \in Seq(Bytes)
      /\ Oversized <=> \/ (source # "reader" /\ TooLong(script)) \/ TooLong(reference.piece)
                       \/ ~Sized(reference.pieces)
  BY <1>3, GivenReads
<1>6. CASE TooLong(script) \/ ~p.ok
  <2>1. outcome' = "large" /\ UNCHANGED <<stream, queue>>
    BY <1>2, <1>6 DEF Fail
  <2>2. Oversized
    BY <1>1, <1>4, <1>5, <1>6
  <2> QED  BY <1>1, <1>3, <2>1, <2>2, ScriptRefused
<1>7. CASE ~(TooLong(script) \/ ~p.ok)
  <2>1. ~Oversized /\ Sized(reference.pieces) /\ ~TooLong(reference.piece)
    BY <1>4, <1>5, <1>7
  <2>2. CASE is_trivia(p.pending)
    <3>1. queue' = p.statements /\ stream' = p.pending /\ outcome' = "running"
      BY <1>1, <1>2, <1>7, <2>2
    <3>2. OnlyTrivia(reference) /\ Closed(reference)
      BY <1>4, <2>2, TriviaCloses
    <3>3. WellFormed /\ Expected = reference.pieces
      BY <1>1, <1>3, <3>2 DEF WellFormed, Expected
    <3> QED  BY <1>1, <1>3, <1>4, <2>1, <2>2, <3>1, <3>3, ScriptFramed
  <2>3. CASE ~is_trivia(p.pending) /\ is_complete(p.pending)
    <3>1. queue' = Append(p.statements, p.pending) /\ stream' = <<>> /\ outcome' = "running"
      BY <1>1, <1>2, <1>7, <2>3
    <3>2. ~OnlyTrivia(reference) /\ Closed(reference)
      BY <1>4, <2>3
    <3>3. WellFormed /\ Expected = Append(reference.pieces, reference.piece)
      BY <1>1, <1>3, <3>2 DEF WellFormed, Expected
    <3>4. Sized(Expected)
      BY <1>5, <2>1, <3>3, SizedAppend
    <3>5. is_trivia(stream')
      BY <3>1, SmallNone
    <3> QED  BY <1>1, <1>3, <1>4, <2>1, <3>1, <3>3, <3>4, <3>5, ScriptFramed
  <2>4. CASE ~is_trivia(p.pending) /\ ~is_complete(p.pending)
    <3>1. outcome' = "incomplete" /\ UNCHANGED <<stream, queue>>
      BY <1>2, <1>7, <2>4 DEF Fail
    <3>2. ~WellFormed
      BY <1>4, <2>4 DEF WellFormed
    <3> QED  BY <1>1, <1>3, <3>1, <3>2, ScriptRefused
  <2> QED  BY <2>2, <2>3, <2>4
<1> QED
  BY <1>6, <1>7

\* frame_submission keeps the invariant: what the editor took as finished ends in trivia.
LEMMA SubmissionKeeps ==
  ASSUME ScriptInv, FrameSubmission
  PROVE  ScriptInv'
<1> DEFINE p == push_bounded(<<>>, script)
<1>1. /\ source = "shell" /\ outcome = "running" /\ pos < Len(script) /\ pos' = Len(script)
      /\ UNCHANGED <<source, script, utf8, executed, reference>>
  BY DEF FrameSubmission
<1>2. IF TooLong(script) \/ ~p.ok THEN Fail("large")
      ELSE queue' = p.statements /\ stream' = <<>> /\ UNCHANGED outcome
  BY DEF FrameSubmission
<1>3. /\ Given /\ InOrder /\ utf8 = <<>> /\ executed = <<>> /\ IsUtf8(script)
      /\ reference = Read(script) /\ script \in Seq(Bytes)
      /\ Len(script) \in 0 .. Len(script)
  BY <1>1, NotFramed
<1>4. TooLong(script) \/ ~p.ok \/ is_trivia(p.pending)
  BY <1>1, <1>3 DEF Given, validate
<1>5. /\ p.statements = reference.pieces /\ p.pending = reference.piece
      /\ p.ok <=> ~TooLong(reference.piece) /\ Sized(reference.pieces)
      /\ is_trivia(p.pending) <=> OnlyTrivia(reference)
  BY <1>3, WholeReads
<1> HIDE DEF p
<1>6. Oversized <=> \/ (source # "reader" /\ TooLong(script)) \/ TooLong(reference.piece)
                    \/ ~Sized(reference.pieces)
  BY <1>3, GivenReads
<1>7. CASE TooLong(script) \/ ~p.ok
  <2>1. outcome' = "large" /\ UNCHANGED <<stream, queue>>
    BY <1>2, <1>7 DEF Fail
  <2>2. Oversized
    BY <1>1, <1>5, <1>6, <1>7
  <2> QED  BY <1>1, <1>3, <2>1, <2>2, ScriptRefused
<1>8. CASE ~(TooLong(script) \/ ~p.ok)
  <2>1. queue' = p.statements /\ stream' = <<>> /\ outcome' = "running"
    BY <1>1, <1>2, <1>8
  <2>2. OnlyTrivia(reference) /\ Closed(reference)
    BY <1>4, <1>5, <1>8, TriviaCloses
  <2>3. WellFormed /\ Expected = reference.pieces
    BY <1>1, <1>3, <2>2 DEF WellFormed, Expected
  <2>4. ~Oversized /\ Sized(reference.pieces)
    BY <1>5, <1>6, <1>8
  <2>5. is_trivia(stream')
    BY <2>1, SmallNone
  <2> QED  BY <1>1, <1>3, <1>5, <2>1, <2>3, <2>4, <2>5, ScriptFramed
<1> QED
  BY <1>7, <1>8

\* A statement that runs, or is refused by the server, keeps the invariant.
LEMMA ExecuteKeeps ==
  ASSUME ScriptInv, Execute
  PROVE  ScriptInv'
<1>1. /\ outcome = "running" /\ queue # <<>>
      /\ UNCHANGED <<source, script, pos, utf8, stream, reference>>
  BY DEF Execute
<1>2. /\ Given /\ Underway /\ InOrder
      /\ executed \in Seq(Seq(Bytes)) /\ queue \in Seq(Seq(Bytes))
  BY DEF ScriptInv, Given
<1>3. Expected' = Expected /\ (WellFormed' <=> WellFormed) /\ (Oversized' <=> Oversized)
  BY <1>1, ScriptStays
<1>4. CASE /\ executed' = Append(executed, Head(queue)) /\ queue' = Tail(queue)
           /\ UNCHANGED outcome
  <2>1. /\ executed' \o queue' = executed \o queue
        /\ executed' \in Seq(Seq(Bytes)) /\ queue' \in Seq(Seq(Bytes))
    BY <1>1, <1>2, <1>4, QueueMoves
  <2>2. Given'
    BY <1>1, <1>2, <2>1 DEF Given, validate, TooLong, push_bounded
  <2>3. InOrder'
    BY <1>2, <1>3, <2>1 DEF InOrder, Begins, Sized, TooLong
  <2>4. Underway'
    <3>1. CASE source = "reader"
      <4>1. PICK n \in Nat : ReadUpTo(n)
        BY <1>1, <1>2, <3>1 DEF Underway
      <4>2. ReadUpTo(n)'
        BY <1>1, <2>1, <4>1 DEF ReadUpTo, TooLong
      <4> QED  BY <1>1, <3>1, <4>2 DEF Underway
    <3>2. CASE source # "reader"
      <4>1. utf8 = <<>> /\ (Untouched \/ Whole)
        BY <1>1, <1>2, <3>2 DEF Underway
      <4>2. Whole
        BY <1>1, <4>1 DEF Untouched
      <4>3. Whole'
        BY <1>1, <1>3, <2>1, <4>2 DEF Whole
      <4> QED  BY <1>1, <3>2, <4>1, <4>3 DEF Underway
    <3> QED  BY <3>1, <3>2
  <2>5. OutcomeIsJust' /\ RefusedAsAWhole'
    BY <1>1, <1>4 DEF OutcomeIsJust, RefusedAsAWhole
  <2> QED  BY <2>2, <2>3, <2>4, <2>5 DEF ScriptInv
<1>5. CASE outcome' = "sql" /\ queue' = <<>> /\ UNCHANGED executed
  <2>1. <<>> \in Seq(Seq(Bytes)) /\ executed \o <<>> = executed
    BY <1>2, SizedConcat
  <2>2. Given'
    BY <1>1, <1>2, <1>5, <2>1 DEF Given, validate, TooLong, push_bounded
  <2>3. InOrder'
    <3>1. Begins(executed, Expected) /\ Sized(executed)
      BY <1>2, GivenReads, BeginsLess, SizedConcat DEF InOrder
    <3> QED  BY <1>3, <1>5, <2>1, <3>1 DEF InOrder, Begins, Sized, TooLong
  <2>4. Underway' /\ OutcomeIsJust' /\ RefusedAsAWhole'
    BY <1>5 DEF Underway, OutcomeIsJust, RefusedAsAWhole
  <2> QED  BY <2>2, <2>3, <2>4 DEF ScriptInv
<1> QED
  BY <1>4, <1>5 DEF Execute

\* The end of a text that was read to it.
LEMMA ReaderEnds ==
  ASSUME Given, NEW n \in Nat, ReadUpTo(n), pos = Len(script), queue = <<>>,
         source = "reader"
  PROVE  /\ utf8 # <<>> => ~IsUtf8(script)
         /\ utf8 = <<>> => /\ IsUtf8(script) /\ executed = reference.pieces
                           /\ stream = reference.piece
                           /\ is_trivia(stream) <=> OnlyTrivia(reference)
                           /\ ~TooLong(stream)
<1> DEFINE b == script
           l == Len(b)
<1>1. /\ b \in Seq(Bytes) /\ l \in Nat /\ reference = Read(b) /\ executed \in Seq(Seq(Bytes))
      /\ pos = l
  BY DEF Given
<1>2. /\ n <= l /\ (n = l \/ (n = l - 1 /\ b[l] = "hi")) /\ (n > 0 => b[n] # "hi")
      /\ utf8 = SubSeq(b, n + 1, l) /\ LeadsTo(b, l) /\ ~TooLong(stream)
      /\ executed \o queue = Read(SubSeq(b, 1, n)).pieces
      /\ stream = Read(SubSeq(b, 1, n)).piece
  BY <1>1 DEF ReadUpTo
<1>3. PICK f : Reading(b, f) /\ Read(b) = f[l]
  BY <1>1, ReadingSome
<1>4. Len(utf8) = l - n /\ utf8 \in Seq(Bytes)
  BY <1>1, <1>2, Stretch
<1>5. /\ IsUtf8(b) <=> LeadsTo(b, l) /\ (l > 0 => b[l] # "hi")
  BY <1>1, LeadsOf
<1>6. CASE n = l
  <2>1. utf8 = <<>> /\ IsUtf8(b)
    BY <1>1, <1>2, <1>4, <1>5, <1>6
  <2>2. n \in 0 .. Len(b)
    BY <1>1, <1>6
  <2>3. Read(SubSeq(b, 1, n)) = f[n] /\ (is_trivia(f[n].piece) <=> OnlyTrivia(f[n]))
    BY <1>1, <1>3, <2>2, PrefixReads, PieceKnown
  <2>4. executed \o <<>> = executed
    BY <1>1, SizedConcat
  <2>5. executed = reference.pieces /\ stream = reference.piece
    BY <1>1, <1>2, <1>3, <1>6, <2>3, <2>4
  <2> QED  BY <1>1, <1>2, <1>3, <1>6, <2>1, <2>3, <2>5
<1>7. CASE n # l
  <2>1. Len(utf8) = 1 /\ l > 0 /\ b[l] = "hi"
    BY <1>1, <1>2, <1>4, <1>7
  <2>2. utf8 # <<>>
    <3>1. Len(<<>>) = 0 /\ 0 # 1
      OBVIOUS
    <3>2. Len(utf8) = 1
      BY <2>1
    <3> QED  BY <3>1, <3>2, Zenon
  <2> QED  BY <1>5, <2>1, <2>2
<1> QED
  BY <1>6, <1>7

\* The end of the text keeps the invariant.
LEMMA FinishKeeps ==
  ASSUME ScriptInv, Finish
  PROVE  ScriptInv'
<1>1. /\ outcome = "running" /\ queue = <<>> /\ pos = Len(script)
      /\ outcome' = IF utf8 # <<>> THEN "utf8"
                    ELSE IF is_trivia(stream) THEN "ok" ELSE "incomplete"
      /\ UNCHANGED <<source, script, pos, utf8, stream, queue, executed, reference>>
  BY DEF Finish
<1>2. /\ Given /\ Underway /\ InOrder
      /\ executed \in Seq(Seq(Bytes)) /\ script \in Seq(Bytes) /\ reference = Read(script)
  BY DEF ScriptInv, Given
<1>3. Expected' = Expected /\ (WellFormed' <=> WellFormed) /\ (Oversized' <=> Oversized)
  BY <1>1, ScriptStays
<1>4. Given'
  BY <1>1, <1>2 DEF Given, validate, TooLong, push_bounded
<1>5. InOrder'
  BY <1>1, <1>2, <1>3 DEF InOrder, Begins, Sized, TooLong
<1>6. outcome' \in {"utf8", "ok", "incomplete"}
  BY <1>1
<1>7. Underway'
  BY <1>6 DEF Underway
<1>8. executed \o <<>> = executed
  BY <1>2, SizedConcat
<1>9. Oversized <=> \/ (source # "reader" /\ TooLong(script)) \/ TooLong(reference.piece)
                    \/ ~Sized(reference.pieces)
  BY <1>2, GivenReads
<1>10. CASE source = "reader"
  <2>1. PICK n \in Nat : ReadUpTo(n)
    BY <1>1, <1>2, <1>10 DEF Underway
  <2>2. /\ utf8 # <<>> => ~IsUtf8(script)
        /\ utf8 = <<>> => /\ IsUtf8(script) /\ executed = reference.pieces
                          /\ stream = reference.piece
                          /\ is_trivia(stream) <=> OnlyTrivia(reference)
                          /\ ~TooLong(stream)
    BY <1>1, <1>2, <1>10, <2>1, ReaderEnds
  <2>3. Sized(executed)
    BY <1>1, <1>2, <1>8 DEF InOrder
  <2>4. outcome' = "utf8" => ~IsUtf8(script)
    BY <1>1, <2>2
  <2>5. outcome' = "incomplete" => ~WellFormed
    BY <1>1, <1>10, <2>2 DEF WellFormed
  <2>6. outcome' = "ok" => WellFormed /\ ~Oversized /\ executed = Expected
    <3>1. HAVE outcome' = "ok"
    <3>2. utf8 = <<>> /\ is_trivia(stream)
      BY <1>1, <3>1
    <3>3. OnlyTrivia(reference) /\ Closed(reference) /\ IsUtf8(script)
      BY <2>2, <3>2, TriviaCloses
    <3>4. ~Oversized
      BY <1>9, <1>10, <2>2, <2>3, <3>2
    <3> QED  BY <1>10, <2>2, <3>2, <3>3, <3>4 DEF WellFormed, Expected
  <2>7. OutcomeIsJust'
    BY <1>1, <1>3, <1>6, <2>4, <2>5, <2>6 DEF OutcomeIsJust
  <2>8. RefusedAsAWhole'
    BY <1>1, <1>10 DEF RefusedAsAWhole
  <2> QED  BY <1>4, <1>5, <1>7, <2>7, <2>8 DEF ScriptInv
<1>11. CASE source # "reader"
  <2>1. utf8 = <<>> /\ (Untouched \/ Whole)
    BY <1>1, <1>2, <1>11 DEF Underway
  <2>2. is_trivia(stream) /\ WellFormed /\ ~Oversized /\ executed = Expected
    <3>1. CASE Whole
      BY <1>1, <1>8, <3>1 DEF Whole
    <3>2. CASE Untouched
      <4>1. Len(script) = 0 /\ executed = <<>> /\ stream = <<>>
        BY <1>1, <3>2 DEF Untouched
      <4>2. script = <<>>
        BY <1>2, <4>1
      <4>3. reference = Start
        BY <1>2, <4>2, ReadNone
      <4>4. reference.pieces = <<>> /\ reference.piece = <<>>
        BY <4>3 DEF Start, Reader
      <4>5. ~TooLong(<<>>) /\ is_trivia(<<>>) /\ Sized(<<>>)
        BY SmallNone
      <4>6. OnlyTrivia(reference)
        <5>1. Read(<<>>).pieces = <<>> /\ <<>> \in Seq(Bytes)
          BY <1>2, <4>2, <4>4
        <5>2. OnlyTrivia(Read(<<>>))
          BY <4>5, <5>1, TriviaReads
        <5> QED  BY <1>2, <4>2, <5>2
      <4>7. Closed(reference) /\ IsUtf8(script)
        BY <1>2, <1>11, <4>6, TriviaCloses DEF Given
      <4> QED  BY <1>9, <4>1, <4>2, <4>4, <4>5, <4>6, <4>7 DEF WellFormed, Expected
    <3> QED  BY <2>1, <3>1, <3>2
  <2>3. outcome' = "ok"
    BY <1>1, <2>1, <2>2
  <2>4. OutcomeIsJust' /\ RefusedAsAWhole'
    BY <1>1, <1>3, <2>2, <2>3 DEF OutcomeIsJust, RefusedAsAWhole
  <2> QED  BY <1>4, <1>5, <1>7, <2>4 DEF ScriptInv
<1> QED
  BY <1>10, <1>11

\* A stuttering step keeps the invariant.
LEMMA StutterKeeps ==
  ASSUME ScriptInv, UNCHANGED vars
  PROVE  ScriptInv'
<1>1. UNCHANGED <<source, script, pos, utf8, stream, queue, executed, outcome, reference>>
  BY DEF vars
<1>2. Expected' = Expected /\ (WellFormed' <=> WellFormed) /\ (Oversized' <=> Oversized)
  BY <1>1, ScriptStays
<1>3. /\ Given /\ Underway /\ InOrder /\ OutcomeIsJust /\ RefusedAsAWhole
  BY DEF ScriptInv
<1>4. Given'
  BY <1>1, <1>3 DEF Given, validate, TooLong, push_bounded
<1>5. InOrder'
  BY <1>1, <1>2, <1>3 DEF InOrder, Begins, Sized, TooLong
<1>6. \A n \in Nat : ReadUpTo(n) => ReadUpTo(n)'
  BY <1>1 DEF ReadUpTo, TooLong
<1>7. (Untouched => Untouched') /\ (Whole => Whole')
  BY <1>1, <1>2 DEF Untouched, Whole
<1>8. Underway'
  BY <1>1, <1>3, <1>6, <1>7 DEF Underway
<1>9. OutcomeIsJust' /\ RefusedAsAWhole'
  BY <1>1, <1>2, <1>3 DEF OutcomeIsJust, RefusedAsAWhole
<1> QED
  BY <1>4, <1>5, <1>8, <1>9 DEF ScriptInv

\* The inductive invariant holds of every run, for any scripts and limits.
THEOREM ScriptCorrect == Spec => []ScriptInv
<1>1. Init => ScriptInv
  BY ScriptInit
<1>2. ScriptInv /\ [Next]_vars => ScriptInv'
  <2> SUFFICES ASSUME ScriptInv, [Next]_vars PROVE ScriptInv'
    OBVIOUS
  <2>1. CASE ReadChunk
    BY <2>1, ChunkKeeps
  <2>2. CASE FrameCommand
    BY <2>2, CommandKeeps
  <2>3. CASE FrameSubmission
    BY <2>3, SubmissionKeeps
  <2>4. CASE Execute
    BY <2>4, ExecuteKeeps
  <2>5. CASE Finish
    BY <2>5, FinishKeeps
  <2>6. CASE UNCHANGED vars
    BY <2>6, StutterKeeps
  <2> QED  BY <2>1, <2>2, <2>3, <2>4, <2>5, <2>6 DEF Next
<1> QED
  BY <1>1, <1>2, PTL DEF Spec

\* What begins a sequence is its first part.
LEMMA BeginsPart ==
  ASSUME NEW s \in Seq(Seq(Bytes)), NEW e \in Seq(Seq(Bytes)), Begins(s, e)
  PROVE  Len(s) <= Len(e) /\ SubSeq(e, 1, Len(s)) = s
<1> DEFINE T == Seq(Bytes)
           k == Len(s)
           p == SubSeq(e, 0 + 1, k)
<1>1. s \in Seq(T) /\ e \in Seq(T)
  OBVIOUS
<1> HIDE DEF T
<1>2. k \in Nat /\ k <= Len(e) /\ \A a \in 1 .. k : e[a] = s[a]
  BY <1>1 DEF Begins
<1>3. p \in Seq(T) /\ Len(p) = k - 0 /\ \A a \in 1 .. k - 0 : p[a] = e[0 + a]
  <2>1. 0 \in Nat /\ 0 <= k
    BY <1>2
  <2> HIDE DEF k
  <2> QED  BY <1>1, <1>2, <2>1, Stretch
<1> HIDE DEF k, p
<1>4. Len(p) = k /\ \A a \in 1 .. k : p[a] = s[a]
  <2>1. k - 0 = k /\ \A a \in 1 .. k : 0 + a = a
    BY <1>2
  <2> QED  BY <1>2, <1>3, <2>1
<1>5. Len(p) = Len(s) /\ \A a \in 1 .. Len(p) : p[a] = s[a]
  BY <1>4 DEF k
<1>6. p = s
  BY <1>1, <1>3, <1>5, SeqEqual, Zenon
<1>7. 0 + 1 = 1
  OBVIOUS
<1> QED
  BY <1>2, <1>6, <1>7 DEF p, k

\* However the text is cut into chunks, also inside a character or a comment mark, the
\* statements that run are the first ones of the script as the reference reads it.
THEOREM ScriptOrder == Spec => []ChunksDoNotMatter
<1>1. ScriptInv => ChunksDoNotMatter
  <2> SUFFICES ASSUME ScriptInv PROVE ChunksDoNotMatter
    OBVIOUS
  <2> DEFINE s == executed \o queue
  <2>1. /\ Given /\ InOrder /\ executed \in Seq(Seq(Bytes)) /\ queue \in Seq(Seq(Bytes))
    BY DEF ScriptInv, Given
  <2>2. Expected \in Seq(Seq(Bytes))
    BY <2>1, GivenReads
  <2>3. s \in Seq(Seq(Bytes))
    <3> DEFINE T == Seq(Bytes)
    <3>1. executed \in Seq(T) /\ queue \in Seq(T)
      BY <2>1
    <3> HIDE DEF T
    <3>2. s \in Seq(T)
      BY <3>1, ConcatProperties, Zenon
    <3> QED  BY <3>2 DEF T
  <2>4. Len(s) <= Len(Expected) /\ SubSeq(Expected, 1, Len(s)) = s
    BY <2>1, <2>2, <2>3, BeginsPart DEF InOrder
  <2>5. Sized(executed)
    BY <2>1, SizedConcat DEF InOrder
  <2> QED  BY <2>4, <2>5 DEF ChunksDoNotMatter, Sized
<1> QED
  BY <1>1, ScriptCorrect, PTL

\* What the program reports in the end is a fact of the script and of the limit.
THEOREM ScriptOutcome == Spec => []OutcomeIsJust
<1>1. ScriptInv => OutcomeIsJust
  BY DEF ScriptInv
<1> QED
  BY <1>1, ScriptCorrect, PTL

\* A command or a submission that is refused for its text has run nothing.
THEOREM ScriptRefusal == Spec => []RefusedAsAWhole
<1>1. ScriptInv => RefusedAsAWhole
  BY DEF ScriptInv
<1> QED
  BY <1>1, ScriptCorrect, PTL
=============================================================================
