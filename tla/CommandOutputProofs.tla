------------------------ MODULE CommandOutputProofs ------------------------
(***************************************************************************)
(* The pager of the shell, what is written of the results, and the room it *)
(* takes of a terminal, for any results, widths and bounds.                *)
(***************************************************************************)
EXTENDS CommandOutput, FiniteSetTheorems, DataInduction, TLAPS

Resting == {"prompt", "next", "ended"}

\* No pager outlives the statement it was started for, and a script, which a
\* signal may end at any moment, has none and never comes to a prompt.
PagerInv ==
  /\ mode \in {"script", "shell"}
  /\ phase \in Resting => pager.process = "none"
  /\ mode = "script" => phase \notin {"prompt", "next"} /\ pager.process = "none"

\* What happens at the prompt, and the start of a statement.
LEMMA PromptKeepsPager ==
  ASSUME PagerInv, \/ Prompt \/ \E display \in Displays : StartStatement(display)
  PROVE  PagerInv'
<1> USE DEF PagerInv, Resting
<1>1. ASSUME NEW name, NEW args, Command(name, args)
      PROVE  PagerInv'
  BY <1>1 DEF Command, Forget, NoPager
<1>2. ASSUME NEW n, Submit(n)
      PROVE  PagerInv'
  BY <1>2 DEF Submit, Forget, NoPager
<1>3. ASSUME NEW display, StartStatement(display)
      PROVE  PagerInv'
  BY <1>3 DEF StartStatement
<1> QED  BY <1>1, <1>2, <1>3 DEF Prompt

\* The events of a statement, and signals.
LEMMA StatementKeepsPager ==
  ASSUME PagerInv, Server \/ Return \/ Signals \/ QuietReturn
  PROVE  PagerInv'
<1> USE DEF PagerInv, Resting, program
<1>1. ASSUME NEW event, Emit(event), UNCHANGED <<mode, pager>>, phase = "executing"
      PROVE  PagerInv'
  BY <1>1 DEF Emit
<1>2. CASE Describe
  BY <1>1, <1>2 DEF Describe, Listening
<1>3. CASE SendRow
  BY <1>1, <1>3 DEF SendRow, Listening
<1>4. CASE Complete
  BY <1>1, <1>4 DEF Complete, Listening
<1>5. CASE SendNotice \/ SendError
  BY <1>1, <1>5 DEF SendNotice, SendError, Listening
<1>6. CASE FailSilently \/ Return \/ QuietReturn
  BY <1>6 DEF FailSilently, Return, QuietReturn
<1>7. CASE Signals
  BY <1>7 DEF Signals, Interrupt, Terminate, Killed
<1> QED  BY <1>2, <1>3, <1>4, <1>5, <1>6, <1>7 DEF Server

\* Writing: no step of the program or of the pager starts or ends a statement.
LEMMA WritingKeepsPager ==
  ASSUME PagerInv,
         \/ Write \/ WriteFails \/ Pager
         \/ \E stream \in {"stdout", "stderr"} : CloseStream(stream)
  PROVE  PagerInv'
<1> USE DEF PagerInv, Resting, program
<1>1. CASE Write
  <2>1. mode' = mode /\ phase' = phase
    BY <1>1 DEF Write
  <2>2. CASE pager.process = "none"
    BY <1>1, <2>1, <2>2 DEF Write, WriteToPager, WriteToStream
  <2>3. CASE pager.process # "none"
    BY <2>1, <2>3
  <2> QED  BY <2>2, <2>3
<1>2. CASE WriteFails
  BY <1>2 DEF WriteFails
<1>3. CASE Pager
  BY <1>3 DEF Pager, PagerReads, PagerLeaves
<1>4. ASSUME NEW stream, CloseStream(stream)
      PROVE  PagerInv'
  BY <1>4 DEF CloseStream
<1> QED  BY <1>1, <1>2, <1>3, <1>4

\* The end of a sink: no prompt but by Reap, unless there is no pager.
LEMMA ClosingKeepsPager ==
  ASSUME PagerInv, Report \/ DropSink \/ Reap
  PROVE  PagerInv'
<1> USE DEF PagerInv, Resting, program, Proceeds
<1>1. CASE Report
  BY <1>1 DEF Report
<1>2. CASE DropSink
  BY <1>2 DEF DropSink
<1>3. CASE Reap
  BY <1>3 DEF Reap, NoPager
<1> QED  BY <1>1, <1>2, <1>3

LEMMA PagerStays == PagerInv /\ [Next]_vars => PagerInv'
<1> SUFFICES ASSUME PagerInv, [Next]_vars
             PROVE  PagerInv'
  OBVIOUS
<1>1. CASE UNCHANGED vars
  BY <1>1 DEF PagerInv, vars, program
<1>2. CASE Next
  BY <1>2, PromptKeepsPager, StatementKeepsPager, WritingKeepsPager, ClosingKeepsPager
  DEF Next, Progress
<1> QED  BY <1>1, <1>2

LEMMA PagerStarts == Init => PagerInv
BY DEF Init, PagerInv, Resting, NoPager

\* The Drop of OptionalPager comes before every prompt, every further statement and
\* the end of the shell, whatever the statement, the pager and the user did.
THEOREM PagerIsAlwaysReaped == Spec => []PagerIsReaped
<1>1. PagerInv => PagerIsReaped
  BY DEF PagerInv, PagerIsReaped, Resting
<1> QED  BY <1>1, PagerStarts, PagerStays, PTL DEF Spec
-----------------------------------------------------------------------------
(***************************************************************************)
(* Sequences, of whatever elements.                                        *)
(***************************************************************************)
IsSeq(s) == s \in Seq({s[i] : i \in DOMAIN s})

LEMMA SeqIs ==
  ASSUME NEW X, NEW s \in Seq(X)
  PROVE  IsSeq(s)
<1>1. Len(s) \in Nat /\ DOMAIN s = 1 .. Len(s) /\ s = [i \in 1 .. Len(s) |-> s[i]]
  OBVIOUS
<1> QED  BY <1>1 DEF IsSeq

LEMMA IsSeqOf ==
  ASSUME NEW s, IsSeq(s)
  PROVE  Len(s) \in Nat /\ DOMAIN s = 1 .. Len(s)
BY DEF IsSeq

LEMMA FunctionIsSeq ==
  ASSUME NEW n \in Nat, NEW f, f = [i \in 1 .. n |-> f[i]]
  PROVE  IsSeq(f) /\ Len(f) = n
<1> DEFINE X == {f[i] : i \in 1 .. n}
<1>1. f \in [1 .. n -> X]
  OBVIOUS
<1>2. f \in Seq(X) /\ Len(f) = n
  BY <1>1
<1> QED  BY <1>2, SeqIs

LEMMA ConcatIs ==
  ASSUME NEW s, NEW t, IsSeq(s), IsSeq(t)
  PROVE  /\ IsSeq(s \o t) /\ Len(s \o t) = Len(s) + Len(t)
         /\ DOMAIN (s \o t) = 1 .. Len(s) + Len(t)
         /\ \A i \in 1 .. Len(s) : (s \o t)[i] = s[i]
         /\ \A i \in 1 .. Len(t) : (s \o t)[Len(s) + i] = t[i]
<1> DEFINE X == {s[i] : i \in DOMAIN s} \cup {t[i] : i \in DOMAIN t}
<1>1. s \in Seq(X) /\ t \in Seq(X)
  BY DEF IsSeq
<1> HIDE DEF X
<1>2. s \o t \in Seq(X)
  BY <1>1
<1>3. IsSeq(s \o t)
  BY <1>2, SeqIs, Zenon
<1> QED  BY <1>1, <1>2, <1>3

\* The order of joining does not matter.
Chained(r, s, t) == (r \o s) \o t = r \o (s \o t)

LEMMA ChainedAre ==
  ASSUME NEW r, NEW s, NEW t, IsSeq(r), IsSeq(s), IsSeq(t)
  PROVE  Chained(r, s, t)
<1> DEFINE X == {r[i] : i \in DOMAIN r} \cup {s[i] : i \in DOMAIN s} \cup {t[i] : i \in DOMAIN t}
<1>1. r \in Seq(X) /\ s \in Seq(X) /\ t \in Seq(X)
  BY DEF IsSeq
<1> HIDE DEF X
<1>2. (r \o s) \o t = r \o (s \o t)
  BY <1>1
<1> QED  BY <1>2 DEF Chained

LEMMA ConcatEmpty ==
  ASSUME NEW s, IsSeq(s)
  PROVE  IsSeq(<<>>) /\ s \o <<>> = s /\ <<>> \o s = s
<1> DEFINE X == {s[i] : i \in DOMAIN s}
<1>1. s \in Seq(X) /\ <<>> \in Seq(X)
  BY DEF IsSeq
<1> HIDE DEF X
<1>2. IsSeq(<<>>)
  BY <1>1, SeqIs, Zenon
<1> QED  BY <1>1, <1>2

LEMMA SingleIs ==
  ASSUME NEW x
  PROVE  IsSeq(<<x>>) /\ Len(<<x>>) = 1 /\ <<x>>[1] = x /\ DOMAIN <<x>> = 1 .. 1
<1>1. <<x>> \in Seq({x})
  OBVIOUS
<1>2. IsSeq(<<x>>)
  BY <1>1, SeqIs, Zenon
<1> QED  BY <1>1, <1>2

LEMMA AppendIs ==
  ASSUME NEW s, NEW x, IsSeq(s)
  PROVE  Append(s, x) = s \o <<x>>
<1> DEFINE X == {s[i] : i \in DOMAIN s} \cup {x}
<1>1. s \in Seq(X) /\ x \in X
  BY DEF IsSeq
<1> HIDE DEF X
<1> QED  BY <1>1

LEMMA HeadIs ==
  ASSUME NEW s, IsSeq(s), s # <<>>
  PROVE  /\ IsSeq(Tail(s)) /\ s = <<Head(s)>> \o Tail(s) /\ Head(s) = s[1]
         /\ Len(Tail(s)) = Len(s) - 1 /\ Len(s) > 0
         /\ \A i \in 1 .. Len(s) - 1 : Tail(s)[i] = s[i + 1]
<1> DEFINE X == {s[i] : i \in DOMAIN s}
<1>1. s \in Seq(X)
  BY DEF IsSeq
<1> HIDE DEF X
<1>2. Tail(s) \in Seq(X) /\ Head(s) \in X /\ Head(s) = s[1] /\ Len(s) > 0
  BY <1>1
<1>3. s = <<Head(s)>> \o Tail(s)
  BY <1>1, <1>2
<1>4. IsSeq(Tail(s))
  BY <1>2, SeqIs, Zenon
<1> QED  BY <1>1, <1>2, <1>3, <1>4
-----------------------------------------------------------------------------
(***************************************************************************)
(* What has been said, or is about to be, against the state of the sink.   *)
(***************************************************************************)
Neutral == {"blank", "rule", "field", "command", "notice"}

\* The results of a stream are those the sink has begun; the last one is open when
\* the sink is active, with the columns and the rows the sink remembers.
Counted(stream, s) ==
  /\ s.results \in Nat /\ s.rows \in Nat /\ s.active \in BOOLEAN
  /\ IF s.format = "expanded" THEN At(stream, "columns") = {}
     ELSE s.results = Cardinality(At(stream, "columns"))
  /\ \A i \in Framing(stream) : stream[i].result \in Nat /\ stream[i].result < s.results
  /\ s.results = 0 => ~s.active
  /\ s.format = "delimited" => s.results <= 1 /\ At(stream, "complete") = {}
  /\ s.active =>
       /\ \A i \in At(stream, "columns") :
            stream[i].result = Number(s) => Len(stream[i].cells) = Len(s.widths)
       /\ s.rows = Cardinality(RowsAt(stream, Number(s)))
       /\ \A i \in At(stream, "complete") : stream[i].result # Number(s)
  /\ s.format # "delimited" =>
       \A j \in Framing(stream) :
         ~s.active \/ stream[j].result < Number(s)
         => \E k \in At(stream, "complete") : j <= k /\ stream[k].result = stream[j].result

\* Nothing has been said for the last time, unless the sink is done.
Unended(stream, s) ==
  At(stream, "torn") = {} /\ (~s.done => At(stream, "error") = {})

Told(stream, s, sent) ==
  /\ IsSeq(stream) /\ Framed(stream, s.format) /\ Counted(stream, s)
  /\ Unended(stream, s)
  /\ Faithful(stream, s, sent) /\ Cardinality(At(stream, "row")) = Len(sent)

LEMMA AtFinite ==
  ASSUME NEW stream, IsSeq(stream)
  PROVE  /\ \A kind : IsFiniteSet(At(stream, kind))
         /\ \A result : IsFiniteSet(RowsAt(stream, result))
         /\ \A kind, i : IsFiniteSet({j \in At(stream, kind) : j <= i})
<1>1. Len(stream) \in Nat /\ DOMAIN stream = 1 .. Len(stream)
  BY IsSeqOf
<1>2. IsFiniteSet(1 .. Len(stream))
  BY <1>1, FS_Interval
<1>3. \A A : A \subseteq 1 .. Len(stream) => IsFiniteSet(A)
  BY <1>2, FS_Subset
<1>4. /\ \A kind : At(stream, kind) \subseteq 1 .. Len(stream)
      /\ \A result : RowsAt(stream, result) \subseteq 1 .. Len(stream)
      /\ \A kind, i : {j \in At(stream, kind) : j <= i} \subseteq 1 .. Len(stream)
  BY <1>1 DEF At, RowsAt
<1> QED  BY <1>3, <1>4

Said(stream, piece) == stream \o <<piece>>

\* The pieces of a kind when one more piece is said.
LongerBy(longer, stream, piece) ==
  /\ IsSeq(longer) /\ Len(longer) = Len(stream) + 1 /\ DOMAIN longer = 1 .. Len(stream) + 1
  /\ Len(stream) \in Nat /\ Len(stream) + 1 \in Nat \ {0}
  /\ \A i \in 1 .. Len(stream) : longer[i] = stream[i] /\ i < Len(stream) + 1
  /\ longer[Len(stream) + 1] = piece
  /\ Framing(stream) \subseteq 1 .. Len(stream)
  /\ \A kind : At(stream, kind) \subseteq 1 .. Len(stream)
  /\ \A result : RowsAt(stream, result) \subseteq At(stream, "row")

LEMMA AtLast ==
  ASSUME NEW stream, NEW piece, IsSeq(stream)
  PROVE  LongerBy(Said(stream, piece), stream, piece)
<1>1. Len(stream) \in Nat /\ DOMAIN stream = 1 .. Len(stream)
  BY IsSeqOf
<1>2. IsSeq(<<piece>>) /\ Len(<<piece>>) = 1 /\ <<piece>>[1] = piece
  BY SingleIs
<1>3. /\ Framing(stream) \subseteq 1 .. Len(stream)
      /\ \A kind : At(stream, kind) \subseteq 1 .. Len(stream)
      /\ \A result : RowsAt(stream, result) \subseteq At(stream, "row")
  BY <1>1 DEF Framing, At, RowsAt
<1> QED  BY <1>1, <1>2, <1>3, ConcatIs DEF Said, LongerBy

\* No other kind of piece has become more.
KindsOf(longer, stream, piece) ==
  LET new == Len(stream) + 1
      frame == piece.kind \in {"columns", "row", "complete"}
  IN  /\ \A kind : piece.kind # kind => At(longer, kind) = At(stream, kind)
      /\ At(longer, piece.kind) = At(stream, piece.kind) \cup {new}
      /\ frame => Framing(longer) = Framing(stream) \cup {new}
      /\ ~frame => Framing(longer) = Framing(stream)
      /\ \A result : ~(piece.kind = "row" /\ piece.result = result)
                     => RowsAt(longer, result) = RowsAt(stream, result)
      /\ piece.kind = "row" => RowsAt(longer, piece.result) =
                                 RowsAt(stream, piece.result) \cup {new}

LEMMA AtKinds ==
  ASSUME NEW stream, NEW piece, IsSeq(stream)
  PROVE  KindsOf(Said(stream, piece), stream, piece)
<1> DEFINE longer == Said(stream, piece)
           new == Len(stream) + 1
<1>1. LongerBy(longer, stream, piece)
  BY AtLast, Zenon
<1>2. DOMAIN stream = 1 .. Len(stream)
  BY IsSeqOf
<1> HIDE DEF longer
<1> USE DEF LongerBy
<1>3. \A i : i \in 1 .. new <=> i \in 1 .. Len(stream) \/ i = new
  BY <1>1
<1>4. /\ \A kind : piece.kind # kind => At(longer, kind) = At(stream, kind)
      /\ At(longer, piece.kind) = At(stream, piece.kind) \cup {new}
  BY <1>1, <1>2, <1>3 DEF At
<1>5. /\ piece.kind \in {"columns", "row", "complete"}
         => Framing(longer) = Framing(stream) \cup {new}
      /\ piece.kind \notin {"columns", "row", "complete"}
         => Framing(longer) = Framing(stream)
  BY <1>1, <1>2, <1>3 DEF Framing
<1>6. /\ \A result : ~(piece.kind = "row" /\ piece.result = result)
                     => RowsAt(longer, result) = RowsAt(stream, result)
      /\ piece.kind = "row" => RowsAt(longer, piece.result) =
                                 RowsAt(stream, piece.result) \cup {new}
  BY <1>1, <1>2, <1>3 DEF At, RowsAt
<1> QED  BY <1>4, <1>5, <1>6 DEF longer, KindsOf

\* What the account of a sink is about.
Account(s) == [format |-> s.format, escape |-> s.escape, active |-> s.active,
               widths |-> s.widths, rows |-> s.rows, results |-> s.results]

LEMMA AccountIs ==
  ASSUME NEW s, NEW t, Account(s) = Account(t)
  PROVE  /\ s.format = t.format /\ s.escape = t.escape /\ s.active = t.active
         /\ s.widths = t.widths /\ s.rows = t.rows /\ s.results = t.results
BY DEF Account

\* The account does not depend on anything else, and a piece that is no frame of a
\* result changes nothing in it.
LEMMA SameAccount ==
  ASSUME NEW stream, NEW s, NEW t, NEW sent, Told(stream, s, sent),
         Account(s) = Account(t), s.done => t.done
  PROVE  Told(stream, t, sent)
BY AccountIs DEF Told, Counted, Unended, Number, Faithful, Shows

LEMMA SameFrames ==
  ASSUME NEW stream, NEW longer, NEW s, NEW t, NEW sent, Told(stream, s, sent),
         Account(s) = Account(t), s.done => t.done, IsSeq(longer),
         \A kind \in {"columns", "row", "complete", "torn"} :
           At(longer, kind) = At(stream, kind),
         Framing(longer) = Framing(stream),
         \A i \in Framing(stream) : longer[i] = stream[i],
         At(longer, "error") \subseteq {Len(longer)},
         ~t.done => At(longer, "error") = {}
  PROVE  Told(longer, t, sent)
<1>1. \A kind \in {"columns", "row", "complete"} : At(stream, kind) \subseteq Framing(stream)
  BY DEF At, Framing
<1>2. \A result : RowsAt(longer, result) = RowsAt(stream, result)
  BY <1>1 DEF RowsAt
<1>3. \A kind \in {"columns", "row", "complete"} :
        \A i \in At(stream, kind) : longer[i] = stream[i]
  BY <1>1
<1>4. \A result : \A i \in RowsAt(stream, result) : longer[i] = stream[i]
  BY <1>3 DEF RowsAt
<1>5. Told(stream, t, sent)
  BY SameAccount
<1>6. Framed(longer, t.format)
  <2>1. \A i \in At(longer, "error") \cup At(longer, "torn") : i = Len(longer)
    BY DEF Told, Unended
  <2>2. Framed(stream, t.format)
    BY <1>5 DEF Told
  <2> USE DEF Framed
  <2>3. \A i \in At(longer, "columns") :
          longer[i].result = Cardinality({j \in At(longer, "columns") : j < i})
    <3>1. At(longer, "columns") = At(stream, "columns")
      OBVIOUS
    <3> QED  BY <1>3, <2>2, <3>1
  <2>4. \A i \in At(longer, "columns") : \A j \in RowsAt(longer, longer[i].result) :
          i < j /\ Len(longer[i].cells) = Len(longer[j].cells)
    BY <1>2, <1>3, <1>4, <2>2
  <2>5. \A i \in At(longer, "complete") :
          /\ longer[i].rows = Cardinality(RowsAt(longer, longer[i].result))
          /\ \A j \in Framing(longer) : j > i => longer[j].result > longer[i].result
    BY <1>2, <1>3, <2>2
  <2>6. t.format # "delimited" =>
          \A i, j \in Framing(longer) :
            j < i /\ longer[j].result < longer[i].result
            => \E k \in At(longer, "complete") :
                 j <= k /\ k < i /\ longer[k].result = longer[j].result
    BY <1>3, <2>2
  <2> QED  BY <2>1, <2>3, <2>4, <2>5, <2>6
<1>7. Counted(longer, t)
  BY <1>2, <1>3, <1>5 DEF Counted, Told
<1>8. Faithful(longer, t, sent) /\ Cardinality(At(longer, "row")) = Len(sent)
  <2>1. At(longer, "row") = At(stream, "row")
    OBVIOUS
  <2>2. \A i : Place(longer, i) = Place(stream, i)
    BY <2>1 DEF Place
  <2> QED  BY <1>3, <1>5, <2>1, <2>2 DEF Faithful, Told
<1>9. Unended(longer, t)
  BY <1>5 DEF Unended, Told
<1> QED  BY <1>6, <1>7, <1>8, <1>9 DEF Told

\* Pieces of which none is a frame of a result.
LEMMA QuietStep ==
  ASSUME NEW stream, NEW s, NEW t, NEW sent, NEW pieces, Told(stream, s, sent),
         ~s.done, Account(s) = Account(t), IsSeq(pieces),
         \A i \in DOMAIN pieces : pieces[i].kind \in Neutral
  PROVE  Told(stream \o pieces, t, sent)
<1> DEFINE longer == stream \o pieces
<1>1. /\ IsSeq(stream) /\ Len(stream) \in Nat /\ DOMAIN stream = 1 .. Len(stream)
      /\ Len(pieces) \in Nat /\ DOMAIN pieces = 1 .. Len(pieces)
  BY IsSeqOf DEF Told
<1>2. /\ IsSeq(longer) /\ DOMAIN longer = 1 .. Len(stream) + Len(pieces)
      /\ \A i \in 1 .. Len(stream) : longer[i] = stream[i]
      /\ \A i \in 1 .. Len(pieces) : longer[Len(stream) + i] = pieces[i]
  BY <1>1, ConcatIs
<1> HIDE DEF longer
<1>3. \A i \in DOMAIN longer : i \in DOMAIN stream \/ longer[i].kind \in Neutral
  <2>1. ASSUME NEW i \in DOMAIN longer, i \notin DOMAIN stream
        PROVE  longer[i].kind \in Neutral
    <3>1. i - Len(stream) \in 1 .. Len(pieces) /\ Len(stream) + (i - Len(stream)) = i
      BY <1>1, <1>2, <2>1
    <3> QED  BY <1>1, <1>2, <3>1
  <2> QED  BY <2>1
<1>4. \A i \in DOMAIN stream : i \in DOMAIN longer /\ longer[i] = stream[i]
  BY <1>1, <1>2
<1>5. /\ \A kind \in {"columns", "row", "complete", "torn", "error"} :
           At(longer, kind) = At(stream, kind)
      /\ Framing(longer) = Framing(stream)
  BY <1>3, <1>4 DEF At, Framing, Neutral
<1>6. At(stream, "error") = {}
  BY DEF Told, Unended
<1>7. \A i \in Framing(stream) : longer[i] = stream[i]
  BY <1>4 DEF Framing
<1>8. Told(longer, t, sent)
  BY <1>2, <1>5, <1>6, <1>7, SameFrames
<1> QED  BY <1>8 DEF longer

LEMMA ErrorStep ==
  ASSUME NEW stream, NEW s, NEW t, NEW sent, NEW piece, Told(stream, s, sent), ~s.done,
         piece.kind = "error", Account(s) = Account(t), t.done
  PROVE  Told(Said(stream, piece), t, sent)
<1> DEFINE longer == Said(stream, piece)
<1>1. LongerBy(longer, stream, piece) /\ KindsOf(longer, stream, piece)
  BY AtLast, AtKinds, Zenon DEF Told
<1> HIDE DEF longer
<1>2. /\ \A kind \in {"columns", "row", "complete", "torn"} :
           At(longer, kind) = At(stream, kind)
      /\ Framing(longer) = Framing(stream)
      /\ At(longer, "error") = At(stream, "error") \cup {Len(longer)}
      /\ IsSeq(longer)
      /\ \A i \in Framing(stream) : longer[i] = stream[i]
  BY <1>1 DEF LongerBy, KindsOf
<1>3. At(stream, "error") = {}
  BY DEF Told, Unended
<1>4. Told(longer, t, sent)
  BY <1>2, <1>3, SameFrames
<1> QED  BY <1>4 DEF longer

LEMMA OneMore ==
  ASSUME NEW A, NEW x, IsFiniteSet(A), x \notin A
  PROVE  Cardinality(A \cup {x}) = Cardinality(A) + 1 /\ Cardinality(A) \in Nat
BY FS_AddElement, FS_CardinalityType

\* The columns of a result that begins.
LEMMA ColumnsStep ==
  ASSUME NEW stream, NEW s, NEW t, NEW sent, NEW piece, Told(stream, s, sent),
         ~s.done, ~s.active, s.format # "expanded",
         s.format = "delimited" => s.results = 0,
         t.format = s.format, t.escape = s.escape, t.active = TRUE, t.rows = 0,
         t.results = s.results + 1, t.done = s.done,
         piece.kind = "columns", piece.result = s.results,
         Len(piece.cells) = Len(t.widths)
  PROVE  Told(Said(stream, piece), t, sent)
<1> DEFINE longer == Said(stream, piece)
           new == Len(stream) + 1
<1>0. LongerBy(longer, stream, piece) /\ KindsOf(longer, stream, piece)
  BY AtLast, AtKinds, Zenon DEF Told
<1> HIDE DEF longer
<1>1. /\ IsSeq(longer) /\ Len(longer) = new
      /\ Len(stream) \in Nat /\ new \in Nat \ {0}
      /\ \A i \in 1 .. Len(stream) : longer[i] = stream[i] /\ i < new
      /\ longer[new] = piece
      /\ Framing(stream) \subseteq 1 .. Len(stream)
      /\ \A kind : At(stream, kind) \subseteq 1 .. Len(stream)
      /\ \A result : RowsAt(stream, result) \subseteq At(stream, "row")
  BY <1>0 DEF LongerBy
<1>2. /\ \A kind \in {"row", "complete", "error", "torn"} :
           At(longer, kind) = At(stream, kind)
      /\ At(longer, "columns") = At(stream, "columns") \cup {new}
      /\ Framing(longer) = Framing(stream) \cup {new}
      /\ \A result : RowsAt(longer, result) = RowsAt(stream, result)
  BY <1>0 DEF KindsOf
<1> HIDE DEF longer, new
<1>3. Framed(stream, s.format) /\ Counted(stream, s) /\ Unended(stream, s)
  BY DEF Told
<1>4. \A kind \in {"columns", "row", "complete"} : At(stream, kind) \subseteq Framing(stream)
  BY DEF At, Framing
<1>5. \A i \in Framing(stream) : stream[i].result \in Nat /\ stream[i].result < s.results
                                 /\ longer[i] = stream[i] /\ i \in Nat /\ i < new
  BY <1>1, <1>3 DEF Counted
<1>6. s.results \in Nat /\ s.results = Cardinality(At(stream, "columns"))
  BY <1>3 DEF Counted
<1>7. \A i \in Framing(stream) : s.format # "delimited" =>
        \E k \in At(stream, "complete") : i <= k /\ stream[k].result = stream[i].result
  BY <1>3 DEF Counted
<1>8. Framed(longer, t.format)
  <2> USE DEF Framed
  <2>1. \A i \in At(longer, "error") \cup At(longer, "torn") : i = Len(longer)
    BY <1>2, <1>3 DEF Unended
  <2>2. \A i \in At(longer, "columns") :
          longer[i].result = Cardinality({j \in At(longer, "columns") : j < i})
    <3>1. {j \in At(longer, "columns") : j < new} = At(stream, "columns")
      BY <1>1, <1>2, <1>4, <1>5
    <3>2. \A i \in At(stream, "columns") :
            {j \in At(longer, "columns") : j < i} = {j \in At(stream, "columns") : j < i}
      BY <1>1, <1>2, <1>4, <1>5
    <3>3. ASSUME NEW i \in At(stream, "columns")
          PROVE  longer[i].result = Cardinality({j \in At(longer, "columns") : j < i})
      BY <1>3, <1>4, <1>5, <3>2
    <3>4. longer[new].result = Cardinality({j \in At(longer, "columns") : j < new})
      BY <1>1, <1>6, <3>1
    <3> QED  BY <1>2, <3>3, <3>4
  <2>3. \A i \in At(longer, "columns") : \A j \in RowsAt(longer, longer[i].result) :
          i < j /\ Len(longer[i].cells) = Len(longer[j].cells)
    <3>1. RowsAt(stream, s.results) = {}
      BY <1>1, <1>4, <1>5, <1>6 DEF RowsAt
    <3> QED  BY <1>1, <1>2, <1>3, <1>4, <1>5, <3>1
  <2>4. \A i \in At(longer, "complete") :
          /\ longer[i].rows = Cardinality(RowsAt(longer, longer[i].result))
          /\ \A j \in Framing(longer) : j > i => longer[j].result > longer[i].result
    BY <1>1, <1>2, <1>3, <1>4, <1>5
  <2>5. t.format # "delimited" =>
          \A i, j \in Framing(longer) :
            j < i /\ longer[j].result < longer[i].result
            => \E k \in At(longer, "complete") :
                 j <= k /\ k < i /\ longer[k].result = longer[j].result
    <3>1. ASSUME NEW i \in Framing(longer), NEW j \in Framing(longer),
                 j < i, longer[j].result < longer[i].result, t.format # "delimited"
          PROVE  \E k \in At(longer, "complete") :
                   j <= k /\ k < i /\ longer[k].result = longer[j].result
      <4>1. j \in Framing(stream)
        BY <1>1, <1>2, <1>5, <3>1
      <4>2. CASE i = new
        BY <1>2, <1>4, <1>5, <1>7, <3>1, <4>1, <4>2
      <4>3. CASE i \in Framing(stream)
        <5>1. stream[j].result < stream[i].result
          BY <1>5, <3>1, <4>1, <4>3
        <5>2. PICK k \in At(stream, "complete") :
                j <= k /\ k < i /\ stream[k].result = stream[j].result
          BY <1>3, <3>1, <4>1, <4>3, <5>1
        <5> QED  BY <1>2, <1>4, <1>5, <4>1, <5>2
      <4> QED  BY <1>2, <4>2, <4>3
    <3> QED  BY <3>1
  <2> QED  BY <2>1, <2>2, <2>3, <2>4, <2>5
<1>9. Counted(longer, t)
  <2>1. t.results = Cardinality(At(longer, "columns")) /\ t.results \in Nat
    <3>1. new \notin At(stream, "columns") /\ IsFiniteSet(At(stream, "columns"))
      <4>1. IsFiniteSet(At(stream, "columns"))
        BY AtFinite DEF Told
      <4> QED  BY <1>4, <1>5, <4>1
    <3> QED  BY <1>2, <1>6, <3>1, OneMore
  <2>2. \A i \in Framing(longer) : longer[i].result \in Nat /\ longer[i].result < t.results
    BY <1>1, <1>2, <1>5, <1>6
  <2>3. Number(t) = s.results
    BY <1>6 DEF Number
  <2>4. t.rows = Cardinality(RowsAt(longer, Number(t)))
    <3>1. RowsAt(longer, Number(t)) = {}
      BY <1>1, <1>2, <1>4, <1>5, <1>6, <2>3 DEF RowsAt
    <3> QED  BY <3>1, FS_EmptySet
  <2>5. \A i \in At(longer, "columns") :
          longer[i].result = Number(t) => Len(longer[i].cells) = Len(t.widths)
    BY <1>1, <1>2, <1>4, <1>5, <1>6, <2>3
  <2>6. \A i \in At(longer, "complete") : longer[i].result # Number(t)
    BY <1>2, <1>4, <1>5, <1>6, <2>3
  <2>7. t.format # "delimited" =>
          \A j \in Framing(longer) : ~t.active \/ longer[j].result < Number(t)
          => \E k \in At(longer, "complete") : j <= k /\ longer[k].result = longer[j].result
    <3>1. ASSUME NEW j \in Framing(longer), longer[j].result < Number(t),
                 t.format # "delimited"
          PROVE  \E k \in At(longer, "complete") :
                   j <= k /\ longer[k].result = longer[j].result
      <4>1. j \in Framing(stream)
        BY <1>1, <1>2, <1>6, <2>3, <3>1
      <4>2. PICK k \in At(stream, "complete") :
              j <= k /\ stream[k].result = stream[j].result
        BY <1>7, <3>1, <4>1
      <4> QED  BY <1>2, <1>4, <1>5, <4>1, <4>2
    <3> QED  BY <3>1
  <2>8. t.format = "delimited" => t.results <= 1 /\ At(longer, "complete") = {}
    BY <1>2, <1>3 DEF Counted
  <2>9. t.results # 0
    BY <1>6
  <2>10. t.rows \in Nat /\ t.format # "expanded"
    OBVIOUS
  <2>11. t.active \in BOOLEAN
    BY Zenon
  <2> QED
    BY <2>1, <2>2, <2>4, <2>5, <2>6, <2>7, <2>8, <2>9, <2>10, <2>11 DEF Counted
<1>10. Unended(longer, t)
  BY <1>2, <1>3 DEF Unended
<1>11. Faithful(longer, t, sent) /\ Cardinality(At(longer, "row")) = Len(sent)
  <2>1. \A i \in At(stream, "row") : longer[i] = stream[i]
    BY <1>1
  <2>2. Faithful(stream, s, sent) /\ Cardinality(At(stream, "row")) = Len(sent)
    BY DEF Told
  <2>3. At(longer, "row") = At(stream, "row")
    BY <1>2
  <2>4. \A i : Place(longer, i) = Place(stream, i)
    BY <2>3 DEF Place
  <2>5. Faithful(longer, t, sent)
    BY <2>1, <2>2, <2>3, <2>4 DEF Faithful, Shows
  <2> QED  BY <2>2, <2>3, <2>5
<1> QED  BY <1>1, <1>8, <1>9, <1>10, <1>11 DEF Told, longer

\* An expanded result begins without a word.
LEMMA BeginStep ==
  ASSUME NEW stream, NEW s, NEW t, NEW sent, Told(stream, s, sent),
         ~s.active, s.format = "expanded", t.format = s.format, t.escape = s.escape,
         t.active = TRUE, t.rows = 0, t.results = s.results + 1, t.done = s.done
  PROVE  Told(stream, t, sent)
<1>1. Framed(stream, s.format) /\ Counted(stream, s) /\ Unended(stream, s)
  BY DEF Told
<1>2. \A kind \in {"columns", "row", "complete"} : At(stream, kind) \subseteq Framing(stream)
  BY DEF At, Framing
<1>3. s.results \in Nat /\ At(stream, "columns") = {}
  BY <1>1 DEF Counted
<1>4. \A i \in Framing(stream) : stream[i].result \in Nat /\ stream[i].result < s.results
  BY <1>1 DEF Counted
<1>5. Number(t) = s.results
  BY <1>3 DEF Number
<1>6. Counted(stream, t)
  <2>1. RowsAt(stream, Number(t)) = {}
    BY <1>2, <1>3, <1>4, <1>5 DEF RowsAt
  <2>2. t.rows = Cardinality(RowsAt(stream, Number(t)))
    BY <2>1, FS_EmptySet
  <2>3. \A i \in At(stream, "complete") : stream[i].result # Number(t)
    BY <1>2, <1>3, <1>4, <1>5
  <2>4. \A i \in Framing(stream) : stream[i].result \in Nat /\ stream[i].result < t.results
    BY <1>3, <1>4
  <2>5. t.active \in BOOLEAN
    BY Zenon
  <2>6. \A j \in Framing(stream) :
          \E k \in At(stream, "complete") : j <= k /\ stream[k].result = stream[j].result
    BY <1>1 DEF Counted
  <2>7. t.results \in Nat /\ t.results # 0 /\ t.rows \in Nat
    BY <1>3
  <2> QED  BY <1>3, <2>2, <2>3, <2>4, <2>5, <2>6, <2>7 DEF Counted
<1>7. Unended(stream, t) /\ Framed(stream, t.format)
  BY <1>1 DEF Unended
<1>8. Faithful(stream, t, sent) /\ Cardinality(At(stream, "row")) = Len(sent)
  BY DEF Told, Faithful, Shows
<1> QED  BY <1>6, <1>7, <1>8 DEF Told

\* A row of the result that is open.
LEMMA RowStep ==
  ASSUME NEW stream, NEW s, NEW t, NEW sent, NEW piece, NEW row,
         Told(stream, s, sent), IsSeq(sent), ~s.done, s.active,
         t.format = s.format, t.escape = s.escape, t.active = s.active,
         t.rows = s.rows + 1, t.results = s.results, t.done = s.done,
         t.widths = s.widths,
         piece.kind = "row", piece.result = Number(s),
         s.format = "expanded" \/ Len(piece.cells) = Len(s.widths),
         Shows(s, piece, row.cells)
  PROVE  Told(Said(stream, piece), t, Append(sent, row))
<1> DEFINE longer == Said(stream, piece)
           new == Len(stream) + 1
           more == Append(sent, row)
<1>0. LongerBy(longer, stream, piece) /\ KindsOf(longer, stream, piece)
  BY AtLast, AtKinds, Zenon DEF Told
<1> HIDE DEF longer
<1>1. /\ IsSeq(longer) /\ Len(longer) = new
      /\ Len(stream) \in Nat /\ new \in Nat \ {0}
      /\ \A i \in 1 .. Len(stream) : longer[i] = stream[i] /\ i < new
      /\ longer[new] = piece
      /\ Framing(stream) \subseteq 1 .. Len(stream)
      /\ \A kind : At(stream, kind) \subseteq 1 .. Len(stream)
      /\ \A result : RowsAt(stream, result) \subseteq At(stream, "row")
  BY <1>0 DEF LongerBy
<1>2. /\ \A kind \in {"columns", "complete", "error", "torn"} :
           At(longer, kind) = At(stream, kind)
      /\ At(longer, "row") = At(stream, "row") \cup {new}
      /\ Framing(longer) = Framing(stream) \cup {new}
      /\ \A result : result # Number(s) => RowsAt(longer, result) = RowsAt(stream, result)
      /\ RowsAt(longer, Number(s)) = RowsAt(stream, Number(s)) \cup {new}
  BY <1>0 DEF KindsOf
<1>a. /\ Len(sent) \in Nat /\ Len(more) = Len(sent) + 1
      /\ \A i \in 1 .. Len(sent) : more[i] = sent[i]
      /\ more[Len(sent) + 1] = row
  BY AppendIs, SingleIs, ConcatIs, IsSeqOf
<1> HIDE DEF longer, new, more
<1>3. Framed(stream, s.format) /\ Counted(stream, s) /\ Unended(stream, s)
  BY DEF Told
<1>4. \A kind \in {"columns", "row", "complete"} : At(stream, kind) \subseteq Framing(stream)
  BY DEF At, Framing
<1>5. \A i \in Framing(stream) : stream[i].result \in Nat /\ stream[i].result < s.results
                                 /\ longer[i] = stream[i] /\ i \in Nat /\ i < new
  BY <1>1, <1>3 DEF Counted
<1>6. /\ s.results \in Nat \ {0} /\ Number(s) = s.results - 1 /\ Number(t) = Number(s)
      /\ s.rows = Cardinality(RowsAt(stream, Number(s))) /\ s.rows \in Nat
  BY <1>3 DEF Counted, Number
<1>7. \A i \in Framing(stream) :
        s.format # "delimited" /\ stream[i].result < Number(s) =>
          \E k \in At(stream, "complete") : i <= k /\ stream[k].result = stream[i].result
  BY <1>3 DEF Counted
<1>8. \A i \in At(stream, "complete") :
        stream[i].result # Number(s) /\ stream[i].result < Number(s)
  BY <1>3, <1>4, <1>5, <1>6 DEF Counted
<1>9. Framed(longer, t.format)
  <2> USE DEF Framed
  <2>1. \A i \in At(longer, "error") \cup At(longer, "torn") : i = Len(longer)
    BY <1>2, <1>3 DEF Unended
  <2>2. \A i \in At(longer, "columns") :
          longer[i].result = Cardinality({j \in At(longer, "columns") : j < i})
    BY <1>2, <1>3, <1>4, <1>5
  <2>3. \A i \in At(longer, "columns") : \A j \in RowsAt(longer, longer[i].result) :
          i < j /\ Len(longer[i].cells) = Len(longer[j].cells)
    <3>1. ASSUME NEW i \in At(stream, "columns"), stream[i].result = Number(s)
          PROVE  Len(stream[i].cells) = Len(piece.cells)
      BY <1>3, <3>1 DEF Counted
    <3>2. ASSUME NEW i \in At(stream, "columns"), NEW j \in RowsAt(longer, longer[i].result)
          PROVE  i < j /\ Len(longer[i].cells) = Len(longer[j].cells)
      <4>1. longer[i] = stream[i] /\ i < new
        BY <1>4, <1>5
      <4>2. CASE j = new
        <5>1. stream[i].result = Number(s)
          BY <1>1, <1>2, <1>4, <1>5, <3>2, <4>1, <4>2
        <5> QED  BY <1>1, <3>1, <4>1, <4>2, <5>1
      <4>3. CASE j \in RowsAt(stream, stream[i].result)
        BY <1>1, <1>3, <4>1, <4>3
      <4> QED  BY <1>2, <3>2, <4>1, <4>2, <4>3
    <3> QED  BY <1>2, <3>2
  <2>4. \A i \in At(longer, "complete") :
          /\ longer[i].rows = Cardinality(RowsAt(longer, longer[i].result))
          /\ \A j \in Framing(longer) : j > i => longer[j].result > longer[i].result
    <3>1. ASSUME NEW i \in At(stream, "complete")
          PROVE  /\ longer[i].rows = Cardinality(RowsAt(longer, longer[i].result))
                 /\ \A j \in Framing(stream) : j > i => longer[j].result > longer[i].result
                 /\ longer[new].result > longer[i].result
      <4>1. longer[i] = stream[i] /\ stream[i].result # Number(s)
        BY <1>4, <1>5, <1>8
      <4>2. RowsAt(longer, stream[i].result) = RowsAt(stream, stream[i].result)
        BY <1>2, <4>1
      <4>3. longer[new].result > longer[i].result
        BY <1>1, <1>4, <1>5, <1>6, <1>8, <4>1
      <4>4. \A j \in Framing(stream) : j > i => longer[j].result > longer[i].result
        BY <1>3, <1>5, <4>1
      <4> QED  BY <1>3, <4>1, <4>2, <4>3, <4>4
    <3> QED  BY <1>2, <3>1
  <2>5. t.format # "delimited" =>
          \A i, j \in Framing(longer) :
            j < i /\ longer[j].result < longer[i].result
            => \E k \in At(longer, "complete") :
                 j <= k /\ k < i /\ longer[k].result = longer[j].result
    <3>1. ASSUME NEW i \in Framing(longer), NEW j \in Framing(longer),
                 j < i, longer[j].result < longer[i].result, t.format # "delimited"
          PROVE  \E k \in At(longer, "complete") :
                   j <= k /\ k < i /\ longer[k].result = longer[j].result
      <4>1. j \in Framing(stream)
        BY <1>1, <1>2, <1>5, <3>1
      <4>2. CASE i = new
        BY <1>1, <1>2, <1>4, <1>5, <1>7, <3>1, <4>1, <4>2
      <4>3. CASE i \in Framing(stream)
        <5>1. stream[j].result < stream[i].result
          BY <1>5, <3>1, <4>1, <4>3
        <5>2. PICK k \in At(stream, "complete") :
                j <= k /\ k < i /\ stream[k].result = stream[j].result
          BY <1>3, <3>1, <4>1, <4>3, <5>1
        <5> QED  BY <1>2, <1>4, <1>5, <4>1, <5>2
      <4> QED  BY <1>2, <4>2, <4>3
    <3> QED  BY <3>1
  <2> QED  BY <2>1, <2>2, <2>3, <2>4, <2>5
<1>10. Counted(longer, t)
  <2>1. t.rows = Cardinality(RowsAt(longer, Number(t))) /\ t.rows \in Nat
    <3>1. new \notin RowsAt(stream, Number(s)) /\ IsFiniteSet(RowsAt(stream, Number(s)))
      <4>1. IsFiniteSet(RowsAt(stream, Number(s)))
        BY AtFinite DEF Told
      <4> QED  BY <1>1, <1>4, <1>5, <4>1
    <3> QED  BY <1>2, <1>6, <3>1, OneMore
  <2>2. \A i \in Framing(longer) : longer[i].result \in Nat /\ longer[i].result < t.results
    BY <1>1, <1>2, <1>5, <1>6
  <2>3. /\ t.results \in Nat /\ t.results # 0
        /\ IF t.format = "expanded" THEN At(longer, "columns") = {}
           ELSE t.results = Cardinality(At(longer, "columns"))
        /\ t.format = "delimited" => t.results <= 1 /\ At(longer, "complete") = {}
    BY <1>2, <1>3, <1>6 DEF Counted
  <2>4. \A i \in At(longer, "columns") :
          longer[i].result = Number(t) => Len(longer[i].cells) = Len(t.widths)
    BY <1>2, <1>3, <1>4, <1>5, <1>6 DEF Counted
  <2>5. \A i \in At(longer, "complete") : longer[i].result # Number(t)
    BY <1>2, <1>4, <1>5, <1>6, <1>8
  <2>6. t.format # "delimited" =>
          \A j \in Framing(longer) : ~t.active \/ longer[j].result < Number(t)
          => \E k \in At(longer, "complete") : j <= k /\ longer[k].result = longer[j].result
    <3>1. ASSUME NEW j \in Framing(longer), longer[j].result < Number(t),
                 t.format # "delimited"
          PROVE  \E k \in At(longer, "complete") :
                   j <= k /\ longer[k].result = longer[j].result
      <4>1. j \in Framing(stream)
        BY <1>1, <1>2, <1>6, <3>1
      <4>2. PICK k \in At(stream, "complete") :
              j <= k /\ stream[k].result = stream[j].result
        BY <1>5, <1>6, <1>7, <3>1, <4>1
      <4> QED  BY <1>2, <1>4, <1>5, <4>1, <4>2
    <3> QED  BY <3>1
  <2>7. t.active \in BOOLEAN
    BY <1>3, Zenon DEF Counted
  <2> QED  BY <2>1, <2>2, <2>3, <2>4, <2>5, <2>6, <2>7 DEF Counted
<1>11. Unended(longer, t)
  BY <1>2, <1>3 DEF Unended
<1>12. Cardinality(At(longer, "row")) = Len(more)
  <2>1. new \notin At(stream, "row") /\ IsFiniteSet(At(stream, "row"))
    <3>1. IsFiniteSet(At(stream, "row"))
      BY AtFinite DEF Told
    <3> QED  BY <1>4, <1>5, <3>1
  <2> QED  BY <1>2, <1>a, <2>1, OneMore DEF Told
<1>13. Faithful(longer, t, more)
  <2>1. ASSUME NEW i \in At(stream, "row")
        PROVE  /\ Place(longer, i) <= Len(more)
               /\ Shows(t, longer[i], more[Place(longer, i)].cells)
    <3>1. Place(longer, i) = Place(stream, i)
      <4>1. {j \in At(longer, "row") : j <= i} = {j \in At(stream, "row") : j <= i}
        BY <1>1, <1>2, <1>4, <1>5
      <4> QED  BY <4>1 DEF Place
    <3>2. Place(stream, i) \in Nat /\ Place(stream, i) # 0
      <4>1. IsFiniteSet({j \in At(stream, "row") : j <= i})
        BY AtFinite DEF Told
      <4>2. i \in {j \in At(stream, "row") : j <= i}
        BY <1>4, <1>5
      <4> QED  BY <4>1, <4>2, FS_CardinalityType, FS_EmptySet DEF Place
    <3>3. Place(stream, i) <= Len(sent) /\ Shows(s, stream[i], sent[Place(stream, i)].cells)
      BY DEF Told, Faithful
    <3>4. Shows(t, stream[i], sent[Place(stream, i)].cells)
      BY <3>3 DEF Shows
    <3>5. more[Place(stream, i)] = sent[Place(stream, i)]
      BY <1>a, <3>2, <3>3
    <3> QED  BY <1>a, <1>4, <1>5, <3>1, <3>2, <3>3, <3>4, <3>5
  <2>2. Place(longer, new) = Len(more)
    <3>1. {j \in At(longer, "row") : j <= new} = At(longer, "row")
      BY <1>1, <1>2, <1>4, <1>5
    <3> QED  BY <3>1, <1>12 DEF Place
  <2>3. Shows(t, longer[new], more[Len(more)].cells)
    BY <1>1, <1>a DEF Shows
  <2>4. Len(more) <= Len(more)
    BY <1>a
  <2> QED  BY <1>2, <2>1, <2>2, <2>3, <2>4 DEF Faithful
<1> QED  BY <1>1, <1>9, <1>10, <1>11, <1>12, <1>13 DEF Told, longer, more

\* The end of the result that is open, with the number of its rows.
LEMMA CompleteStep ==
  ASSUME NEW stream, NEW s, NEW t, NEW sent, NEW piece, Told(stream, s, sent),
         ~s.done, s.active, s.format # "delimited",
         t.format = s.format, t.escape = s.escape, t.active = FALSE,
         t.rows = s.rows, t.results = s.results, t.done = s.done,
         piece.kind = "complete", piece.result = Number(s), piece.rows = s.rows
  PROVE  Told(Said(stream, piece), t, sent)
<1> DEFINE longer == Said(stream, piece)
           new == Len(stream) + 1
<1>0. LongerBy(longer, stream, piece) /\ KindsOf(longer, stream, piece)
  BY AtLast, AtKinds, Zenon DEF Told
<1> HIDE DEF longer
<1>1. /\ IsSeq(longer) /\ Len(longer) = new
      /\ Len(stream) \in Nat /\ new \in Nat \ {0}
      /\ \A i \in 1 .. Len(stream) : longer[i] = stream[i] /\ i < new
      /\ longer[new] = piece
      /\ Framing(stream) \subseteq 1 .. Len(stream)
      /\ \A kind : At(stream, kind) \subseteq 1 .. Len(stream)
      /\ \A result : RowsAt(stream, result) \subseteq At(stream, "row")
  BY <1>0 DEF LongerBy
<1>2. /\ \A kind \in {"columns", "row", "error", "torn"} :
           At(longer, kind) = At(stream, kind)
      /\ At(longer, "complete") = At(stream, "complete") \cup {new}
      /\ Framing(longer) = Framing(stream) \cup {new}
      /\ \A result : RowsAt(longer, result) = RowsAt(stream, result)
  BY <1>0 DEF KindsOf
<1> HIDE DEF new
<1>3. Framed(stream, s.format) /\ Counted(stream, s) /\ Unended(stream, s)
  BY DEF Told
<1>4. \A kind \in {"columns", "row", "complete"} : At(stream, kind) \subseteq Framing(stream)
  BY DEF At, Framing
<1>5. \A i \in Framing(stream) : stream[i].result \in Nat /\ stream[i].result < s.results
                                 /\ longer[i] = stream[i] /\ i \in Nat /\ i < new
  BY <1>1, <1>3 DEF Counted
<1>6. /\ s.results \in Nat \ {0} /\ Number(s) = s.results - 1
      /\ s.rows = Cardinality(RowsAt(stream, Number(s))) /\ s.rows \in Nat
  BY <1>3 DEF Counted, Number
<1>7. \A i \in Framing(stream) :
        stream[i].result < Number(s) =>
          \E k \in At(stream, "complete") : i <= k /\ stream[k].result = stream[i].result
  BY <1>3 DEF Counted
<1>8. \A i \in At(stream, "complete") :
        stream[i].result # Number(s) /\ stream[i].result < Number(s)
  BY <1>3, <1>4, <1>5, <1>6 DEF Counted
<1>9. Framed(longer, t.format)
  <2> USE DEF Framed
  <2>1. \A i \in At(longer, "error") \cup At(longer, "torn") : i = Len(longer)
    BY <1>2, <1>3 DEF Unended
  <2>2. \A i \in At(longer, "columns") :
          longer[i].result = Cardinality({j \in At(longer, "columns") : j < i})
    <3>1. At(longer, "columns") = At(stream, "columns")
      BY <1>2
    <3>2. \A i \in At(stream, "columns") : longer[i] = stream[i]
      BY <1>4, <1>5
    <3> QED  BY <1>3, <3>1, <3>2
  <2>3. \A i \in At(longer, "columns") : \A j \in RowsAt(longer, longer[i].result) :
          i < j /\ Len(longer[i].cells) = Len(longer[j].cells)
    BY <1>1, <1>2, <1>3, <1>4, <1>5
  <2>4. \A i \in At(longer, "complete") :
          /\ longer[i].rows = Cardinality(RowsAt(longer, longer[i].result))
          /\ \A j \in Framing(longer) : j > i => longer[j].result > longer[i].result
    <3>1. ASSUME NEW i \in At(stream, "complete")
          PROVE  /\ longer[i].rows = Cardinality(RowsAt(longer, longer[i].result))
                 /\ \A j \in Framing(stream) : j > i => longer[j].result > longer[i].result
                 /\ longer[new].result > longer[i].result
      <4>1. longer[i] = stream[i]
        BY <1>4, <1>5
      <4>2. longer[new].result > longer[i].result
        BY <1>1, <1>4, <1>5, <1>6, <1>8, <4>1
      <4>3. \A j \in Framing(stream) : j > i => longer[j].result > longer[i].result
        BY <1>3, <1>5, <4>1
      <4> QED  BY <1>2, <1>3, <4>1, <4>2, <4>3
    <3>2. longer[new].rows = Cardinality(RowsAt(longer, longer[new].result))
      BY <1>1, <1>2, <1>6
    <3>3. \A j \in Framing(longer) : ~(j > new)
      BY <1>1, <1>2, <1>5
    <3> QED  BY <1>2, <3>1, <3>2, <3>3
  <2>5. \A i, j \in Framing(longer) :
            j < i /\ longer[j].result < longer[i].result
            => \E k \in At(longer, "complete") :
                 j <= k /\ k < i /\ longer[k].result = longer[j].result
    <3>1. ASSUME NEW i \in Framing(longer), NEW j \in Framing(longer),
                 j < i, longer[j].result < longer[i].result
          PROVE  \E k \in At(longer, "complete") :
                   j <= k /\ k < i /\ longer[k].result = longer[j].result
      <4>1. j \in Framing(stream)
        BY <1>1, <1>2, <1>5, <3>1
      <4>2. CASE i = new
        <5>1. PICK k \in At(stream, "complete") :
                j <= k /\ stream[k].result = stream[j].result
          BY <1>1, <1>5, <1>7, <3>1, <4>1, <4>2
        <5> QED  BY <1>2, <1>4, <1>5, <4>1, <4>2, <5>1
      <4>3. CASE i \in Framing(stream)
        <5>1. stream[j].result < stream[i].result
          BY <1>5, <3>1, <4>1, <4>3
        <5>2. PICK k \in At(stream, "complete") :
                j <= k /\ k < i /\ stream[k].result = stream[j].result
          BY <1>3, <3>1, <4>1, <4>3, <5>1
        <5> QED  BY <1>2, <1>4, <1>5, <4>1, <5>2
      <4> QED  BY <1>2, <4>2, <4>3
    <3> QED  BY <3>1
  <2> QED  BY <2>1, <2>2, <2>3, <2>4, <2>5
<1>10. Counted(longer, t)
  <2>1. \A i \in Framing(longer) : longer[i].result \in Nat /\ longer[i].result < t.results
    BY <1>1, <1>2, <1>5, <1>6
  <2>2. \A j \in Framing(longer) :
          \E k \in At(longer, "complete") : j <= k /\ longer[k].result = longer[j].result
    <3>1. ASSUME NEW j \in Framing(stream), stream[j].result < Number(s)
          PROVE  \E k \in At(longer, "complete") :
                   j <= k /\ longer[k].result = longer[j].result
      <4>1. PICK k \in At(stream, "complete") :
              j <= k /\ stream[k].result = stream[j].result
        BY <1>7, <3>1
      <4> QED  BY <1>2, <1>4, <1>5, <4>1
    <3>2. ASSUME NEW j \in Framing(stream), ~(stream[j].result < Number(s))
          PROVE  j <= new /\ longer[new].result = longer[j].result
      BY <1>1, <1>5, <1>6, <3>2
    <3>3. new <= new
      BY <1>1
    <3> QED  BY <1>2, <3>1, <3>2, <3>3
  <2>3. /\ t.results \in Nat /\ t.results # 0 /\ t.rows \in Nat
        /\ IF t.format = "expanded" THEN At(longer, "columns") = {}
           ELSE t.results = Cardinality(At(longer, "columns"))
    BY <1>2, <1>3, <1>6 DEF Counted
  <2>4. t.active \in BOOLEAN
    BY Zenon
  <2> QED  BY <2>1, <2>2, <2>3, <2>4 DEF Counted
<1>11. Unended(longer, t)
  BY <1>2, <1>3 DEF Unended
<1>12. Faithful(longer, t, sent) /\ Cardinality(At(longer, "row")) = Len(sent)
  <2>1. \A i \in At(stream, "row") : longer[i] = stream[i]
    BY <1>1
  <2>2. Faithful(stream, s, sent) /\ Cardinality(At(stream, "row")) = Len(sent)
    BY DEF Told
  <2>3. At(longer, "row") = At(stream, "row")
    BY <1>2
  <2>4. \A i : Place(longer, i) = Place(stream, i)
    BY <2>3 DEF Place
  <2>5. Faithful(longer, t, sent)
    BY <2>1, <2>2, <2>3, <2>4 DEF Faithful, Shows
  <2> QED  BY <2>2, <2>3, <2>5
<1> QED  BY <1>1, <1>9, <1>10, <1>11, <1>12 DEF Told, longer

\* The end of the one result of a file.
LEMMA CloseStep ==
  ASSUME NEW stream, NEW s, NEW t, NEW sent, Told(stream, s, sent),
         s.format = "delimited", t.format = s.format, t.escape = s.escape,
         t.active = FALSE, t.rows = s.rows, t.results = s.results, t.done = s.done
  PROVE  Told(stream, t, sent)
<1>1. t.active \in BOOLEAN /\ ~t.active
  BY Zenon
<1>2. Counted(stream, t)
  BY <1>1 DEF Told, Counted
<1>3. Framed(stream, t.format) /\ Unended(stream, t)
  BY DEF Told, Unended
<1>4. Faithful(stream, t, sent)
  BY DEF Told, Faithful, Shows
<1> QED  BY <1>2, <1>3, <1>4 DEF Told
-----------------------------------------------------------------------------
(***************************************************************************)
(* Texts: a cell of a delimited file gives its value back.                 *)
(***************************************************************************)
\* FlattenSeq gives a sequence when its parts are.
LEMMA FlattenIs ==
  ASSUME NEW seqs, IsSeq(seqs), \A i \in DOMAIN seqs : IsSeq(seqs[i])
  PROVE  IsSeq(FlattenSeq(seqs))
<1> DEFINE n == Len(seqs)
           f == CHOOSE f : f = [i \in 1 .. n |->
                  IF i = 1 THEN seqs[i] ELSE f[i - 1] \o seqs[i]]
<1>1. n \in Nat /\ DOMAIN seqs = 1 .. n
  BY IsSeqOf
<1>2. FlattenSeq(seqs) = IF n = 0 THEN seqs ELSE f[n]
  BY DEF FlattenSeq
<1>3. Flattens(seqs, f, n)
  BY <1>1, FlattensSome DEF Flattens
<1> HIDE DEF f
<1> DEFINE S == {k \in Nat : k \in 1 .. n => IsSeq(f[k])}
<1>4. 0 \in S
  OBVIOUS
<1>5. ASSUME NEW k \in Nat, k \in S
      PROVE  k + 1 \in S
  <2> SUFFICES ASSUME k + 1 \in 1 .. n
               PROVE  IsSeq(f[k + 1])
    BY <1>5
  <2>1. CASE k = 0
    BY <1>1, <1>3, <2>1 DEF Flattens
  <2>2. CASE k # 0
    <3>1. f[k + 1] = f[k] \o seqs[k + 1]
      <4>1. \A i \in 1 .. n : f[i] = IF i = 1 THEN seqs[i] ELSE f[i - 1] \o seqs[i]
        BY <1>3 DEF Flattens
      <4>2. k + 1 # 1 /\ k + 1 - 1 = k
        BY <2>2
      <4>3. f[k + 1] = IF k + 1 = 1 THEN seqs[k + 1] ELSE f[k + 1 - 1] \o seqs[k + 1]
        BY <4>1
      <4> QED  BY <4>2, <4>3
    <3>2. IsSeq(f[k]) /\ IsSeq(seqs[k + 1])
      BY <1>1, <1>5, <2>2
    <3> QED  BY <3>1, <3>2, ConcatIs
  <2> QED  BY <2>1, <2>2
<1> HIDE DEF S
<1>6. Nat \subseteq S
  BY <1>4, <1>5, SetInduction
<1>7. n # 0 => IsSeq(f[n])
  BY <1>1, <1>6 DEF S
<1> QED  BY <1>2, <1>7

LEMMA EscapeIs ==
  ASSUME NEW text, IsSeq(text)
  PROVE  IsSeq(escape_terminal_text(text))
<1> DEFINE parts == [i \in DOMAIN text |-> EscapeChar(text[i])]
<1>1. DOMAIN text = 1 .. Len(text) /\ Len(text) \in Nat
  BY IsSeqOf
<1>2. IsSeq(parts) /\ DOMAIN parts = DOMAIN text
  <2>1. parts = [i \in 1 .. Len(text) |-> parts[i]]
    BY <1>1
  <2> QED  BY <1>1, <2>1, FunctionIsSeq
<1>3. \A c : IsSeq(EscapeChar(c))
  <2>1. \A x, y : IsSeq(<<x, y>>)
    <3>1. \A x, y : <<x, y>> \in Seq({x, y})
      OBVIOUS
    <3> QED  BY <3>1, SeqIs, Zenon
  <2>2. IsSeq(<<"\\", "u", "{", "0", "0", "0", "7", "}">>)
    <3>1. ASSUME NEW a, NEW b, NEW c, NEW d, NEW e, NEW g, NEW h, NEW i
          PROVE  IsSeq(<<a, b, c, d, e, g, h, i>>)
      <4> DEFINE X == {a, b, c, d, e, g, h, i}
      <4>1. a \in X /\ b \in X /\ c \in X /\ d \in X /\ e \in X /\ g \in X /\ h \in X /\ i \in X
        OBVIOUS
      <4> HIDE DEF X
      <4>2. <<a, b, c, d, e, g, h, i>> \in Seq(X)
        BY <4>1
      <4> QED  BY <4>2, SeqIs, Zenon
    <3> QED  BY <3>1
  <2>3. \A x : IsSeq(<<x>>)
    BY SingleIs, Zenon
  <2> QED  BY <2>1, <2>2, <2>3 DEF EscapeChar
<1>4. IsSeq(FlattenSeq(parts))
  BY <1>2, <1>3, FlattenIs
<1> QED  BY <1>4 DEF escape_terminal_text

\* What decode reads is what encode_cell was given.
LEMMA DecodeEncode ==
  ASSUME NEW cell \in Seq(Seq(STRING)), Len(cell) <= 1, NEW escape \in BOOLEAN
  PROVE  decode(encode_cell(cell, escape)) = IF escape THEN shownCell(cell) ELSE cell
<1>1. CASE cell = <<>>
  BY <1>1 DEF decode, encode_cell, shownCell
<1>2. CASE cell # <<>>
  <2> DEFINE text == IF escape THEN escape_terminal_text(cell[1]) ELSE cell[1]
  <2>1. cell = <<cell[1]>> /\ cell[1] \in Seq(STRING)
    <3>1. Len(cell) \in Nat /\ Len(cell) # 0
      BY <1>2
    <3>2. \A n \in Nat : n # 0 /\ n <= 1 => n = 1
      OBVIOUS
    <3>3. Len(cell) = 1
      BY <3>1, <3>2, Zenon
    <3> QED  BY <3>3
  <2>2. IsSeq(text)
    BY <2>1, SeqIs, EscapeIs
  <2>3. <<text>> = IF escape THEN shownCell(cell) ELSE cell
    BY <1>2, <2>1 DEF shownCell
  <2>4. encode_cell(cell, escape) =
          IF text # <<>> /\ text[1] = "\\" THEN <<"\\">> \o text ELSE text
    BY <1>2 DEF encode_cell
  <2> HIDE DEF text
  <2>5. CASE text # <<>> /\ text[1] = "\\"
    <3>1. IsSeq(<<"\\">>) /\ Len(<<"\\">>) = 1 /\ <<"\\">>[1] = "\\"
      BY SingleIs
    <3>2. /\ IsSeq(<<"\\">> \o text) /\ Len(<<"\\">> \o text) = 1 + Len(text)
          /\ (<<"\\">> \o text)[1] = "\\"
          /\ \A i \in 1 .. Len(text) : (<<"\\">> \o text)[1 + i] = text[i]
      BY <2>2, <3>1, ConcatIs
    <3>3. Len(text) \in Nat \ {0}
      BY <2>2, <2>5, HeadIs, IsSeqOf
    <3>4. <<"\\">> \o text # <<"\\", "N">>
      <4>1. (<<"\\">> \o text)[2] = "\\"
        <5>1. 1 \in 1 .. Len(text) /\ 1 + 1 = 2
          BY <3>3
        <5> QED  BY <2>5, <3>2, <5>1
      <4>2. <<"\\", "N">>[2] = "N"
        OBVIOUS
      <4>3. "\\" # "N"
        OBVIOUS
      <4> QED  BY <4>1, <4>2, <4>3, Zenon
    <3>5. <<"\\">> \o text # <<>>
      BY <3>2, <3>3
    <3>6. Tail(<<"\\">> \o text) = text
      <4> DEFINE X == {text[i] : i \in DOMAIN text} \cup {"\\"}
      <4>1. text \in Seq(X) /\ "\\" \in X
        BY <2>2 DEF IsSeq
      <4> HIDE DEF X
      <4> QED  BY <4>1
    <3> QED  BY <2>3, <2>4, <2>5, <3>2, <3>4, <3>5, <3>6 DEF decode
  <2>6. CASE ~(text # <<>> /\ text[1] = "\\")
    <3>1. text # <<"\\", "N">>
      BY <2>6
    <3> QED  BY <2>3, <2>4, <2>6, <3>1 DEF decode
  <2> QED  BY <2>5, <2>6
<1> QED  BY <1>1, <1>2
-----------------------------------------------------------------------------
(***************************************************************************)
(* What a sink writes for an event is what it had kept back and more of    *)
(* the account, in the order of the account, and then diagnostics.         *)
(***************************************************************************)
Forms == {"table", "expanded", "jsonl", "delimited"}

To(stream, pieces) ==
  \A i \in DOMAIN pieces : pieces[i].to = stream /\ "kind" \in DOMAIN pieces[i]

SinkShape(s) ==
  DOMAIN s = {"format", "display", "escape", "timing", "active", "widths", "rows",
              "results", "preceded", "done", "buffer"}

\* Only a file is buffered, while its result is open.
SinkOk(s) ==
  /\ SinkShape(s) /\ s.format \in Forms /\ s.escape \in BOOLEAN
  /\ IsSeq(s.buffer) /\ To("stdout", s.buffer)
  /\ s.format # "delimited" \/ ~s.active \/ s.done => s.buffer = <<>>

Flow(pieces, s, t, said) ==
  \E shown, noted :
    /\ IsSeq(shown) /\ IsSeq(noted) /\ To("stdout", shown) /\ To("stderr", noted)
    /\ pieces = shown \o noted
    /\ shown \o t.buffer = s.buffer \o said

Step(stream, s, w, more) ==
  \E said :
    /\ IsSeq(said) /\ Flow(w.pieces, s, w.sink, said)
    /\ Told(stream \o said, w.sink, more)
    /\ SinkOk(w.sink) /\ w.sink.format = s.format

LEMMA ToBoth ==
  ASSUME NEW stream, NEW r, NEW q, IsSeq(r), IsSeq(q), To(stream, r), To(stream, q)
  PROVE  IsSeq(r \o q) /\ To(stream, r \o q)
<1>1. /\ IsSeq(r \o q) /\ DOMAIN (r \o q) = 1 .. Len(r) + Len(q)
      /\ \A i \in 1 .. Len(r) : (r \o q)[i] = r[i]
      /\ \A i \in 1 .. Len(q) : (r \o q)[Len(r) + i] = q[i]
      /\ Len(r) \in Nat /\ Len(q) \in Nat
      /\ DOMAIN r = 1 .. Len(r) /\ DOMAIN q = 1 .. Len(q)
  BY ConcatIs, IsSeqOf
<1> DEFINE both == r \o q
<1> HIDE DEF both
<1>2. ASSUME NEW i \in 1 .. Len(r) + Len(q)
      PROVE  both[i].to = stream /\ "kind" \in DOMAIN both[i]
  <2>1. CASE i \in 1 .. Len(r)
    BY <1>1, <2>1 DEF To, both
  <2>2. CASE i \notin 1 .. Len(r)
    <3>1. i - Len(r) \in 1 .. Len(q) /\ Len(r) + (i - Len(r)) = i
      BY <1>1, <2>2
    <3>2. both[i] = q[i - Len(r)]
      BY <1>1, <3>1 DEF both
    <3> QED  BY <1>1, <3>1, <3>2 DEF To
  <2> QED  BY <2>1, <2>2
<1> QED  BY <1>1, <1>2 DEF To, both

\* All of it goes out.
LEMMA FlowsOut ==
  ASSUME NEW pieces, NEW s, NEW t, IsSeq(pieces), To("stdout", pieces),
         s.buffer = <<>>, t.buffer = <<>>
  PROVE  Flow(pieces, s, t, pieces)
<1>1. pieces \o <<>> = pieces /\ <<>> \o pieces = pieces /\ IsSeq(<<>>)
  BY ConcatEmpty
<1>2. To("stderr", <<>>)
  BY DEF To
<1> QED  BY <1>1, <1>2 DEF Flow

LEMMA StepOut ==
  ASSUME NEW stream, NEW s, NEW t, NEW pieces, NEW more,
         IsSeq(pieces), To("stdout", pieces), s.buffer = <<>>, t.buffer = <<>>,
         SinkOk(t), t.format = s.format, Told(stream \o pieces, t, more)
  PROVE  Step(stream, s, Writes(pieces, t), more)
<1>1. Flow(pieces, s, t, pieces)
  BY FlowsOut
<1> QED  BY <1>1 DEF Step, Writes

LEMMA SameSeq ==
  ASSUME NEW S, NEW s \in Seq(S), NEW t \in Seq(S), Len(s) = Len(t),
         \A i \in 1 .. Len(s) : s[i] = t[i]
  PROVE  s = t
OBVIOUS

LEMMA PairSplit ==
  ASSUME NEW S, NEW x \in S, NEW y \in S
  PROVE  <<x, y>> \in Seq(S) /\ <<x, y>> = <<x>> \o <<y>>
<1> DEFINE s == <<x, y>>
           t == <<x>> \o <<y>>
<1>1. t \in Seq(S) /\ Len(t) = 2 /\ t[1] = x /\ t[2] = y
  OBVIOUS
<1>2. s \in Seq(S) /\ Len(s) = 2 /\ s[1] = x /\ s[2] = y
  OBVIOUS
<1>3. \A i \in 1 .. 2 : i = 1 \/ i = 2
  OBVIOUS
<1> HIDE DEF s, t
<1>4. s = t
  BY <1>1, <1>2, <1>3, SameSeq
<1> QED  BY <1>2, <1>4 DEF s, t

LEMMA PairIs ==
  ASSUME NEW x, NEW y
  PROVE  /\ IsSeq(<<x, y>>) /\ <<x, y>> = <<x>> \o <<y>>
         /\ \A i \in DOMAIN <<x, y>> : <<x, y>>[i] \in {x, y}
<1>1. <<x, y>> \in Seq({x, y}) /\ <<x, y>> = <<x>> \o <<y>>
  <2> DEFINE X == {x, y}
  <2>1. x \in X /\ y \in X
    OBVIOUS
  <2> HIDE DEF X
  <2>2. <<x, y>> \in Seq(X) /\ <<x, y>> = <<x>> \o <<y>>
    BY <2>1, PairSplit, Zenon
  <2> QED  BY <2>2 DEF X
<1>2. IsSeq(<<x, y>>)
  BY <1>1, SeqIs, Zenon
<1>3. \A i \in DOMAIN <<x, y>> : <<x, y>>[i] \in {x, y}
  BY <1>1
<1> QED  BY <1>1, <1>2, <1>3

LEMMA BegunIs ==
  ASSUME NEW s, NEW widths, SinkShape(s)
  PROVE  LET t == Begun(s, widths) IN
           /\ SinkShape(t) /\ t.format = s.format /\ t.escape = s.escape
           /\ t.active = TRUE /\ t.rows = 0 /\ t.results = s.results + 1
           /\ t.done = s.done /\ t.widths = widths /\ t.buffer = s.buffer
BY DEF Begun, SinkShape

\* The line before a result.
LEMMA BlankIs ==
  ASSUME NEW s
  PROVE  /\ IsSeq(Blank(s)) /\ To("stdout", Blank(s))
         /\ \A i \in DOMAIN Blank(s) : Blank(s)[i].kind \in Neutral
<1> DEFINE line == Out("blank", 0, 0, <<>>)
<1>1. line.to = "stdout" /\ line.kind = "blank" /\ "kind" \in DOMAIN line
  BY DEF Out
<1> HIDE DEF line
<1>2. Blank(s) = IF s.preceded THEN <<line>> ELSE <<>>
  BY DEF Blank, line
<1>3. IsSeq(<<line>>) /\ To("stdout", <<line>>) /\ \A i \in DOMAIN <<line>> : <<line>>[i] = line
  BY <1>1, SingleIs DEF To
<1>4. IsSeq(<<>>) /\ To("stdout", <<>>) /\ DOMAIN <<>> = {}
  <2>1. IsSeq(<<line>>)
    BY SingleIs
  <2>2. IsSeq(<<>>)
    BY <2>1, ConcatEmpty, Zenon
  <2>3. DOMAIN <<>> = {}
    OBVIOUS
  <2> QED  BY <2>2, <2>3 DEF To
<1> QED  BY <1>1, <1>2, <1>3, <1>4 DEF Neutral

\* The head of a table.
LEMMA TableColumns ==
  ASSUME NEW stream, NEW s, NEW sent, NEW names \in Headers,
         SinkOk(s), Told(stream, s, sent), ~s.done, ~s.active, s.format = "table"
  PROVE  Step(stream, s, tableColumns(s, names), sent)
<1> DEFINE headers == [i \in DOMAIN names |->
                         escape_terminal_text_to_width(names[i][1], s.display)]
           widths == column_widths(headers, s.display)
           cells == [i \in DOMAIN names |-> truncate_to_width(headers[i], widths[i])]
           next == Begun(s, widths)
           head == Out("columns", Number(next), 0, Options(table_line(cells, widths)))
           rule == Out("rule", Number(next), 0, Options(separator_line(widths)))
           said == Blank(s) \o <<head, rule>>
<1>1. tableColumns(s, names) = Writes(said, next)
  BY DEF tableColumns
<1>2. DOMAIN names = 1 .. Len(names) /\ Len(names) \in Nat
  BY OutputAssumption, SeqIs, IsSeqOf DEF Cells
<1>3. Len(widths) = Len(names)
  <2>1. Len(headers) = Len(names)
    <3>1. headers = [i \in 1 .. Len(names) |-> headers[i]]
      BY <1>2
    <3> HIDE DEF headers
    <3> QED  BY <1>2, <3>1, FunctionIsSeq
  <2> HIDE DEF headers
  <2>2. widths = [i \in 1 .. Len(names) |-> widths[i]]
    BY <2>1 DEF column_widths
  <2> HIDE DEF widths
  <2> QED  BY <1>2, <2>2, FunctionIsSeq
<1>4. Len(Options(table_line(cells, widths))) = Len(names)
  <2> DEFINE line == Options(table_line(cells, widths))
  <2>1. line = [i \in 1 .. Len(names) |-> line[i]]
    BY <1>2 DEF Options, table_line
  <2> HIDE DEF line
  <2>2. Len(line) = Len(names)
    BY <1>2, <2>1, FunctionIsSeq
  <2> QED  BY <2>2 DEF line
<1> HIDE DEF headers, widths, cells
<1>5. /\ SinkShape(next) /\ next.format = s.format /\ next.escape = s.escape
      /\ next.active = TRUE /\ next.rows = 0 /\ next.results = s.results + 1
      /\ next.done = s.done /\ next.widths = widths /\ next.buffer = s.buffer
  BY BegunIs DEF SinkOk
<1>6. s.results \in Nat /\ Number(next) = s.results
  BY <1>5 DEF Told, Counted, Number
<1>7. /\ head.kind = "columns" /\ head.result = s.results /\ Len(head.cells) = Len(widths)
      /\ head.to = "stdout" /\ rule.kind \in Neutral /\ rule.to = "stdout"
      /\ "kind" \in DOMAIN head /\ "kind" \in DOMAIN rule
  BY <1>3, <1>4, <1>6 DEF Out, Neutral
<1> HIDE DEF next, head, rule
<1>8. Told(stream \o Blank(s), s, sent)
  BY BlankIs, QuietStep
<1>9. Told(Said(stream \o Blank(s), head), next, sent)
  BY <1>5, <1>7, <1>8, ColumnsStep
<1>10. Told(Said(stream \o Blank(s), head) \o <<rule>>, next, sent)
  <2>1. IsSeq(<<rule>>) /\ \A i \in DOMAIN <<rule>> : <<rule>>[i].kind \in Neutral
    BY <1>7, SingleIs
  <2>2. ~next.done
    BY <1>5
  <2> QED  BY <1>9, <2>1, <2>2, QuietStep
<1>11. IsSeq(stream) /\ IsSeq(Blank(s)) /\ IsSeq(<<head>>) /\ IsSeq(<<rule>>)
       /\ IsSeq(<<head, rule>>) /\ <<head, rule>> = <<head>> \o <<rule>>
  BY BlankIs, SingleIs, PairIs DEF Told
<1>12. stream \o said = Said(stream \o Blank(s), head) \o <<rule>>
  <2> DEFINE blank == Blank(s)
             both == <<head, rule>>
             first == <<head>>
             last == <<rule>>
  <2>1. IsSeq(stream) /\ IsSeq(blank) /\ IsSeq(both) /\ IsSeq(first) /\ IsSeq(last)
    BY <1>11
  <2>6. /\ both = first \o last /\ said = blank \o both
        /\ Said(stream \o blank, head) = (stream \o blank) \o first
    BY <1>11 DEF Said
  <2> HIDE DEF blank, both, first, last
  <2>2. IsSeq(stream \o blank)
    BY <2>1, ConcatIs, Zenon
  <2>3. Chained(stream, blank, both)
    BY <2>1, ChainedAre, Zenon
  <2>4. Chained(stream \o blank, first, last)
    BY <2>1, <2>2, ChainedAre, Zenon
  <2>5. stream \o said = Said(stream \o blank, head) \o last
    BY <2>3, <2>4, <2>6, Zenon DEF Chained
  <2> QED  BY <2>5 DEF blank, last
<1>13. IsSeq(said) /\ To("stdout", said)
  <2>1. To("stdout", <<head, rule>>)
    BY <1>7, PairIs DEF To
  <2> QED  BY <1>11, <2>1, BlankIs, ToBoth
<1>14. s.buffer = <<>> /\ SinkOk(next)
  BY <1>5 DEF SinkOk
<1>15. Told(stream \o said, next, sent)
  BY <1>10, <1>12
<1> HIDE DEF said
<1>16. Step(stream, s, Writes(said, next), sent)
  BY <1>5, <1>13, <1>14, <1>15, StepOut
<1> QED  BY <1>1, <1>16

LEMMA OneOut ==
  ASSUME NEW stream, NEW s, NEW t, NEW piece, NEW more,
         piece.to = "stdout", "kind" \in DOMAIN piece, s.buffer = <<>>, t.buffer = <<>>,
         SinkOk(t), t.format = s.format, Told(Said(stream, piece), t, more)
  PROVE  Step(stream, s, Writes(<<piece>>, t), more)
<1>1. IsSeq(<<piece>>) /\ To("stdout", <<piece>>)
  BY SingleIs DEF To
<1>2. Told(stream \o <<piece>>, t, more)
  BY DEF Said
<1> QED  BY <1>1, <1>2, StepOut

LEMMA StepOf ==
  ASSUME NEW stream, NEW s, NEW t, NEW pieces, NEW said, NEW more, IsSeq(said),
         Flow(pieces, s, t, said), SinkOk(t), t.format = s.format,
         Told(stream \o said, t, more)
  PROVE  Step(stream, s, Writes(pieces, t), more)
BY DEF Step, Writes

\* The sink that keeps these pieces back.
Keeps(t, kept, stream, format, more) ==
  SinkOk(t) /\ t.buffer = kept /\ t.format = format /\ Told(stream, t, more)

LEMMA KeptBack ==
  ASSUME NEW stream, NEW next, NEW kept, NEW more, IsSeq(kept), To("stdout", kept),
         SinkShape(next), next.format = "delimited", next.escape \in BOOLEAN,
         next.active = TRUE, ~next.done, Told(stream, next, more)
  PROVE  Keeps([next EXCEPT !.buffer = kept], kept, stream, "delimited", more)
<1> DEFINE t == [next EXCEPT !.buffer = kept]
<1>1. SinkShape(t) /\ t.buffer = kept
  BY DEF SinkShape
<1>2. /\ t.format = next.format /\ t.escape = next.escape /\ t.active = next.active
      /\ t.widths = next.widths /\ t.rows = next.rows /\ t.results = next.results
      /\ t.done = next.done
  BY DEF SinkShape
<1> HIDE DEF t
<1>3. Account(t) = Account(next)
  BY <1>2 DEF Account
<1>4. Told(stream, t, more)
  BY <1>2, <1>3, SameAccount
<1>5. SinkOk(t)
  BY <1>1, <1>2 DEF SinkOk, Forms
<1>6. Keeps(t, kept, stream, "delimited", more)
  BY <1>1, <1>2, <1>4, <1>5 DEF Keeps
<1> QED  BY <1>6 DEF t

\* A record that waits in the buffer, or for which the buffer is written out.
LEMMA RecordOut ==
  ASSUME NEW stream, NEW s, NEW next, NEW piece, NEW more,
         piece.to = "stdout", "kind" \in DOMAIN piece,
         SinkOk(s), s.format = "delimited", SinkShape(next), next.format = s.format,
         next.escape = s.escape, next.active = TRUE, next.buffer = s.buffer, ~next.done,
         Told(Said(stream, piece), next, more)
  PROVE  Step(stream, s, record(s, piece, next), more)
<1>1. IsSeq(s.buffer) /\ To("stdout", s.buffer)
  BY DEF SinkOk
<1>2. IsSeq(<<piece>>) /\ To("stdout", <<piece>>) /\ Told(stream \o <<piece>>, next, more)
  BY SingleIs DEF To, Said
<1>3. IsSeq(<<>>) /\ To("stdout", <<>>) /\ To("stderr", <<>>)
  <2>1. IsSeq(<<>>)
    BY <1>1, ConcatEmpty, Zenon
  <2> QED  BY <2>1 DEF To
<1>4. next.escape \in BOOLEAN /\ next.format = "delimited"
  BY DEF SinkOk
<1>5. CASE Len(s.buffer) < BufferRecords
  <2> DEFINE kept == s.buffer \o <<piece>>
             t == [next EXCEPT !.buffer = kept]
  <2>1. IsSeq(kept) /\ To("stdout", kept)
    BY <1>1, <1>2, ToBoth
  <2>2. kept = Append(s.buffer, piece)
    BY <1>1, AppendIs
  <2>3. record(s, piece, next) = Writes(<<>>, t)
    <3>1. t = [next EXCEPT !.buffer = Append(@, piece)]
      BY <2>2 DEF SinkShape
    <3> QED  BY <1>5, <3>1 DEF record
  <2> HIDE DEF kept
  <2>4. Keeps(t, kept, stream \o <<piece>>, "delimited", more)
    BY <1>2, <1>4, <2>1, KeptBack, Zenon
  <2> HIDE DEF t
  <2>5. <<>> \o t.buffer = s.buffer \o <<piece>> /\ <<>> = <<>> \o <<>>
    <3>1. <<>> \o kept = kept /\ <<>> = <<>> \o <<>>
      BY <1>3, <2>1, ConcatEmpty
    <3> QED  BY <2>4, <3>1 DEF Keeps, kept
  <2>6. Flow(<<>>, s, t, <<piece>>)
    BY <1>3, <2>5 DEF Flow
  <2>7. SinkOk(t) /\ t.format = s.format /\ Told(stream \o <<piece>>, t, more)
    BY <2>4 DEF Keeps
  <2>8. Step(stream, s, Writes(<<>>, t), more)
    BY <1>2, <2>6, <2>7, StepOf, Zenon
  <2> QED  BY <2>3, <2>8
<1>6. CASE ~(Len(s.buffer) < BufferRecords)
  <2> DEFINE kept == <<piece>>
             t == [next EXCEPT !.buffer = kept]
  <2>1. record(s, piece, next) = Writes(s.buffer, t)
    BY <1>6 DEF record
  <2>2. IsSeq(kept) /\ To("stdout", kept) /\ Told(stream \o kept, next, more)
    BY <1>2
  <2> HIDE DEF kept
  <2>3. Keeps(t, kept, stream \o kept, "delimited", more)
    BY <1>4, <2>2, KeptBack, Zenon
  <2> HIDE DEF t
  <2>4. s.buffer = s.buffer \o <<>>
    BY <1>1, ConcatEmpty
  <2>5. t.buffer = kept
    BY <2>3 DEF Keeps
  <2>6. Flow(s.buffer, s, t, kept)
    BY <1>1, <1>3, <2>4, <2>5 DEF Flow
  <2>7. SinkOk(t) /\ t.format = s.format /\ Told(stream \o kept, t, more)
    BY <2>3 DEF Keeps
  <2>8. Step(stream, s, Writes(s.buffer, t), more)
    BY <2>2, <2>6, <2>7, StepOf, Zenon
  <2> QED  BY <2>1, <2>8
<1> QED  BY <1>5, <1>6

LEMMA ExpandedColumns ==
  ASSUME NEW stream, NEW s, NEW sent, NEW names,
         SinkOk(s), Told(stream, s, sent), ~s.done, ~s.active, s.format = "expanded"
  PROVE  Step(stream, s, expandedColumns(s, names), sent)
<1> DEFINE widths == [i \in DOMAIN names |-> Width(escape_terminal_text(names[i][1]))]
           next == Begun(s, widths)
<1>1. expandedColumns(s, names) = Writes(Blank(s), next)
  BY DEF expandedColumns
<1> HIDE DEF widths
<1>2. /\ SinkShape(next) /\ next.format = s.format /\ next.escape = s.escape
      /\ next.active = TRUE /\ next.rows = 0 /\ next.results = s.results + 1
      /\ next.done = s.done /\ next.widths = widths /\ next.buffer = s.buffer
  BY BegunIs DEF SinkOk
<1> HIDE DEF next
<1>3. IsSeq(Blank(s)) /\ To("stdout", Blank(s))
  BY BlankIs
<1>4. Told(stream \o Blank(s), s, sent)
  BY BlankIs, QuietStep
<1>5. Told(stream \o Blank(s), next, sent)
  BY <1>2, <1>4, BeginStep
<1>6. s.buffer = <<>> /\ SinkOk(next)
  BY <1>2 DEF SinkOk
<1>7. Step(stream, s, Writes(Blank(s), next), sent)
  BY <1>2, <1>3, <1>5, <1>6, StepOut
<1> QED  BY <1>1, <1>7

\* As many widths as names.
LEMMA PlainWidths ==
  ASSUME NEW names \in Headers
  PROVE  Len([i \in DOMAIN names |-> 0]) = Len(names)
<1> DEFINE widths == [i \in DOMAIN names |-> 0]
<1>1. DOMAIN names = 1 .. Len(names) /\ Len(names) \in Nat
  BY OutputAssumption, SeqIs, IsSeqOf DEF Cells
<1>2. widths = [i \in 1 .. Len(names) |-> widths[i]]
  BY <1>1
<1> HIDE DEF widths
<1>3. Len(widths) = Len(names)
  BY <1>1, <1>2, FunctionIsSeq
<1> QED  BY <1>3 DEF widths

LEMMA JsonlColumns ==
  ASSUME NEW stream, NEW s, NEW sent, NEW names \in Headers,
         SinkOk(s), Told(stream, s, sent), ~s.done, ~s.active, s.format = "jsonl"
  PROVE  Step(stream, s, jsonlColumns(s, names), sent)
<1> DEFINE widths == [i \in DOMAIN names |-> 0]
           next == Begun(s, widths)
           frame == Out("columns", Number(next), 0, names)
<1>1. jsonlColumns(s, names) = Writes(<<frame>>, next)
  BY DEF jsonlColumns
<1>2. Len(widths) = Len(names)
  BY PlainWidths
<1> HIDE DEF widths
<1>3. /\ SinkShape(next) /\ next.format = s.format /\ next.escape = s.escape
      /\ next.active = TRUE /\ next.rows = 0 /\ next.results = s.results + 1
      /\ next.done = s.done /\ next.widths = widths /\ next.buffer = s.buffer
  BY BegunIs DEF SinkOk
<1>4. s.results \in Nat /\ Number(next) = s.results
  BY <1>3 DEF Told, Counted, Number
<1>5. /\ frame.kind = "columns" /\ frame.result = s.results
      /\ Len(frame.cells) = Len(next.widths)
      /\ frame.to = "stdout" /\ "kind" \in DOMAIN frame
  BY <1>2, <1>3, <1>4 DEF Out
<1> HIDE DEF next, frame
<1>6. Told(Said(stream, frame), next, sent)
  BY <1>3, <1>5, ColumnsStep
<1>7. s.buffer = <<>> /\ SinkOk(next)
  BY <1>3 DEF SinkOk
<1>8. Step(stream, s, Writes(<<frame>>, next), sent)
  BY <1>3, <1>5, <1>6, <1>7, OneOut
<1> QED  BY <1>1, <1>8

LEMMA DelimitedColumns ==
  ASSUME NEW stream, NEW s, NEW sent, NEW names \in Headers,
         SinkOk(s), Told(stream, s, sent), ~s.done, s.format = "delimited",
         ~(s.results > 0)
  PROVE  Step(stream, s, delimitedColumns(s, names), sent)
<1> DEFINE widths == [i \in DOMAIN names |-> 0]
           next == Begun(s, widths)
           cells == [i \in DOMAIN names |-> <<escaped(s, names[i][1])>>]
           head == Out("columns", 0, 0, cells)
<1>1. delimitedColumns(s, names) = record(s, head, next)
  BY DEF delimitedColumns
<1>2. Len(widths) = Len(names)
  BY PlainWidths
<1>3. Len(cells) = Len(names)
  <2>1. DOMAIN names = 1 .. Len(names) /\ Len(names) \in Nat
    BY OutputAssumption, SeqIs, IsSeqOf DEF Cells
  <2>2. cells = [i \in 1 .. Len(names) |-> cells[i]]
    BY <2>1
  <2> HIDE DEF cells
  <2> QED  BY <2>1, <2>2, FunctionIsSeq
<1> HIDE DEF widths, cells
<1>4. /\ SinkShape(next) /\ next.format = s.format /\ next.escape = s.escape
      /\ next.active = TRUE /\ next.rows = 0 /\ next.results = s.results + 1
      /\ next.done = s.done /\ next.widths = widths /\ next.buffer = s.buffer
  BY BegunIs DEF SinkOk
<1>5. s.results = 0 /\ ~s.active
  <2>1. s.results \in Nat /\ (s.results = 0 => ~s.active)
    BY DEF Told, Counted
  <2> QED  BY <2>1
<1>6. /\ head.kind = "columns" /\ head.result = s.results
      /\ Len(head.cells) = Len(next.widths)
      /\ head.to = "stdout" /\ "kind" \in DOMAIN head
  BY <1>2, <1>3, <1>4, <1>5 DEF Out
<1> HIDE DEF next, head
<1>7. Told(Said(stream, head), next, sent)
  BY <1>4, <1>5, <1>6, ColumnsStep
<1>8. Step(stream, s, record(s, head, next), sent)
  BY <1>4, <1>6, <1>7, RecordOut
<1> QED  BY <1>1, <1>8

\* A row that one more piece, or one more and then its fields, makes of the values.
RowOf(s, values) == [result |-> s.results, cells |-> values]

LEMMA RowsOn ==
  ASSUME NEW s, SinkShape(s)
  PROVE  LET t == [s EXCEPT !.rows = @ + 1] IN
           /\ SinkShape(t) /\ t.format = s.format /\ t.escape = s.escape
           /\ t.active = s.active /\ t.rows = s.rows + 1 /\ t.results = s.results
           /\ t.done = s.done /\ t.widths = s.widths /\ t.buffer = s.buffer
BY DEF SinkShape

LEMMA TableRow ==
  ASSUME NEW stream, NEW s, NEW sent, NEW values \in Rows, IsSeq(sent),
         SinkOk(s), Told(stream, s, sent), ~s.done, s.active, s.format = "table",
         Len(values) = Len(s.widths)
  PROVE  Step(stream, s, tableRow(s, values), Append(sent, RowOf(s, values)))
<1> DEFINE cells == [i \in DOMAIN values |-> tableCell(values[i], s.widths[i])]
           line == Options(table_line(cells, s.widths))
           next == [s EXCEPT !.rows = @ + 1]
           piece == Out("row", Number(s), 0, line)
           row == RowOf(s, values)
<1>1. tableRow(s, values) = Writes(<<piece>>, next)
  BY DEF tableRow
<1>2. Len(line) = Len(s.widths)
  <2>1. DOMAIN values = 1 .. Len(values) /\ Len(values) \in Nat
    BY OutputAssumption, SeqIs, IsSeqOf DEF Cells
  <2>2. line = [i \in 1 .. Len(values) |-> line[i]]
    BY <2>1 DEF Options, table_line
  <2> HIDE DEF line
  <2> QED  BY <2>1, <2>2, FunctionIsSeq
<1> HIDE DEF line
<1>3. /\ SinkShape(next) /\ next.format = s.format /\ next.escape = s.escape
      /\ next.active = s.active /\ next.rows = s.rows + 1 /\ next.results = s.results
      /\ next.done = s.done /\ next.widths = s.widths /\ next.buffer = s.buffer
  BY RowsOn DEF SinkOk
<1>4. /\ piece.kind = "row" /\ piece.result = Number(s)
      /\ Len(piece.cells) = Len(s.widths)
      /\ piece.to = "stdout" /\ "kind" \in DOMAIN piece
  BY <1>2 DEF Out
<1>5. Shows(s, piece, row.cells)
  BY DEF Shows
<1> HIDE DEF next, piece, row
<1>6. Told(Said(stream, piece), next, Append(sent, row))
  BY <1>3, <1>4, <1>5, RowStep
<1>7. s.buffer = <<>> /\ SinkOk(next)
  BY <1>3 DEF SinkOk
<1>8. Step(stream, s, Writes(<<piece>>, next), Append(sent, row))
  BY <1>3, <1>4, <1>6, <1>7, OneOut
<1> QED  BY <1>1, <1>8 DEF row

LEMMA JsonlRow ==
  ASSUME NEW stream, NEW s, NEW sent, NEW values \in Rows, IsSeq(sent),
         SinkOk(s), Told(stream, s, sent), ~s.done, s.active, s.format = "jsonl",
         Len(values) = Len(s.widths)
  PROVE  Step(stream, s, jsonlRow(s, values), Append(sent, RowOf(s, values)))
<1> DEFINE next == [s EXCEPT !.rows = @ + 1]
           piece == Out("row", Number(s), 0, values)
           row == RowOf(s, values)
<1>1. jsonlRow(s, values) = Writes(<<piece>>, next)
  BY DEF jsonlRow
<1>2. /\ SinkShape(next) /\ next.format = s.format /\ next.escape = s.escape
      /\ next.active = s.active /\ next.rows = s.rows + 1 /\ next.results = s.results
      /\ next.done = s.done /\ next.widths = s.widths /\ next.buffer = s.buffer
  BY RowsOn DEF SinkOk
<1>3. /\ piece.kind = "row" /\ piece.result = Number(s)
      /\ Len(piece.cells) = Len(s.widths)
      /\ piece.to = "stdout" /\ "kind" \in DOMAIN piece
  BY DEF Out
<1>4. Shows(s, piece, row.cells)
  BY DEF Shows, Out, RowOf
<1> HIDE DEF next, piece, row
<1>5. Told(Said(stream, piece), next, Append(sent, row))
  BY <1>2, <1>3, <1>4, RowStep
<1>6. s.buffer = <<>> /\ SinkOk(next)
  BY <1>2 DEF SinkOk
<1>7. Step(stream, s, Writes(<<piece>>, next), Append(sent, row))
  BY <1>2, <1>3, <1>5, <1>6, OneOut
<1> QED  BY <1>1, <1>7 DEF row

LEMMA DelimitedRow ==
  ASSUME NEW stream, NEW s, NEW sent, NEW values \in Rows, IsSeq(sent),
         SinkOk(s), Told(stream, s, sent), ~s.done, s.active, s.format = "delimited",
         Len(values) = Len(s.widths)
  PROVE  Step(stream, s, delimitedRow(s, values), Append(sent, RowOf(s, values)))
<1> DEFINE next == [s EXCEPT !.rows = @ + 1]
           cells == [i \in DOMAIN values |-> <<encode_cell(values[i], s.escape)>>]
           piece == Out("row", 0, 0, cells)
           row == RowOf(s, values)
<1>1. delimitedRow(s, values) = record(s, piece, next)
  BY DEF delimitedRow
<1>2. DOMAIN values = 1 .. Len(values) /\ Len(values) \in Nat
  BY OutputAssumption, SeqIs, IsSeqOf DEF Cells
<1>3. Len(cells) = Len(values)
  <2>1. cells = [i \in 1 .. Len(values) |-> cells[i]]
    BY <1>2
  <2> HIDE DEF cells
  <2> QED  BY <1>2, <2>1, FunctionIsSeq
<1>4. \A i \in DOMAIN values :
        decode(cells[i][1]) = IF s.escape THEN shownCell(values[i]) ELSE values[i]
  <2>1. ASSUME NEW i \in DOMAIN values
        PROVE  decode(cells[i][1]) = IF s.escape THEN shownCell(values[i]) ELSE values[i]
    <3>1. values[i] \in Seq(Seq(STRING)) /\ Len(values[i]) <= 1
      <4> DEFINE X == {cell \in Seq(Seq(STRING)) : Len(cell) <= 1}
      <4>1. values \in Seq(X)
        BY OutputAssumption DEF Cells
      <4> HIDE DEF X
      <4>2. values[i] \in X
        BY <4>1
      <4> QED  BY <4>2 DEF X
    <3>2. s.escape \in BOOLEAN
      BY DEF SinkOk
    <3>3. decode(encode_cell(values[i], s.escape))
            = IF s.escape THEN shownCell(values[i]) ELSE values[i]
      BY <3>1, <3>2, DecodeEncode
    <3>4. cells[i][1] = encode_cell(values[i], s.escape)
      OBVIOUS
    <3> QED  BY <3>3, <3>4
  <2> QED  BY <2>1
<1> HIDE DEF cells
<1>5. /\ SinkShape(next) /\ next.format = s.format /\ next.escape = s.escape
      /\ next.active = s.active /\ next.rows = s.rows + 1 /\ next.results = s.results
      /\ next.done = s.done /\ next.widths = s.widths /\ next.buffer = s.buffer
  BY RowsOn DEF SinkOk
<1>6. Number(s) = 0
  <2>1. s.results \in Nat /\ s.results <= 1 /\ (s.results = 0 => ~s.active)
    BY DEF Told, Counted
  <2> QED  BY <2>1 DEF Number
<1>7. /\ piece.kind = "row" /\ piece.result = Number(s)
      /\ Len(piece.cells) = Len(s.widths) /\ piece.cells = cells
      /\ piece.to = "stdout" /\ "kind" \in DOMAIN piece
  BY <1>3, <1>6 DEF Out
<1>8. row.cells = values
  BY DEF RowOf
<1> HIDE DEF next, piece, row
<1>9. Shows(s, piece, row.cells)
  BY <1>4, <1>7, <1>8 DEF Shows
<1>10. Told(Said(stream, piece), next, Append(sent, row))
  BY <1>5, <1>7, <1>9, RowStep
<1>11. next.active = TRUE
  BY <1>5 DEF Told, Counted
<1>12. Step(stream, s, record(s, piece, next), Append(sent, row))
  BY <1>5, <1>7, <1>10, <1>11, RecordOut
<1> QED  BY <1>1, <1>12 DEF row

LEMMA ExpandedRow ==
  ASSUME NEW stream, NEW s, NEW sent, NEW values \in Rows, IsSeq(sent),
         SinkOk(s), Told(stream, s, sent), ~s.done, s.active, s.format = "expanded"
  PROVE  Step(stream, s, expandedRow(s, values), Append(sent, RowOf(s, values)))
<1> DEFINE next == [s EXCEPT !.rows = @ + 1]
           piece == Out("row", Number(s), s.rows + 1, <<>>)
           fields == [i \in DOMAIN values |->
                        Out("field", Number(s), 0, <<shownCell(values[i])>>)]
           head == <<piece>>
           row == RowOf(s, values)
<1>1. expandedRow(s, values) = Writes(head \o fields, next)
  BY DEF expandedRow
<1>2. IsSeq(fields) /\ To("stdout", fields)
      /\ \A i \in DOMAIN fields : fields[i].kind \in Neutral
  <2>1. DOMAIN values = 1 .. Len(values) /\ Len(values) \in Nat
    BY OutputAssumption, SeqIs, IsSeqOf DEF Cells
  <2>2. fields = [i \in 1 .. Len(values) |-> fields[i]]
    BY <2>1
  <2>3. \A i \in DOMAIN fields : /\ fields[i].to = "stdout" /\ fields[i].kind = "field"
                                 /\ "kind" \in DOMAIN fields[i]
    BY DEF Out
  <2> HIDE DEF fields
  <2> QED  BY <2>1, <2>2, <2>3, FunctionIsSeq DEF To, Neutral
<1>3. /\ SinkShape(next) /\ next.format = s.format /\ next.escape = s.escape
      /\ next.active = s.active /\ next.rows = s.rows + 1 /\ next.results = s.results
      /\ next.done = s.done /\ next.widths = s.widths /\ next.buffer = s.buffer
  BY RowsOn DEF SinkOk
<1>4. /\ piece.kind = "row" /\ piece.result = Number(s)
      /\ piece.to = "stdout" /\ "kind" \in DOMAIN piece
  BY DEF Out
<1>5. Shows(s, piece, row.cells)
  BY DEF Shows
<1> HIDE DEF next, piece, row, fields
<1>6. Told(Said(stream, piece), next, Append(sent, row))
  BY <1>3, <1>4, <1>5, RowStep
<1>7. Told(Said(stream, piece) \o fields, next, Append(sent, row))
  BY <1>2, <1>3, <1>6, QuietStep
<1>8. IsSeq(head) /\ To("stdout", head)
  BY <1>4, SingleIs DEF To
<1>9. IsSeq(head \o fields) /\ To("stdout", head \o fields)
  BY <1>2, <1>8, ToBoth
<1>10. stream \o (head \o fields) = Said(stream, piece) \o fields
  <2> HIDE DEF head
  <2>1. IsSeq(stream)
    BY DEF Told
  <2>2. Chained(stream, head, fields)
    BY <1>2, <1>8, <2>1, ChainedAre, Zenon
  <2>3. Said(stream, piece) = stream \o head
    BY DEF Said, head
  <2> QED  BY <2>2, <2>3 DEF Chained
<1>11. s.buffer = <<>> /\ SinkOk(next)
  BY <1>3 DEF SinkOk
<1> HIDE DEF head
<1>12. Step(stream, s, Writes(head \o fields, next), Append(sent, row))
  BY <1>3, <1>7, <1>9, <1>10, <1>11, StepOut
<1> QED  BY <1>1, <1>12 DEF row

\* The end of a command, with or without a result.
LEMMA Summary ==
  ASSUME NEW stream, NEW s, NEW sent, NEW rows, SinkOk(s), Told(stream, s, sent),
         ~s.done, s.format \in {"table", "expanded"}, ~(s.active /\ s.rows # rows)
  PROVE  Step(stream, s, summary(s, rows), sent) /\ summary(s, rows).sink.buffer = <<>>
<1>1. s.buffer = <<>> /\ SinkShape(s)
  BY DEF SinkOk
<1>2. CASE s.active
  <2> DEFINE next == [s EXCEPT !.active = FALSE]
             piece == Out("complete", Number(s), rows, <<>>)
  <2>1. summary(s, rows) = Writes(<<piece>>, next)
    BY <1>2 DEF summary
  <2>2. /\ SinkShape(next) /\ next.format = s.format /\ next.escape = s.escape
        /\ next.active = FALSE /\ next.rows = s.rows /\ next.results = s.results
        /\ next.done = s.done /\ next.buffer = s.buffer
    BY <1>1 DEF SinkShape
  <2>3. /\ piece.kind = "complete" /\ piece.result = Number(s) /\ piece.rows = s.rows
        /\ piece.to = "stdout" /\ "kind" \in DOMAIN piece
    BY <1>2 DEF Out
  <2> HIDE DEF next, piece
  <2>4. Told(Said(stream, piece), next, sent)
    BY <1>2, <2>2, <2>3, CompleteStep
  <2>5. SinkOk(next) /\ next.buffer = <<>>
    BY <1>1, <2>2 DEF SinkOk
  <2>6. Step(stream, s, Writes(<<piece>>, next), sent)
    BY <1>1, <2>2, <2>3, <2>4, <2>5, OneOut
  <2> QED  BY <2>1, <2>5, <2>6 DEF Writes
<1>3. CASE ~s.active
  <2> DEFINE next == [s EXCEPT !.preceded = TRUE]
             piece == Out("command", 0, rows, <<>>)
             pieces == Blank(s) \o <<piece>>
  <2>1. summary(s, rows) = Writes(pieces, next)
    BY <1>3 DEF summary
  <2>2. /\ SinkShape(next) /\ next.format = s.format /\ next.escape = s.escape
        /\ next.active = s.active /\ next.widths = s.widths /\ next.rows = s.rows
        /\ next.results = s.results /\ next.done = s.done /\ next.buffer = s.buffer
    BY <1>1 DEF SinkShape
  <2>3. piece.kind \in Neutral /\ piece.to = "stdout" /\ "kind" \in DOMAIN piece
    BY DEF Out, Neutral
  <2> HIDE DEF next, piece
  <2>4. IsSeq(<<piece>>) /\ \A i \in DOMAIN <<piece>> : <<piece>>[i] = piece
    BY SingleIs
  <2>5. To("stdout", <<piece>>)
    BY <2>3, <2>4 DEF To
  <2>6. IsSeq(Blank(s)) /\ To("stdout", Blank(s))
    BY BlankIs
  <2>7. IsSeq(pieces) /\ To("stdout", pieces)
    BY <2>4, <2>5, <2>6, ToBoth
  <2>8. Told(stream \o Blank(s), s, sent)
    BY BlankIs, QuietStep
  <2>9. Account(s) = Account(next)
    BY <2>2 DEF Account
  <2>10. Told((stream \o Blank(s)) \o <<piece>>, next, sent)
    BY <2>3, <2>4, <2>8, <2>9, QuietStep
  <2>11. stream \o pieces = (stream \o Blank(s)) \o <<piece>>
    <3> DEFINE blank == Blank(s)
               last == <<piece>>
    <3>1. IsSeq(stream) /\ IsSeq(blank) /\ IsSeq(last)
      BY <2>4, <2>6 DEF Told
    <3> HIDE DEF blank, last
    <3>2. Chained(stream, blank, last)
      BY <3>1, ChainedAre, Zenon
    <3> QED  BY <3>2 DEF Chained, blank, last
  <2>12. SinkOk(next) /\ next.buffer = <<>>
    BY <1>1, <2>2 DEF SinkOk
  <2> HIDE DEF pieces
  <2>13. Step(stream, s, Writes(pieces, next), sent)
    BY <1>1, <2>2, <2>7, <2>10, <2>11, <2>12, StepOut
  <2> QED  BY <2>1, <2>12, <2>13 DEF Writes
<1> QED  BY <1>2, <1>3

LEMMA JsonlComplete ==
  ASSUME NEW stream, NEW s, NEW sent, NEW rows, SinkOk(s), Told(stream, s, sent),
         ~s.done, s.format = "jsonl", ~(s.active /\ s.rows # rows)
  PROVE  /\ Step(stream, s, jsonlComplete(s, rows), sent)
         /\ jsonlComplete(s, rows).sink.buffer = <<>>
<1>1. s.buffer = <<>> /\ SinkShape(s)
  BY DEF SinkOk
<1>2. CASE s.active
  <2> DEFINE next == [s EXCEPT !.active = FALSE]
             piece == Out("complete", Number(s), rows, <<>>)
  <2>1. jsonlComplete(s, rows) = Writes(<<piece>>, next)
    BY <1>2 DEF jsonlComplete
  <2>2. /\ SinkShape(next) /\ next.format = s.format /\ next.escape = s.escape
        /\ next.active = FALSE /\ next.rows = s.rows /\ next.results = s.results
        /\ next.done = s.done /\ next.buffer = s.buffer
    BY <1>1 DEF SinkShape
  <2>3. /\ piece.kind = "complete" /\ piece.result = Number(s) /\ piece.rows = s.rows
        /\ piece.to = "stdout" /\ "kind" \in DOMAIN piece
    BY <1>2 DEF Out
  <2> HIDE DEF next, piece
  <2>4. Told(Said(stream, piece), next, sent)
    BY <1>2, <2>2, <2>3, CompleteStep
  <2>5. SinkOk(next) /\ next.buffer = <<>>
    BY <1>1, <2>2 DEF SinkOk
  <2>6. Step(stream, s, Writes(<<piece>>, next), sent)
    BY <1>1, <2>2, <2>3, <2>4, <2>5, OneOut
  <2> QED  BY <2>1, <2>5, <2>6 DEF Writes
<1>3. CASE ~s.active
  <2> DEFINE piece == Out("command", 0, rows, <<>>)
  <2>1. jsonlComplete(s, rows) = Writes(<<piece>>, s)
    BY <1>3 DEF jsonlComplete
  <2>2. piece.kind \in Neutral /\ piece.to = "stdout" /\ "kind" \in DOMAIN piece
    BY DEF Out, Neutral
  <2> HIDE DEF piece
  <2>3. IsSeq(<<piece>>) /\ \A i \in DOMAIN <<piece>> : <<piece>>[i].kind \in Neutral
    BY <2>2, SingleIs
  <2>4. Told(Said(stream, piece), s, sent)
    BY <2>3, QuietStep DEF Said
  <2>5. Step(stream, s, Writes(<<piece>>, s), sent)
    BY <1>1, <2>2, <2>4, OneOut
  <2> QED  BY <1>1, <2>1, <2>5 DEF Writes
<1> QED  BY <1>2, <1>3

LEMMA DelimitedComplete ==
  ASSUME NEW stream, NEW s, NEW sent, SinkOk(s), Told(stream, s, sent),
         ~s.done, s.format = "delimited"
  PROVE  /\ Step(stream, s, delimitedComplete(s), sent)
         /\ delimitedComplete(s).sink.buffer = <<>>
<1>1. IsSeq(s.buffer) /\ To("stdout", s.buffer) /\ SinkShape(s) /\ IsSeq(stream)
  BY DEF SinkOk, Told
<1>2. IsSeq(<<>>) /\ To("stdout", <<>>) /\ To("stderr", <<>>) /\ <<>> \o <<>> = <<>>
  <2>1. IsSeq(<<>>)
    BY <1>1, ConcatEmpty, Zenon
  <2> QED  BY <2>1, ConcatEmpty DEF To
<1>3. s.buffer \o <<>> = s.buffer /\ stream \o <<>> = stream /\ <<>> \o s.buffer = s.buffer
  BY <1>1, ConcatEmpty
<1>4. CASE s.active
  <2> DEFINE next == [s EXCEPT !.active = FALSE, !.buffer = <<>>]
  <2>1. delimitedComplete(s) = Writes(s.buffer, next)
    BY <1>4 DEF delimitedComplete
  <2>2. /\ SinkShape(next) /\ next.format = s.format /\ next.escape = s.escape
        /\ next.active = FALSE /\ next.rows = s.rows /\ next.results = s.results
        /\ next.done = s.done /\ next.buffer = <<>>
    BY <1>1 DEF SinkShape
  <2> HIDE DEF next
  <2>3. Told(stream, next, sent)
    BY <2>2, CloseStep
  <2>4. SinkOk(next)
    BY <1>2, <2>2 DEF SinkOk
  <2>5. Flow(s.buffer, s, next, <<>>)
    BY <1>1, <1>2, <1>3, <2>2 DEF Flow
  <2>6. Told(stream \o <<>>, next, sent)
    BY <1>3, <2>3
  <2>7. next.format = s.format
    BY <2>2
  <2>8. Step(stream, s, Writes(s.buffer, next), sent)
    BY <1>2, <2>4, <2>5, <2>6, <2>7, StepOf, Zenon
  <2> QED  BY <2>1, <2>2, <2>8 DEF Writes
<1>5. CASE ~s.active
  <2>1. delimitedComplete(s) = Writes(<<>>, s)
    BY <1>5 DEF delimitedComplete
  <2>2. s.buffer = <<>>
    BY <1>5 DEF SinkOk
  <2>3. Flow(<<>>, s, s, <<>>)
    BY <1>2, <2>2 DEF Flow
  <2>4. Told(stream \o <<>>, s, sent)
    BY <1>3
  <2>5. Step(stream, s, Writes(<<>>, s), sent)
    BY <1>2, <2>3, <2>4, StepOf, Zenon
  <2> QED  BY <2>1, <2>2, <2>5 DEF Writes
<1> QED  BY <1>4, <1>5

\* What goes to standard error stands outside of the account.
LEMMA Aside ==
  ASSUME NEW stream, NEW s, NEW t, NEW kind, NEW sent, SinkOk(s), IsSeq(stream),
         SinkOk(t), t.format = s.format, Told(stream, t, sent),
         NEW pieces, IsSeq(pieces), To("stdout", pieces), pieces \o t.buffer = s.buffer
  PROVE  Step(stream, s, Writes(pieces \o <<Diagnostic(kind)>>, t), sent)
<1> DEFINE noted == <<Diagnostic(kind)>>
           both == pieces \o noted
<1>1. IsSeq(noted) /\ To("stderr", noted)
  <2>1. Diagnostic(kind).to = "stderr" /\ "kind" \in DOMAIN Diagnostic(kind)
    BY DEF Diagnostic
  <2> QED  BY <2>1, SingleIs DEF To
<1>2. IsSeq(s.buffer)
  BY DEF SinkOk
<1>3. IsSeq(<<>>) /\ s.buffer \o <<>> = s.buffer /\ stream \o <<>> = stream
  BY <1>2, ConcatEmpty
<1> HIDE DEF noted
<1>4. Flow(both, s, t, <<>>)
  BY <1>1, <1>3 DEF Flow
<1>5. Told(stream \o <<>>, t, sent)
  BY <1>3
<1>6. IsSeq(<<>>)
  BY <1>3
<1> HIDE DEF both
<1>7. Step(stream, s, Writes(both, t), sent)
  BY <1>4, <1>5, <1>6, StepOf, Zenon
<1> QED  BY <1>7 DEF both, noted

LEMMA NoticeOut ==
  ASSUME NEW stream, NEW s, NEW sent, SinkOk(s), Told(stream, s, sent), ~s.done
  PROVE  Step(stream, s, emitNotice(s), sent) /\ emitNotice(s).sink = s
<1>1. IsSeq(stream) /\ IsSeq(s.buffer)
  BY DEF Told, SinkOk
<1>2. CASE s.format = "jsonl"
  <2> DEFINE piece == Out("notice", 0, 0, <<>>)
  <2>1. emitNotice(s) = Writes(<<piece>>, s)
    BY <1>2 DEF emitNotice
  <2>2. piece.kind \in Neutral /\ piece.to = "stdout" /\ "kind" \in DOMAIN piece
    BY DEF Out, Neutral
  <2> HIDE DEF piece
  <2>3. IsSeq(<<piece>>) /\ \A i \in DOMAIN <<piece>> : <<piece>>[i].kind \in Neutral
    BY <2>2, SingleIs
  <2>4. Told(Said(stream, piece), s, sent)
    BY <2>3, QuietStep DEF Said
  <2>5. s.buffer = <<>>
    BY <1>2 DEF SinkOk
  <2>6. Step(stream, s, Writes(<<piece>>, s), sent)
    BY <2>2, <2>4, <2>5, OneOut
  <2> QED  BY <2>1, <2>6 DEF Writes
<1>3. CASE s.format # "jsonl"
  <2> DEFINE noted == <<Diagnostic("notice")>>
  <2>1. emitNotice(s) = Writes(noted, s)
    BY <1>3 DEF emitNotice
  <2>2. IsSeq(<<>>) /\ <<>> \o s.buffer = s.buffer
    BY <1>1, ConcatEmpty
  <2>3. To("stdout", <<>>)
    BY DEF To
  <2>4. Step(stream, s, Writes(<<>> \o noted, s), sent)
    BY <1>1, <2>2, <2>3, Aside
  <2>5. IsSeq(noted)
    BY SingleIs
  <2> HIDE DEF noted
  <2>6. <<>> \o noted = noted
    BY <2>5, ConcatEmpty
  <2> QED  BY <2>1, <2>4, <2>6 DEF Writes
<1> QED  BY <1>2, <1>3

LEMMA ErrorOut ==
  ASSUME NEW stream, NEW s, NEW sent, SinkOk(s), Told(stream, s, sent), ~s.done
  PROVE  Step(stream, s, emitError(s), sent) /\ emitError(s).sink.buffer = <<>>
<1> DEFINE next == [s EXCEPT !.done = TRUE, !.buffer = <<>>]
<1>1. /\ IsSeq(stream) /\ IsSeq(s.buffer) /\ To("stdout", s.buffer) /\ SinkShape(s)
  BY DEF Told, SinkOk
<1>2. /\ SinkShape(next) /\ next.format = s.format /\ next.escape = s.escape
      /\ next.active = s.active /\ next.widths = s.widths /\ next.rows = s.rows
      /\ next.results = s.results /\ next.done = TRUE /\ next.buffer = <<>>
  BY <1>1 DEF SinkShape
<1> HIDE DEF next
<1>3. Account(s) = Account(next)
  BY <1>2 DEF Account
<1>4. SinkOk(next)
  <2>1. IsSeq(<<>>) /\ To("stdout", <<>>)
    BY <1>1, ConcatEmpty DEF To
  <2> QED  BY <1>2, <2>1 DEF SinkOk
<1>5. CASE s.format = "jsonl"
  <2> DEFINE piece == Out("error", 0, 0, <<>>)
  <2>1. s.buffer = <<>>
    BY <1>5 DEF SinkOk
  <2>2. IsSeq(<<piece>>)
    BY SingleIs
  <2>3. emitError(s) = Writes(<<piece>>, next)
    <3>1. emitError(s) = Writes(s.buffer \o <<piece>>, next)
      BY <1>5 DEF emitError, next
    <3> HIDE DEF piece
    <3>2. <<>> \o <<piece>> = <<piece>>
      BY <2>2, ConcatEmpty
    <3> QED  BY <2>1, <3>1, <3>2
  <2>4. piece.kind = "error" /\ piece.to = "stdout" /\ "kind" \in DOMAIN piece
    BY DEF Out
  <2> HIDE DEF piece
  <2>5. Told(Said(stream, piece), next, sent)
    BY <1>2, <1>3, <2>4, ErrorStep
  <2>6. Step(stream, s, Writes(<<piece>>, next), sent)
    BY <1>2, <1>4, <2>1, <2>4, <2>5, OneOut
  <2> QED  BY <1>2, <2>3, <2>6 DEF Writes
<1>6. CASE s.format # "jsonl"
  <2>1. emitError(s) = Writes(s.buffer \o <<Diagnostic("error")>>, next)
    BY <1>6 DEF emitError, next
  <2>2. Told(stream, next, sent)
    BY <1>2, <1>3, SameAccount
  <2>3. s.buffer \o next.buffer = s.buffer
    BY <1>1, <1>2, ConcatEmpty
  <2>4. Step(stream, s, Writes(s.buffer \o <<Diagnostic("error")>>, next), sent)
    BY <1>1, <1>2, <1>4, <2>2, <2>3, Aside
  <2> QED  BY <1>2, <2>1, <2>4 DEF Writes
<1> QED  BY <1>5, <1>6

\* The time of a statement follows on standard error.
LEMMA Timed ==
  ASSUME NEW stream, NEW s, NEW w, NEW more, Step(stream, s, w, more)
  PROVE  Step(stream, s, Writes(Append(w.pieces, Diagnostic("time")), w.sink), more)
<1> DEFINE time == <<Diagnostic("time")>>
           pieces == Append(w.pieces, Diagnostic("time"))
<1>1. PICK said : /\ IsSeq(said) /\ Flow(w.pieces, s, w.sink, said)
                  /\ Told(stream \o said, w.sink, more)
                  /\ SinkOk(w.sink) /\ w.sink.format = s.format
  BY DEF Step
<1>2. PICK shown, noted :
        /\ IsSeq(shown) /\ IsSeq(noted) /\ To("stdout", shown) /\ To("stderr", noted)
        /\ w.pieces = shown \o noted
        /\ shown \o w.sink.buffer = s.buffer \o said
  BY <1>1 DEF Flow
<1>3. IsSeq(time) /\ To("stderr", time)
  <2>1. Diagnostic("time").to = "stderr" /\ "kind" \in DOMAIN Diagnostic("time")
    BY DEF Diagnostic
  <2> QED  BY <2>1, SingleIs DEF To
<1>4. IsSeq(w.pieces)
  BY <1>2, ConcatIs
<1>5. pieces = w.pieces \o time
  BY <1>4, AppendIs
<1> HIDE DEF time, pieces
<1>6. IsSeq(noted \o time) /\ To("stderr", noted \o time)
  BY <1>2, <1>3, ToBoth
<1>7. Chained(shown, noted, time)
  BY <1>2, <1>3, ChainedAre, Zenon
<1>8. pieces = shown \o (noted \o time)
  BY <1>2, <1>5, <1>7 DEF Chained
<1>9. Flow(pieces, s, w.sink, said)
  BY <1>2, <1>6, <1>8 DEF Flow
<1>10. Step(stream, s, Writes(pieces, w.sink), more)
  BY <1>1, <1>9, StepOf, Zenon
<1> QED  BY <1>10 DEF pieces
-----------------------------------------------------------------------------
(***************************************************************************)
(* What emit does with an event, if it does not refuse it.                 *)
(***************************************************************************)
Emitted(stream, s, event, more) ==
  emit(s, event).ok => Step(stream, s, emit(s, event), more)

LEMMA Emits ==
  ASSUME NEW stream, NEW s, NEW event, NEW more,
         ~s.done /\ emitEvent(s, event).ok => Step(stream, s, emitEvent(s, event), more)
  PROVE  /\ Emitted(stream, s, event, more)
         /\ emit(s, event).ok => ~s.done /\ emitEvent(s, event).ok
                                 /\ emit(s, event).sink = emitEvent(s, event).sink
<1> DEFINE w == emitEvent(s, event)
<1>1. CASE s.done
  BY <1>1 DEF Emitted, emit, Refused
<1>2. CASE ~s.done
  <2>1. emit(s, event) = IF w.ok /\ s.timing /\ event.type \in {"complete", "error"}
                         THEN Writes(Append(w.pieces, Diagnostic("time")), w.sink)
                         ELSE w
    BY <1>2 DEF emit
  <2> HIDE DEF w
  <2>2. CASE w.ok /\ s.timing /\ event.type \in {"complete", "error"}
    <3>1. Step(stream, s, w, more)
      BY <1>2, <2>2 DEF w
    <3>2. Step(stream, s, Writes(Append(w.pieces, Diagnostic("time")), w.sink), more)
      BY <3>1, Timed
    <3> QED  BY <1>2, <2>1, <2>2, <3>2 DEF Emitted, Writes, w
  <2>3. CASE ~(w.ok /\ s.timing /\ event.type \in {"complete", "error"})
    <3>1. emit(s, event) = w
      BY <2>1, <2>3
    <3> QED  BY <1>2, <3>1 DEF Emitted, w
  <2> QED  BY <2>2, <2>3
<1> QED  BY <1>1, <1>2

LEMMA ColumnsEmitted ==
  ASSUME NEW stream, NEW s, NEW sent, NEW names \in Headers,
         SinkOk(s), Told(stream, s, sent)
  PROVE  Emitted(stream, s, Columns(names), sent)
<1>1. emitEvent(s, Columns(names)) = emitColumns(s, names)
  BY DEF emitEvent, Columns
<1>2. ASSUME ~s.done, emitColumns(s, names).ok
      PROVE  Step(stream, s, emitColumns(s, names), sent)
  <2>1. ~columnsRefused(s)
    BY <1>2 DEF emitColumns, Refused
  <2>2. emitColumns(s, names) =
          CASE s.format = "table" -> tableColumns(s, names)
            [] s.format = "expanded" -> expandedColumns(s, names)
            [] s.format = "jsonl" -> jsonlColumns(s, names)
            [] OTHER -> delimitedColumns(s, names)
    BY <2>1 DEF emitColumns
  <2>3. CASE s.format = "table"
    BY <1>2, <2>1, <2>2, <2>3, TableColumns DEF columnsRefused
  <2>4. CASE s.format = "expanded"
    BY <1>2, <2>1, <2>2, <2>4, ExpandedColumns DEF columnsRefused
  <2>5. CASE s.format = "jsonl"
    BY <1>2, <2>1, <2>2, <2>5, JsonlColumns DEF columnsRefused
  <2>6. CASE s.format = "delimited"
    BY <1>2, <2>1, <2>2, <2>6, DelimitedColumns DEF columnsRefused
  <2>7. s.format \in Forms
    BY DEF SinkOk
  <2> QED  BY <2>3, <2>4, <2>5, <2>6, <2>7 DEF Forms
<1> QED  BY <1>1, <1>2, Emits

LEMMA RowEmitted ==
  ASSUME NEW stream, NEW s, NEW sent, NEW values \in Rows, IsSeq(sent),
         SinkOk(s), Told(stream, s, sent)
  PROVE  Emitted(stream, s, Row(values), Append(sent, RowOf(s, values)))
<1> DEFINE more == Append(sent, RowOf(s, values))
<1>1. emitEvent(s, Row(values)) = emitRow(s, values)
  BY DEF emitEvent, Row
<1>2. ASSUME ~s.done, emitRow(s, values).ok
      PROVE  Step(stream, s, emitRow(s, values), more)
  <2>1. ~rowRefused(s, values)
    BY <1>2 DEF emitRow, Refused
  <2>2. emitRow(s, values) =
          CASE s.format = "table" -> tableRow(s, values)
            [] s.format = "expanded" -> expandedRow(s, values)
            [] s.format = "jsonl" -> jsonlRow(s, values)
            [] OTHER -> delimitedRow(s, values)
    BY <2>1 DEF emitRow
  <2>3. s.active /\ Len(values) = Len(s.widths)
    BY <2>1 DEF rowRefused
  <2> HIDE DEF more
  <2>4. CASE s.format = "table"
    BY <1>2, <2>2, <2>3, <2>4, TableRow DEF more
  <2>5. CASE s.format = "expanded"
    BY <1>2, <2>2, <2>3, <2>5, ExpandedRow DEF more
  <2>6. CASE s.format = "jsonl"
    BY <1>2, <2>2, <2>3, <2>6, JsonlRow DEF more
  <2>7. CASE s.format = "delimited"
    BY <1>2, <2>2, <2>3, <2>7, DelimitedRow DEF more
  <2>8. s.format \in Forms
    BY DEF SinkOk
  <2> QED  BY <2>4, <2>5, <2>6, <2>7, <2>8 DEF Forms
<1> QED  BY <1>1, <1>2, Emits

\* A result that is complete leaves nothing in the buffer.
LEMMA CompleteEmitted ==
  ASSUME NEW stream, NEW s, NEW sent, NEW rows, SinkOk(s), Told(stream, s, sent)
  PROVE  /\ Emitted(stream, s, CommandComplete(rows), sent)
         /\ emit(s, CommandComplete(rows)).ok
            => emit(s, CommandComplete(rows)).sink.buffer = <<>>
<1> DEFINE event == CommandComplete(rows)
<1>1. emitEvent(s, event) = emitComplete(s, rows)
  BY DEF emitEvent, CommandComplete
<1>2. ASSUME ~s.done, emitComplete(s, rows).ok
      PROVE  /\ Step(stream, s, emitComplete(s, rows), sent)
             /\ emitComplete(s, rows).sink.buffer = <<>>
  <2>1. ~countRefused(s, rows)
    BY <1>2 DEF emitComplete, Refused
  <2>2. emitComplete(s, rows) =
          CASE s.format = "delimited" -> delimitedComplete(s)
            [] s.format = "jsonl" -> jsonlComplete(s, rows)
            [] OTHER -> summary(s, rows)
    BY <2>1 DEF emitComplete
  <2>3. s.format # "delimited" => ~(s.active /\ s.rows # rows)
    BY <2>1 DEF countRefused
  <2>4. CASE s.format = "delimited"
    BY <1>2, <2>2, <2>4, DelimitedComplete
  <2>5. CASE s.format = "jsonl"
    BY <1>2, <2>2, <2>3, <2>5, JsonlComplete
  <2>6. CASE s.format \in {"table", "expanded"}
    BY <1>2, <2>2, <2>3, <2>6, Summary
  <2>7. s.format \in Forms
    BY DEF SinkOk
  <2> QED  BY <2>4, <2>5, <2>6, <2>7 DEF Forms
<1> HIDE DEF event
<1>3. /\ Emitted(stream, s, event, sent)
      /\ emit(s, event).ok => ~s.done /\ emitEvent(s, event).ok
                              /\ emit(s, event).sink = emitEvent(s, event).sink
  BY <1>1, <1>2, Emits
<1>4. emit(s, event).ok => emit(s, event).sink.buffer = <<>>
  BY <1>1, <1>2, <1>3
<1> QED  BY <1>3, <1>4 DEF event

LEMMA NoticeEmitted ==
  ASSUME NEW stream, NEW s, NEW sent, SinkOk(s), Told(stream, s, sent)
  PROVE  Emitted(stream, s, Notice, sent) /\ (emit(s, Notice).ok => emit(s, Notice).sink = s)
<1>1. emitEvent(s, Notice) = emitNotice(s)
  BY DEF emitEvent, Notice
<1> QED  BY <1>1, NoticeOut, Emits

LEMMA ErrorEmitted ==
  ASSUME NEW stream, NEW s, NEW sent, SinkOk(s), Told(stream, s, sent)
  PROVE  Emitted(stream, s, Error, sent)
<1>1. emitEvent(s, Error) = emitError(s)
  BY DEF emitEvent, Error
<1> QED  BY <1>1, ErrorOut, Emits
-----------------------------------------------------------------------------
(***************************************************************************)
(* The beginning of an account, and one that breaks off in half a piece.   *)
(***************************************************************************)
LEMMA PrefixHolds ==
  ASSUME NEW told, NEW rest, NEW s, NEW sent, IsSeq(told), IsSeq(rest),
         Told(told \o rest, s, sent)
  PROVE  /\ Framed(told, s.format) /\ Faithful(told, s, sent)
         /\ At(told, "torn") = {} /\ (rest # <<>> => At(told, "error") = {})
<1> DEFINE full == told \o rest
           n == Len(told)
<1>1. /\ n \in Nat /\ Len(rest) \in Nat /\ DOMAIN told = 1 .. n
      /\ DOMAIN full = 1 .. n + Len(rest) /\ Len(full) = n + Len(rest)
      /\ \A i \in 1 .. n : full[i] = told[i]
      /\ rest # <<>> => Len(rest) > 0
  BY IsSeqOf, ConcatIs, HeadIs
<1>2. Told(full, s, sent)
  OBVIOUS
<1> HIDE DEF full
<1>3. \A i : i \in 1 .. n <=> i \in 1 .. n + Len(rest) /\ i <= n
  BY <1>1
<1> HIDE DEF n
<1>4. /\ \A kind : At(told, kind) = {i \in At(full, kind) : i <= n}
      /\ Framing(told) = {i \in Framing(full) : i <= n}
      /\ \A i \in 1 .. n : full[i] = told[i]
      /\ At(full, "columns") \subseteq Framing(full)
      /\ At(full, "row") \subseteq Framing(full)
      /\ At(full, "complete") \subseteq Framing(full)
      /\ \A i \in Framing(full) : i \in Nat
      /\ n \in Nat
  <2>1. \A kind : At(told, kind) = {i \in At(full, kind) : i <= n}
    BY <1>1, <1>3 DEF At
  <2>2. Framing(told) = {i \in Framing(full) : i <= n}
    BY <1>1, <1>3 DEF Framing
  <2>3. /\ At(full, "columns") \subseteq Framing(full)
        /\ At(full, "row") \subseteq Framing(full)
        /\ At(full, "complete") \subseteq Framing(full)
    BY DEF At, Framing
  <2>4. \A i \in Framing(full) : i \in Nat
    BY <1>1 DEF Framing
  <2> QED  BY <1>1, <2>1, <2>2, <2>3, <2>4
<1>5. /\ \A i \in Framing(told) : i \in Framing(full) /\ i <= n /\ i \in 1 .. n
                                  /\ full[i] = told[i] /\ i \in Nat
      /\ \A kind \in {"columns", "row", "complete"} : At(told, kind) \subseteq Framing(told)
  <2>1. Framing(told) \subseteq 1 .. n
    BY <1>1 DEF Framing
  <2>2. \A kind \in {"columns", "row", "complete"} : At(told, kind) \subseteq Framing(told)
    BY DEF At, Framing
  <2> QED  BY <1>4, <2>1, <2>2
<1>6. \A result : RowsAt(told, result) = {i \in RowsAt(full, result) : i <= n}
  <2>1. \A i \in At(told, "row") : told[i] = full[i]
    BY <1>5
  <2>2. \A i \in At(full, "row") : i <= n => i \in At(told, "row")
    BY <1>4
  <2> QED  BY <1>4, <2>1, <2>2 DEF RowsAt
<1>7. Framed(full, s.format) /\ \A i \in Framing(full) : full[i].result \in Nat
  BY <1>2 DEF Told, Counted
<1>8. At(full, "torn") = {} /\ \A i \in At(full, "error") : i = n + Len(rest)
  BY <1>1, <1>2 DEF Told, Unended, Framed
<1>9. At(told, "torn") = {} /\ (rest # <<>> => At(told, "error") = {})
  BY <1>1, <1>4, <1>8
<1>10. Framed(told, s.format)
  <2> USE DEF Framed
  <2>1. \A i \in At(told, "columns") :
          told[i].result = Cardinality({j \in At(told, "columns") : j < i})
    <3>1. ASSUME NEW i \in At(told, "columns")
          PROVE  told[i].result = Cardinality({j \in At(told, "columns") : j < i})
      <4>1. i \in At(full, "columns") /\ i \in Nat /\ i <= n /\ full[i] = told[i]
        BY <1>4, <1>5
      <4>2. {j \in At(told, "columns") : j < i} = {j \in At(full, "columns") : j < i}
        BY <1>4, <4>1
      <4>3. full[i].result = Cardinality({j \in At(full, "columns") : j < i})
        BY <1>7, <4>1
      <4> QED  BY <4>1, <4>2, <4>3
    <3> QED  BY <3>1
  <2>2. \A i \in At(told, "columns") : \A j \in RowsAt(told, told[i].result) :
          i < j /\ Len(told[i].cells) = Len(told[j].cells)
    <3>1. ASSUME NEW i \in At(told, "columns"), NEW j \in RowsAt(told, told[i].result)
          PROVE  i < j /\ Len(told[i].cells) = Len(told[j].cells)
      <4>1. i \in At(full, "columns") /\ full[i] = told[i]
        BY <1>4, <1>5
      <4>2. j \in RowsAt(full, full[i].result) /\ full[j] = told[j]
        BY <1>5, <1>6, <4>1 DEF RowsAt
      <4> QED  BY <1>7, <4>1, <4>2
    <3> QED  BY <3>1
  <2>3. \A i \in At(told, "complete") :
          /\ told[i].rows = Cardinality(RowsAt(told, told[i].result))
          /\ \A j \in Framing(told) : j > i => told[j].result > told[i].result
    <3>1. ASSUME NEW i \in At(told, "complete")
          PROVE  /\ told[i].rows = Cardinality(RowsAt(told, told[i].result))
                 /\ \A j \in Framing(told) : j > i => told[j].result > told[i].result
      <4>1. /\ i \in At(full, "complete") /\ full[i] = told[i] /\ i \in Framing(full)
            /\ i <= n /\ i \in Nat
        BY <1>4, <1>5
      <4>2. /\ full[i].rows = Cardinality(RowsAt(full, full[i].result))
            /\ \A j \in Framing(full) : j > i => full[j].result > full[i].result
        BY <1>7, <4>1
      <4>3. ASSUME NEW j \in RowsAt(full, full[i].result)
            PROVE  j <= n
        <5>1. j \in Framing(full) /\ full[j].result = full[i].result
          BY <1>4 DEF RowsAt
        <5>2. full[j].result \in Nat /\ j \in Nat
          BY <1>4, <1>7, <5>1
        <5> QED  BY <1>4, <4>1, <4>2, <5>1, <5>2
      <4>4. RowsAt(told, told[i].result) = RowsAt(full, full[i].result)
        BY <1>6, <4>1, <4>3
      <4>5. \A j \in Framing(told) : j \in Framing(full) /\ full[j] = told[j]
        BY <1>5
      <4> QED  BY <4>1, <4>2, <4>4, <4>5
    <3> QED  BY <3>1
  <2>4. s.format # "delimited" =>
          \A i, j \in Framing(told) :
            j < i /\ told[j].result < told[i].result
            => \E k \in At(told, "complete") :
                 j <= k /\ k < i /\ told[k].result = told[j].result
    <3>1. ASSUME NEW i \in Framing(told), NEW j \in Framing(told),
                 j < i, told[j].result < told[i].result, s.format # "delimited"
          PROVE  \E k \in At(told, "complete") :
                   j <= k /\ k < i /\ told[k].result = told[j].result
      <4>1. /\ i \in Framing(full) /\ j \in Framing(full) /\ full[i] = told[i]
            /\ full[j] = told[j] /\ i <= n /\ i \in Nat
        BY <1>5
      <4>2. PICK k \in At(full, "complete") :
              j <= k /\ k < i /\ full[k].result = full[j].result
        BY <1>7, <3>1, <4>1
      <4>3. k \in At(told, "complete")
        <5>1. k \in Nat
          BY <1>4, <4>2
        <5>2. k <= n
          BY <1>4, <4>1, <4>2, <5>1
        <5> QED  BY <1>4, <4>2, <5>2
      <4> QED  BY <1>5, <4>1, <4>2, <4>3
    <3> QED  BY <3>1
  <2>5. \A i \in At(told, "error") \cup At(told, "torn") : i = Len(told)
    <3>1. ASSUME NEW i \in At(told, "error")
          PROVE  i = Len(told)
      <4>1. i \in At(full, "error") /\ i <= n
        BY <1>4
      <4> QED  BY <1>1, <1>8, <4>1 DEF n
    <3> QED  BY <1>9, <3>1
  <2> QED  BY <2>1, <2>2, <2>3, <2>4, <2>5
<1>11. Faithful(told, s, sent)
  <2>1. ASSUME NEW i \in At(told, "row")
        PROVE  /\ Place(told, i) <= Len(sent)
               /\ Shows(s, told[i], sent[Place(told, i)].cells)
    <3>1. i \in At(full, "row") /\ full[i] = told[i] /\ i <= n /\ i \in Nat
      BY <1>4, <1>5
    <3>2. {j \in At(told, "row") : j <= i} = {j \in At(full, "row") : j <= i}
      BY <1>4, <3>1
    <3>3. Place(told, i) = Place(full, i)
      BY <3>2 DEF Place
    <3> QED  BY <1>2, <3>1, <3>3 DEF Told, Faithful
  <2> QED  BY <2>1 DEF Faithful
<1> QED  BY <1>9, <1>10, <1>11

\* Half a piece that was being written is no frame.
LEMMA TornHolds ==
  ASSUME NEW told, NEW piece, NEW s, NEW sent, IsSeq(told), piece.kind = "torn",
         Framed(told, s.format), Faithful(told, s, sent),
         At(told, "torn") = {}, At(told, "error") = {}
  PROVE  Framed(Said(told, piece), s.format) /\ Faithful(Said(told, piece), s, sent)
<1> DEFINE longer == Said(told, piece)
<1>1. LongerBy(longer, told, piece) /\ KindsOf(longer, told, piece)
  BY AtLast, AtKinds, Zenon
<1> HIDE DEF longer
<1>2. /\ \A kind \in {"columns", "row", "complete", "error"} :
           At(longer, kind) = At(told, kind)
      /\ Framing(longer) = Framing(told)
      /\ At(longer, "torn") = At(told, "torn") \cup {Len(longer)}
      /\ \A i \in Framing(told) : longer[i] = told[i]
      /\ \A result : RowsAt(longer, result) = RowsAt(told, result)
  BY <1>1 DEF LongerBy, KindsOf
<1>3. \A kind \in {"columns", "row", "complete"} : At(told, kind) \subseteq Framing(told)
  BY DEF At, Framing
<1>4. /\ \A kind \in {"columns", "row", "complete"} :
           \A i \in At(told, kind) : longer[i] = told[i]
      /\ \A result : \A i \in RowsAt(told, result) : longer[i] = told[i]
  BY <1>2, <1>3 DEF RowsAt
<1>5. Framed(longer, s.format)
  <2> USE DEF Framed
  <2>1. \A i \in At(longer, "columns") :
          longer[i].result = Cardinality({j \in At(longer, "columns") : j < i})
    <3>1. At(longer, "columns") = At(told, "columns")
      BY <1>2
    <3>2. \A i \in At(told, "columns") : longer[i] = told[i]
      BY <1>4
    <3>3. \A i \in At(told, "columns") :
            told[i].result = Cardinality({j \in At(told, "columns") : j < i})
      OBVIOUS
    <3> QED  BY <3>1, <3>2, <3>3
  <2>2. \A i \in At(longer, "columns") : \A j \in RowsAt(longer, longer[i].result) :
          i < j /\ Len(longer[i].cells) = Len(longer[j].cells)
    BY <1>2, <1>4
  <2>3. \A i \in At(longer, "complete") :
          /\ longer[i].rows = Cardinality(RowsAt(longer, longer[i].result))
          /\ \A j \in Framing(longer) : j > i => longer[j].result > longer[i].result
    BY <1>2, <1>4
  <2>4. s.format # "delimited" =>
          \A i, j \in Framing(longer) :
            j < i /\ longer[j].result < longer[i].result
            => \E k \in At(longer, "complete") :
                 j <= k /\ k < i /\ longer[k].result = longer[j].result
    BY <1>2, <1>4
  <2>5. \A i \in At(longer, "error") \cup At(longer, "torn") : i = Len(longer)
    BY <1>2
  <2> QED  BY <2>1, <2>2, <2>3, <2>4, <2>5
<1>6. Faithful(longer, s, sent)
  <2>1. At(longer, "row") = At(told, "row")
    BY <1>2
  <2>2. \A i : Place(longer, i) = Place(told, i)
    BY <2>1 DEF Place
  <2> QED  BY <1>4, <2>1, <2>2 DEF Faithful
<1> QED  BY <1>5, <1>6 DEF longer

LEMMA LongerSent ==
  ASSUME NEW stream, NEW s, NEW sent, NEW row, IsSeq(stream), IsSeq(sent),
         Faithful(stream, s, sent)
  PROVE  Faithful(stream, s, Append(sent, row))
<1> DEFINE more == Append(sent, row)
<1>1. /\ Len(sent) \in Nat /\ Len(more) = Len(sent) + 1
      /\ \A i \in 1 .. Len(sent) : more[i] = sent[i]
  <2>1. more = sent \o <<row>>
    BY AppendIs
  <2> QED  BY <2>1, SingleIs, ConcatIs, IsSeqOf
<1> HIDE DEF more
<1>2. ASSUME NEW i \in At(stream, "row")
      PROVE  /\ Place(stream, i) <= Len(more)
             /\ Shows(s, stream[i], more[Place(stream, i)].cells)
  <2>1. /\ Place(stream, i) <= Len(sent)
        /\ Shows(s, stream[i], sent[Place(stream, i)].cells)
    BY DEF Faithful
  <2>2. Place(stream, i) \in Nat \ {0}
    <3> DEFINE upto == {j \in At(stream, "row") : j <= i}
    <3>1. IsFiniteSet(upto)
      BY AtFinite
    <3>2. i \in upto
      BY IsSeqOf DEF At
    <3> HIDE DEF upto
    <3>3. Cardinality(upto) \in Nat /\ Cardinality(upto) # 0
      BY <3>1, <3>2, FS_CardinalityType, FS_EmptySet
    <3> QED  BY <3>3 DEF Place, upto
  <2> QED  BY <1>1, <2>1, <2>2
<1> QED  BY <1>2 DEF Faithful, more
-----------------------------------------------------------------------------
(***************************************************************************)
(* While a statement executes, what was given, what is still to write and  *)
(* what the sink keeps back are, one after the other, the account of the   *)
(* rows that were served; the last piece given may be the half of one,     *)
(* when standard output has gone away under it.                            *)
(***************************************************************************)
Writing(given, rest, s, sent, open) ==
  \E told, half, shown, noted :
    /\ IsSeq(told) /\ IsSeq(shown) /\ IsSeq(noted)
    /\ To("stdout", shown) /\ To("stderr", noted)
    /\ given = told \o half /\ rest = shown \o noted
    /\ Told(told \o (shown \o s.buffer), s, sent)
    /\ \/ half = <<>>
       \/ /\ "stdout" \notin open /\ shown # <<>>
          /\ \E piece : piece.kind = "torn" /\ half = <<piece>>

Holds(stream, s, sent) == Framed(stream, s.format) /\ Faithful(stream, s, sent)

StreamInv ==
  /\ SinkOk(sink) /\ IsSeq(out) /\ IsSeq(served)
  /\ mode = "shell" => up = {"stdout", "stderr"} /\ sink.format \in {"table", "expanded"}
  /\ mode = "script" => ~pager.closed /\ phase # "reaping"
  /\ quiet => mode = "shell" /\ todo = <<>>
  /\ Holds(out, sink, served)
  /\ phase = "executing" =>
       /\ \E given : Writing(given, todo, sink, served, up) /\ (pager.closed \/ given = out)
       /\ progress = "complete" => sink.buffer = <<>>
       /\ pager.closed => pager.process # "none"
  /\ "closed" \in DOMAIN pager
  /\ phase = "failed" => outcome # "ok" \/ quiet
  /\ phase \notin {"executing", "ended"} => todo = <<>>
  /\ phase \in {"failed", "closing"} /\ "stdout" \in up =>
       Holds(out \o sink.buffer, sink, served)
  /\ phase \notin {"executing", "failed"} /\ outcome = "ok" /\ ~quiet /\ ~pager.closed =>
       /\ Cardinality(At(out, "row")) = Len(served)
       /\ phase = "closing" => sink.buffer = <<>>

\* What was given holds at every moment.
LEMMA WritingHolds ==
  ASSUME NEW given, NEW rest, NEW s, NEW sent, NEW open, IsSeq(s.buffer),
         Writing(given, rest, s, sent, open)
  PROVE  Holds(given, s, sent) /\ IsSeq(given)
<1>1. PICK told, half, shown, noted :
        /\ IsSeq(told) /\ IsSeq(shown) /\ IsSeq(noted)
        /\ given = told \o half
        /\ Told(told \o (shown \o s.buffer), s, sent)
        /\ \/ half = <<>>
           \/ /\ shown # <<>>
              /\ \E piece : piece.kind = "torn" /\ half = <<piece>>
  BY DEF Writing
<1>2. IsSeq(shown \o s.buffer)
  BY <1>1, ConcatIs
<1>3. /\ Framed(told, s.format) /\ Faithful(told, s, sent) /\ At(told, "torn") = {}
      /\ shown \o s.buffer # <<>> => At(told, "error") = {}
  BY <1>1, <1>2, PrefixHolds
<1>4. CASE half = <<>>
  <2>1. given = told
    BY <1>1, <1>4, ConcatEmpty
  <2> QED  BY <1>1, <1>3, <2>1 DEF Holds
<1>5. CASE half # <<>>
  <2>1. PICK piece : piece.kind = "torn" /\ half = <<piece>>
    BY <1>1, <1>5
  <2>2. given = Said(told, piece)
    BY <1>1, <2>1 DEF Said
  <2>3. shown \o s.buffer # <<>>
    <3>1. Len(shown) > 0 /\ Len(shown) \in Nat /\ Len(s.buffer) \in Nat
      BY <1>1, <1>5, HeadIs, IsSeqOf
    <3>2. Len(shown \o s.buffer) = Len(shown) + Len(s.buffer)
      BY <1>1, ConcatIs
    <3> QED  BY <3>1, <3>2
  <2>4. Holds(Said(told, piece), s, sent)
    BY <1>1, <1>3, <2>1, <2>3, TornHolds DEF Holds
  <2>5. IsSeq(told \o <<piece>>)
    BY <1>1, SingleIs, ConcatIs
  <2> QED  BY <2>2, <2>4, <2>5 DEF Said
<1> QED  BY <1>4, <1>5

\* Nothing is left to write.
LEMMA WrittenOut ==
  ASSUME NEW given, NEW s, NEW sent, NEW open, IsSeq(s.buffer),
         Writing(given, <<>>, s, sent, open)
  PROVE  IsSeq(given) /\ Told(given \o s.buffer, s, sent)
<1>1. PICK told, half, shown, noted :
        /\ IsSeq(told) /\ IsSeq(shown) /\ IsSeq(noted)
        /\ given = told \o half /\ <<>> = shown \o noted
        /\ Told(told \o (shown \o s.buffer), s, sent)
        /\ half = <<>> \/ shown # <<>>
  BY DEF Writing
<1>2. shown = <<>>
  <2>1. IsSeq(<<>>)
    BY <1>1, ConcatEmpty
  <2>2. Len(<<>>) = Len(shown) + Len(noted) /\ Len(shown) \in Nat /\ Len(noted) \in Nat
    BY <1>1, ConcatIs, IsSeqOf
  <2>3. Len(<<>>) = 0
    OBVIOUS
  <2>4. shown # <<>> => Len(shown) > 0
    BY <1>1, HeadIs
  <2> QED  BY <2>2, <2>3, <2>4
<1>3. given = told /\ shown \o s.buffer = s.buffer
  BY <1>1, <1>2, ConcatEmpty
<1> QED  BY <1>1, <1>3

LEMMA WritingOf ==
  ASSUME NEW told, NEW shown, NEW noted, NEW s, NEW sent, NEW open,
         IsSeq(told), IsSeq(shown), IsSeq(noted), To("stdout", shown), To("stderr", noted),
         Told(told \o (shown \o s.buffer), s, sent)
  PROVE  Writing(told, shown \o noted, s, sent, open)
<1>1. told = told \o <<>>
  BY ConcatEmpty
<1> QED  BY <1>1 DEF Writing

LEMMA NothingTold ==
  ASSUME NEW s, NEW open, SinkOk(s), s.results = 0, s.rows = 0, s.active = FALSE,
         ~s.done, s.buffer = <<>>
  PROVE  Writing(<<>>, <<>>, s, <<>>, open) /\ Holds(<<>>, s, <<>>) /\ IsSeq(<<>>)
<1>1. IsSeq(<<>>) /\ <<>> \o <<>> = <<>> /\ DOMAIN <<>> = {} /\ Len(<<>>) = 0
  <2>1. IsSeq(<<>>)
    BY DEF SinkOk
  <2>2. <<>> \o <<>> = <<>>
    BY <2>1, ConcatEmpty
  <2> QED  BY <2>1, <2>2
<1>2. /\ \A kind : At(<<>>, kind) = {} /\ Framing(<<>>) = {}
      /\ \A result : RowsAt(<<>>, result) = {}
  BY <1>1 DEF At, Framing, RowsAt
<1>3. Cardinality({}) = 0
  BY FS_EmptySet
<1>4. Framed(<<>>, s.format) /\ Faithful(<<>>, s, <<>>)
  BY <1>2 DEF Framed, Faithful
<1>5. Counted(<<>>, s)
  <2>1. s.active \in BOOLEAN /\ ~s.active
    BY Zenon
  <2> DEFINE none == <<>>
  <2>2. /\ \A kind : At(none, kind) = {}
        /\ Framing(none) = {}
        /\ RowsAt(none, Number(s)) = {}
    BY <1>2
  <2> HIDE DEF none
  <2>3. s.results \in Nat /\ s.rows \in Nat /\ s.results = Cardinality({})
    BY <1>3
  <2>4. IF s.format = "expanded" THEN At(none, "columns") = {}
        ELSE s.results = Cardinality(At(none, "columns"))
    BY <2>2, <2>3
  <2>5. s.results <= 1 /\ At(none, "complete") = {}
    BY <2>2, <2>3
  <2>6. Counted(none, s)
    BY <2>1, <2>2, <2>3, <2>4, <2>5, Zenon DEF Counted
  <2> QED  BY <2>6 DEF none
<1>6. Told(<<>>, s, <<>>)
  BY <1>1, <1>2, <1>3, <1>4, <1>5 DEF Told, Unended
<1>7. To("stdout", <<>>) /\ To("stderr", <<>>)
  BY <1>1 DEF To
<1>8. Told(<<>> \o (<<>> \o s.buffer), s, <<>>)
  BY <1>1, <1>6
<1>9. Writing(<<>>, <<>> \o <<>>, s, <<>>, open)
  BY <1>1, <1>7, <1>8, WritingOf, Zenon
<1> QED  BY <1>1, <1>4, <1>9 DEF Holds

LEMMA HeadOf ==
  ASSUME NEW s, NEW t, IsSeq(s), IsSeq(t), s # <<>>
  PROVE  Head(s \o t) = Head(s) /\ Tail(s \o t) = Tail(s) \o t
<1> DEFINE X == {s[i] : i \in DOMAIN s} \cup {t[i] : i \in DOMAIN t}
<1>1. s \in Seq(X) /\ t \in Seq(X)
  BY DEF IsSeq
<1> HIDE DEF X
<1>2. Head(s \o t) = Head(s)
  BY <1>1
<1>3. Tail(s \o t) = Tail(s) \o t
  BY <1>1
<1> QED  BY <1>2, <1>3

\* The next piece goes to standard output, or there is only diagnostics left.
LEMMA NextPiece ==
  ASSUME NEW shown, NEW noted, IsSeq(shown), IsSeq(noted),
         To("stdout", shown), To("stderr", noted), shown \o noted # <<>>
  PROVE  /\ Head(shown \o noted).to = "stdout" <=> shown # <<>>
         /\ Head(shown \o noted).to \in {"stdout", "stderr"}
         /\ shown = <<>> => noted # <<>> /\ shown \o noted = noted
         /\ "kind" \in DOMAIN Head(shown \o noted)
<1>1. CASE shown # <<>>
  <2>1. Head(shown \o noted) = shown[1] /\ 1 \in DOMAIN shown
    BY <1>1, HeadOf, HeadIs, IsSeqOf
  <2> QED  BY <1>1, <2>1 DEF To
<1>2. CASE shown = <<>>
  <2>1. shown \o noted = noted
    BY <1>2, ConcatEmpty
  <2>2. noted # <<>>
    BY <2>1
  <2>3. Head(noted) = noted[1] /\ 1 \in DOMAIN noted
    BY <2>2, HeadIs, IsSeqOf
  <2>4. Head(shown \o noted).to = "stderr" /\ "kind" \in DOMAIN Head(shown \o noted)
    BY <2>1, <2>3 DEF To
  <2> QED  BY <1>2, <2>1, <2>2, <2>4
<1> QED  BY <1>1, <1>2

LEMMA TailTo ==
  ASSUME NEW stream, NEW s, IsSeq(s), s # <<>>, To(stream, s)
  PROVE  IsSeq(Tail(s)) /\ To(stream, Tail(s))
<1>1. /\ IsSeq(Tail(s)) /\ Len(Tail(s)) = Len(s) - 1 /\ Len(s) \in Nat
      /\ \A i \in 1 .. Len(s) - 1 : Tail(s)[i] = s[i + 1]
      /\ DOMAIN Tail(s) = 1 .. Len(Tail(s)) /\ DOMAIN s = 1 .. Len(s)
  BY HeadIs, IsSeqOf
<1>2. \A i \in 1 .. Len(s) - 1 : i + 1 \in 1 .. Len(s)
  BY <1>1
<1> QED  BY <1>1, <1>2 DEF To

\* One write less to do.
LEMMA ShownNext ==
  ASSUME NEW given, NEW rest, NEW s, NEW sent, NEW open, IsSeq(s.buffer), rest # <<>>,
         Writing(given, rest, s, sent, open), "stdout" \in open, Head(rest).to = "stdout"
  PROVE  Writing(Append(given, Head(rest)), Tail(rest), s, sent, open)
<1>1. PICK told, half, shown, noted :
        /\ IsSeq(told) /\ IsSeq(shown) /\ IsSeq(noted)
        /\ To("stdout", shown) /\ To("stderr", noted)
        /\ given = told \o half /\ rest = shown \o noted
        /\ Told(told \o (shown \o s.buffer), s, sent)
        /\ half = <<>>
  BY DEF Writing
<1>2. shown # <<>> /\ given = told
  BY <1>1, NextPiece, ConcatEmpty
<1> DEFINE first == <<Head(shown)>>
           others == Tail(shown)
<1>3. shown = first \o others /\ IsSeq(first) /\ IsSeq(others) /\ To("stdout", others)
  BY <1>1, <1>2, HeadIs, SingleIs, TailTo
<1>4. Head(rest) = Head(shown) /\ Tail(rest) = others \o noted
  BY <1>1, <1>2, HeadOf
<1>5. Append(given, Head(rest)) = told \o first
  BY <1>1, <1>2, <1>4, AppendIs
<1> HIDE DEF first, others
<1>6. IsSeq(told \o first) /\ IsSeq(others \o s.buffer)
  BY <1>1, <1>3, ConcatIs
<1>7. Chained(first, others, s.buffer) /\ Chained(told, first, others \o s.buffer)
  BY <1>1, <1>3, <1>6, ChainedAre, Zenon
<1>8. Told((told \o first) \o (others \o s.buffer), s, sent)
  BY <1>1, <1>3, <1>7 DEF Chained
<1>9. Writing(told \o first, others \o noted, s, sent, open)
  BY <1>1, <1>3, <1>6, <1>8, WritingOf, Zenon
<1> QED  BY <1>4, <1>5, <1>9

LEMMA NotedNext ==
  ASSUME NEW given, NEW rest, NEW s, NEW sent, NEW open, IsSeq(s.buffer), rest # <<>>,
         Writing(given, rest, s, sent, open), Head(rest).to = "stderr"
  PROVE  /\ Writing(given, Tail(rest), s, sent, open)
         /\ Told(given \o s.buffer, s, sent)
<1>1. PICK told, half, shown, noted :
        /\ IsSeq(told) /\ IsSeq(shown) /\ IsSeq(noted)
        /\ To("stdout", shown) /\ To("stderr", noted)
        /\ given = told \o half /\ rest = shown \o noted
        /\ Told(told \o (shown \o s.buffer), s, sent)
        /\ half = <<>> \/ shown # <<>>
  BY DEF Writing
<1>2. "stderr" # "stdout"
  OBVIOUS
<1>3. shown = <<>> /\ noted # <<>> /\ rest = noted
  BY <1>1, <1>2, NextPiece
<1>4. IsSeq(Tail(noted)) /\ To("stderr", Tail(noted))
  BY <1>1, <1>3, TailTo
<1>5. given = told /\ shown \o s.buffer = s.buffer /\ shown \o Tail(noted) = Tail(noted)
  BY <1>1, <1>3, <1>4, ConcatEmpty
<1>6. Told(given \o s.buffer, s, sent)
  BY <1>1, <1>5
<1>7. Writing(told, shown \o Tail(noted), s, sent, open)
  BY <1>1, <1>4, WritingOf, Zenon
<1> QED  BY <1>3, <1>5, <1>6, <1>7

\* A stream goes away, perhaps in the middle of a write.
LEMMA StreamCloses ==
  ASSUME NEW given, NEW rest, NEW s, NEW sent, NEW open, NEW stream,
         Writing(given, rest, s, sent, open)
  PROVE  Writing(given, rest, s, sent, open \ {stream})
BY DEF Writing

LEMMA TornOff ==
  ASSUME NEW given, NEW rest, NEW s, NEW sent, NEW open, IsSeq(s.buffer), rest # <<>>,
         Writing(given, rest, s, sent, open), "stdout" \in open, Head(rest).to = "stdout"
  PROVE  Writing(Append(given, [Head(rest) EXCEPT !.kind = "torn"]), rest, s, sent,
                 open \ {"stdout"})
<1> DEFINE torn == [Head(rest) EXCEPT !.kind = "torn"]
<1>1. PICK told, shown, noted :
        /\ IsSeq(told) /\ IsSeq(shown) /\ IsSeq(noted)
        /\ To("stdout", shown) /\ To("stderr", noted)
        /\ given = told \o <<>> /\ rest = shown \o noted
        /\ Told(told \o (shown \o s.buffer), s, sent)
  BY DEF Writing
<1>2. shown # <<>> /\ given = told /\ "kind" \in DOMAIN Head(rest)
  BY <1>1, NextPiece, ConcatEmpty
<1>3. torn.kind = "torn"
  BY <1>2
<1> HIDE DEF torn
<1>4. Append(given, torn) = told \o <<torn>>
  BY <1>1, <1>2, AppendIs
<1>5. Writing(told \o <<torn>>, rest, s, sent, open \ {"stdout"})
  BY <1>1, <1>2, <1>3 DEF Writing
<1> QED  BY <1>4, <1>5 DEF torn

\* What an event adds.
GoesOn(given, s, w, more, open) ==
  Writing(given, w.pieces, w.sink, more, open) /\ SinkOk(w.sink) /\ w.sink.format = s.format

LEMMA EmitsOn ==
  ASSUME NEW given, NEW s, NEW w, NEW more, NEW open, IsSeq(given), SinkOk(s),
         Step(given \o s.buffer, s, w, more)
  PROVE  GoesOn(given, s, w, more, open)
<1>1. PICK said : /\ IsSeq(said) /\ Flow(w.pieces, s, w.sink, said)
                  /\ Told((given \o s.buffer) \o said, w.sink, more)
                  /\ SinkOk(w.sink) /\ w.sink.format = s.format
  BY DEF Step
<1>2. PICK shown, noted :
        /\ IsSeq(shown) /\ IsSeq(noted) /\ To("stdout", shown) /\ To("stderr", noted)
        /\ w.pieces = shown \o noted
        /\ shown \o w.sink.buffer = s.buffer \o said
  BY <1>1 DEF Flow
<1>3. Chained(given, s.buffer, said)
  <2>1. IsSeq(s.buffer)
    BY DEF SinkOk
  <2> QED  BY <1>1, <2>1, ChainedAre, Zenon
<1>4. Told(given \o (shown \o w.sink.buffer), w.sink, more)
  BY <1>1, <1>2, <1>3 DEF Chained
<1>5. Writing(given, shown \o noted, w.sink, more, open)
  BY <1>2, <1>4, WritingOf, Zenon
<1> QED  BY <1>1, <1>2, <1>5 DEF GoesOn
-----------------------------------------------------------------------------
(***************************************************************************)
(* The steps of the program.                                               *)
(***************************************************************************)
LEMMA SameHolds ==
  ASSUME NEW stream, NEW s, NEW t, NEW sent, Holds(stream, s, sent),
         t.format = s.format, t.escape = s.escape \/ s.format \in {"table", "expanded"}
  PROVE  Holds(stream, t, sent)
<1>1. \A piece, cells : Shows(s, piece, cells) => Shows(t, piece, cells)
  BY DEF Shows
<1> QED  BY <1>1 DEF Holds, Faithful

LongerOrSame(more, sent) == more = sent \/ \E row : more = Append(sent, row)

LEMMA LongerHolds ==
  ASSUME NEW stream, NEW s, NEW sent, NEW more, IsSeq(stream), IsSeq(sent),
         Holds(stream, s, sent), LongerOrSame(more, sent)
  PROVE  Holds(stream, s, more)
BY LongerSent DEF Holds, LongerOrSame

LEMMA PlainBuffer ==
  ASSUME NEW s, SinkOk(s), s.format \in {"table", "expanded"}
  PROVE  s.buffer = <<>>
BY DEF SinkOk

Fresh(s, format) ==
  /\ SinkOk(s) /\ s.format = format /\ s.results = 0 /\ s.rows = 0
  /\ s.active = FALSE /\ ~s.done /\ s.buffer = <<>>

LEMMA NewSinkIs ==
  ASSUME NEW format \in Forms, NEW display, NEW escape \in BOOLEAN, NEW timing
  PROVE  Fresh(NewSink(format, display, escape, timing), format)
<1> DEFINE s == NewSink(format, display, escape, timing)
<1>1. /\ SinkShape(s) /\ s.format = format /\ s.results = 0 /\ s.rows = 0
      /\ s.active = FALSE /\ s.done = FALSE /\ s.buffer = <<>> /\ s.escape = escape
  BY DEF NewSink, SinkShape
<1> HIDE DEF s
<1>2. IsSeq(<<>>) /\ To("stdout", <<>>)
  <2>1. IsSeq(<<0>>)
    BY SingleIs, Zenon
  <2>2. IsSeq(<<>>)
    BY <2>1, ConcatEmpty, Zenon
  <2>3. To("stdout", <<>>)
    BY DEF To
  <2> QED  BY <2>2, <2>3
<1>3. SinkOk(s)
  BY <1>1, <1>2 DEF SinkOk
<1> QED  BY <1>1, <1>3 DEF s, Fresh

\* What a sink that is dropped now would leave.
LEMMA Stopping ==
  ASSUME PagerInv, StreamInv, phase = "executing", todo = <<>>
  PROVE  IsSeq(out \o sink.buffer) /\ Holds(out \o sink.buffer, sink, served)
<1>1. IsSeq(out) /\ IsSeq(sink.buffer)
  BY DEF StreamInv, SinkOk
<1>2. CASE mode = "shell"
  <2>1. sink.buffer = <<>>
    BY <1>2, PlainBuffer DEF StreamInv
  <2>2. out \o sink.buffer = out
    BY <1>1, <2>1, ConcatEmpty
  <2> QED  BY <1>1, <2>2 DEF StreamInv
<1>3. CASE mode = "script"
  <2>1. Writing(out, <<>>, sink, served, up)
    BY <1>3 DEF StreamInv
  <2>2. Told(out \o sink.buffer, sink, served)
    BY <1>1, <2>1, WrittenOut
  <2> QED  BY <2>2 DEF Told, Holds
<1> QED  BY <1>2, <1>3 DEF PagerInv

LEMMA InitStreams == Init => StreamInv
<1> SUFFICES ASSUME Init
             PROVE  StreamInv
  OBVIOUS
<1>1. /\ SinkOk(sink) /\ sink.results = 0 /\ sink.rows = 0 /\ sink.active = FALSE
      /\ ~sink.done /\ sink.buffer = <<>>
      /\ mode = "shell" => sink.format \in {"table", "expanded"}
  <2>1. CASE mode = "shell"
    <3>1. sink = NewSink("table", 80, TRUE, FALSE)
      BY <2>1 DEF Init, NoSink
    <3>2. "table" \in Forms /\ TRUE \in BOOLEAN
      BY DEF Forms
    <3>3. Fresh(NewSink("table", 80, TRUE, FALSE), "table")
      BY <3>2, NewSinkIs, Zenon
    <3> QED  BY <3>1, <3>3 DEF Fresh
  <2>2. CASE mode # "shell"
    <3>1. PICK format \in {"table", "delimited", "jsonl"}, escape \in BOOLEAN :
            sink = NewSink(format, AutoWidth, escape, FALSE)
      BY <2>2 DEF Init, ScriptSinks
    <3>2. format \in Forms
      BY DEF Forms
    <3>3. Fresh(NewSink(format, AutoWidth, escape, FALSE), format)
      BY <3>2, NewSinkIs, Zenon
    <3> QED  BY <2>2, <3>1, <3>3 DEF Fresh
  <2> QED  BY <2>1, <2>2
<1>2. /\ out = <<>> /\ served = <<>> /\ todo = <<>> /\ quiet = FALSE /\ outcome = "none"
      /\ progress = "none" /\ up = {"stdout", "stderr"} /\ pager.closed = FALSE
      /\ phase \in {"prompt", "executing"} /\ (mode = "script" => phase = "executing")
      /\ "closed" \in DOMAIN pager
  BY DEF Init, NoPager
<1>3. /\ Writing(<<>>, <<>>, sink, <<>>, up) /\ Holds(<<>>, sink, <<>>) /\ IsSeq(<<>>)
  BY <1>1, NothingTold
<1>4. phase \notin {"failed", "closing", "reaping"} /\ progress # "complete" /\ outcome # "ok"
  BY <1>2
<1>5. phase = "executing" =>
        \E given : Writing(given, todo, sink, served, up) /\ (pager.closed \/ given = out)
  BY <1>2, <1>3
<1>6. Holds(out, sink, served) /\ IsSeq(out) /\ IsSeq(served)
  BY <1>2, <1>3
<1> QED  BY <1>1, <1>2, <1>4, <1>5, <1>6 DEF StreamInv

\* At the prompt nothing is remembered, and a statement starts with nothing.
LEMMA PromptKeeps ==
  ASSUME PagerInv, StreamInv,
         Prompt \/ \E display \in Displays : StartStatement(display)
  PROVE  StreamInv'
<1>1. ASSUME NEW name, NEW args, Command(name, args)
      PROVE  /\ phase = "prompt" /\ Forget /\ UNCHANGED <<mode, todo, up>>
             /\ phase' \in {"prompt", "ended"}
  BY <1>1 DEF Command
<1>2. ASSUME NEW n, Submit(n)
      PROVE  phase = "prompt" /\ Forget /\ UNCHANGED <<mode, todo, up>> /\ phase' = "next"
  BY <1>2 DEF Submit
<1>3. ASSUME phase = "prompt", Forget, UNCHANGED <<mode, todo, up>>,
             phase' \in {"prompt", "ended", "next"}
      PROVE  StreamInv'
  <2>1. mode = "shell" /\ todo = <<>> /\ up = {"stdout", "stderr"}
    BY <1>3 DEF PagerInv, StreamInv
  <2>2. /\ out' = <<>> /\ served' = <<>> /\ quiet' = FALSE /\ outcome' = "none"
        /\ sink' = NewSink("table", 80, TRUE, FALSE) /\ "closed" \in DOMAIN pager'
    BY <1>3 DEF Forget, NoSink, NoPager
  <2>3. /\ SinkOk(sink') /\ sink'.format = "table" /\ sink'.results = 0 /\ sink'.rows = 0
        /\ sink'.active = FALSE /\ ~sink'.done /\ sink'.buffer = <<>>
    <3>1. "table" \in Forms /\ TRUE \in BOOLEAN
      BY DEF Forms
    <3>2. Fresh(NewSink("table", 80, TRUE, FALSE), "table")
      BY <3>1, NewSinkIs, Zenon
    <3> QED  BY <2>2, <3>2 DEF Fresh
  <2>4. Holds(<<>>, sink', <<>>) /\ IsSeq(<<>>)
    BY <2>3, NothingTold
  <2>5. phase' \notin {"executing", "failed", "closing", "reaping"} /\ outcome' # "ok"
    BY <1>3, <2>2
  <2>6. Holds(out', sink', served') /\ IsSeq(out') /\ IsSeq(served')
    BY <2>2, <2>4
  <2>7. mode' = "shell" /\ todo' = <<>> /\ up' = {"stdout", "stderr"} /\ ~quiet'
    BY <1>3, <2>1, <2>2
  <2> QED  BY <2>2, <2>3, <2>5, <2>6, <2>7 DEF StreamInv
<1>4. ASSUME NEW display, StartStatement(display)
      PROVE  StreamInv'
  <2>1. /\ mode = "shell" /\ todo = <<>> /\ up = {"stdout", "stderr"}
        /\ UNCHANGED <<mode, todo, up>> /\ phase' = "executing" /\ quiet' = FALSE
        /\ out' = <<>> /\ served' = <<>> /\ progress' = "none"
        /\ "closed" \in DOMAIN pager' /\ pager'.closed = FALSE
    BY <1>4 DEF StartStatement, PagerInv, StreamInv, NoPager
  <2>2. PICK format \in {"table", "expanded"} :
          sink' = NewSink(format, display, TRUE, settings.timing)
    BY <1>4 DEF StartStatement, interactive_sink
  <2>3. /\ SinkOk(sink') /\ sink'.format = format /\ sink'.results = 0 /\ sink'.rows = 0
        /\ sink'.active = FALSE /\ ~sink'.done /\ sink'.buffer = <<>>
    <3>1. format \in Forms /\ TRUE \in BOOLEAN
      BY DEF Forms
    <3>2. Fresh(NewSink(format, display, TRUE, settings.timing), format)
      BY <3>1, NewSinkIs, Zenon
    <3> QED  BY <2>2, <3>2 DEF Fresh
  <2>4. Writing(<<>>, <<>>, sink', <<>>, up) /\ Holds(<<>>, sink', <<>>) /\ IsSeq(<<>>)
    BY <2>3, NothingTold
  <2>5. Writing(out', todo', sink', served', up')
    BY <2>1, <2>4
  <2>6. Holds(out', sink', served') /\ IsSeq(out') /\ IsSeq(served')
    BY <2>1, <2>4
  <2>7. /\ phase' = "executing" /\ mode' = "shell" /\ up' = {"stdout", "stderr"}
        /\ ~quiet' /\ progress' # "complete" /\ sink'.format \in {"table", "expanded"}
    BY <2>1, <2>3
  <2> QED  BY <2>1, <2>3, <2>5, <2>6, <2>7 DEF StreamInv
<1> QED  BY <1>1, <1>2, <1>3, <1>4 DEF Prompt

\* An event that is taken adds its pieces to what is to be written; one that is
\* refused ends the statement with what there is.
LEMMA EmitKeeps ==
  ASSUME PagerInv, StreamInv, Listening, NEW event, NEW more, Emit(event),
         IsSeq(more), LongerOrSame(more, served), served' = more,
         UNCHANGED <<mode, quiet, up, pager, out>>,
         \A stream : Told(stream, sink, served) => Emitted(stream, sink, event, more),
         emit(sink, event).ok /\ progress' = "complete" =>
           emit(sink, event).sink.buffer = <<>>
  PROVE  StreamInv'
<1> DEFINE w == emit(sink, event)
<1>1. /\ phase = "executing" /\ todo = <<>> /\ ~quiet /\ SinkOk(sink)
      /\ IsSeq(sink.buffer) /\ IsSeq(out) /\ IsSeq(served)
  BY DEF Listening, StreamInv, SinkOk
<1>2. CASE w.ok
  <2>1. sink' = w.sink /\ todo' = w.pieces /\ phase' = "executing"
    BY <1>1, <1>2 DEF Emit
  <2>2. PICK given : /\ Writing(given, todo, sink, served, up)
                     /\ pager.closed \/ given = out
    BY <1>1 DEF StreamInv
  <2>3. IsSeq(given) /\ Told(given \o sink.buffer, sink, served)
    BY <1>1, <2>2, WrittenOut
  <2>4. Step(given \o sink.buffer, sink, w, more)
    BY <1>2, <2>3 DEF Emitted
  <2> HIDE DEF w
  <2>0. GoesOn(given, sink, w, more, up)
    BY <1>1, <2>3, <2>4, EmitsOn, Zenon
  <2>5. Writing(given, w.pieces, w.sink, more, up) /\ SinkOk(w.sink)
        /\ w.sink.format = sink.format
    BY <2>0 DEF GoesOn
  <2>6. IsSeq(w.sink.buffer)
    BY <2>5 DEF SinkOk
  <2>7. Holds(out, w.sink, more)
    <3>1. CASE given = out
      BY <2>5, <2>6, <3>1, WritingHolds
    <3>2. CASE pager.closed
      <4>1. sink.format \in {"table", "expanded"}
        BY <3>2 DEF PagerInv, StreamInv
      <4>2. Holds(out, sink, more)
        BY <1>1, LongerHolds DEF StreamInv
      <4> QED  BY <2>5, <4>1, <4>2, SameHolds
    <3> QED  BY <2>2, <3>1, <3>2
  <2>8. progress' = "complete" => w.sink.buffer = <<>>
    BY <1>2 DEF w
  <2>9. Writing(given, todo', sink', served', up') /\ (pager'.closed \/ given = out')
    BY <2>1, <2>2, <2>5
  <2>10. /\ SinkOk(sink') /\ Holds(out', sink', served') /\ IsSeq(out') /\ IsSeq(served')
         /\ sink'.format = sink.format /\ (progress' = "complete" => sink'.buffer = <<>>)
    BY <1>1, <2>1, <2>5, <2>7, <2>8
  <2>11. /\ mode' = "shell" => up' = {"stdout", "stderr"}
                               /\ sink'.format \in {"table", "expanded"}
         /\ mode' = "script" => ~pager'.closed /\ phase' # "reaping"
         /\ ~quiet'
    BY <1>1, <2>1, <2>10 DEF StreamInv
  <2>12. pager'.closed => pager'.process # "none"
    BY <1>1 DEF StreamInv
  <2> QED  BY <2>1, <2>9, <2>10, <2>11, <2>12 DEF StreamInv
<1>3. CASE ~w.ok
  <2>1. phase' = "failed" /\ outcome' = "failed" /\ sink' = sink /\ todo' = <<>>
    BY <1>1, <1>3 DEF Emit
  <2>2. IsSeq(out \o sink.buffer) /\ Holds(out \o sink.buffer, sink, served)
    BY <1>1, Stopping
  <2>3. Holds(out, sink, more) /\ Holds(out \o sink.buffer, sink, more)
    BY <1>1, <2>2, LongerHolds DEF StreamInv
  <2>4. /\ mode' = "shell" => up' = {"stdout", "stderr"}
                              /\ sink'.format \in {"table", "expanded"}
        /\ mode' = "script" => ~pager'.closed /\ phase' # "reaping"
        /\ ~quiet' /\ SinkOk(sink') /\ IsSeq(out') /\ IsSeq(served')
    BY <1>1, <2>1 DEF StreamInv
  <2>5. Holds(out', sink', served') /\ Holds(out' \o sink'.buffer, sink', served')
    BY <2>1, <2>3
  <2>6. phase' # "executing" /\ phase' # "closing"
    BY <2>1
  <2> QED  BY <2>1, <2>4, <2>5, <2>6 DEF StreamInv
<1> QED  BY <1>2, <1>3

LEMMA EventKeeps ==
  ASSUME PagerInv, StreamInv,
         Describe \/ SendRow \/ Complete \/ SendNotice \/ SendError
  PROVE  StreamInv'
<1>1. SinkOk(sink) /\ IsSeq(served) /\ LongerOrSame(served, served)
  BY DEF StreamInv, LongerOrSame
<1>2. CASE Describe
  <2>1. PICK names \in Headers : Emit(Columns(names))
    BY <1>2 DEF Describe
  <2>2. /\ Listening /\ served' = served /\ UNCHANGED <<mode, quiet, up, pager, out>>
        /\ progress' = "rows"
    BY <1>2 DEF Describe, program
  <2>3. \A stream : Told(stream, sink, served)
                    => Emitted(stream, sink, Columns(names), served)
    BY <1>1, ColumnsEmitted
  <2>4. progress' # "complete"
    BY <2>2
  <2> HIDE DEF Emit
  <2> QED  BY <1>1, <2>1, <2>2, <2>3, <2>4, EmitKeeps
<1>3. CASE SendRow
  <2>1. PICK values \in Rows :
          /\ Emit(Row(values))
          /\ served' = Append(served, [result |-> sink.results, cells |-> values])
    BY <1>3 DEF SendRow
  <2>2. /\ Listening /\ progress = "rows" /\ UNCHANGED <<mode, quiet, up, pager, out>>
        /\ progress' = progress
    BY <1>3 DEF SendRow, program, statement
  <2> DEFINE row == RowOf(sink, values)
             more == Append(served, row)
  <2>3. \A stream : Told(stream, sink, served) => Emitted(stream, sink, Row(values), more)
    BY <1>1, RowEmitted
  <2>4. served' = more
    BY <2>1 DEF RowOf
  <2> HIDE DEF row
  <2>5. IsSeq(more)
    <3>1. more = served \o <<row>>
      BY <1>1, AppendIs
    <3> QED  BY <1>1, <3>1, SingleIs, ConcatIs
  <2>6. LongerOrSame(more, served)
    BY DEF LongerOrSame
  <2>7. progress' # "complete"
    BY <2>2
  <2> HIDE DEF more
  <2> QED  BY <2>1, <2>2, <2>3, <2>4, <2>5, <2>6, <2>7, EmitKeeps
<1>4. CASE Complete
  <2>1. PICK rows : Emit(CommandComplete(rows))
    BY <1>4 DEF Complete
  <2>2. Listening /\ served' = served /\ UNCHANGED <<mode, quiet, up, pager, out>>
    BY <1>4 DEF Complete, program
  <2>3. \A stream : Told(stream, sink, served)
                    => Emitted(stream, sink, CommandComplete(rows), served)
    BY <1>1, CompleteEmitted
  <2>4. PICK given : Writing(given, <<>>, sink, served, up)
    BY <2>2 DEF StreamInv, Listening
  <2>5. Told(given \o sink.buffer, sink, served)
    BY <1>1, <2>4, WrittenOut DEF SinkOk
  <2>6. emit(sink, CommandComplete(rows)).ok
          => emit(sink, CommandComplete(rows)).sink.buffer = <<>>
    BY <1>1, <2>5, CompleteEmitted
  <2> QED  BY <1>1, <2>1, <2>2, <2>3, <2>6, EmitKeeps
<1>5. CASE SendNotice
  <2>1. /\ Listening /\ Emit(Notice) /\ served' = served
        /\ UNCHANGED <<mode, quiet, up, pager, out>> /\ progress' = progress
    BY <1>5 DEF SendNotice, program
  <2>2. \A stream : Told(stream, sink, served) => Emitted(stream, sink, Notice, served)
    BY <1>1, NoticeEmitted
  <2>3. PICK given : Writing(given, <<>>, sink, served, up)
    BY <2>1 DEF StreamInv, Listening
  <2>4. Told(given \o sink.buffer, sink, served)
    BY <1>1, <2>3, WrittenOut DEF SinkOk
  <2>5. emit(sink, Notice).ok => emit(sink, Notice).sink = sink
    BY <1>1, <2>4, NoticeEmitted
  <2>6. progress = "complete" => sink.buffer = <<>>
    BY <2>1 DEF StreamInv, Listening
  <2>7. emit(sink, Notice).ok /\ progress' = "complete"
          => emit(sink, Notice).sink.buffer = <<>>
    BY <2>1, <2>5, <2>6
  <2> QED  BY <1>1, <2>1, <2>2, <2>7, EmitKeeps
<1>6. CASE SendError
  <2>1. /\ Listening /\ Emit(Error) /\ served' = served
        /\ UNCHANGED <<mode, quiet, up, pager, out>> /\ progress' = "error"
    BY <1>6 DEF SendError, program
  <2>2. \A stream : Told(stream, sink, served) => Emitted(stream, sink, Error, served)
    BY <1>1, ErrorEmitted
  <2>3. progress' # "complete"
    BY <2>1
  <2> QED  BY <1>1, <2>1, <2>2, <2>3, EmitKeeps
<1> QED  BY <1>2, <1>3, <1>4, <1>5, <1>6

\* A statement ends otherwise than well: what there is, stays.
LEMMA EndKeeps ==
  ASSUME PagerInv, StreamInv, phase = "executing", todo = <<>>,
         phase' \in {"failed", "closing"},
         outcome' # "ok" \/ quiet,
         UNCHANGED <<mode, sink, todo, quiet, up, pager, out, served>>
  PROVE  StreamInv'
<1>1. Holds(out \o sink.buffer, sink, served)
  BY Stopping
<1>2. phase' # "executing" /\ phase' # "ended" /\ phase' # "reaping"
      /\ (phase' = "failed" => phase' \in {"executing", "failed"})
  OBVIOUS
<1> QED  BY <1>1, <1>2 DEF StreamInv

LEMMA StatementKeeps ==
  ASSUME PagerInv, StreamInv, FailSilently \/ Return \/ QuietReturn \/ Signals
  PROVE  StreamInv'
<1>1. CASE FailSilently
  <2>1. /\ phase = "executing" /\ todo = <<>> /\ phase' = "failed" /\ outcome' = "failed"
        /\ UNCHANGED <<mode, sink, todo, quiet, up, pager, out, served>>
    BY <1>1 DEF FailSilently, Listening, program, statement
  <2> QED  BY <2>1, EndKeeps
<1>2. CASE Return
  <2>1. /\ phase = "executing" /\ todo = <<>> /\ progress \in {"complete", "error"}
        /\ UNCHANGED <<mode, sink, todo, quiet, up, pager, out, served>>
    BY <1>2 DEF Return
  <2>2. CASE phase' = "executing"
    <3>1. progress' # "complete"
      BY <1>2, <2>1, <2>2 DEF Return
    <3> QED  BY <2>1, <2>2, <3>1 DEF StreamInv
  <2>3. CASE phase' = "failed"
    <3>1. outcome' = "failed"
      BY <1>2, <2>1, <2>3 DEF Return
    <3> QED  BY <2>1, <2>3, <3>1, EndKeeps
  <2>4. CASE phase' = "closing"
    <3>1. progress = "complete" /\ outcome' = "ok"
      BY <1>2, <2>1, <2>4 DEF Return
    <3>2. sink.buffer = <<>> /\ IsSeq(sink.buffer)
      BY <2>1, <3>1 DEF StreamInv, SinkOk
    <3>3. Holds(out \o sink.buffer, sink, served)
      BY <2>1, Stopping
    <3>4. ~pager.closed => Cardinality(At(out, "row")) = Len(served)
      <4>1. SUFFICES ASSUME ~pager.closed
                     PROVE  Cardinality(At(out, "row")) = Len(served)
        OBVIOUS
      <4>2. Writing(out, <<>>, sink, served, up)
        BY <2>1, <4>1 DEF StreamInv
      <4>3. Told(out \o sink.buffer, sink, served)
        BY <3>2, <4>2, WrittenOut
      <4>4. out \o sink.buffer = out
        BY <3>2, ConcatEmpty DEF StreamInv
      <4> QED  BY <4>3, <4>4 DEF Told
    <3> QED  BY <2>1, <2>4, <3>2, <3>3, <3>4 DEF StreamInv
  <2> QED  BY <1>2, <2>1, <2>2, <2>3, <2>4 DEF Return
<1>3. CASE QuietReturn
  <2>1. /\ phase = "executing" /\ quiet /\ phase' \in {"closing", "failed"}
        /\ UNCHANGED <<mode, sink, todo, quiet, up, pager, out, served>>
    BY <1>3 DEF QuietReturn, program, statement
  <2>2. todo = <<>>
    BY <2>1 DEF StreamInv
  <2> QED  BY <2>1, <2>2, EndKeeps
<1>4. CASE Interrupt
  <2>1. /\ mode = "shell" /\ phase = "executing" /\ todo = <<>> /\ quiet' = TRUE
        /\ UNCHANGED <<mode, phase, sink, todo, progress, outcome, up, pager, out, served>>
    BY <1>4 DEF Interrupt, Listening, program
  <2> QED  BY <2>1 DEF StreamInv
<1>5. CASE Terminate
  <2>1. /\ phase = "executing" /\ todo = <<>> /\ phase' = "closing"
        /\ outcome' = "terminated"
        /\ UNCHANGED <<mode, sink, todo, quiet, up, pager, out, served>>
    BY <1>5 DEF Terminate, program, statement
  <2> QED  BY <2>1, EndKeeps
<1>6. CASE Killed
  <2>1. /\ mode = "script" /\ phase' = "ended" /\ outcome' = "killed"
        /\ UNCHANGED <<mode, sink, todo, quiet, up, pager, out, served>>
    BY <1>6 DEF Killed, program, statement
  <2> QED  BY <2>1 DEF StreamInv
<1> QED  BY <1>1, <1>2, <1>3, <1>4, <1>5, <1>6 DEF Signals

\* A write goes to the stream it is for; a pager that has left takes it in silence.
LEMMA WriteKeeps ==
  ASSUME PagerInv, StreamInv, Write
  PROVE  StreamInv'
<1>1. /\ phase = "executing" /\ todo # <<>> /\ todo' = Tail(todo) /\ phase' = phase
      /\ UNCHANGED <<mode, sink, quiet, progress, outcome, up, served>>
  BY DEF Write, program, statement
<1>2. PICK given : Writing(given, todo, sink, served, up) /\ (pager.closed \/ given = out)
  BY <1>1 DEF StreamInv
<1>3. IsSeq(sink.buffer) /\ IsSeq(out)
  BY DEF StreamInv, SinkOk
<1>4. Head(todo).to \in {"stdout", "stderr"}
  <2>1. PICK shown, noted :
          /\ IsSeq(shown) /\ IsSeq(noted) /\ To("stdout", shown) /\ To("stderr", noted)
          /\ todo = shown \o noted
    BY <1>2 DEF Writing
  <2> QED  BY <1>1, <2>1, NextPiece
<1>5. /\ pager.closed => pager'.closed /\ pager.process # "none"
      /\ "closed" \in DOMAIN pager' /\ pager'.process = pager.process
      /\ pager.closed \/ pager'.closed => pager.process # "none"
  <2>1. "closed" \in DOMAIN pager /\ (pager.closed => pager.process # "none")
    BY <1>1 DEF StreamInv
  <2>2. CASE WriteToPager(Head(todo))
    <3>1. pager.process # "none"
      BY <2>2 DEF WriteToPager
    <3>2. CASE pager' = [pager EXCEPT !.closed = TRUE]
      BY <2>1, <3>1, <3>2
    <3>3. CASE ~pager.closed /\ pager' = [pager EXCEPT !.unread = @ + 1]
      <4>1. "closed" \in DOMAIN pager' /\ pager'.process = pager.process
        BY <2>1, <3>3
      <4> QED  BY <3>1, <3>3, <4>1
    <3> QED  BY <2>2, <3>2, <3>3 DEF WriteToPager
  <2>3. CASE pager' = pager
    BY <2>1, <2>3
  <2> QED  BY <2>2, <2>3 DEF Write, WriteToStream
<1>6. ASSUME NEW after, Writing(after, todo', sink, served, up),
             pager'.closed \/ after = out', out' \in {out, after}
      PROVE  StreamInv'
  <2>1. Writing(after, todo', sink', served', up') /\ (pager'.closed \/ after = out')
    BY <1>1, <1>6
  <2>2. Holds(out', sink', served') /\ IsSeq(out')
    <3>1. Holds(after, sink, served) /\ IsSeq(after)
      BY <1>3, <1>6, WritingHolds
    <3>2. Holds(out, sink, served)
      BY DEF StreamInv
    <3> QED  BY <1>1, <1>3, <1>6, <3>1, <3>2
  <2>3. mode' = "script" => ~pager'.closed
    <3>1. CASE mode = "script"
      <4>1. pager.process = "none" /\ ~pager.closed
        BY <3>1 DEF PagerInv, StreamInv
      <4>2. pager' = pager
        BY <4>1 DEF Write, WriteToPager, WriteToStream
      <4> QED  BY <4>1, <4>2
    <3> QED  BY <1>1, <3>1
  <2>4. ~quiet
    BY <1>1 DEF StreamInv
  <2>5. phase' = "executing" /\ phase' \notin {"ended", "failed", "closing", "reaping"}
    BY <1>1
  <2>6. progress' = "complete" => sink'.buffer = <<>>
    BY <1>1 DEF StreamInv
  <2>7. /\ SinkOk(sink') /\ IsSeq(served') /\ ~quiet'
        /\ mode' = "shell" => up' = {"stdout", "stderr"}
                              /\ sink'.format \in {"table", "expanded"}
    BY <1>1, <2>4 DEF StreamInv
  <2>8. "closed" \in DOMAIN pager' /\ (pager'.closed => pager'.process # "none")
    BY <1>5
  <2> QED  BY <2>1, <2>2, <2>3, <2>5, <2>6, <2>7, <2>8 DEF StreamInv
<1>7. CASE Head(todo).to = "stdout"
  <2>1. "stdout" \in up
    <3>1. CASE mode = "shell"
      BY <3>1 DEF StreamInv
    <3>2. CASE mode = "script"
      <4>1. pager.process = "none"
        BY <3>2 DEF PagerInv
      <4> QED  BY <1>7, <4>1 DEF Write, WriteToPager, WriteToStream
    <3> QED  BY <3>1, <3>2 DEF PagerInv
  <2> DEFINE after == Append(given, Head(todo))
  <2>2. Writing(after, Tail(todo), sink, served, up)
    BY <1>1, <1>2, <1>3, <1>7, <2>1, ShownNext
  <2>3. \/ out' = Append(out, Head(todo)) /\ ~pager.closed
        \/ out' = out /\ pager'.closed
    <3>1. CASE WriteToPager(Head(todo))
      <4>1. "closed" \in DOMAIN pager
        BY DEF StreamInv
      <4> QED  BY <3>1, <4>1 DEF WriteToPager, Given
    <3>2. CASE pager.process = "none" /\ WriteToStream(Head(todo))
      BY <1>5, <1>7, <3>2 DEF WriteToStream, Given
    <3> QED  BY <1>7, <3>1, <3>2 DEF Write
  <2>4. CASE out' = Append(out, Head(todo)) /\ ~pager.closed
    <3>1. after = out'
      BY <1>2, <2>4
    <3> HIDE DEF after
    <3> QED  BY <1>1, <1>6, <2>2, <3>1
  <2>5. CASE out' = out /\ pager'.closed
    <3> HIDE DEF after
    <3> QED  BY <1>1, <1>6, <2>2, <2>5
  <2> QED  BY <2>3, <2>4, <2>5
<1>8. CASE Head(todo).to = "stderr"
  <2>1. Writing(given, Tail(todo), sink, served, up)
    BY <1>1, <1>2, <1>3, <1>8, NotedNext
  <2>2. out' = out /\ UNCHANGED pager
    <3>1. "stderr" # "stdout"
      OBVIOUS
    <3> QED  BY <1>8, <3>1 DEF Write, WriteToStream
  <2> QED  BY <1>1, <1>2, <1>6, <2>1, <2>2
<1> QED  BY <1>4, <1>7, <1>8

LEMMA WritingEndKeeps ==
  ASSUME PagerInv, StreamInv,
         \/ WriteFails \/ Pager
         \/ \E stream \in {"stdout", "stderr"} : CloseStream(stream)
  PROVE  StreamInv'
<1>1. IsSeq(sink.buffer) /\ IsSeq(out)
  BY DEF StreamInv, SinkOk
<1>2. CASE WriteFails
  <2>1. /\ phase = "executing" /\ todo # <<>> /\ Head(todo).to \notin up
        /\ phase' = "failed" /\ outcome' = "failed" /\ todo' = <<>>
        /\ UNCHANGED <<mode, sink, quiet, up, pager, out, served>>
    BY <1>2 DEF WriteFails, program, statement
  <2>2. PICK given : Writing(given, todo, sink, served, up) /\ (pager.closed \/ given = out)
    BY <2>1 DEF StreamInv
  <2>3. Head(todo).to \in {"stdout", "stderr"}
    <3>1. PICK shown, noted :
            /\ IsSeq(shown) /\ IsSeq(noted) /\ To("stdout", shown) /\ To("stderr", noted)
            /\ todo = shown \o noted
      BY <2>2 DEF Writing
    <3> QED  BY <2>1, <3>1, NextPiece
  <2>4. mode = "script" /\ given = out
    <3>1. mode # "shell"
      BY <2>1, <2>3 DEF StreamInv
    <3>2. mode = "script"
      BY <3>1 DEF PagerInv
    <3> QED  BY <2>2, <3>2 DEF StreamInv
  <2>5. "stdout" \in up => Holds(out \o sink.buffer, sink, served)
    <3>1. SUFFICES ASSUME "stdout" \in up
                   PROVE  Holds(out \o sink.buffer, sink, served)
      OBVIOUS
    <3>2. Head(todo).to = "stderr"
      BY <2>1, <2>3, <3>1
    <3>3. Told(out \o sink.buffer, sink, served)
      BY <1>1, <2>1, <2>2, <2>4, <3>2, NotedNext
    <3> QED  BY <3>3 DEF Told, Holds
  <2>6. phase' \notin {"executing", "ended", "closing", "reaping"} /\ ~quiet
    BY <2>1 DEF StreamInv
  <2> QED  BY <2>1, <2>5, <2>6 DEF StreamInv
<1>3. CASE Pager
  <2>1. /\ UNCHANGED <<mode, phase, sink, todo, progress, quiet, outcome, up, out, served>>
        /\ pager'.closed = pager.closed /\ "closed" \in DOMAIN pager'
        /\ pager'.process = "none" => pager.process = "none"
    <3>1. "closed" \in DOMAIN pager
      BY DEF StreamInv
    <3>2. CASE PagerReads
      BY <3>1, <3>2 DEF PagerReads, program, statement
    <3>3. CASE PagerLeaves
      <4>1. pager'.process \in {"exited", pager.process}
        BY <3>3 DEF PagerLeaves
      <4>2. pager.process = "running" /\ "exited" # "none"
        BY <3>3 DEF PagerLeaves
      <4>3. pager'.process # "none"
        BY <4>1, <4>2
      <4> QED  BY <3>1, <3>3, <4>3 DEF PagerLeaves, program, statement
    <3> QED  BY <1>3, <3>2, <3>3 DEF Pager
  <2> QED  BY <2>1 DEF StreamInv
<1>4. ASSUME NEW stream \in {"stdout", "stderr"}, CloseStream(stream)
      PROVE  StreamInv'
  <2>1. /\ mode = "script" /\ phase # "ended" /\ stream \in up /\ up' = up \ {stream}
        /\ UNCHANGED <<mode, phase, sink, todo, progress, quiet, outcome, pager, served>>
    BY <1>4 DEF CloseStream, program, statement
  <2>2. /\ ~pager.closed /\ ~quiet /\ phase # "reaping"
        /\ phase # "executing" => todo = <<>>
    BY <2>1 DEF StreamInv
  <2>3. CASE phase = "executing"
    <3>1. Writing(out, todo, sink, served, up)
      BY <2>2, <2>3 DEF StreamInv
    <3>2. Writing(out', todo, sink, served, up')
      <4>1. CASE out' = out
        BY <2>1, <3>1, <4>1, StreamCloses
      <4>2. CASE out' # out
        <5>1. /\ stream = "stdout" /\ todo # <<>> /\ Head(todo).to = "stdout"
              /\ out' = Append(out, [Head(todo) EXCEPT !.kind = "torn"])
          BY <1>4, <4>2 DEF CloseStream
        <5> QED  BY <1>1, <2>1, <3>1, <5>1, TornOff
      <4> QED  BY <4>1, <4>2
    <3>3. Holds(out', sink, served) /\ IsSeq(out')
      BY <1>1, <3>2, WritingHolds
    <3>4. Writing(out', todo', sink', served', up')
      BY <2>1, <3>2
    <3>5. phase' \notin {"ended", "failed", "closing", "reaping"} /\ mode' # "shell"
      BY <2>1, <2>3
    <3> QED  BY <2>1, <2>2, <2>3, <3>3, <3>4, <3>5 DEF StreamInv
  <2>4. CASE phase # "executing"
    <3>1. out' = out
      BY <1>4, <2>2, <2>4 DEF CloseStream
    <3>2. "stdout" \in up' => "stdout" \in up
      BY <2>1
    <3>3. mode' # "shell"
      BY <2>1
    <3> QED  BY <2>1, <2>2, <2>4, <3>1, <3>2, <3>3 DEF StreamInv
  <2> QED  BY <2>3, <2>4
<1> QED  BY <1>2, <1>3, <1>4

\* The end of a sink writes what it kept back.
LEMMA ClosingKeeps ==
  ASSUME PagerInv, StreamInv, Report \/ DropSink \/ Reap
  PROVE  StreamInv'
<1>1. CASE Report
  <2>1. /\ phase = "failed" /\ phase' = "closing"
        /\ UNCHANGED <<mode, sink, todo, progress, quiet, outcome, up, pager, out, served>>
    BY <1>1 DEF Report, program, statement
  <2>2. outcome # "ok" \/ quiet
    BY <2>1 DEF StreamInv
  <2> QED  BY <2>1, <2>2 DEF StreamInv
<1>2. CASE DropSink
  <2>1. /\ phase = "closing"
        /\ out' = IF "stdout" \in up THEN out \o sink.buffer ELSE out
        /\ sink' = [sink EXCEPT !.buffer = <<>>]
        /\ UNCHANGED <<mode, todo, progress, quiet, outcome, up, pager, served>>
    BY <1>2 DEF DropSink, program, statement
  <2>2. phase' \in {"prompt", "next", "ended", "reaping"}
        /\ (mode = "script" => phase' = "ended")
    BY <1>2 DEF DropSink, Proceeds, PagerInv
  <2>3. SinkOk(sink) /\ IsSeq(out) /\ IsSeq(sink.buffer) /\ todo = <<>>
    BY <2>1 DEF StreamInv, SinkOk
  <2>4. SinkOk(sink') /\ sink'.format = sink.format /\ sink'.escape = sink.escape
    <3>1. IsSeq(<<>>) /\ To("stdout", <<>>)
      BY <2>3, ConcatEmpty DEF To
    <3>2. /\ SinkShape(sink') /\ sink'.format = sink.format /\ sink'.escape = sink.escape
          /\ sink'.buffer = <<>>
      BY <2>1, <2>3 DEF SinkOk, SinkShape
    <3> QED  BY <2>3, <3>1, <3>2 DEF SinkOk
  <2>5. IsSeq(out') /\ Holds(out', sink, served)
    <3>1. CASE "stdout" \in up
      BY <2>1, <2>3, <3>1, ConcatIs DEF StreamInv
    <3>2. CASE "stdout" \notin up
      BY <2>1, <3>2 DEF StreamInv
    <3> QED  BY <3>1, <3>2
  <2>6. Holds(out', sink', served)
    BY <2>4, <2>5, SameHolds
  <2>7. outcome = "ok" /\ ~quiet /\ ~pager.closed
          => Cardinality(At(out', "row")) = Len(served)
    <3>1. SUFFICES ASSUME outcome = "ok", ~quiet, ~pager.closed
                   PROVE  Cardinality(At(out', "row")) = Len(served)
      OBVIOUS
    <3>2. sink.buffer = <<>> /\ Cardinality(At(out, "row")) = Len(served)
      BY <2>1, <3>1 DEF StreamInv
    <3>3. out' = out
      BY <2>1, <2>3, <3>2, ConcatEmpty
    <3> QED  BY <3>2, <3>3
  <2>8. /\ mode' = "shell" => up' = {"stdout", "stderr"}
                              /\ sink'.format \in {"table", "expanded"}
        /\ mode' = "script" => ~pager'.closed /\ phase' # "reaping"
        /\ quiet' => mode' = "shell" /\ todo' = <<>>
        /\ "closed" \in DOMAIN pager' /\ IsSeq(served')
    BY <2>1, <2>2, <2>4 DEF StreamInv
  <2>9. Holds(out', sink', served') /\ todo' = <<>>
    BY <2>1, <2>3, <2>6
  <2>10. outcome' = "ok" /\ ~quiet' /\ ~pager'.closed
           => Cardinality(At(out', "row")) = Len(served')
    BY <2>1, <2>7
  <2>11. phase' \notin {"executing", "failed", "closing"}
    BY <2>2
  <2> QED  BY <2>4, <2>5, <2>8, <2>9, <2>10, <2>11 DEF StreamInv
<1>3. CASE Reap
  <2>1. /\ phase = "reaping" /\ pager' = [NoPager EXCEPT !.closed = pager.closed]
        /\ UNCHANGED <<mode, sink, todo, progress, quiet, outcome, up, out, served>>
        /\ phase' \in {"prompt", "next", "ended"}
    BY <1>3 DEF Reap, Proceeds, program, statement
  <2>2. pager'.closed = pager.closed /\ "closed" \in DOMAIN pager'
    BY <2>1 DEF NoPager
  <2>3. mode # "script"
    BY <2>1 DEF StreamInv
  <2>4. phase' \notin {"executing", "failed", "closing"}
    BY <2>1
  <2> QED  BY <2>1, <2>2, <2>3, <2>4 DEF StreamInv
<1> QED  BY <1>1, <1>2, <1>3

LEMMA StreamsStay == PagerInv /\ StreamInv /\ [Next]_vars => StreamInv'
<1> SUFFICES ASSUME PagerInv, StreamInv, [Next]_vars
             PROVE  StreamInv'
  OBVIOUS
<1>1. CASE UNCHANGED vars
  BY <1>1 DEF StreamInv, vars, program, statement
<1>2. CASE Prompt \/ \E display \in Displays : StartStatement(display)
  BY <1>2, PromptKeeps
<1>3. CASE Describe \/ SendRow \/ Complete \/ SendNotice \/ SendError
  BY <1>3, EventKeeps
<1>4. CASE FailSilently \/ Return \/ QuietReturn \/ Signals
  BY <1>4, StatementKeeps
<1>5. CASE Write
  BY <1>5, WriteKeeps
<1>6. CASE WriteFails \/ Pager \/ \E stream \in {"stdout", "stderr"} : CloseStream(stream)
  BY <1>6, WritingEndKeeps
<1>7. CASE Report \/ DropSink \/ Reap
  BY <1>7, ClosingKeeps
<1> QED  BY <1>1, <1>2, <1>3, <1>4, <1>5, <1>6, <1>7 DEF Next, Server, Progress

LEMMA StreamsHold == Spec => [](PagerInv /\ StreamInv)
BY PagerStarts, PagerStays, InitStreams, StreamsStay, PTL DEF Spec

\* Whatever the sinks of src/output have written at any moment, whole or cut short by
\* a signal, a failure or a reader that went away, is framed: numbered results, rows
\* of their width inside of them, true counts, one end.
THEOREM StreamsAreFramed == Spec => []StreamIsFramed
<1>1. StreamInv => StreamIsFramed
  BY DEF StreamInv, Holds, StreamIsFramed
<1> QED  BY <1>1, StreamsHold, PTL

\* The rows that emit wrote are the rows the server sent, in order, none left out or
\* doubled, with values a reader gets back; after a success there are no others.
THEOREM OutputsAreFaithful == Spec => []OutputIsFaithful
<1>1. StreamInv => OutputIsFaithful
  <2>1. SUFFICES ASSUME StreamInv
                 PROVE  OutputIsFaithful
    OBVIOUS
  <2>2. Faithful(out, sink, served)
    BY <2>1 DEF StreamInv, Holds
  <2>3. phase \in {"prompt", "ended"} /\ outcome = "ok" /\ ~quiet /\ ~pager.closed
          => Cardinality(At(out, "row")) = Len(served)
    BY <2>1 DEF StreamInv
  <2> QED  BY <2>2, <2>3 DEF OutputIsFaithful
<1> QED  BY <1>1, StreamsHold, PTL

-----------------------------------------------------------------------------
(***************************************************************************)
(* The width of a text, and of what escaping makes of it.                  *)
(***************************************************************************)
\* The characters of the data, and those that escaping and cutting write: the latter
\* are strings as well, which the provers cannot tell of a literal.
Characters ==
  STRING \cup {"\\", "n", "r", "t", "u", "{", "0", "7", "}", ".", " ", "-", "N", "U", "L"}

\* What a terminal takes as text.
Visible == Characters \ Controls

\* What flattening makes of members of a set closed under concatenation.
LEMMA FlattenIn ==
  ASSUME NEW T, NEW seqs \in Seq(T), <<>> \in T, \A s, t \in T : s \o t \in T
  PROVE  FlattenSeq(seqs) \in T
<1> DEFINE n == Len(seqs)
           f == CHOOSE f : f = [i \in 1 .. n |->
                  IF i = 1 THEN seqs[i] ELSE f[i - 1] \o seqs[i]]
<1>1. FlattenSeq(seqs) = IF n = 0 THEN seqs ELSE f[n]
  BY DEF FlattenSeq
<1>2. n \in Nat /\ \A i \in 1 .. n : seqs[i] \in T
  OBVIOUS
<1>3. n = 0 => seqs = <<>>
  OBVIOUS
<1>4. Flattens(seqs, f, n)
  BY <1>2, FlattensSome DEF Flattens
<1> HIDE DEF f
<1>5. \A i \in 1 .. n : f[i] = IF i = 1 THEN seqs[i] ELSE f[i - 1] \o seqs[i]
  BY <1>4 DEF Flattens
<1> HIDE DEF n
<1> DEFINE S == {k \in Nat : k \in 1 .. n => f[k] \in T}
<1>6. 0 \in S
  OBVIOUS
<1>7. ASSUME NEW k \in Nat, k \in S
      PROVE  k + 1 \in S
  <2> SUFFICES ASSUME k + 1 \in 1 .. n
               PROVE  f[k + 1] \in T
    OBVIOUS
  <2>1. CASE k = 0
    BY <1>2, <1>5, <2>1
  <2>2. CASE k # 0
    <3>1. k + 1 # 1 /\ k + 1 - 1 = k /\ k \in 1 .. n
      BY <1>2, <2>2
    <3>2. f[k + 1] = f[k] \o seqs[k + 1]
      <4>1. f[k + 1] = IF k + 1 = 1 THEN seqs[k + 1] ELSE f[k + 1 - 1] \o seqs[k + 1]
        BY <1>5
      <4> QED  BY <3>1, <4>1
    <3>3. f[k] \in T /\ seqs[k + 1] \in T
      BY <1>2, <1>7, <3>1
    <3> QED  BY <3>2, <3>3
  <2> QED  BY <2>1, <2>2
<1> HIDE DEF S
<1>8. Nat \subseteq S
  BY <1>6, <1>7, SetInduction
<1>9. n # 0 => f[n] \in T
  BY <1>2, <1>8 DEF S
<1> QED  BY <1>1, <1>3, <1>9

\* Escaping leaves no control character.
LEMMA EscapeVisible ==
  ASSUME NEW text \in Seq(Characters)
  PROVE  escape_terminal_text(text) \in Seq(Visible)
<1> DEFINE parts == [i \in DOMAIN text |-> EscapeChar(text[i])]
           T == Seq(Visible)
<1>1. \A c \in {"\\", "n", "r", "t", "u", "{", "0", "7", "}"} : c \in Visible
  BY Zenon DEF Visible, Characters, Controls, Control
<1>2. \A x, y \in Visible : <<x, y>> \in T
  OBVIOUS
<1>3. \A x \in Visible : <<x>> \in T
  OBVIOUS
<1>4. \A a, b, c, d, e \in Visible : <<a, b, c, d, d, d, e, a>> \in T
  OBVIOUS
<1>5. <<"\\", "u", "{", "0", "0", "0", "7", "}">> \in T
  <2>1. \A a, b, c, d, e, g \in Visible : <<a, b, c, d, d, d, e, g>> \in T
    OBVIOUS
  <2> HIDE DEF T
  <2> QED  BY <1>1, <2>1, Zenon
<1> HIDE DEF T
<1>6. ASSUME NEW c \in Characters
      PROVE  EscapeChar(c) \in T
  <2>1. CASE c = "\n"
    <3>1. <<"\\", "n">> \in T
      BY <1>1, <1>2, Zenon
    <3>2. EscapeChar(c) = <<"\\", "n">>
      BY <2>1, Zenon DEF EscapeChar, Control
    <3> QED  BY <3>1, <3>2, Zenon
  <2>2. CASE c = "\r"
    <3>1. <<"\\", "r">> \in T
      BY <1>1, <1>2, Zenon
    <3>2. EscapeChar(c) = <<"\\", "r">>
      BY <2>2, Zenon DEF EscapeChar, Control
    <3> QED  BY <3>1, <3>2, Zenon
  <2>3. CASE c = "\t"
    <3>1. <<"\\", "t">> \in T
      BY <1>1, <1>2, Zenon
    <3>2. EscapeChar(c) = <<"\\", "t">>
      BY <2>3, Zenon DEF EscapeChar, Control
    <3> QED  BY <3>1, <3>2, Zenon
  <2>4. CASE c = Control
    <3>1. EscapeChar(c) = <<"\\", "u", "{", "0", "0", "0", "7", "}">>
      BY <2>4, Zenon DEF EscapeChar, Control
    <3> QED  BY <1>5, <3>1, Zenon
  <2>5. CASE c \notin Controls
    <3>1. c # "\n" /\ c # "\r" /\ c # "\t" /\ c # Control
      BY <2>5, Zenon DEF Controls
    <3>2. EscapeChar(c) = <<c>>
      BY <3>1, Zenon DEF EscapeChar
    <3>3. c \in Visible
      BY <2>5, Zenon DEF Visible
    <3> QED  BY <1>3, <3>2, <3>3, Zenon
  <2> QED  BY <2>1, <2>2, <2>3, <2>4, <2>5, Zenon DEF Controls
<1>7. parts \in Seq(T)
  <2>1. \A i \in DOMAIN text : EscapeChar(text[i]) \in T
    <3>1. \A i \in DOMAIN text : text[i] \in Characters
      OBVIOUS
    <3> QED  BY <1>6, <3>1, Zenon
  <2> QED  BY <2>1
<1>8. FlattenSeq(parts) \in T
  <2>1. <<>> \in T /\ \A s, t \in T : s \o t \in T
    BY DEF T
  <2> QED  BY <1>7, <2>1, FlattenIn
<1> QED  BY <1>8 DEF escape_terminal_text, T

\* The places of characters of a kind.
Places(text, kind) == {k \in DOMAIN text : text[k] \in kind}

\* There are finitely many of them.
LEMMA PlacesFinite ==
  ASSUME NEW X, NEW text \in Seq(X), NEW kind
  PROVE  IsFiniteSet(Places(text, kind)) /\ Cardinality(Places(text, kind)) \in Nat
<1>1. Places(text, kind) \subseteq 1 .. Len(text)
  BY DEF Places
<1>2. IsFiniteSet(1 .. Len(text))
  BY FS_Interval
<1>3. IsFiniteSet(Places(text, kind))
  BY <1>1, <1>2, FS_Subset
<1> QED  BY <1>3, FS_CardinalityType

\* Those of two texts are those of the one and those of the other.
LEMMA PlacesConcat ==
  ASSUME NEW X, NEW s \in Seq(X), NEW t \in Seq(X), NEW kind
  PROVE  Cardinality(Places(s \o t, kind)) =
           Cardinality(Places(s, kind)) + Cardinality(Places(t, kind))
<1> DEFINE m == Len(s)
           A == Places(s, kind)
           B == Places(t, kind)
           Q == {k \in m + 1 .. m + Len(t) : t[k - m] \in kind}
           f == [k \in B |-> k + m]
<1>1. m \in Nat /\ Len(t) \in Nat /\ DOMAIN s = 1 .. m /\ DOMAIN t = 1 .. Len(t)
  OBVIOUS
<1>2. Places(s \o t, kind) = A \cup Q
  <2>1. DOMAIN (s \o t) = 1 .. m + Len(t)
    OBVIOUS
  <2>2. \A k \in 1 .. m : (s \o t)[k] = s[k]
    OBVIOUS
  <2>3. \A k \in m + 1 .. m + Len(t) : (s \o t)[k] = t[k - m]
    OBVIOUS
  <2>4. \A k : k \in 1 .. m + Len(t) <=> k \in 1 .. m \/ k \in m + 1 .. m + Len(t)
    BY <1>1
  <2> HIDE DEF m
  <2> QED  BY <1>1, <2>1, <2>2, <2>3, <2>4 DEF Places
<1>3. A \cap Q = {}
  BY <1>1 DEF Places
<1>4. f \in Bijection(B, Q)
  <2>1. f \in [B -> Q]
    BY <1>1 DEF Places
  <2>2. \A a, b \in B : f[a] = f[b] => a = b
    BY <1>1 DEF Places
  <2>3. \A q \in Q : \E b \in B : f[b] = q
    <3> TAKE q \in Q
    <3>1. q - m \in B /\ f[q - m] = q
      BY <1>1 DEF Places
    <3> QED  BY <3>1
  <2> HIDE DEF f, Q, B
  <2> QED  BY <2>1, <2>2, <2>3, Zenon DEF Bijection, Injection, Surjection, IsInjective
<1>5. IsFiniteSet(A) /\ IsFiniteSet(B)
  BY PlacesFinite
<1> HIDE DEF A, B, Q, f
<1>6. ExistsBijection(B, Q)
  BY <1>4 DEF ExistsBijection
<1>7. IsFiniteSet(Q) /\ Cardinality(Q) = Cardinality(B)
  BY <1>5, <1>6, FS_Bijection
<1>8. Cardinality(A \cup Q) = Cardinality(A) + Cardinality(Q) - Cardinality(A \cap Q)
  BY <1>5, <1>7, FS_Union
<1>9. Cardinality(A \cap Q) = 0
  BY <1>3, FS_EmptySet
<1>10. Cardinality(A) \in Nat /\ Cardinality(B) \in Nat
  BY <1>5, FS_CardinalityType
<1> QED  BY <1>2, <1>7, <1>8, <1>9, <1>10 DEF A, B

\* The width by characters counts the places of those that have one, the wide ones
\* twice.
LEMMA WidthIs ==
  ASSUME NEW text \in Seq(Characters)
  PROVE  /\ CharsWidth(text) = Cardinality(Places(text, Characters \ {Combining, Selector}))
                               + Cardinality(Places(text, {Wide}))
         /\ CharsWidth(text) \in Nat
<1> DEFINE a == Cardinality(Places(text, Characters \ {Combining, Selector}))
           b == Cardinality(Places(text, {Wide}))
<1>1. {k \in DOMAIN text : text[k] \notin {Combining, Selector}}
        = Places(text, Characters \ {Combining, Selector})
  BY DEF Places
<1>2. {k \in DOMAIN text : text[k] = Wide} = Places(text, {Wide})
  BY DEF Places
<1>3. a \in Nat /\ b \in Nat
  BY PlacesFinite
<1>4. CharsWidth(text) = a + b
  BY <1>1, <1>2, Zenon DEF CharsWidth
<1> HIDE DEF a, b
<1>5. CharsWidth(text) \in Nat
  BY <1>3, <1>4
<1> QED  BY <1>4, <1>5 DEF a, b

\* Texts beside each other take the room of both.
LEMMA WidthConcat ==
  ASSUME NEW s \in Seq(Characters), NEW t \in Seq(Characters)
  PROVE  s \o t \in Seq(Characters) /\ CharsWidth(s \o t) = CharsWidth(s) + CharsWidth(t)
<1>1. s \o t \in Seq(Characters)
  OBVIOUS
<1> DEFINE narrow(u) == Cardinality(Places(u, Characters \ {Combining, Selector}))
           wide(u) == Cardinality(Places(u, {Wide}))
<1>2. \A u \in Seq(Characters) : narrow(u) \in Nat /\ wide(u) \in Nat
  BY PlacesFinite
<1>3. \A u \in Seq(Characters) : CharsWidth(u) = narrow(u) + wide(u)
  BY WidthIs, Zenon
<1>4. narrow(s \o t) = narrow(s) + narrow(t) /\ wide(s \o t) = wide(s) + wide(t)
  <2>1. \A kind : Cardinality(Places(s \o t, kind)) =
                    Cardinality(Places(s, kind)) + Cardinality(Places(t, kind))
    BY PlacesConcat
  <2> QED  BY <2>1, Zenon
<1> HIDE DEF narrow, wide
<1>5. CharsWidth(s \o t) = narrow(s \o t) + wide(s \o t)
  BY <1>1, <1>3
<1>6. CharsWidth(s) = narrow(s) + wide(s) /\ CharsWidth(t) = narrow(t) + wide(t)
  BY <1>3
<1> QED  BY <1>1, <1>2, <1>4, <1>5, <1>6

\* A run of plain characters is as wide as it is long.
LEMMA PlainWidth ==
  ASSUME NEW c \in Visible, c \notin {Combining, Selector}, c # Wide, NEW n \in Nat
  PROVE  /\ [i \in 1 .. n |-> c] \in Seq(Visible)
         /\ Len([i \in 1 .. n |-> c]) = n
         /\ CharsWidth([i \in 1 .. n |-> c]) = n
<1> DEFINE text == [i \in 1 .. n |-> c]
<1>1. text \in Seq(Visible) /\ Len(text) = n /\ DOMAIN text = 1 .. n
  OBVIOUS
<1>2. \A i \in 1 .. n : text[i] = c
  OBVIOUS
<1> HIDE DEF text
<1>3. {k \in DOMAIN text : text[k] \notin {Combining, Selector}} = 1 .. n
  BY <1>1, <1>2
<1>4. {k \in DOMAIN text : text[k] = Wide} = {}
  BY <1>1, <1>2
<1>5. Cardinality(1 .. n) = n /\ Cardinality({}) = 0
  BY FS_Interval, FS_EmptySet
<1>6. CharsWidth(text) = n + 0
  BY <1>3, <1>4, <1>5, Zenon DEF CharsWidth
<1> QED  BY <1>1, <1>6 DEF text

\* A text is as wide as its characters and its widened emoji.
LEMMA WholeWidth ==
  ASSUME NEW text \in Seq(Characters)
  PROVE  /\ Width(text) = CharsWidth(text) + Cardinality(Widened(text))
         /\ CharsWidth(text) \in Nat /\ Width(text) \in Nat
         /\ Cardinality(Widened(text)) \in Nat /\ CharsWidth(text) <= Width(text)
<1>1. Widened(text) \subseteq 1 .. Len(text) /\ IsFiniteSet(1 .. Len(text))
  <2>1. DOMAIN text = 1 .. Len(text) /\ Len(text) \in Nat
    OBVIOUS
  <2>2. Widened(text) \subseteq DOMAIN text
    BY Zenon DEF Widened
  <2> QED  BY <2>1, <2>2, FS_Interval
<1>2. Cardinality(Widened(text)) \in Nat
  BY <1>1, FS_Subset, FS_CardinalityType
<1>3. CharsWidth(text) \in Nat
  BY WidthIs
<1>4. Width(text) = CharsWidth(text) + Cardinality(Widened(text))
  BY DEF Width
<1> QED  BY <1>2, <1>3, <1>4

\* Nothing takes no room.
LEMMA EmptyWidth == <<>> \in Seq(Characters) /\ CharsWidth(<<>>) = 0
<1>1. {k \in DOMAIN <<>> : <<>>[k] \notin {Combining, Selector}} = {}
  OBVIOUS
<1>2. {k \in DOMAIN <<>> : <<>>[k] = Wide} = {}
  OBVIOUS
<1> QED  BY <1>1, <1>2, FS_EmptySet DEF CharsWidth

-----------------------------------------------------------------------------
(***************************************************************************)
(* Cutting, escaping to a width and padding keep to the width.             *)
(***************************************************************************)
\* Visible texts are texts, with a width.
LEMMA VisibleIs ==
  ASSUME NEW text \in Seq(Visible)
  PROVE  text \in Seq(Characters) /\ CharsWidth(text) \in Nat /\ Width(text) \in Nat
<1>1. Visible \subseteq Characters
  BY DEF Visible
<1> HIDE DEF Visible
<1>2. text \in Seq(Characters)
  BY <1>1
<1> QED  BY <1>2, WholeWidth

\* What a terminal takes as a text whose characters have no more than a width.
InWidth(text, width) == text \in Seq(Visible) /\ CharsWidth(text) <= width

\* Some beginning fits, since the empty one does.
LEMMA FittingIs ==
  ASSUME NEW m \in Nat, NEW widths \in [0 .. m -> Nat], widths[0] = 0, NEW width \in Nat
  PROVE  /\ Fitting(widths, width) \in 0 .. m
         /\ widths[Fitting(widths, width)] <= width
<1> DEFINE S == {n \in DOMAIN widths : widths[n] <= width}
           T == {m - n : n \in S}
<1>1. S \subseteq 0 .. m /\ 0 \in S
  OBVIOUS
<1>2. T \subseteq Nat /\ T # {}
  BY <1>1
<1>3. PICK t \in T : \A u \in T : t <= u
  BY <1>2, Least
<1>4. PICK x \in S : t = m - x
  BY <1>3
<1>5. \A y \in S : x >= y
  <2> TAKE y \in S
  <2>1. m - y \in T
    OBVIOUS
  <2>2. m - x <= m - y
    BY <1>3, <1>4, <2>1
  <2> QED  BY <1>1, <1>4, <2>2
<1>6. Fitting(widths, width) = CHOOSE z \in S : \A y \in S : z >= y
  BY DEF Fitting, Max
<1> HIDE DEF S
<1>7. Fitting(widths, width) \in S
  BY <1>5, <1>6, Zenon
<1> QED  BY <1>7 DEF S

\* The dots of a text that was cut.
LEMMA DotsAre ==
  ASSUME NEW width \in Nat
  PROVE  /\ Dots(width) \in Seq(Visible) /\ CharsWidth(Dots(width)) = Len(Dots(width))
         /\ Len(Dots(width)) \in Nat /\ Len(Dots(width)) <= width
<1> DEFINE d == AtMost(width, 3)
<1>1. d \in Nat /\ d <= width
  BY DEF AtMost
<1> HIDE DEF d
<1>2. "." \in Visible /\ "." \notin {Combining, Selector} /\ "." # Wide
  BY Zenon DEF Visible, Characters, Controls, Control, Combining, Selector, Wide
<1>3. Dots(width) = [i \in 1 .. d |-> "."]
  BY DEF Dots, d
<1>4. Dots(width) \in Seq(Visible) /\ CharsWidth(Dots(width)) = d /\ Len(Dots(width)) = d
  BY <1>1, <1>2, <1>3, PlainWidth
<1> QED  BY <1>1, <1>4

\* The longest beginning that leaves room for the dots, with the dots.
LEMMA CutFits ==
  ASSUME NEW text \in Seq(Visible), NEW width \in Nat
  PROVE  InWidth(Cut(text, width), width)
<1> DEFINE d == Len(Dots(width))
           m == Len(text)
           widths == Widths(text)
           n == Fitting(widths, width - d)
           kept == SubSeq(text, 1, n)
<1>1. /\ Dots(width) \in Seq(Visible) /\ CharsWidth(Dots(width)) = d
      /\ d \in Nat /\ width - d \in Nat
  <2>1. /\ Dots(width) \in Seq(Visible) /\ CharsWidth(Dots(width)) = d
        /\ d \in Nat /\ d <= width
    BY DotsAre, Zenon
  <2> HIDE DEF d
  <2> QED  BY <2>1
<1>2. \A k \in 0 .. m : SubSeq(text, 1, k) \in Seq(Visible)
  OBVIOUS
<1>3. \A k \in 0 .. m : CharsWidth(SubSeq(text, 1, k)) \in Nat
  BY <1>2, VisibleIs
<1>4. m \in Nat
  OBVIOUS
<1>5. widths \in [0 .. m -> Nat]
  BY <1>3 DEF Widths
<1>6. \A k \in 0 .. m : widths[k] = CharsWidth(SubSeq(text, 1, k))
  BY DEF Widths
<1>7. widths[0] = 0
  <2>1. SubSeq(text, 1, 0) = <<>>
    OBVIOUS
  <2>2. widths[0] = CharsWidth(SubSeq(text, 1, 0))
    BY <1>4, <1>6
  <2> QED  BY <2>1, <2>2, EmptyWidth
<1> HIDE DEF d, widths, m
<1>8. n \in 0 .. m /\ widths[n] <= width - d
  BY <1>1, <1>4, <1>5, <1>7, FittingIs
<1> HIDE DEF n
<1>9. kept \in Seq(Visible) /\ CharsWidth(kept) <= width - d
  BY <1>2, <1>6, <1>8
<1> HIDE DEF kept
<1>10. kept \in Seq(Characters) /\ Dots(width) \in Seq(Characters) /\ CharsWidth(kept) \in Nat
  BY <1>1, <1>9, VisibleIs
<1>11. CharsWidth(kept \o Dots(width)) = CharsWidth(kept) + d
  BY <1>1, <1>10, WidthConcat
<1>12. kept \o Dots(width) \in Seq(Visible)
  BY <1>1, <1>9
<1>13. Cut(text, width) = kept \o Dots(width)
  BY DEF Cut, kept, n, d, widths
<1> QED  BY <1>1, <1>9, <1>10, <1>11, <1>12, <1>13 DEF InWidth

\* A text is cut only where it is too wide.
LEMMA TruncateFits ==
  ASSUME NEW text \in Seq(Visible), NEW width \in Nat
  PROVE  InWidth(truncate_to_width(text, width), width)
<1>1. CharsWidth(text) \in Nat /\ Width(text) \in Nat /\ CharsWidth(text) <= Width(text)
  BY VisibleIs, WholeWidth
<1>2. CASE Width(text) <= width
  BY <1>1, <1>2 DEF truncate_to_width, InWidth
<1>3. CASE ~(Width(text) <= width)
  BY <1>3, CutFits DEF truncate_to_width
<1> QED  BY <1>2, <1>3

\* Escaping a text to a width.
LEMMA EscapeFits ==
  ASSUME NEW text \in Seq(Characters), NEW width \in Nat
  PROVE  InWidth(escape_terminal_text_to_width(text, width), width)
<1> DEFINE m == Len(text)
           widths == EscapedWidths(text)
           n == Fitting(widths, width)
           prefix == SubSeq(text, 1, n)
<1>1. \A k \in 0 .. m : SubSeq(text, 1, k) \in Seq(Characters)
  OBVIOUS
<1>2. \A k \in 0 .. m : escape_terminal_text(SubSeq(text, 1, k)) \in Seq(Visible)
  BY <1>1, EscapeVisible
<1>3. \A k \in 0 .. m : CharsWidth(escape_terminal_text(SubSeq(text, 1, k))) \in Nat
  BY <1>2, VisibleIs
<1>4. m \in Nat
  OBVIOUS
<1>5. widths \in [0 .. m -> Nat]
  BY <1>3 DEF EscapedWidths
<1>6. \A k \in 0 .. m : widths[k] = CharsWidth(escape_terminal_text(SubSeq(text, 1, k)))
  BY DEF EscapedWidths
<1>7. widths[0] = 0
  <2>1. SubSeq(text, 1, 0) = <<>>
    OBVIOUS
  <2>2. widths[0] = CharsWidth(escape_terminal_text(SubSeq(text, 1, 0)))
    BY <1>4, <1>6
  <2>3. escape_terminal_text(<<>>) = <<>>
    <3>1. [i \in DOMAIN <<>> |-> EscapeChar(<<>>[i])] = <<>>
      OBVIOUS
    <3>2. FlattenSeq(<<>>) = <<>>
      BY DEF FlattenSeq
    <3> QED  BY <3>1, <3>2 DEF escape_terminal_text
  <2> QED  BY <2>1, <2>2, <2>3, EmptyWidth
<1> HIDE DEF widths, m
<1>8. n \in 0 .. m /\ widths[n] <= width
  BY <1>4, <1>5, <1>7, FittingIs
<1> HIDE DEF n
<1>9. /\ escape_terminal_text(prefix) \in Seq(Visible)
      /\ CharsWidth(escape_terminal_text(prefix)) <= width
  BY <1>2, <1>6, <1>8
<1>10. escape_terminal_text_to_width(text, width) =
         IF prefix = text THEN escape_terminal_text(text)
         ELSE Cut(escape_terminal_text(prefix), width)
  BY DEF escape_terminal_text_to_width, n, widths
<1> HIDE DEF prefix
<1>11. CASE prefix = text
  BY <1>9, <1>10, <1>11 DEF InWidth
<1>12. CASE prefix # text
  BY <1>9, <1>10, <1>12, CutFits
<1> QED  BY <1>11, <1>12

\* Padding adds what the whole text leaves of the width, so its characters keep to it.
LEMMA PadIs ==
  ASSUME NEW text, NEW width \in Nat, InWidth(text, width)
  PROVE  InWidth(pad_to_width(text, width), width)
<1> DEFINE n == AtLeast(width - Width(text), 0)
           spaces == [i \in 1 .. n |-> " "]
<1>1. /\ text \in Seq(Visible) /\ text \in Seq(Characters) /\ CharsWidth(text) \in Nat
      /\ CharsWidth(text) <= width /\ Width(text) \in Nat /\ CharsWidth(text) <= Width(text)
  BY VisibleIs, WholeWidth DEF InWidth
<1>2. n \in Nat /\ CharsWidth(text) + n <= width
  BY <1>1 DEF AtLeast
<1> HIDE DEF n
<1>3. " " \in Visible /\ " " \notin {Combining, Selector} /\ " " # Wide
  BY Zenon DEF Visible, Characters, Controls, Control, Combining, Selector, Wide
<1>4. spaces \in Seq(Visible) /\ CharsWidth(spaces) = n
  BY <1>2, <1>3, PlainWidth, Zenon
<1>5. pad_to_width(text, width) = text \o spaces
  BY Zenon DEF pad_to_width, n
<1> HIDE DEF spaces
<1>6. spaces \in Seq(Characters)
  BY <1>4, VisibleIs
<1>7. CharsWidth(text \o spaces) = CharsWidth(text) + CharsWidth(spaces)
  BY <1>1, <1>6, WidthConcat
<1>8. text \o spaces \in Seq(Visible)
  BY <1>1, <1>4
<1>9. CharsWidth(text \o spaces) <= width
  BY <1>1, <1>2, <1>4, <1>7
<1> QED  BY <1>5, <1>8, <1>9 DEF InWidth

\* The rule under a heading.
LEMMA RuleIs ==
  ASSUME NEW width \in Nat
  PROVE  InWidth([k \in 1 .. width |-> "-"], width)
<1>1. "-" \in Visible /\ "-" \notin {Combining, Selector} /\ "-" # Wide
  BY Zenon DEF Visible, Characters, Controls, Control, Combining, Selector, Wide
<1>2. /\ [k \in 1 .. width |-> "-"] \in Seq(Visible)
      /\ CharsWidth([k \in 1 .. width |-> "-"]) = width
  BY <1>1, PlainWidth, Zenon
<1> QED  BY <1>2 DEF InWidth

-----------------------------------------------------------------------------
(***************************************************************************)
(* Sums, and the order in which column_widths lets the columns grow.       *)
(***************************************************************************)
\* A total is the last of the sums of the beginnings.
Sums(f, numbers, n) ==
  /\ f \in [0 .. n -> Nat] /\ f[0] = 0
  /\ \A i \in 1 .. n : f[i] = f[i - 1] + numbers[i]

\* The recursive function of Total exists, and adds up as it is written.
LEMMA TotalIs ==
  ASSUME NEW numbers, NEW n \in Nat, Len(numbers) = n, \A i \in 1 .. n : numbers[i] \in Nat
  PROVE  \E f : Sums(f, numbers, n) /\ Total(numbers) = f[n]
<1> DEFINE step == [p \in Nat \X (1 .. n) |-> p[1] + numbers[p[2]]]
           f == CHOOSE f : f = [i \in 0 .. n |-> IF i = 0 THEN 0 ELSE f[i - 1] + numbers[i]]
<1>1. step \in [Nat \X (1 .. n) -> Nat]
  OBVIOUS
<1>2. \A a \in Nat, i \in 1 .. n : step[<<a, i>>] = a + numbers[i]
  OBVIOUS
<1> HIDE DEF step
<1>3. PICK g \in [0 .. n -> Nat] : Iterates(step, 0, g, n)
  BY <1>1, IteratesSome
<1>4. \A i \in 0 .. n : g[i] = IF i = 0 THEN 0 ELSE step[<<g[i - 1], i>>]
  BY <1>3 DEF Iterates
<1>5. \A i \in 1 .. n : g[i - 1] \in Nat /\ i \in 0 .. n /\ i # 0
  BY <1>3
<1>6. \A i \in 0 .. n : g[i] = IF i = 0 THEN 0 ELSE g[i - 1] + numbers[i]
  <2> TAKE i \in 0 .. n
  <2>1. CASE i = 0
    BY <1>4, <2>1
  <2>2. CASE i # 0
    <3>1. i \in 1 .. n
      BY <2>2
    <3>2. step[<<g[i - 1], i>>] = g[i - 1] + numbers[i]
      BY <1>2, <1>5, <3>1
    <3> QED  BY <1>4, <2>2, <3>2
  <2> QED  BY <2>1, <2>2
<1> DEFINE Summed(h) == h = [i \in 0 .. n |-> IF i = 0 THEN 0 ELSE h[i - 1] + numbers[i]]
<1>7. Summed(g)
  <2>1. g = [i \in 0 .. n |-> g[i]]
    BY <1>3
  <2> QED  BY <1>6, <2>1
<1>8. Summed(f)
  <2>1. f = CHOOSE h : Summed(h)
    OBVIOUS
  <2> HIDE DEF f, Summed
  <2> QED  BY <1>7, <2>1
<1>9. Total(numbers) = f[n]
  BY DEF Total
<1> HIDE DEF f
<1>10. \A i \in 0 .. n : f[i] = IF i = 0 THEN 0 ELSE f[i - 1] + numbers[i]
  BY <1>8
<1>11. DOMAIN f = 0 .. n
  BY <1>8
<1> DEFINE S == {k \in Nat : k \in 0 .. n => f[k] \in Nat}
<1>12. 0 \in S
  BY <1>10
<1>13. ASSUME NEW k \in Nat, k \in S
       PROVE  k + 1 \in S
  <2> SUFFICES ASSUME k + 1 \in 0 .. n
               PROVE  f[k + 1] \in Nat
    OBVIOUS
  <2>1. f[k] \in Nat /\ k + 1 \in 1 .. n /\ k + 1 - 1 = k /\ k + 1 # 0
    BY <1>13
  <2>2. f[k + 1] = f[k + 1 - 1] + numbers[k + 1]
    BY <1>10, <2>1
  <2>3. numbers[k + 1] \in Nat
    BY <2>1
  <2> QED  BY <2>1, <2>2, <2>3
<1> HIDE DEF S
<1>14. Nat \subseteq S
  BY <1>12, <1>13, SetInduction
<1>15. \A i \in 0 .. n : f[i] \in Nat
  BY <1>14 DEF S
<1>16. f = [i \in 0 .. n |-> f[i]]
  BY <1>8
<1>17. f \in [0 .. n -> Nat]
  BY <1>15, <1>16
<1>18. f[0] = 0 /\ \A i \in 1 .. n : f[i] = f[i - 1] + numbers[i]
  BY <1>10
<1>19. Sums(f, numbers, n)
  BY <1>17, <1>18 DEF Sums
<1> QED  BY <1>9, <1>19

\* Numbers bounded by the sums of others have a total bounded by theirs.
LEMMA TotalGrows ==
  ASSUME NEW a, NEW b, NEW c, NEW n \in Nat, Len(a) = n, Len(b) = n, Len(c) = n,
         \A i \in 1 .. n :
           a[i] \in Nat /\ b[i] \in Nat /\ c[i] \in Nat /\ a[i] <= b[i] + c[i]
  PROVE  /\ Total(a) \in Nat /\ Total(b) \in Nat /\ Total(c) \in Nat
         /\ Total(a) <= Total(b) + Total(c)
<1>1. PICK f : Sums(f, a, n) /\ Total(a) = f[n]
  BY TotalIs
<1>2. PICK g : Sums(g, b, n) /\ Total(b) = g[n]
  BY TotalIs
<1>3. PICK h : Sums(h, c, n) /\ Total(c) = h[n]
  BY TotalIs
<1>4. \A i \in 0 .. n : f[i] \in Nat /\ g[i] \in Nat /\ h[i] \in Nat
  BY <1>1, <1>2, <1>3 DEF Sums
<1> DEFINE S == {k \in Nat : k \in 0 .. n => f[k] <= g[k] + h[k]}
<1>5. 0 \in S
  BY <1>1, <1>2, <1>3 DEF Sums
<1>6. ASSUME NEW k \in Nat, k \in S
      PROVE  k + 1 \in S
  <2> SUFFICES ASSUME k + 1 \in 0 .. n
               PROVE  f[k + 1] <= g[k + 1] + h[k + 1]
    OBVIOUS
  <2>1. f[k] <= g[k] + h[k] /\ k + 1 \in 1 .. n /\ k + 1 - 1 = k /\ k \in 0 .. n
    BY <1>6
  <2>2. /\ f[k + 1] = f[k] + a[k + 1] /\ g[k + 1] = g[k] + b[k + 1]
        /\ h[k + 1] = h[k] + c[k + 1]
    <3>1. /\ \A i \in 1 .. n : f[i] = f[i - 1] + a[i]
          /\ \A i \in 1 .. n : g[i] = g[i - 1] + b[i]
          /\ \A i \in 1 .. n : h[i] = h[i - 1] + c[i]
      BY <1>1, <1>2, <1>3 DEF Sums
    <3>2. /\ f[k + 1] = f[k + 1 - 1] + a[k + 1]
          /\ g[k + 1] = g[k + 1 - 1] + b[k + 1]
          /\ h[k + 1] = h[k + 1 - 1] + c[k + 1]
      BY <2>1, <3>1
    <3> QED  BY <2>1, <3>2
  <2>3. /\ a[k + 1] \in Nat /\ b[k + 1] \in Nat /\ c[k + 1] \in Nat
        /\ a[k + 1] <= b[k + 1] + c[k + 1]
    BY <2>1
  <2>4. f[k] \in Nat /\ g[k] \in Nat /\ h[k] \in Nat
    BY <1>4, <2>1
  <2> DEFINE F == f[k]
             G == g[k]
             H == h[k]
             A == a[k + 1]
             B == b[k + 1]
             C == c[k + 1]
  <2>5. F \in Nat /\ G \in Nat /\ H \in Nat /\ A \in Nat /\ B \in Nat /\ C \in Nat
        /\ F <= G + H /\ A <= B + C
    BY <2>1, <2>3, <2>4
  <2>6. f[k + 1] = F + A /\ g[k + 1] = G + B /\ h[k + 1] = H + C
    BY <2>2
  <2> HIDE DEF F, G, H, A, B, C
  <2>7. F + A <= (G + B) + (H + C)
    BY <2>5
  <2> QED  BY <2>6, <2>7
<1> HIDE DEF S
<1>7. Nat \subseteq S
  BY <1>5, <1>6, SetInduction
<1>8. f[n] <= g[n] + h[n]
  BY <1>7 DEF S
<1> QED  BY <1>1, <1>2, <1>3, <1>4, <1>8

\* The growths come one after the other: no more of them are within the spare room
\* than there is room.
Before(growths, g) ==
  {h \in growths : \/ h[1] < g[1]
                   \/ h[1] = g[1] /\ h[2] <= g[2]}

\* No two growths have as many before them.
LEMMA GrowthsWithin ==
  ASSUME NEW growths, growths \subseteq Nat \X Nat, IsFiniteSet(growths), NEW spare \in Nat
  PROVE  LET within == {g \in growths : Cardinality(Before(growths, g)) <= spare} IN
           /\ IsFiniteSet(within) /\ Cardinality(within) \in Nat
           /\ Cardinality(within) <= spare /\ Cardinality(within) <= Cardinality(growths)
           /\ Cardinality(growths) \in Nat
<1> DEFINE within == {g \in growths : Cardinality(Before(growths, g)) <= spare}
           rank == [g \in within |-> Cardinality(Before(growths, g))]
<1>1. ASSUME NEW g \in growths
      PROVE  IsFiniteSet(Before(growths, g)) /\ g \in Before(growths, g)
  <2>1. g[1] \in Nat /\ g[2] \in Nat
    OBVIOUS
  <2>2. Before(growths, g) \subseteq growths
    BY DEF Before
  <2> QED  BY <2>1, <2>2, FS_Subset DEF Before
<1>2. ASSUME NEW g \in growths
      PROVE  Cardinality(Before(growths, g)) \in Nat \ {0}
  BY <1>1, FS_CardinalityType, FS_EmptySet
<1>3. ASSUME NEW g \in growths, NEW h \in growths, g # h,
             Cardinality(Before(growths, g)) = Cardinality(Before(growths, h))
      PROVE  FALSE
  <2>1. /\ g[1] \in Nat /\ g[2] \in Nat /\ h[1] \in Nat /\ h[2] \in Nat
        /\ g[1] # h[1] \/ g[2] # h[2]
    BY <1>3
  <2>2. \A k \in growths : k[1] \in Nat /\ k[2] \in Nat
    OBVIOUS
  <2>3. \/ Before(growths, g) \subseteq Before(growths, h) /\ h \notin Before(growths, g)
        \/ Before(growths, h) \subseteq Before(growths, g) /\ g \notin Before(growths, h)
    BY <2>1, <2>2 DEF Before
  <2>4. CASE Before(growths, g) \subseteq Before(growths, h) /\ h \notin Before(growths, g)
    BY <1>1, <1>3, <2>4, FS_Subset
  <2>5. CASE Before(growths, h) \subseteq Before(growths, g) /\ g \notin Before(growths, h)
    BY <1>1, <1>3, <2>5, FS_Subset
  <2> QED  BY <2>3, <2>4, <2>5
<1>4. rank \in Injection(within, 1 .. spare)
  <2>1. rank \in [within -> 1 .. spare]
    BY <1>2
  <2>2. \A g, h \in within : rank[g] = rank[h] => g = h
    BY <1>3
  <2> HIDE DEF rank, within
  <2> QED  BY <2>1, <2>2, Zenon DEF Injection, IsInjective
<1>5. IsFiniteSet(1 .. spare) /\ Cardinality(1 .. spare) = spare
  BY FS_Interval
<1>6. within \subseteq growths
  OBVIOUS
<1> HIDE DEF rank, within
<1>7. IsFiniteSet(within) /\ Cardinality(within) <= spare
  BY <1>4, <1>5, FS_Injection
<1>8. Cardinality(within) <= Cardinality(growths)
  BY <1>6, FS_Subset
<1> QED  BY <1>7, <1>8, FS_CardinalityType DEF within

-----------------------------------------------------------------------------
(***************************************************************************)
(* What column_widths gives, with the bars, fits the terminal.             *)
(***************************************************************************)
\* Division with a remainder, which SMT knows of.
LEMMA Division ==
  ASSUME NEW surplus \in Nat, NEW n \in Nat \ {0}
  PROVE  /\ surplus \div n \in Nat /\ surplus % n \in Nat /\ surplus % n < n
         /\ surplus = n * (surplus \div n) + (surplus % n)
OBVIOUS

\* The growths within the spare room, of the first k columns and of the i-th.
Grown(growths, spare, k) ==
  {g \in growths : g[2] <= k /\ Cardinality(Before(growths, g)) <= spare}
Grows(growths, spare, i) ==
  {g \in growths : g[2] = i /\ Cardinality(Before(growths, g)) <= spare}

\* Column by column: the columns so far have one each, the growths that are theirs, and
\* their part of what is dealt out.
LEMMA SharesAdd ==
  ASSUME NEW n \in Nat \ {0}, NEW growths, IsFiniteSet(growths),
         growths \subseteq Nat \X (1 .. n),
         NEW spare \in Nat, NEW q \in Nat, NEW r \in Nat, r < n,
         NEW numbers, Len(numbers) = n,
         \A i \in 1 .. n :
           numbers[i] = 1 + Cardinality(Grows(growths, spare, i))
                          + (q + (IF i <= r THEN 1 ELSE 0))
  PROVE  /\ \A i \in 1 .. n : numbers[i] \in Nat
         /\ Total(numbers) \in Nat
         /\ Total(numbers) <= n + Cardinality(Grown(growths, spare, n)) + (n * q + r)
<1> DEFINE c(i) == Cardinality(Grows(growths, spare, i))
           d(k) == Cardinality(Grown(growths, spare, k))
<1>1. \A i : IsFiniteSet(Grows(growths, spare, i)) /\ IsFiniteSet(Grown(growths, spare, i))
  BY FS_Subset DEF Grows, Grown
<1>2. \A i : c(i) \in Nat /\ d(i) \in Nat
  BY <1>1, FS_CardinalityType
<1>3. ASSUME NEW k \in Nat
      PROVE  d(k + 1) = d(k) + c(k + 1)
  <2>1. \A g \in growths : g[2] \in Nat
    OBVIOUS
  <2>2. /\ Grown(growths, spare, k + 1) =
             Grown(growths, spare, k) \cup Grows(growths, spare, k + 1)
        /\ Grown(growths, spare, k) \cap Grows(growths, spare, k + 1) = {}
    <3>1. \A g \in growths : /\ g[2] <= k + 1 <=> g[2] <= k \/ g[2] = k + 1
                             /\ ~(g[2] <= k /\ g[2] = k + 1)
      BY <2>1
    <3> QED  BY <3>1, Zenon DEF Grown, Grows
  <2> DEFINE A == Grown(growths, spare, k)
             B == Grows(growths, spare, k + 1)
  <2>3. IsFiniteSet(A) /\ IsFiniteSet(B) /\ A \cap B = {}
    BY <1>1, <2>2
  <2>4. Cardinality(A) \in Nat /\ Cardinality(B) \in Nat
    BY <1>2
  <2>5. d(k + 1) = Cardinality(A \cup B)
    BY <2>2
  <2> HIDE DEF A, B
  <2>6. Cardinality(A \cup B) = Cardinality(A) + Cardinality(B) - Cardinality(A \cap B)
    BY <2>3, FS_Union
  <2>7. Cardinality(A \cap B) = 0
    BY <2>3, FS_EmptySet
  <2>8. Cardinality(A \cup B) = Cardinality(A) + Cardinality(B)
    BY <2>4, <2>6, <2>7
  <2> QED  BY <2>5, <2>8 DEF A, B
<1> HIDE DEF c, d
<1>4. \A i \in 1 .. n : numbers[i] = 1 + c(i) + (q + (IF i <= r THEN 1 ELSE 0))
  BY DEF c
<1>5. ASSUME NEW i \in 1 .. n
      PROVE  numbers[i] \in Nat
  <2> DEFINE own == c(i)
             one == IF i <= r THEN 1 ELSE 0
  <2>1. own \in Nat /\ one \in Nat
    BY <1>2
  <2>2. numbers[i] = 1 + own + (q + one)
    BY <1>4
  <2> HIDE DEF own, one
  <2> QED  BY <2>1, <2>2
<1>6. PICK f : Sums(f, numbers, n) /\ Total(numbers) = f[n]
  BY <1>5, TotalIs
<1>7. \A i \in 0 .. n : f[i] \in Nat
  BY <1>6 DEF Sums
<1> DEFINE S == {k \in Nat : k \in 0 .. n => f[k] <= k + d(k) + (k * q + AtMost(k, r))}
<1>8. 0 \in S
  <2>1. f[0] = 0
    BY <1>6 DEF Sums
  <2>2. d(0) \in Nat /\ AtMost(0, r) = 0
    BY <1>2 DEF AtMost
  <2> QED  BY <2>1, <2>2
<1>9. ASSUME NEW k \in Nat, k \in S
      PROVE  k + 1 \in S
  <2> SUFFICES ASSUME k + 1 \in 0 .. n
               PROVE  f[k + 1] <= (k + 1) + d(k + 1) + ((k + 1) * q + AtMost(k + 1, r))
    OBVIOUS
  <2>1. /\ f[k] <= k + d(k) + (k * q + AtMost(k, r))
        /\ k + 1 \in 1 .. n /\ k + 1 - 1 = k /\ k \in 0 .. n
    BY <1>9
  <2>2. f[k + 1] = f[k] + numbers[k + 1]
    <3>1. \A i \in 1 .. n : f[i] = f[i - 1] + numbers[i]
      BY <1>6 DEF Sums
    <3> QED  BY <2>1, <3>1
  <2>3. numbers[k + 1] = 1 + c(k + 1) + (q + (IF k + 1 <= r THEN 1 ELSE 0))
    BY <1>4, <2>1
  <2>4. d(k + 1) = d(k) + c(k + 1)
    BY <1>3
  <2>5. AtMost(k + 1, r) = AtMost(k, r) + (IF k + 1 <= r THEN 1 ELSE 0)
    BY DEF AtMost
  <2>6. AtMost(k, r) \in Nat /\ AtMost(k + 1, r) \in Nat
    BY DEF AtMost
  <2>7. (k + 1) * q = k * q + q /\ k * q \in Nat /\ (k + 1) * q \in Nat
    OBVIOUS
  <2>8. f[k] \in Nat /\ d(k) \in Nat /\ c(k + 1) \in Nat /\ d(k + 1) \in Nat
        /\ f[k + 1] \in Nat
    BY <1>2, <1>7, <2>1
  <2> DEFINE kq == k * q
             kq1 == (k + 1) * q
             mr == AtMost(k, r)
             mr1 == AtMost(k + 1, r)
             one == IF k + 1 <= r THEN 1 ELSE 0
             fk == f[k]
             fk1 == f[k + 1]
             dk == d(k)
             dk1 == d(k + 1)
             ck == c(k + 1)
  <2>9. one \in Nat
    OBVIOUS
  <2> HIDE DEF kq, kq1, mr, mr1, one
  <2>10. kq1 = kq + q /\ kq \in Nat /\ mr1 = mr + one /\ mr \in Nat /\ mr1 \in Nat
    BY <2>5, <2>6, <2>7 DEF kq, kq1, mr, mr1, one
  <2>11. fk <= k + dk + (kq + mr)
    BY <2>1 DEF kq, mr
  <2>12. fk1 = fk + (1 + ck + (q + one))
    BY <2>2, <2>3 DEF one
  <2>13. dk1 = dk + ck /\ fk \in Nat /\ dk \in Nat /\ ck \in Nat
    BY <2>4, <2>8
  <2> HIDE DEF fk, fk1, dk, dk1, ck
  <2>14. fk1 <= (k + 1) + dk1 + (kq1 + mr1)
    BY <2>9, <2>10, <2>11, <2>12, <2>13
  <2> QED  BY <2>14 DEF kq1, mr1, fk1, dk1
<1> HIDE DEF S
<1>10. Nat \subseteq S
  BY <1>8, <1>9, SetInduction
<1>11. f[n] <= n + d(n) + (n * q + AtMost(n, r))
  BY <1>10 DEF S
<1>12. AtMost(n, r) = r
  BY DEF AtMost
<1>13. Total(numbers) \in Nat
  BY <1>6, <1>7
<1> QED  BY <1>5, <1>6, <1>11, <1>12, <1>13 DEF d

\* The columns of a table fit beside each other, unless there are too many of them.
ColumnsFit(widths, n, display) ==
  /\ Len(widths) = n /\ DOMAIN widths = 1 .. n /\ \A i \in 1 .. n : widths[i] \in Nat
  /\ n > 0 => Total(widths) \in Nat /\ Total(widths) + n - 1 <= AtLeast(display, 2 * n - 1)

\* What column_widths gives the columns, spare room or not, wide names or narrow.
LEMMA WidthsFit ==
  ASSUME NEW headers, NEW n \in Nat, Len(headers) = n,
         \A i \in 1 .. n : Width(headers[i]) \in Nat, NEW display \in Nat
  PROVE  ColumnsFit(column_widths(headers, display), n, display)
<1> DEFINE available == AtLeast(display - (n - 1), n)
           desired(i) == AtLeast(Width(headers[i]), 1)
           spare == available - n
           growths == {g \in (1 .. available) \X (1 .. n) : g[1] < desired(g[2])}
           surplus == AtLeast(spare - Cardinality(growths), 0)
           q == surplus \div n
           r == surplus % n
           widths == column_widths(headers, display)
<1>1. available \in Nat /\ available >= n /\ spare \in Nat
      /\ available + n - 1 = AtLeast(display, 2 * n - 1)
  BY DEF AtLeast
<1>2. IsFiniteSet(growths) /\ growths \subseteq Nat \X (1 .. n)
  <2>1. IsFiniteSet(1 .. available) /\ IsFiniteSet(1 .. n)
    BY <1>1, FS_Interval
  <2>2. IsFiniteSet((1 .. available) \X (1 .. n))
    BY <2>1, FS_Product
  <2>3. growths \subseteq (1 .. available) \X (1 .. n)
    OBVIOUS
  <2>4. (1 .. available) \X (1 .. n) \subseteq Nat \X (1 .. n)
    OBVIOUS
  <2> HIDE DEF growths
  <2> QED  BY <2>2, <2>3, <2>4, FS_Subset
<1>3. widths = [i \in 1 .. n |->
                  1 + Cardinality({g \in growths : g[2] = i /\
                                   Cardinality({h \in growths :
                                     \/ h[1] < g[1]
                                     \/ h[1] = g[1] /\ h[2] <= g[2]}) <= spare})
                    + (q + (IF i <= r THEN 1 ELSE 0))]
  BY DEF column_widths
<1> HIDE DEF growths
<1>4. widths = [i \in 1 .. n |-> 1 + Cardinality(Grows(growths, spare, i))
                                   + (q + (IF i <= r THEN 1 ELSE 0))]
  BY <1>3 DEF Grows, Before
<1> HIDE DEF widths, spare
<1>5. Len(widths) = n /\ DOMAIN widths = 1 .. n
  BY <1>4
<1>6. CASE n = 0
  BY <1>5, <1>6 DEF ColumnsFit, widths
<1>7. CASE n # 0
  <2>1. Cardinality(growths) \in Nat
    BY <1>2, FS_CardinalityType
  <2>2. surplus \in Nat
    BY <1>1, <2>1 DEF AtLeast
  <2> HIDE DEF surplus
  <2>3. q \in Nat /\ r \in Nat /\ r < n /\ surplus = n * q + r
    BY <1>7, <2>2, Division
  <2> HIDE DEF q, r
  <2>4. \A i \in 1 .. n : widths[i] = 1 + Cardinality(Grows(growths, spare, i))
                                        + (q + (IF i <= r THEN 1 ELSE 0))
    BY <1>4
  <2>5. /\ \A i \in 1 .. n : widths[i] \in Nat
        /\ Total(widths) \in Nat
        /\ Total(widths) <= n + Cardinality(Grown(growths, spare, n)) + (n * q + r)
    BY <1>1, <1>2, <1>5, <1>7, <2>3, <2>4, SharesAdd
  <2> DEFINE within == {g \in growths : Cardinality(Before(growths, g)) <= spare}
  <2>6. Grown(growths, spare, n) = within
    <3>1. \A g \in growths : g[2] <= n
      BY <1>2
    <3> QED  BY <3>1 DEF Grown
  <2>7. /\ Cardinality(within) \in Nat /\ Cardinality(within) <= spare
        /\ Cardinality(within) <= Cardinality(growths)
    <3>1. growths \subseteq Nat \X Nat
      <4>1. Nat \X (1 .. n) \subseteq Nat \X Nat
        OBVIOUS
      <4> QED  BY <1>2, <4>1
    <3> QED  BY <1>1, <1>2, <3>1, GrowthsWithin
  <2> HIDE DEF within
  <2>8. Cardinality(within) + surplus <= spare
    BY <1>1, <2>1, <2>7 DEF surplus, AtLeast
  <2>9. Total(widths) <= n + spare
    BY <1>1, <2>2, <2>3, <2>5, <2>6, <2>7, <2>8
  <2>10. n + spare = available
    BY <1>1 DEF spare
  <2> HIDE DEF available
  <2>11. Total(widths) + n - 1 <= available + n - 1
    BY <1>1, <2>5, <2>9, <2>10
  <2>12. Total(widths) + n - 1 <= AtLeast(display, 2 * n - 1)
    BY <1>1, <2>11
  <2> QED  BY <1>5, <2>5, <2>12, Zenon DEF ColumnsFit, widths
<1> QED  BY <1>6, <1>7

-----------------------------------------------------------------------------
(***************************************************************************)
(* The cells of a line.                                                    *)
(***************************************************************************)
\* What LinesFit asks of a piece.
Fits(s, piece) ==
  /\ "cells" \in DOMAIN piece
  /\ s.format = "table" /\ piece.cells # <<>> =>
       LineWidth(piece.cells) <=
         AtLeast(s.display, 2 * Len(piece.cells) - 1) + Overrun(piece.cells)
  /\ s.escape /\ s.format # "jsonl" => \A k \in DOMAIN piece.cells : ~Controlled(piece.cells[k])

AllFit(s, pieces) == IsSeq(pieces) /\ \A i \in DOMAIN pieces : Fits(s, pieces[i])

\* The columns of the open result fit beside each other.
SinkFits(s) ==
  /\ s.display \in Nat
  /\ s.format = "table" /\ s.active => ColumnsFit(s.widths, Len(s.widths), s.display)
  /\ AllFit(s, s.buffer)

\* Sinks that write by the same rules.
SameRules(s, t) == t.format = s.format /\ t.escape = s.escape /\ t.display = s.display

\* They ask the same of a piece.
LEMMA SameFits ==
  ASSUME NEW s, NEW t, NEW pieces, SameRules(s, t), AllFit(s, pieces)
  PROVE  AllFit(t, pieces)
BY DEF SameRules, AllFit, Fits

\* A piece without cells fits.
LEMMA BareFits ==
  ASSUME NEW s, NEW piece, "cells" \in DOMAIN piece, piece.cells = <<>>
  PROVE  Fits(s, piece)
<1>1. DOMAIN <<>> = {}
  OBVIOUS
<1> QED  BY <1>1 DEF Fits

\* One piece.
LEMMA OneFits ==
  ASSUME NEW s, NEW piece, Fits(s, piece)
  PROVE  AllFit(s, <<piece>>)
BY SingleIs DEF AllFit

\* No piece at all.
LEMMA NoneFits ==
  ASSUME NEW s
  PROVE  AllFit(s, <<>>)
<1>1. IsSeq(<<>>)
  <2>1. IsSeq(<<0>>)
    BY SingleIs
  <2> QED  BY <2>1, ConcatEmpty, Zenon
<1>2. DOMAIN <<>> = {}
  OBVIOUS
<1> QED  BY <1>1, <1>2 DEF AllFit

\* Pieces after pieces.
LEMMA BothFit ==
  ASSUME NEW s, NEW first, NEW second, AllFit(s, first), AllFit(s, second)
  PROVE  AllFit(s, first \o second)
<1> DEFINE m == Len(first)
           n == Len(second)
           both == first \o second
<1>1. /\ IsSeq(both) /\ DOMAIN both = 1 .. m + n /\ m \in Nat /\ n \in Nat
      /\ \A i \in 1 .. m : both[i] = first[i]
      /\ \A i \in 1 .. n : both[m + i] = second[i]
      /\ DOMAIN first = 1 .. m /\ DOMAIN second = 1 .. n
  BY ConcatIs, IsSeqOf DEF AllFit
<1> HIDE DEF m, n, both
<1>2. ASSUME NEW i \in 1 .. m + n
      PROVE  Fits(s, both[i])
  <2>1. CASE i <= m
    <3>1. i \in 1 .. m
      BY <1>1, <2>1
    <3> QED  BY <1>1, <3>1 DEF AllFit
  <2>2. CASE ~(i <= m)
    <3>1. i - m \in 1 .. n /\ m + (i - m) = i
      BY <1>1, <2>2
    <3>2. both[m + (i - m)] = second[i - m]
      BY <1>1, <3>1
    <3> QED  BY <1>1, <3>1, <3>2 DEF AllFit
  <2> QED  BY <2>1, <2>2
<1>3. AllFit(s, both)
  BY <1>1, <1>2 DEF AllFit
<1> QED  BY <1>3 DEF both

\* A cell of visible text holds no control character.
LEMMA VisibleCell ==
  ASSUME NEW text \in Seq(Visible)
  PROVE  ~Controlled(<<text>>)
<1>1. <<text>>[1] = text
  BY SingleIs
<1>2. \A k \in DOMAIN text : text[k] \notin Controls
  <2>1. \A c \in Visible : c \notin Controls
    BY Zenon DEF Visible
  <2>2. \A k \in DOMAIN text : text[k] \in Visible
    OBVIOUS
  <2> QED  BY <2>1, <2>2, Zenon
<1> QED  BY <1>1, <1>2, Zenon DEF Controlled

\* The cells of a piece.
LEMMA OutCells ==
  ASSUME NEW kind, NEW result, NEW rows, NEW cells
  PROVE  /\ Out(kind, result, rows, cells).cells = cells
         /\ "cells" \in DOMAIN Out(kind, result, rows, cells)
BY DEF Out

\* A line of a table: one text in each column, no wider by its characters.
LEMMA LineFits ==
  ASSUME NEW s, s.format = "table", s.display \in Nat,
         NEW n \in Nat, NEW widths, NEW texts,
         ColumnsFit(widths, n, s.display), DOMAIN texts = 1 .. n,
         \A i \in 1 .. n : InWidth(texts[i], widths[i]),
         NEW kind, NEW result, NEW rows
  PROVE  Fits(s, Out(kind, result, rows, Options(texts)))
<1> DEFINE cells == Options(texts)
           numbers == [k \in DOMAIN cells |-> Width(cells[k][1])]
           extra == [k \in DOMAIN cells |-> Cardinality(Widened(cells[k][1]))]
           piece == Out(kind, result, rows, cells)
<1>1. cells = [i \in 1 .. n |-> <<texts[i]>>]
  BY DEF Options
<1>2. DOMAIN cells = 1 .. n /\ \A i \in 1 .. n : cells[i] = <<texts[i]>>
  BY <1>1
<1>3. Len(cells) = n
  <2>1. cells = [i \in 1 .. n |-> cells[i]]
    BY <1>1
  <2> HIDE DEF cells
  <2> QED  BY <2>1, FunctionIsSeq
<1>4. piece.cells = cells /\ "cells" \in DOMAIN piece
  BY OutCells
<1> HIDE DEF cells, piece
<1>5. \A k \in DOMAIN cells : ~Controlled(cells[k])
  BY <1>2, VisibleCell DEF InWidth
<1>6. ASSUME cells # <<>>
      PROVE  LineWidth(cells) <= AtLeast(s.display, 2 * n - 1) + Overrun(cells)
  <2>1. n > 0
    <3>1. CASE n = 0
      <4>1. cells = [i \in 1 .. 0 |-> <<texts[i]>>]
        BY <1>1, <3>1
      <4>2. cells = <<>>
        BY <4>1
      <4> QED  BY <1>6, <4>2
    <3> QED  BY <3>1
  <2>2. /\ Len(widths) = n /\ \A i \in 1 .. n : widths[i] \in Nat
        /\ Total(widths) \in Nat /\ Total(widths) + n - 1 <= AtLeast(s.display, 2 * n - 1)
    BY <2>1 DEF ColumnsFit
  <2>3. \A i \in 1 .. n : /\ numbers[i] \in Nat /\ extra[i] \in Nat
                          /\ numbers[i] <= widths[i] + extra[i]
    <3> TAKE i \in 1 .. n
    <3>1. cells[i][1] = texts[i]
      BY <1>2, SingleIs
    <3>2. texts[i] \in Seq(Visible) /\ CharsWidth(texts[i]) <= widths[i] /\ widths[i] \in Nat
      BY <2>2 DEF InWidth
    <3>3. /\ Width(texts[i]) = CharsWidth(texts[i]) + Cardinality(Widened(texts[i]))
          /\ CharsWidth(texts[i]) \in Nat /\ Cardinality(Widened(texts[i])) \in Nat
      BY <3>2, VisibleIs, WholeWidth
    <3>4. numbers[i] = Width(texts[i]) /\ extra[i] = Cardinality(Widened(texts[i]))
      BY <1>2, <3>1
    <3> QED  BY <3>2, <3>3, <3>4
  <2>4. Len(numbers) = n /\ Len(extra) = n
    <3>1. numbers = [i \in 1 .. n |-> numbers[i]] /\ extra = [i \in 1 .. n |-> extra[i]]
      BY <1>2
    <3> HIDE DEF numbers, extra
    <3> QED  BY <3>1, FunctionIsSeq
  <2>5. LineWidth(cells) = Total(numbers) + n - 1 /\ Overrun(cells) = Total(extra)
    BY <1>3 DEF LineWidth, Overrun
  <2> HIDE DEF numbers, extra
  <2> DEFINE bound == AtLeast(s.display, 2 * n - 1)
             a == Total(numbers)
             b == Total(widths)
             c == Total(extra)
  <2>6. a \in Nat /\ b \in Nat /\ c \in Nat /\ a <= b + c
    BY <2>2, <2>3, <2>4, TotalGrows
  <2>7. bound \in Int /\ b + n - 1 <= bound
    BY <2>2 DEF AtLeast
  <2>8. LineWidth(cells) = a + n - 1 /\ Overrun(cells) = c
    BY <2>5
  <2> HIDE DEF bound, a, b, c
  <2>9. a + n - 1 <= bound + c
    BY <2>6, <2>7
  <2>10. LineWidth(cells) <= bound + Overrun(cells)
    BY <2>8, <2>9
  <2> QED  BY <2>10 DEF bound
<1>7. Fits(s, piece)
  BY <1>3, <1>4, <1>5, <1>6, Zenon DEF Fits
<1> QED  BY <1>7 DEF piece, cells

\* Cells of visible text, where there are no columns.
LEMMA TextFits ==
  ASSUME NEW s, s.format # "table", NEW cells,
         s.escape /\ s.format # "jsonl" => \A k \in DOMAIN cells : ~Controlled(cells[k]),
         NEW kind, NEW result, NEW rows
  PROVE  Fits(s, Out(kind, result, rows, cells))
<1> DEFINE piece == Out(kind, result, rows, cells)
<1>1. piece.cells = cells /\ "cells" \in DOMAIN piece
  BY OutCells
<1> HIDE DEF piece
<1>2. Fits(s, piece)
  BY <1>1 DEF Fits
<1> QED  BY <1>2 DEF piece

\* A sequence of members of a set is one of members of a larger set.
LEMMA WiderSeq ==
  ASSUME NEW X, NEW Y, X \subseteq Y, NEW s \in Seq(X)
  PROVE  s \in Seq(Y)
OBVIOUS

\* The text of a cell.
LEMMA CellText ==
  ASSUME NEW cells \in Cells, NEW i \in DOMAIN cells
  PROVE  /\ cells[i] = <<>> \/ cells[i] = <<cells[i][1]>>
         /\ cells[i] # <<>> => cells[i][1] \in Seq(Characters)
<1> DEFINE T == Seq(STRING)
           X == {cell \in Seq(T) : Len(cell) <= 1}
<1>1. cells \in Seq(X)
  BY DEF Cells
<1> HIDE DEF X
<1>2. cells[i] \in X
  BY <1>1
<1> DEFINE cell == cells[i]
<1>3. cell \in Seq(T) /\ Len(cell) <= 1
  BY <1>2 DEF X
<1>4. \A text \in T : text \in Seq(Characters)
  <2>1. STRING \subseteq Characters
    BY Zenon DEF Characters
  <2> QED  BY <2>1, WiderSeq, Zenon
<1> HIDE DEF T, cell
<1>5. cell # <<>> => cell[1] \in T /\ cell = <<cell[1]>>
  BY <1>3
<1> QED  BY <1>4, <1>5 DEF cell

\* Cells are a sequence.
LEMMA SomeCells ==
  ASSUME NEW cells \in Cells
  PROVE  DOMAIN cells = 1 .. Len(cells) /\ Len(cells) \in Nat
BY SeqIs, IsSeqOf DEF Cells

\* The names of a heading are texts.
LEMMA NamesAre ==
  ASSUME NEW names \in Headers
  PROVE  /\ DOMAIN names = 1 .. Len(names) /\ Len(names) \in Nat
         /\ \A i \in DOMAIN names : names[i][1] \in Seq(Characters)
<1>1. names \in Cells /\ \A i \in DOMAIN names : names[i] # <<>>
  BY OutputAssumption
<1> QED  BY <1>1, SomeCells, CellText

-----------------------------------------------------------------------------
(***************************************************************************)
(* What the sinks of a table write.                                        *)
(***************************************************************************)
\* What is written for an event fits, and the sink goes on by its rules.
EmitFits(s, w) == SameRules(s, w.sink) /\ SinkFits(w.sink) /\ AllFit(w.sink, w.pieces)

\* Writing pieces that fit, by rules that stay.
LEMMA WritesFit ==
  ASSUME NEW s, NEW t, NEW pieces, SameRules(s, t), SinkFits(t), AllFit(s, pieces)
  PROVE  EmitFits(s, Writes(pieces, t))
BY SameFits DEF EmitFits, Writes

\* A sink that has begun a result, or gone on with it.
LEMMA BegunFits ==
  ASSUME NEW s, NEW widths, SinkShape(s), SinkFits(s),
         s.format = "table" => ColumnsFit(widths, Len(widths), s.display)
  PROVE  SameRules(s, Begun(s, widths)) /\ SinkFits(Begun(s, widths))
<1> DEFINE t == Begun(s, widths)
<1>1. /\ t.format = s.format /\ t.escape = s.escape /\ t.display = s.display
      /\ t.widths = widths /\ t.buffer = s.buffer
  BY DEF Begun, SinkShape
<1> HIDE DEF t
<1>2. SameRules(s, t)
  BY <1>1 DEF SameRules
<1>3. AllFit(s, s.buffer) /\ s.display \in Nat
  BY DEF SinkFits
<1>4. AllFit(t, t.buffer)
  BY <1>1, <1>2, <1>3, SameFits
<1>5. SinkFits(t)
  BY <1>1, <1>3, <1>4 DEF SinkFits
<1> QED  BY <1>2, <1>5 DEF t

\* A sink that keeps what is about its columns still fits.
LEMMA KeptFits ==
  ASSUME NEW s, NEW t, SinkFits(s), SameRules(s, t), t.buffer = s.buffer,
         t.active => s.active /\ t.widths = s.widths
  PROVE  SinkFits(t)
<1>1. AllFit(t, t.buffer)
  BY SameFits DEF SinkFits
<1>2. t.display \in Nat
  BY DEF SameRules, SinkFits
<1>3. t.format = "table" /\ t.active => ColumnsFit(t.widths, Len(t.widths), t.display)
  BY Zenon DEF SameRules, SinkFits
<1> QED  BY <1>1, <1>2, <1>3 DEF SinkFits

\* Counting a row leaves the columns alone.
LEMMA RowsOnFit ==
  ASSUME NEW s, SinkShape(s), SinkFits(s)
  PROVE  SameRules(s, [s EXCEPT !.rows = @ + 1]) /\ SinkFits([s EXCEPT !.rows = @ + 1])
<1> DEFINE t == [s EXCEPT !.rows = @ + 1]
<1>1. /\ t.format = s.format /\ t.escape = s.escape /\ t.display = s.display
      /\ t.widths = s.widths /\ t.active = s.active /\ t.buffer = s.buffer
  BY DEF SinkShape
<1> HIDE DEF t
<1>2. SameRules(s, t)
  BY <1>1 DEF SameRules
<1>3. SinkFits(t)
  BY <1>1, <1>2, KeptFits
<1> QED  BY <1>2, <1>3 DEF t

\* The buffer takes what fits, and gives it.
LEMMA BufferFits ==
  ASSUME NEW t, SinkShape(t), SinkFits(t), NEW kept, AllFit(t, kept)
  PROVE  /\ SameRules(t, [t EXCEPT !.buffer = kept]) /\ SinkFits([t EXCEPT !.buffer = kept])
<1> DEFINE u == [t EXCEPT !.buffer = kept]
<1>1. /\ u.format = t.format /\ u.escape = t.escape /\ u.display = t.display
      /\ u.widths = t.widths /\ u.active = t.active /\ u.buffer = kept
  BY DEF SinkShape
<1> HIDE DEF u
<1>2. SameRules(t, u)
  BY <1>1 DEF SameRules
<1>3. AllFit(u, u.buffer)
  BY <1>1, <1>2, SameFits
<1>4. u.display \in Nat
        /\ (u.format = "table" /\ u.active => ColumnsFit(u.widths, Len(u.widths), u.display))
  BY <1>1 DEF SinkFits
<1>5. SinkFits(u)
  BY <1>3, <1>4 DEF SinkFits
<1> QED  BY <1>2, <1>5 DEF u

\* What a sink writes at once, or holds back where it writes delimited records.
LEMMA RecordFits ==
  ASSUME NEW s, NEW piece, NEW next, SinkFits(s), Fits(s, piece), SinkShape(next),
         SameRules(s, next), SinkFits(next), next.buffer = s.buffer
  PROVE  EmitFits(s, record(s, piece, next))
<1>1. AllFit(next, next.buffer) /\ AllFit(s, s.buffer) /\ AllFit(next, <<piece>>)
      /\ IsSeq(next.buffer)
  <2>1. AllFit(s, <<piece>>)
    BY OneFits
  <2> QED  BY <2>1, SameFits DEF SinkFits, AllFit
<1>2. AllFit(next, Append(next.buffer, piece))
  BY <1>1, BothFit, AppendIs
<1>3. \A kept : AllFit(next, kept) =>
        SameRules(s, [next EXCEPT !.buffer = kept]) /\ SinkFits([next EXCEPT !.buffer = kept])
  BY BufferFits DEF SameRules
<1>4. CASE Len(s.buffer) < BufferRecords
  <2> DEFINE kept == Append(next.buffer, piece)
             t == [next EXCEPT !.buffer = kept]
  <2>1. record(s, piece, next) = Writes(<<>>, t)
    BY <1>4 DEF record, SinkShape
  <2>2. SameRules(s, t) /\ SinkFits(t)
    BY <1>2, <1>3
  <2>3. AllFit(s, <<>>)
    BY NoneFits
  <2> HIDE DEF t
  <2> QED  BY <2>1, <2>2, <2>3, WritesFit
<1>5. CASE ~(Len(s.buffer) < BufferRecords)
  <2> DEFINE kept == <<piece>>
             t == [next EXCEPT !.buffer = kept]
  <2>1. record(s, piece, next) = Writes(s.buffer, t)
    BY <1>5 DEF record
  <2>2. SameRules(s, t) /\ SinkFits(t)
    BY <1>1, <1>3
  <2> HIDE DEF t
  <2> QED  BY <1>1, <2>1, <2>2, WritesFit
<1> QED  BY <1>4, <1>5

\* The blank line between results.
LEMMA BlankFits ==
  ASSUME NEW s
  PROVE  AllFit(s, Blank(s))
<1> DEFINE line == Out("blank", 0, 0, <<>>)
<1>1. AllFit(s, <<line>>)
  BY OutCells, BareFits, OneFits
<1>2. Blank(s) = IF s.preceded THEN <<line>> ELSE <<>>
  BY DEF Blank
<1> HIDE DEF line
<1> QED  BY <1>1, <1>2, NoneFits

\* The head of a table and its rule are as wide as its columns.
LEMMA TableHeadFits ==
  ASSUME NEW s, SinkShape(s), SinkFits(s), s.format = "table", NEW names \in Headers
  PROVE  EmitFits(s, tableColumns(s, names))
<1> DEFINE headers == [i \in DOMAIN names |->
                         escape_terminal_text_to_width(names[i][1], s.display)]
           widths == column_widths(headers, s.display)
           cells == [i \in DOMAIN names |-> truncate_to_width(headers[i], widths[i])]
           next == Begun(s, widths)
           n == Len(names)
           line == table_line(cells, widths)
           rule == separator_line(widths)
           head == Out("columns", Number(next), 0, Options(line))
           under == Out("rule", Number(next), 0, Options(rule))
           said == Blank(s) \o <<head, under>>
<1>1. tableColumns(s, names) = Writes(said, next)
  BY DEF tableColumns
<1>2. n \in Nat /\ DOMAIN names = 1 .. n /\ s.display \in Nat
  BY NamesAre DEF SinkFits
<1>3. \A i \in 1 .. n : InWidth(headers[i], s.display)
  BY <1>2, NamesAre, EscapeFits
<1>4. DOMAIN headers = 1 .. n /\ Len(headers) = n
  <2>1. headers = [i \in 1 .. n |-> headers[i]]
    BY <1>2
  <2> HIDE DEF headers
  <2> QED  BY <1>2, <2>1, FunctionIsSeq
<1> HIDE DEF headers, n
<1>5. \A i \in 1 .. n : headers[i] \in Seq(Visible) /\ Width(headers[i]) \in Nat
  BY <1>3, VisibleIs DEF InWidth
<1>6. ColumnsFit(widths, n, s.display)
  BY <1>2, <1>4, <1>5, WidthsFit
<1> HIDE DEF widths
<1>7. Len(widths) = n /\ DOMAIN widths = 1 .. n /\ \A i \in 1 .. n : widths[i] \in Nat
  BY <1>6 DEF ColumnsFit
<1>8. \A i \in 1 .. n : InWidth(cells[i], widths[i])
  BY <1>2, <1>5, <1>7, TruncateFits
<1>9. DOMAIN cells = 1 .. n
  BY <1>2
<1> HIDE DEF cells
<1>10. DOMAIN line = 1 .. n /\
       \A i \in 1 .. n : InWidth(line[i], widths[i])
  BY <1>7, <1>8, <1>9, PadIs DEF table_line
<1>11. DOMAIN rule = 1 .. n /\
       \A i \in 1 .. n : InWidth(rule[i], widths[i])
  BY <1>7, RuleIs DEF separator_line
<1>12. SameRules(s, next) /\ SinkFits(next)
  BY <1>6, <1>7, BegunFits
<1> HIDE DEF line, rule, next
<1>13. Fits(s, head) /\ Fits(s, under)
  BY <1>2, <1>6, <1>10, <1>11, LineFits
<1> HIDE DEF head, under
<1>14. AllFit(s, <<head, under>>)
  BY <1>13, PairIs DEF AllFit
<1>15. AllFit(s, said)
  BY <1>14, BlankFits, BothFit
<1> HIDE DEF said
<1> QED  BY <1>1, <1>12, <1>15, WritesFit

\* NULL, or a value that is escaped and cut to its column.
LEMMA CellFits ==
  ASSUME NEW values \in Rows, NEW i \in DOMAIN values, NEW width \in Nat
  PROVE  InWidth(tableCell(values[i], width), width)
<1>1. values \in Cells
  BY OutputAssumption
<1> DEFINE cell == values[i]
           null == <<"N", "U", "L", "L">>
<1>2. cell # <<>> => cell[1] \in Seq(Characters)
  BY <1>1, CellText
<1>3. null \in Seq(Visible)
  <2>1. "N" \in Visible /\ "U" \in Visible /\ "L" \in Visible
    BY Zenon DEF Visible, Characters, Controls, Control
  <2>2. \A a, b, c \in Visible : <<a, b, c, c>> \in Seq(Visible)
    OBVIOUS
  <2> QED  BY <2>1, <2>2, Zenon
<1> HIDE DEF cell, null
<1>4. tableCell(cell, width) = IF cell = <<>> THEN truncate_to_width(null, width)
                               ELSE escape_terminal_text_to_width(cell[1], width)
  BY DEF tableCell, null
<1>5. CASE cell = <<>>
  BY <1>3, <1>4, <1>5, TruncateFits DEF cell
<1>6. CASE cell # <<>>
  BY <1>2, <1>4, <1>6, EscapeFits DEF cell
<1> QED  BY <1>5, <1>6

\* A row of a table: each value escaped, cut and padded to its column.
LEMMA TableRowFits ==
  ASSUME NEW s, SinkShape(s), SinkFits(s), s.format = "table", s.active,
         NEW values \in Rows, Len(values) = Len(s.widths)
  PROVE  EmitFits(s, tableRow(s, values))
<1> DEFINE n == Len(values)
           cells == [i \in DOMAIN values |-> tableCell(values[i], s.widths[i])]
           line == table_line(cells, s.widths)
           next == [s EXCEPT !.rows = @ + 1]
           piece == Out("row", Number(s), 0, Options(line))
<1>1. tableRow(s, values) = Writes(<<piece>>, next)
  BY DEF tableRow
<1>2. n \in Nat /\ DOMAIN values = 1 .. n /\ s.display \in Nat
  BY OutputAssumption, SomeCells DEF SinkFits
<1>3. ColumnsFit(s.widths, n, s.display)
  BY DEF SinkFits
<1>4. \A i \in 1 .. n : s.widths[i] \in Nat
  BY <1>3 DEF ColumnsFit
<1>5. \A i \in 1 .. n : InWidth(cells[i], s.widths[i])
  BY <1>2, <1>4, CellFits
<1>6. DOMAIN cells = 1 .. n
  BY <1>2
<1> HIDE DEF cells, n
<1>7. DOMAIN line = 1 .. n /\
      \A i \in 1 .. n : InWidth(line[i], s.widths[i])
  BY <1>4, <1>5, <1>6, PadIs DEF table_line
<1> HIDE DEF line
<1>8. Fits(s, piece)
  BY <1>2, <1>3, <1>7, LineFits
<1>9. SameRules(s, next) /\ SinkFits(next)
  BY RowsOnFit
<1> HIDE DEF piece, next
<1> QED  BY <1>1, <1>8, <1>9, OneFits, WritesFit

-----------------------------------------------------------------------------
(***************************************************************************)
(* What the other sinks write, and the sink at large.                      *)
(***************************************************************************)
\* A heading in the expanded form is a line without cells.
LEMMA ExpandedHeadFits ==
  ASSUME NEW s, SinkShape(s), SinkFits(s), s.format = "expanded", NEW names
  PROVE  EmitFits(s, expandedColumns(s, names))
<1> DEFINE widths == [i \in DOMAIN names |-> Width(escape_terminal_text(names[i][1]))]
           next == Begun(s, widths)
<1>1. expandedColumns(s, names) = Writes(Blank(s), next)
  BY DEF expandedColumns
<1> HIDE DEF widths
<1>2. SameRules(s, next) /\ SinkFits(next)
  BY BegunFits
<1> HIDE DEF next
<1> QED  BY <1>1, <1>2, BlankFits, WritesFit

\* A record in the expanded form is not bound to a width; its cells are escaped.
LEMMA ExpandedRowFits ==
  ASSUME NEW s, SinkShape(s), SinkFits(s), s.format = "expanded", NEW values \in Rows
  PROVE  EmitFits(s, expandedRow(s, values))
<1> DEFINE next == [s EXCEPT !.rows = @ + 1]
           piece == Out("row", Number(s), s.rows + 1, <<>>)
           field(i) == Out("field", Number(s), 0, <<shownCell(values[i])>>)
           fields == [i \in DOMAIN values |-> field(i)]
           head == <<piece>>
<1>1. expandedRow(s, values) = Writes(head \o fields, next)
  BY DEF expandedRow
<1>2. values \in Cells
  BY OutputAssumption
<1>3. ASSUME NEW i \in DOMAIN values
      PROVE  Fits(s, field(i))
  <2> DEFINE shown == shownCell(values[i])
             cells == <<shown>>
  <2>1. ~Controlled(shown)
    <3>1. CASE values[i] = <<>>
      BY <3>1 DEF shownCell, Controlled
    <3>2. CASE values[i] # <<>>
      <4>1. escape_terminal_text(values[i][1]) \in Seq(Visible)
        BY <1>2, <3>2, CellText, EscapeVisible
      <4>2. shown = <<escape_terminal_text(values[i][1])>>
        BY <3>2 DEF shownCell
      <4> QED  BY <4>1, <4>2, VisibleCell
    <3> QED  BY <3>1, <3>2
  <2> HIDE DEF shown
  <2>2. \A k \in DOMAIN cells : cells[k] = shown
    BY SingleIs
  <2>3. \A k \in DOMAIN cells : ~Controlled(cells[k])
    BY <2>1, <2>2
  <2> HIDE DEF cells
  <2>4. Fits(s, Out("field", Number(s), 0, cells))
    BY <2>3, TextFits
  <2> QED  BY <2>4 DEF cells, shown
<1> HIDE DEF field
<1>4. AllFit(s, fields)
  <2>1. fields = [i \in 1 .. Len(values) |-> fields[i]] /\ Len(values) \in Nat
    BY <1>2, SomeCells
  <2>2. \A i \in DOMAIN fields : Fits(s, fields[i])
    BY <1>3
  <2> HIDE DEF fields
  <2> QED  BY <2>1, <2>2, FunctionIsSeq DEF AllFit
<1>5. AllFit(s, head)
  BY OutCells, BareFits, OneFits
<1>6. SameRules(s, next) /\ SinkFits(next)
  BY RowsOnFit
<1> HIDE DEF fields, head, next
<1> QED  BY <1>1, <1>4, <1>5, <1>6, BothFit, WritesFit

\* Lines of JSON are for programs: nothing is asked of their cells.
LEMMA JsonlFits ==
  ASSUME NEW s, SinkShape(s), SinkFits(s), s.format = "jsonl", NEW cells
  PROVE  EmitFits(s, jsonlColumns(s, cells)) /\ EmitFits(s, jsonlRow(s, cells))
<1> DEFINE widths == [i \in DOMAIN cells |-> 0]
           begun == Begun(s, widths)
           next == [s EXCEPT !.rows = @ + 1]
           first == Out("columns", Number(begun), 0, cells)
           row == Out("row", Number(s), 0, cells)
<1>1. jsonlColumns(s, cells) = Writes(<<first>>, begun)
  BY DEF jsonlColumns
<1>2. jsonlRow(s, cells) = Writes(<<row>>, next)
  BY DEF jsonlRow
<1> HIDE DEF widths
<1>3. SameRules(s, begun) /\ SinkFits(begun)
  BY BegunFits
<1>4. SameRules(s, next) /\ SinkFits(next)
  BY RowsOnFit
<1> HIDE DEF begun, next
<1>5. AllFit(s, <<first>>) /\ AllFit(s, <<row>>)
  BY TextFits, OneFits
<1> HIDE DEF first, row
<1> QED  BY <1>1, <1>2, <1>3, <1>4, <1>5, WritesFit

\* A column name in a file: escaped on its way to a terminal.
LEMMA NameFits ==
  ASSUME NEW s, NEW text \in Seq(Characters), s.escape
  PROVE  ~Controlled(<<escaped(s, text)>>)
BY EscapeVisible, VisibleCell DEF escaped

\* A delimited cell that was escaped, encoded or not, is visible.
LEMMA EncodedVisible ==
  ASSUME NEW cells \in Cells, NEW i \in DOMAIN cells
  PROVE  encode_cell(cells[i], TRUE) \in Seq(Visible)
<1> DEFINE cell == cells[i]
           text == escape_terminal_text(cell[1])
           T == Seq(Visible)
<1>1. "\\" \in Visible /\ "N" \in Visible
  BY Zenon DEF Visible, Characters, Controls, Control
<1>2. <<"\\", "N">> \in T /\ <<"\\">> \in T
  <2>1. \A a, b \in Visible : <<a, b>> \in T
    OBVIOUS
  <2>2. \A a \in Visible : <<a>> \in T
    OBVIOUS
  <2> HIDE DEF T
  <2> QED  BY <1>1, <2>1, <2>2, Zenon
<1>3. cell # <<>> => text \in T
  BY CellText, EscapeVisible
<1>4. \A s, t \in T : s \o t \in T
  OBVIOUS
<1> HIDE DEF T, text
<1>5. encode_cell(cell, TRUE) \in {<<"\\", "N">>, <<"\\">> \o text, text}
  BY Zenon DEF encode_cell, text
<1>6. cell = <<>> => encode_cell(cell, TRUE) = <<"\\", "N">>
  BY Zenon DEF encode_cell
<1> HIDE DEF cell
<1>7. encode_cell(cell, TRUE) \in T
  BY <1>2, <1>3, <1>4, <1>5, <1>6, Zenon
<1> QED  BY <1>7 DEF T, cell

\* The names of delimited records, escaped where a terminal reads them.
LEMMA DelimitedHeadFits ==
  ASSUME NEW s, SinkShape(s), SinkFits(s), s.format = "delimited", NEW names \in Headers
  PROVE  EmitFits(s, delimitedColumns(s, names))
<1> DEFINE widths == [i \in DOMAIN names |-> 0]
           next == Begun(s, widths)
           cells == [i \in DOMAIN names |-> <<escaped(s, names[i][1])>>]
           head == Out("columns", 0, 0, cells)
<1>1. delimitedColumns(s, names) = record(s, head, next)
  BY DEF delimitedColumns
<1>2. s.escape => \A k \in DOMAIN cells : ~Controlled(cells[k])
  BY NamesAre, NameFits
<1> HIDE DEF widths, cells
<1>3. Fits(s, head)
  BY <1>2, TextFits
<1>4. SinkShape(next) /\ next.buffer = s.buffer
  BY BegunIs
<1>5. SameRules(s, next) /\ SinkFits(next)
  BY BegunFits
<1> HIDE DEF head, next
<1> QED  BY <1>1, <1>3, <1>4, <1>5, RecordFits

\* A row of delimited records, escaped where a terminal reads it.
LEMMA DelimitedRowFits ==
  ASSUME NEW s, SinkShape(s), SinkFits(s), s.format = "delimited", s.escape \in BOOLEAN,
         NEW values \in Rows
  PROVE  EmitFits(s, delimitedRow(s, values))
<1> DEFINE next == [s EXCEPT !.rows = @ + 1]
           cells == [i \in DOMAIN values |-> <<encode_cell(values[i], s.escape)>>]
           piece == Out("row", 0, 0, cells)
<1>1. delimitedRow(s, values) = record(s, piece, next)
  BY DEF delimitedRow
<1>2. s.escape => \A k \in DOMAIN cells : ~Controlled(cells[k])
  <2> SUFFICES ASSUME s.escape, NEW k \in DOMAIN values
               PROVE  ~Controlled(cells[k])
    OBVIOUS
  <2>1. s.escape = TRUE
    OBVIOUS
  <2>2. encode_cell(values[k], TRUE) \in Seq(Visible)
    BY OutputAssumption, EncodedVisible
  <2>3. cells[k] = <<encode_cell(values[k], TRUE)>>
    BY <2>1
  <2> QED  BY <2>2, <2>3, VisibleCell
<1> HIDE DEF cells
<1>3. Fits(s, piece)
  BY <1>2, TextFits
<1>4. SinkShape(next) /\ next.buffer = s.buffer
  BY RowsOn
<1>5. SameRules(s, next) /\ SinkFits(next)
  BY RowsOnFit
<1> HIDE DEF piece, next
<1> QED  BY <1>1, <1>3, <1>4, <1>5, RecordFits

\* The end of a command: its lines have no cells.
LEMMA SummaryFits ==
  ASSUME NEW s, SinkShape(s), SinkFits(s), NEW rows
  PROVE  EmitFits(s, summary(s, rows)) /\ EmitFits(s, jsonlComplete(s, rows))
<1> DEFINE closed == [s EXCEPT !.active = FALSE]
           noted == [s EXCEPT !.preceded = TRUE]
           last == Out("complete", Number(s), rows, <<>>)
           command == Out("command", 0, rows, <<>>)
<1>1. SameRules(s, closed) /\ SinkFits(closed)
  <2>1. /\ closed.format = s.format /\ closed.escape = s.escape
        /\ closed.display = s.display /\ closed.active = FALSE /\ closed.buffer = s.buffer
    BY DEF SinkShape
  <2> HIDE DEF closed
  <2>2. SameRules(s, closed)
    BY <2>1 DEF SameRules
  <2> QED  BY <2>1, <2>2, KeptFits
<1>2. SameRules(s, noted) /\ SinkFits(noted)
  <2>1. /\ noted.format = s.format /\ noted.escape = s.escape
        /\ noted.display = s.display /\ noted.active = s.active
        /\ noted.widths = s.widths /\ noted.buffer = s.buffer
    BY DEF SinkShape
  <2> HIDE DEF noted
  <2>2. SameRules(s, noted)
    BY <2>1 DEF SameRules
  <2> QED  BY <2>1, <2>2, KeptFits
<1>3. AllFit(s, <<last>>) /\ AllFit(s, <<command>>)
  BY OutCells, BareFits, OneFits
<1>4. SameRules(s, s)
  BY DEF SameRules
<1>5. summary(s, rows) = IF s.active THEN Writes(<<last>>, closed)
                         ELSE Writes(Blank(s) \o <<command>>, noted)
  BY DEF summary
<1>6. jsonlComplete(s, rows) = IF s.active THEN Writes(<<last>>, closed)
                               ELSE Writes(<<command>>, s)
  BY DEF jsonlComplete
<1> HIDE DEF closed, noted, last, command
<1>7. AllFit(s, Blank(s) \o <<command>>)
  BY <1>3, BlankFits, BothFit
<1>8. /\ EmitFits(s, Writes(<<last>>, closed)) /\ EmitFits(s, Writes(<<command>>, s))
      /\ EmitFits(s, Writes(Blank(s) \o <<command>>, noted))
  BY <1>1, <1>2, <1>3, <1>4, <1>7, WritesFit
<1> QED  BY <1>5, <1>6, <1>8

\* The end of a delimited result, with what was held back.
LEMMA DelimitedEndFits ==
  ASSUME NEW s, SinkShape(s), SinkFits(s), s.format = "delimited"
  PROVE  EmitFits(s, delimitedComplete(s))
<1> DEFINE closed == [s EXCEPT !.active = FALSE, !.buffer = <<>>]
<1>1. SameRules(s, closed) /\ SinkFits(closed)
  <2>1. /\ closed.format = s.format /\ closed.escape = s.escape
        /\ closed.display = s.display /\ closed.active = FALSE /\ closed.buffer = <<>>
    BY DEF SinkShape
  <2> HIDE DEF closed
  <2> QED  BY <2>1, NoneFits DEF SameRules, SinkFits
<1>2. SameRules(s, s) /\ AllFit(s, <<>>) /\ AllFit(s, s.buffer)
  BY NoneFits DEF SameRules, SinkFits
<1>3. delimitedComplete(s) = IF s.active THEN Writes(s.buffer, closed) ELSE Writes(<<>>, s)
  BY DEF delimitedComplete
<1> HIDE DEF closed
<1> QED  BY <1>1, <1>2, <1>3, WritesFit

\* Notices and errors have no cells.
LEMMA AsideFits ==
  ASSUME NEW s, SinkShape(s), SinkFits(s)
  PROVE  EmitFits(s, emitNotice(s)) /\ EmitFits(s, emitError(s))
<1> DEFINE next == [s EXCEPT !.done = TRUE, !.buffer = <<>>]
           notice == IF s.format = "jsonl" THEN Out("notice", 0, 0, <<>>)
                     ELSE Diagnostic("notice")
           error == IF s.format = "jsonl" THEN Out("error", 0, 0, <<>>)
                    ELSE Diagnostic("error")
<1>1. /\ notice.cells = <<>> /\ error.cells = <<>>
      /\ "cells" \in DOMAIN notice /\ "cells" \in DOMAIN error
  BY DEF Out, Diagnostic
<1>2. emitNotice(s) = Writes(<<notice>>, s)
  BY DEF emitNotice
<1>3. emitError(s) = Writes(s.buffer \o <<error>>, next)
  BY DEF emitError
<1> HIDE DEF notice, error
<1>4. SameRules(s, next) /\ SinkFits(next)
  <2>1. /\ next.format = s.format /\ next.escape = s.escape /\ next.display = s.display
        /\ next.active = s.active /\ next.widths = s.widths /\ next.buffer = <<>>
    BY DEF SinkShape
  <2> HIDE DEF next
  <2> QED  BY <2>1, NoneFits DEF SameRules, SinkFits
<1> HIDE DEF next
<1>5. AllFit(s, <<notice>>) /\ AllFit(s, <<error>>) /\ AllFit(s, s.buffer) /\ SameRules(s, s)
  BY <1>1, BareFits, OneFits DEF SinkFits, SameRules
<1>6. AllFit(s, s.buffer \o <<error>>)
  BY <1>5, BothFit
<1> QED  BY <1>2, <1>3, <1>4, <1>5, <1>6, WritesFit

\* Whatever the sink takes, it writes pieces that fit.
EventOk(event) ==
  \/ \E names \in Headers : event = Columns(names)
  \/ \E values \in Rows : event = Row(values)
  \/ \E rows : event = CommandComplete(rows)
  \/ event = Notice \/ event = Error

\* A heading, a row, an end, a notice or an error, by the form of the sink.
LEMMA EventFits ==
  ASSUME NEW s, SinkOk(s), SinkFits(s), NEW event, EventOk(event), emitEvent(s, event).ok
  PROVE  EmitFits(s, emitEvent(s, event))
<1>1. SinkShape(s) /\ s.format \in Forms /\ s.escape \in BOOLEAN
  BY DEF SinkOk
<1>2. ASSUME NEW names \in Headers, event = Columns(names)
      PROVE  EmitFits(s, emitEvent(s, event))
  <2>1. emitEvent(s, event) = emitColumns(s, names)
    BY <1>2 DEF emitEvent, Columns
  <2>2. ~columnsRefused(s)
    BY <2>1 DEF emitColumns, Refused
  <2>3. emitColumns(s, names) =
          CASE s.format = "table" -> tableColumns(s, names)
            [] s.format = "expanded" -> expandedColumns(s, names)
            [] s.format = "jsonl" -> jsonlColumns(s, names)
            [] OTHER -> delimitedColumns(s, names)
    BY <2>2 DEF emitColumns
  <2> QED  BY <1>1, <2>1, <2>3, TableHeadFits, ExpandedHeadFits, JsonlFits,
              DelimitedHeadFits DEF Forms
<1>3. ASSUME NEW values \in Rows, event = Row(values)
      PROVE  EmitFits(s, emitEvent(s, event))
  <2>1. emitEvent(s, event) = emitRow(s, values)
    BY <1>3 DEF emitEvent, Row
  <2>2. ~rowRefused(s, values)
    BY <2>1 DEF emitRow, Refused
  <2>3. emitRow(s, values) =
          CASE s.format = "table" -> tableRow(s, values)
            [] s.format = "expanded" -> expandedRow(s, values)
            [] s.format = "jsonl" -> jsonlRow(s, values)
            [] OTHER -> delimitedRow(s, values)
    BY <2>2 DEF emitRow
  <2>4. s.active /\ Len(values) = Len(s.widths)
    BY <2>2 DEF rowRefused
  <2> QED  BY <1>1, <2>1, <2>3, <2>4, TableRowFits, ExpandedRowFits, JsonlFits,
              DelimitedRowFits DEF Forms
<1>4. ASSUME NEW rows, event = CommandComplete(rows)
      PROVE  EmitFits(s, emitEvent(s, event))
  <2>1. emitEvent(s, event) = emitComplete(s, rows)
    BY <1>4 DEF emitEvent, CommandComplete
  <2>2. ~countRefused(s, rows)
    BY <2>1 DEF emitComplete, Refused
  <2>3. emitComplete(s, rows) =
          CASE s.format = "delimited" -> delimitedComplete(s)
            [] s.format = "jsonl" -> jsonlComplete(s, rows)
            [] OTHER -> summary(s, rows)
    BY <2>2 DEF emitComplete
  <2> QED  BY <1>1, <2>1, <2>3, SummaryFits, DelimitedEndFits DEF Forms
<1>5. CASE event = Notice
  BY <1>1, <1>5, AsideFits DEF emitEvent, Notice
<1>6. CASE event = Error
  BY <1>1, <1>6, AsideFits DEF emitEvent, Error
<1> QED  BY <1>2, <1>3, <1>4, <1>5, <1>6 DEF EventOk

\* The time that follows has no cells.
LEMMA EmissionFits ==
  ASSUME NEW s, SinkOk(s), SinkFits(s), NEW event, EventOk(event), emit(s, event).ok
  PROVE  EmitFits(s, emit(s, event))
<1> DEFINE w == emitEvent(s, event)
<1>1. ~s.done
  BY DEF emit, Refused
<1>2. emit(s, event) = IF w.ok /\ s.timing /\ event.type \in {"complete", "error"}
                       THEN Writes(Append(w.pieces, Diagnostic("time")), w.sink)
                       ELSE w
  BY <1>1 DEF emit
<1>3. w.ok
  BY <1>2
<1>4. EmitFits(s, w)
  BY <1>3, EventFits
<1> HIDE DEF w
<1>5. AllFit(w.sink, Append(w.pieces, Diagnostic("time")))
  <2>1. AllFit(w.sink, w.pieces)
    BY <1>4 DEF EmitFits
  <2>2. AllFit(w.sink, <<Diagnostic("time")>>)
    BY BareFits, OneFits DEF Diagnostic
  <2>3. Append(w.pieces, Diagnostic("time")) = w.pieces \o <<Diagnostic("time")>>
    BY <2>1, AppendIs DEF AllFit
  <2> QED  BY <2>1, <2>2, <2>3, BothFit
<1>6. EmitFits(s, Writes(Append(w.pieces, Diagnostic("time")), w.sink))
  BY <1>4, <1>5 DEF EmitFits, Writes
<1> QED  BY <1>2, <1>4, <1>6

-----------------------------------------------------------------------------
(***************************************************************************)
(* The whole run.                                                          *)
(***************************************************************************)
\* What was written, what is about to be, and what the sink holds back, fits.
FitInv == SinkFits(sink) /\ AllFit(sink, out) /\ AllFit(sink, todo)

\* A sink that was just made.
LEMMA FreshFits ==
  ASSUME NEW format, NEW display \in Nat, NEW escape, NEW timing
  PROVE  /\ SinkFits(NewSink(format, display, escape, timing))
         /\ AllFit(NewSink(format, display, escape, timing), <<>>)
<1> DEFINE s == NewSink(format, display, escape, timing)
<1>1. s.display = display /\ s.active = FALSE /\ s.buffer = <<>>
  BY DEF NewSink
<1> HIDE DEF s
<1> QED  BY <1>1, NoneFits DEF SinkFits, s

\* Before anything is written.
LEMMA InitFits == Init => FitInv
<1> SUFFICES ASSUME Init PROVE FitInv
  OBVIOUS
<1>1. 80 \in Nat /\ AutoWidth \in Nat
  BY OutputAssumption
<1>2. out = <<>> /\ todo = <<>>
  BY DEF Init
<1>3. sink = NoSink \/ sink \in ScriptSinks
  BY DEF Init
<1>4. SinkFits(sink) /\ AllFit(sink, <<>>)
  BY <1>1, <1>3, FreshFits DEF NoSink, ScriptSinks
<1> QED  BY <1>2, <1>4 DEF FitInv

\* A new sink, before anything is written.
LEMMA PromptFits ==
  ASSUME StreamInv, Prompt \/ \E display \in Displays : StartStatement(display)
  PROVE  FitInv'
<1>1. phase \in {"prompt", "next"} /\ out' = <<>> /\ todo' = todo
  BY DEF Prompt, Command, Submit, StartStatement, Forget
<1>2. todo' = <<>>
  BY <1>1 DEF StreamInv
<1>3. sink' = NoSink \/ \E display \in Displays : sink' = interactive_sink(display)
  BY DEF Prompt, Command, Submit, StartStatement, Forget
<1>4. 80 \in Nat /\ Displays \subseteq Nat
  BY OutputAssumption
<1>5. SinkFits(sink') /\ AllFit(sink', <<>>)
  BY <1>3, <1>4, FreshFits DEF NoSink, interactive_sink
<1> QED  BY <1>1, <1>2, <1>5 DEF FitInv

\* An event hands over pieces that fit.
LEMMA EmitStays ==
  ASSUME StreamInv, FitInv, NEW event, EventOk(event), Emit(event), out' = out
  PROVE  FitInv'
<1> DEFINE w == emit(sink, event)
<1>1. CASE w.ok
  <2>1. sink' = w.sink /\ todo' = w.pieces
    BY <1>1 DEF Emit
  <2>2. EmitFits(sink, w)
    BY <1>1, EmissionFits DEF StreamInv, FitInv
  <2> HIDE DEF w
  <2>3. AllFit(w.sink, out)
    BY <2>2, SameFits DEF EmitFits, FitInv
  <2> QED  BY <2>1, <2>2, <2>3 DEF EmitFits, FitInv
<1>2. CASE ~w.ok
  BY <1>2 DEF Emit, FitInv
<1> QED  BY <1>1, <1>2

\* What the server sends, refused or not.
LEMMA ServerFits ==
  ASSUME StreamInv, FitInv, Server
  PROVE  FitInv'
<1>1. CASE Describe
  <2>1. PICK names \in Headers : Emit(Columns(names))
    BY <1>1 DEF Describe
  <2>2. out' = out
    BY <1>1 DEF Describe
  <2> HIDE DEF Emit
  <2> QED  BY <2>1, <2>2, EmitStays DEF EventOk
<1>2. CASE SendRow
  <2>1. PICK values \in Rows : Emit(Row(values))
    BY <1>2 DEF SendRow
  <2>2. out' = out
    BY <1>2 DEF SendRow
  <2> QED  BY <2>1, <2>2, EmitStays DEF EventOk
<1>3. CASE Complete
  <2>1. PICK rows : Emit(CommandComplete(rows))
    BY <1>3 DEF Complete
  <2>2. out' = out
    BY <1>3 DEF Complete
  <2> QED  BY <2>1, <2>2, EmitStays DEF EventOk
<1>4. CASE SendNotice \/ SendError
  <2>1. Emit(Notice) \/ Emit(Error)
    BY <1>4 DEF SendNotice, SendError
  <2>2. out' = out
    BY <1>4 DEF SendNotice, SendError
  <2> QED  BY <2>1, <2>2, EmitStays DEF EventOk
<1>5. CASE FailSilently
  BY <1>5 DEF FailSilently, FitInv
<1> QED  BY <1>1, <1>2, <1>3, <1>4, <1>5 DEF Server

\* One write, whole or half.
LEMMA TodoFits ==
  ASSUME FitInv, todo # <<>>
  PROVE  /\ AllFit(sink, Tail(todo)) /\ AllFit(sink, Append(out, Head(todo)))
         /\ AllFit(sink, Append(out, [Head(todo) EXCEPT !.kind = "torn"]))
<1> DEFINE n == Len(todo)
           rest == Tail(todo)
           piece == Head(todo)
           half == [piece EXCEPT !.kind = "torn"]
<1>1. /\ IsSeq(todo) /\ IsSeq(out) /\ \A i \in DOMAIN todo : Fits(sink, todo[i])
      /\ AllFit(sink, out)
  BY DEF FitInv, AllFit
<1>2. /\ IsSeq(rest) /\ piece = todo[1] /\ Len(rest) = n - 1 /\ n > 0
      /\ \A i \in 1 .. n - 1 : rest[i] = todo[i + 1]
  BY <1>1, HeadIs
<1>3. DOMAIN todo = 1 .. n /\ n \in Nat /\ DOMAIN rest = 1 .. n - 1
  BY <1>1, <1>2, IsSeqOf
<1> HIDE DEF n, rest, piece
<1>4. AllFit(sink, rest)
  <2>1. \A i \in 1 .. n - 1 : i + 1 \in 1 .. n
    BY <1>3
  <2> QED  BY <1>1, <1>2, <1>3, <2>1 DEF AllFit
<1>5. Fits(sink, piece)
  BY <1>1, <1>2, <1>3
<1>6. Fits(sink, half)
  <2>1. half.cells = piece.cells /\ "cells" \in DOMAIN half
    BY <1>5 DEF Fits
  <2> HIDE DEF half
  <2> QED  BY <1>5, <2>1 DEF Fits
<1> HIDE DEF half
<1>7. AllFit(sink, Append(out, piece)) /\ AllFit(sink, Append(out, half))
  BY <1>1, <1>5, <1>6, OneFits, BothFit, AppendIs
<1> QED  BY <1>4, <1>7 DEF rest, piece, half

\* Writing, failing to, and the pager and the streams closing.
LEMMA WritingFits ==
  ASSUME FitInv,
         \/ Write \/ WriteFails \/ Pager
         \/ \E stream \in {"stdout", "stderr"} : CloseStream(stream)
  PROVE  FitInv'
<1>1. CASE Write
  <2>1. todo # <<>> /\ todo' = Tail(todo) /\ sink' = sink
    BY <1>1 DEF Write
  <2>2. out' = out \/ out' = Append(out, Head(todo))
    BY <1>1 DEF Write, WriteToPager, WriteToStream, Given
  <2> QED  BY <2>1, <2>2, TodoFits DEF FitInv
<1>2. CASE WriteFails
  BY <1>2, NoneFits DEF WriteFails, FitInv
<1>3. CASE Pager
  BY <1>3 DEF Pager, PagerReads, PagerLeaves, FitInv
<1>4. ASSUME NEW stream, CloseStream(stream)
      PROVE  FitInv'
  <2>1. sink' = sink /\ todo' = todo
    BY <1>4 DEF CloseStream
  <2>2. \/ out' = out
        \/ todo # <<>> /\ out' = Append(out, [Head(todo) EXCEPT !.kind = "torn"])
    BY <1>4 DEF CloseStream
  <2> QED  BY <2>1, <2>2, TodoFits DEF FitInv
<1> QED  BY <1>1, <1>2, <1>3, <1>4

\* The end of a statement writes what was held back, and nothing else.
LEMMA EndFits ==
  ASSUME StreamInv, FitInv, Return \/ QuietReturn \/ Signals \/ Report \/ DropSink \/ Reap
  PROVE  FitInv'
<1>1. CASE DropSink
  <2> DEFINE t == [sink EXCEPT !.buffer = <<>>]
  <2>1. sink' = t /\ todo' = todo /\ (out' = out \/ out' = out \o sink.buffer)
    BY <1>1 DEF DropSink
  <2>2. SinkShape(sink)
    BY DEF StreamInv, SinkOk
  <2>3. SameRules(sink, t) /\ SinkFits(t)
    BY <2>2, NoneFits, BufferFits DEF FitInv
  <2> HIDE DEF t
  <2>4. AllFit(sink, out')
    BY <2>1, BothFit DEF FitInv, SinkFits
  <2> QED  BY <2>1, <2>3, <2>4, SameFits DEF FitInv
<1>2. CASE ~DropSink
  <2>1. sink' = sink /\ out' = out /\ todo' = todo
    BY <1>2 DEF Return, QuietReturn, Signals, Interrupt, Terminate, Killed, Report, Reap
  <2> QED  BY <2>1 DEF FitInv
<1> QED  BY <1>1, <1>2

\* Every step keeps it.
LEMMA FitsStay == StreamInv /\ FitInv /\ [Next]_vars => FitInv'
<1> SUFFICES ASSUME StreamInv, FitInv, [Next]_vars
             PROVE  FitInv'
  OBVIOUS
<1>1. CASE UNCHANGED vars
  BY <1>1 DEF vars, FitInv
<1>2. CASE Next
  BY <1>2, PromptFits, ServerFits, WritingFits, EndFits DEF Next, Progress
<1> QED  BY <1>1, <1>2

\* However wide the values, their names and the terminal, no line of a table runs over
\* by more than one for each emoji that a selector widened, and no control character of
\* the data reaches a terminal, whole or in half a write.
THEOREM LinesAlwaysFit == Spec => []LinesFit
<1>1. FitInv => LinesFit
  BY Zenon DEF FitInv, AllFit, Fits, LinesFit
<1>2. Spec => []FitInv
  BY InitFits, FitsStay, StreamsHold, PTL DEF Spec
<1> QED  BY <1>1, <1>2, PTL
=============================================================================
