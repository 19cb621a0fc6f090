----------------------------- MODULE ErrorText -----------------------------
(***************************************************************************)
(* src/error.rs: what is made of the text of an error before anyone sees   *)
(* it: the values of secret keys are replaced, controls are escaped, and   *)
(* the length is bounded.  A text is a sequence of marks and words; Key is *)
(* the name of a secret, EncodedKey the same in percent encoding, KeyStart *)
(* the beginning of a name that is secret whatever follows, Value and Word *)
(* anything else made of the characters of a name.                         *)
(***************************************************************************)
EXTENDS Integers, SequencesExt

CONSTANTS
  MaxDiagnostic,   \* MAX_DIAGNOSTIC_BYTES
  MaxChain         \* MAX_ERROR_CHAIN_DEPTH

ASSUME ErrorAssumption == MaxDiagnostic \in Nat /\ MaxDiagnostic > 3 /\ MaxChain \in Nat

Key == "password"
EncodedKey == "%70assword"
KeyStart == "x-amz-"
Value == "value"
Word == "word"
Control == "\f"

Redaction == <<"[", "R", "]">>
TruncationMarker == <<"[", "t", "]">>

\* The first position of text from i on that is not in marks.
Skip(text, i, Marks) ==
  CHOOSE j \in i .. Len(text) + 1 :
    /\ j <= Len(text) => text[j] \notin Marks
    /\ \A k \in i .. j - 1 : text[k] \in Marks

At(text, i) == IF i \in DOMAIN text THEN text[i] ELSE ""

Quotes == {"'", "\""}
Blanks == {" ", "\t"}
KeyBytes == {Key, EncodedKey, KeyStart, Value, Word}

\* Mutant of is_key_boundary: a quoted name is taken for a value.
boundaryUnquoted(text, i) ==
  i = 1 \/ text[i - 1] \in Blanks \cup {"?", "&", ";", ",", "\n", "{", "[", "("}

is_key_boundary(text, i) ==
  i = 1 \/ text[i - 1] \in Blanks \cup Quotes \cup {"?", "&", ";", ",", "\n", "{", "[", "("}

\* The bytes of a name after decoding and lowering its case.
is_secret_key(name) ==
  LET decoded == [k \in DOMAIN name |-> IF name[k] = EncodedKey THEN Key ELSE name[k]]
  IN  decoded = <<Key>> \/ decoded[1] = KeyStart

\* Where the quoted value that starts at i ends; 0 when it does not.
quoted_secret_value_end(text, i) ==
  LET start == Skip(text, i, Blanks)
      End[j \in 1 .. Len(text) + 2] ==
        CASE j > Len(text) -> 0
          [] j <= Len(text) /\ text[j] = "\\" -> End[j + 2]
          [] j <= Len(text) /\ text[j] = text[start] -> j + 1
          [] OTHER -> End[j + 1]
  IN  IF At(text, start) \in Quotes THEN End[start + 1] ELSE 0

\* A header goes on to the end of its line, an assignment to the next mark, and
\* an unfinished quotation to the end of the text.
secret_value_end(text, separator) ==
  LET i == separator + 1
      quoted == quoted_secret_value_end(text, i)
      UpTo(Marks) == CHOOSE j \in i .. Len(text) + 1 :
                       /\ j <= Len(text) => text[j] \in Marks
                       /\ \A k \in i .. j - 1 : text[k] \notin Marks
  IN  CASE quoted # 0 -> quoted
        [] quoted = 0 /\ text[separator] = ":" -> UpTo({"\n"})
        [] quoted = 0 /\ text[separator] = "=" /\ At(text, Skip(text, i, Blanks)) \in Quotes ->
             Len(text) + 1
        [] OTHER -> UpTo(Blanks \cup {"&", ";", ",", "\n"})

\* A name, perhaps quoted, and its separator; 0 when there is none at i.
separatorOf(text, i) ==
  LET end == Skip(text, i, KeyBytes)
      quoted == i > 1 /\ At(text, i - 1) \in Quotes /\ At(text, end) = At(text, i - 1)
      separator == IF quoted THEN Skip(text, end + 1, Blanks) ELSE end
  IN  IF is_key_boundary(text, i) /\ separator # i /\ At(text, separator) \in {"=", ":"}
      THEN separator ELSE 0

redact(text) ==
  LET From[i \in 1 .. Len(text) + 1] ==
        LET separator == separatorOf(text, i)
            name == SubSeq(text, i, Skip(text, i, KeyBytes) - 1)
        IN  CASE i > Len(text) -> <<>>
              [] i <= Len(text) /\ separator = 0 -> <<text[i]>> \o From[i + 1]
              [] i <= Len(text) /\ separator # 0 /\ (name = <<>> \/ ~is_secret_key(name)) ->
                   SubSeq(text, i, separator) \o From[separator + 1]
              [] OTHER -> SubSeq(text, i, separator) \o Redaction
                            \o From[secret_value_end(text, separator)]
  IN  From[1]

sanitize_terminal_text(text) ==
  FlattenSeq([i \in DOMAIN text |-> IF text[i] = Control THEN <<"\\", "u", "c">> ELSE <<text[i]>>])

Prefix(text, n) == SubSeq(text, 1, IF Len(text) <= n THEN Len(text) ELSE n)

Bounded(text, truncated) ==
  IF ~truncated /\ Len(text) <= MaxDiagnostic THEN text
  ELSE Prefix(text, MaxDiagnostic - Len(TruncationMarker)) \o TruncationMarker

sanitize_diagnostic(input) ==
  Bounded(sanitize_terminal_text(redact(Prefix(input, MaxDiagnostic))),
          Len(input) > MaxDiagnostic)

\* An error and its causes, one text, with room left for the marker.
bounded_error_chain_text(chain) ==
  LET text == FoldLeft(LAMBDA t, cause : t \o <<":", " ">> \o cause,
                       chain[1], Tail(Prefix(chain, MaxChain + 1)))
      limit == MaxDiagnostic - Len(TruncationMarker)
  IN  IF Len(chain) <= MaxChain + 1 /\ Len(text) <= limit THEN text
      ELSE Prefix(text, limit) \o TruncationMarker

\* What the user is told of a connection that fails, by what its text mentions.
dsql_connection_failure(text) ==
  CASE Contains(text, "wrong user to action mapping") -> "token type"
    [] ~Contains(text, "wrong user to action mapping")
         /\ Contains(text, "iam authentication failed") -> "credentials"
    [] ~Contains(text, "wrong user to action mapping")
         /\ ~Contains(text, "iam authentication failed")
         /\ Contains(text, "role does not exist") -> "role"
    [] OTHER -> IF Contains(text, "certificate") THEN "tls" ELSE "connection"

\* What the user is told of a statement the server rejects.
dsql_database_failure(sqlstate, text) ==
  CASE sqlstate = "40001" /\ Contains(text, "OC000") -> "conflict with a transaction"
    [] sqlstate = "40001" /\ ~Contains(text, "OC000") /\ Contains(text, "OC001") ->
         "conflict with the schema"
    [] sqlstate = "40001" /\ ~Contains(text, "OC000") /\ ~Contains(text, "OC001") -> "conflict"
    [] sqlstate = "53300" -> "connection limit"
    [] sqlstate = "53400" -> "resource limit"
    [] OTHER -> sqlstate

exit_code(category) ==
  CASE category = "runtime" -> 1 [] category = "usage" -> 2 [] category = "interrupted" -> 130
=============================================================================
