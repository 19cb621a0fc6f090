---------------------------- MODULE ScriptReader ----------------------------
(***************************************************************************)
(* How text becomes statements that run: src/cli.rs and the submissions of *)
(* src/shell/mod.rs over the StatementStream of src/sql/scanner.rs.        *)
(*                                                                         *)
(* A file or standard input arrives in chunks cut anywhere, also inside a  *)
(* character or a comment mark, and its statements run as soon as they are *)
(* complete.  A -c command, and what the line editor hands to the shell,   *)
(* is framed as a whole before any of it runs.                             *)
(***************************************************************************)
EXTENDS SqlScanner

CONSTANTS
  Scripts,            \* the texts that may be given, as sequences of bytes
  MaxStatementBytes,  \* MAX_STATEMENT_BYTES
  MaxChunk            \* READ_CHUNK_BYTES

ASSUME ScriptsAssumption == Scripts \subseteq Seq(Bytes)

ASSUME LimitsAssumption == MaxStatementBytes \in Nat \ {0} /\ MaxChunk \in Nat \ {0}

VARIABLES
  source,     \* where the text comes from
  script,     \* all of it
  pos,        \* how much of it was read
  utf8,       \* bytes read that do not make a character yet
  stream,     \* the text pending in the StatementStream
  queue,      \* statements framed and not run
  executed,   \* statements the server accepted
  outcome,    \* what the program reports in the end
  reference   \* history: what the reference makes of the whole script

vars == <<source, script, pos, utf8, stream, queue, executed, outcome, reference>>

Sources == {"reader", "command", "shell"}
-----------------------------------------------------------------------------
\* Every continuation byte follows its lead byte, and every lead byte but
\* perhaps the last is followed by one.
LeadsAndContinues(b) ==
  /\ \A i \in DOMAIN b : b[i] = "lo" => i > 1 /\ b[i - 1] = "hi"
  /\ \A i \in 1 .. Len(b) - 1 : b[i] = "hi" => b[i + 1] = "lo"

valid_up_to(b) == IF b # <<>> /\ b[Len(b)] = "hi" THEN Len(b) - 1 ELSE Len(b)

IsUtf8(b) == LeadsAndContinues(b) /\ valid_up_to(b) = Len(b)

TooLong(piece) == Len(piece) > MaxStatementBytes

\* Mutant of push_bounded: the pending text is not scanned again.
pushScansInput(pending, input) ==
  LET ends == [n \in DOMAIN terminated_statement_ends(input) |->
                 terminated_statement_ends(input)[n] + Len(pending)]
      text == pending \o input
      statements == Frames(text, ends)
      rest == Rest(text, ends)
  IN [statements |-> statements, pending |-> rest,
      ok |-> ~TooLong(rest) /\ \A n \in DOMAIN statements : ~TooLong(statements[n])]

push_bounded(pending, input) ==
  LET text == pending \o input
      ends == terminated_statement_ends(text)
      statements == Frames(text, ends)
      rest == Rest(text, ends)
  IN [statements |-> statements, pending |-> rest,
      ok |-> ~TooLong(rest) /\ \A n \in DOMAIN statements : ~TooLong(statements[n])]

\* What the line editor takes as finished: not blank, not a backslash command,
\* with nothing after the last terminator, or too large.
validate(text) ==
  /\ \E i \in DOMAIN text : text[i] \notin Space
  /\ text[1] # "bs"
  /\ \/ TooLong(text) \/ ~push_bounded(<<>>, text).ok
     \/ is_trivia(push_bounded(<<>>, text).pending)

Init ==
  /\ source \in Sources
  /\ script \in Scripts
  /\ source # "reader" => IsUtf8(script)
  /\ source = "shell" => script # <<>> /\ validate(script)
  /\ pos = 0 /\ utf8 = <<>> /\ stream = <<>> /\ queue = <<>> /\ executed = <<>>
  /\ outcome = "running"
  /\ reference = Read(script)
-----------------------------------------------------------------------------
Fail(error) ==
  /\ outcome' = error
  /\ UNCHANGED <<stream, queue>>

Push(text) ==
  LET valid  == valid_up_to(text)
      pushed == push_bounded(stream, SubSeq(text, 1, valid))
  IN /\ utf8' = SubSeq(text, valid + 1, Len(text))
     /\ IF ~pushed.ok THEN Fail("large")
        ELSE stream' = pushed.pending /\ queue' = pushed.statements /\ UNCHANGED outcome

\* execute_script_reader: the next chunk, once the statements of the one before
\* have run.
ReadChunk ==
  /\ source = "reader" /\ outcome = "running" /\ queue = <<>>
  /\ \E n \in 1 .. MaxChunk :
       /\ pos + n <= Len(script)
       /\ pos' = pos + n
       /\ LET text == utf8 \o SubSeq(script, pos + 1, pos + n) IN
            IF ~LeadsAndContinues(text) THEN Fail("utf8") /\ UNCHANGED utf8
            ELSE Push(text)
  /\ UNCHANGED <<source, script, executed, reference>>

\* Mutant of FrameCommand: the end is looked at when it is reached.
frameLazily ==
  /\ source = "command" /\ outcome = "running" /\ pos < Len(script)
  /\ pos' = Len(script)
  /\ LET pushed == push_bounded(<<>>, script) IN
       IF TooLong(script) \/ ~pushed.ok THEN Fail("large")
       ELSE queue' = pushed.statements /\ stream' = pushed.pending /\ UNCHANGED outcome
  /\ UNCHANGED <<source, script, utf8, executed, reference>>

\* split_command: the last statement needs no terminator.
FrameCommand ==
  /\ source = "command" /\ outcome = "running" /\ pos < Len(script)
  /\ pos' = Len(script)
  /\ LET pushed == push_bounded(<<>>, script)
         rest   == pushed.pending
     IN IF TooLong(script) \/ ~pushed.ok THEN Fail("large")
        ELSE IF is_trivia(rest)
        THEN queue' = pushed.statements /\ stream' = rest /\ UNCHANGED outcome
        ELSE IF is_complete(rest)
        THEN queue' = Append(pushed.statements, rest) /\ stream' = <<>> /\ UNCHANGED outcome
        ELSE Fail("incomplete")
  /\ UNCHANGED <<source, script, utf8, executed, reference>>

\* frame_submission: what follows the last terminator is dropped.
FrameSubmission ==
  /\ source = "shell" /\ outcome = "running" /\ pos < Len(script)
  /\ pos' = Len(script)
  /\ LET pushed == push_bounded(<<>>, script) IN
       IF TooLong(script) \/ ~pushed.ok THEN Fail("large")
       ELSE queue' = pushed.statements /\ stream' = <<>> /\ UNCHANGED outcome
  /\ UNCHANGED <<source, script, utf8, executed, reference>>

\* The first statement that fails ends the script.
Execute ==
  /\ outcome = "running" /\ queue # <<>>
  /\ \/ /\ executed' = Append(executed, Head(queue)) /\ queue' = Tail(queue)
        /\ UNCHANGED outcome
     \/ outcome' = "sql" /\ queue' = <<>> /\ UNCHANGED executed
  /\ UNCHANGED <<source, script, pos, utf8, stream, reference>>

Finish ==
  /\ outcome = "running" /\ queue = <<>> /\ pos = Len(script)
  /\ outcome' = IF utf8 # <<>> THEN "utf8"
                ELSE IF is_trivia(stream) THEN "ok" ELSE "incomplete"
  /\ UNCHANGED <<source, script, pos, utf8, stream, queue, executed, reference>>

Next == ReadChunk \/ FrameCommand \/ FrameSubmission \/ Execute \/ Finish

Spec == Init /\ [][Next]_vars
-----------------------------------------------------------------------------
\* The statements of the whole script.  Only a command may leave the last one
\* without a terminator.
Expected ==
  IF source = "command" /\ ~OnlyTrivia(reference)
  THEN Append(reference.pieces, reference.piece) ELSE reference.pieces

WellFormed == /\ IsUtf8(script)
              /\ Closed(reference) /\ (source = "command" \/ OnlyTrivia(reference))

Oversized ==
  \/ source # "reader" /\ TooLong(script)
  \/ TooLong(reference.piece)
  \/ \E n \in DOMAIN reference.pieces : TooLong(reference.pieces[n])

\* Wherever the chunks are cut, the statements that run are the first ones of the
\* script as it reads when it is not cut, and none of them is too long.
ChunksDoNotMatter ==
  /\ Len(executed \o queue) <= Len(Expected)
  /\ SubSeq(Expected, 1, Len(executed \o queue)) = executed \o queue
  /\ \A n \in DOMAIN executed : ~TooLong(executed[n])

\* Success, and each error but that of the server, is a fact of the script: of a
\* script that is refused no part was misread, of one that succeeds none was left.
OutcomeIsJust ==
  /\ outcome = "ok" => WellFormed /\ ~Oversized /\ executed = Expected
  /\ outcome = "utf8" => ~IsUtf8(script)
  /\ outcome = "large" => Oversized
  /\ outcome = "incomplete" => ~WellFormed

\* A command or a submission that is refused for its text has run nothing of it.
RefusedAsAWhole ==
  source # "reader" /\ outcome \in {"large", "incomplete"} => executed = <<>>
=============================================================================
