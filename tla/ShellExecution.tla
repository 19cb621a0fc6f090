--------------------------- MODULE ShellExecution ---------------------------
(***************************************************************************)
(* execute_with_signals of src/shell/mod.rs around the session: the shell  *)
(* runs the statements of one submission in turn, and while one is awaited *)
(* a monitor task delivers Ctrl-C, SIGTERM and SIGHUP.  The first Ctrl-C   *)
(* mutes the output and asks the server, over a connection of its own, to  *)
(* cancel; until that request is answered the statement is not polled.     *)
(***************************************************************************)
EXTENDS ManagedSession

CONSTANTS
  MaxSubmission    \* bound: statements of one submission

ASSUME SubmissionAssumption == MaxSubmission \in Nat \ {0}

VARIABLES
  phase,          \* "prompt", "running", "cancelling", "requested", "interrupted", "ended"
  queue,          \* the statements of the submission still to run
  handle,         \* the connection whose cancellation handle is held
  cancellation,   \* what the first Ctrl-C of this statement came to
  cancels,        \* cancel requests on their way, by connection
  distrusted      \* history: has a request to cancel ever failed?

shellVars == <<phase, queue, handle, cancellation, cancels, distrusted>>
allVars == <<vars, shellVars>>

ShellInit ==
  /\ Init
  /\ phase = "prompt" /\ queue = <<>> /\ handle = 1
  /\ cancellation = "none" /\ cancels = {} /\ distrusted = FALSE
-----------------------------------------------------------------------------
\* The complete statements of the lines read, in their order.
ReadSubmission ==
  /\ phase = "prompt" /\ queue = <<>>
  /\ \E n \in 1 .. MaxSubmission : queue' \in [1 .. n -> Statements]
  /\ UNCHANGED <<vars, phase, handle, cancellation, cancels, distrusted>>

\* The handle is taken before prepare() may replace the connection.
RunStatement ==
  /\ phase = "prompt" /\ queue # <<>>
  /\ Submit(Head(queue))
  /\ queue' = Tail(queue)
  /\ handle' = conn.id
  /\ cancellation' = "none"
  /\ phase' = "running"
  /\ UNCHANGED <<cancels, distrusted>>

\* Once interrupted, results go to a sink that drops them and cannot fail.
PollStatement ==
  /\ \/ phase \in {"running", "interrupted"} /\ Polled
     \/ phase = "running" /\ ReturnOutputFailed
  /\ UNCHANGED shellVars

\* Mutant of Settle: a failed cancellation is forgotten with the statement.
settlesTrusting ==
  /\ phase \in {"running", "interrupted"} /\ pc = "ready"
  /\ phase' = "prompt"
  /\ queue' = IF reported = "ok" THEN queue ELSE <<>>
  /\ UNCHANGED <<vars, handle, cancellation, cancels, distrusted>>

\* Mutant of Settle: a statement that was lost is submitted once more.
settlesByRetrying ==
  /\ phase \in {"running", "interrupted"} /\ pc = "ready"
  /\ IF reported = "lost"
     THEN pc' = "execute" /\ UNCHANGED <<phase, queue>>
     ELSE phase' = "prompt" /\ queue' = <<>> /\ UNCHANGED pc
  /\ UNCHANGED <<fields, conn, stmt, asked, attempt, now, history, handle,
                 cancellation, cancels, distrusted>>

\* The statement has returned.  The rest of its submission runs only after a
\* success, and never after a cancellation that failed.
Settle ==
  /\ phase \in {"running", "interrupted"} /\ pc = "ready"
  /\ phase' = "prompt"
  /\ IF cancellation \in {"unavailable", "failed"}
     THEN GiveUp /\ queue' = <<>>
     ELSE UNCHANGED vars /\ queue' = IF reported = "ok" THEN queue ELSE <<>>
  /\ UNCHANGED <<handle, cancellation, cancels, distrusted>>
-----------------------------------------------------------------------------
(***************************************************************************)
(* Signals, and DsqlSessionCancellation::cancel.                           *)
(***************************************************************************)
Interrupt ==
  /\ phase = "running" /\ pc # "ready"
  /\ phase' = "cancelling"
  /\ UNCHANGED <<vars, queue, handle, cancellation, cancels, distrusted>>

\* The flag of a connection that was replaced is cleared as soon as the abort
\* of its driver takes effect: until then it still reads alive.
readsAlive == handle = conn.id => conn.alive
readsLost == handle = conn.id => Lost

CancelUnavailable ==
  /\ phase = "cancelling" /\ readsLost
  /\ cancellation' = "unavailable"
  /\ distrusted' = TRUE
  /\ phase' = "interrupted"
  /\ UNCHANGED <<vars, queue, handle, cancels>>

RequestCancel ==
  /\ phase = "cancelling" /\ readsAlive
  /\ cancels' = cancels \cup {handle}
  /\ phase' = "requested"
  /\ UNCHANGED <<vars, queue, handle, cancellation, distrusted>>

\* The request was written and its connection closed: when the server acts on
\* it, if it does, is not known.
CancelSucceeds ==
  /\ phase = "requested"
  /\ cancellation' = "sent"
  /\ phase' = "interrupted"
  /\ UNCHANGED <<vars, queue, handle, cancels, distrusted>>

\* Mutant of CancelFails: no deadline is set for the request.
cancelHangs == FALSE

\* The network fails the request, sent or not, or CANCELLATION_TIMEOUT passes.
CancelFails ==
  /\ phase = "requested" \/ (phase = "cancelling" /\ readsAlive)
  /\ cancellation' = "failed"
  /\ distrusted' = TRUE
  /\ phase' = "interrupted"
  /\ UNCHANGED <<vars, queue, handle, cancels>>

\* A second Ctrl-C, or SIGTERM or SIGHUP at any time, ends the shell.
EndShell ==
  /\ phase \in {"running", "cancelling", "requested", "interrupted"}
  /\ pc # "ready"
  /\ GiveUp
  /\ phase' = "ended"
  /\ queue' = <<>>
  /\ UNCHANGED <<handle, cancellation, cancels, distrusted>>

\* The server (external) receives a cancel request: it interrupts whatever that
\* connection is running by then, or comes too late for it.
CancelArrives(c) ==
  /\ c \in cancels
  /\ cancels' = cancels \ {c}
  /\ \/ UNCHANGED vars
     \/ c = conn.id /\ (ServerRejects \/ CaptureRejected)
  /\ UNCHANGED <<phase, queue, handle, cancellation, distrusted>>
-----------------------------------------------------------------------------
ServerAnswers == (ServerSucceeds \/ ServerRejects) /\ UNCHANGED shellVars

World == Environment /\ UNCHANGED shellVars

Announce == phase = "prompt" /\ take_reconnected /\ UNCHANGED shellVars

Cancellation ==
  CancelUnavailable \/ RequestCancel \/ CancelSucceeds \/ CancelFails

ShellNext ==
  \/ ReadSubmission \/ RunStatement \/ PollStatement \/ Settle \/ Announce
  \/ Interrupt \/ Cancellation \/ EndShell
  \/ \E c \in cancels : CancelArrives(c)
  \/ ServerAnswers \/ World

ShellSpec == ShellInit /\ [][ShellNext]_allVars

(***************************************************************************)
(* The executor polls the statement and, while one is in progress, the     *)
(* request to cancel; the request has a deadline, so it ends on its own.   *)
(* The server answers what it runs.  No signal is ever obliged to come.    *)
(***************************************************************************)
FairShellSpec ==
  /\ ShellSpec
  /\ WF_allVars(PollStatement \/ ServerAnswers)
  /\ WF_allVars(Settle)
  /\ WF_allVars(CancelUnavailable \/ CancelFails)
  /\ WF_allVars(World /\ DriverStops)
-----------------------------------------------------------------------------
\* The shell uses the session only as ManagedSession allows: what is checked and
\* proved of ManagedSession holds of every interactive run.
UsesSession == Init /\ [][Next]_vars

\* Once a request to cancel has failed, no later statement gets past prepare():
\* the one it was meant for may still be running on the connection.
DistrustedRunsNothing ==
  distrusted /\ cancellation = "none" => pc \in {"ready", "prepare"}

\* The shell comes back to the prompt or ends: neither a dead connection nor a
\* request to cancel that nobody answers keeps it.
Settles == phase \notin {"prompt", "ended"} ~> phase \in {"prompt", "ended"}

(***************************************************************************)
(* What the repository says and the code does not do in every interleaving.*)
(***************************************************************************)
\* docs/interactive-shell.md: the first Ctrl+C requests PostgreSQL cancellation.
\* When it is taken to have done so, the request went to the connection that the
\* statement runs on.
InterruptReachesStatement ==
  phase = "interrupted" /\ pc = "execute" /\ cancellation = "sent"
    => handle = conn.id

\* src/app.rs, the test failed_setting_capture_blocks_automatic_reconnect_...:
\* a failed capture leaves accepted SQL successful.
AcceptedStaysSuccessful ==
  pc = "ready" /\ reported = "ok" /\ state = "Active" /\ conn.link = "up"
    => conn.txn = "open"
=============================================================================
