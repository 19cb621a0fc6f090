--------------------------- MODULE ManagedSession ---------------------------
(***************************************************************************)
(* ManagedSession of src/app.rs: the one database session of a dsql        *)
(* process, which decides before every statement whether the connection    *)
(* may be replaced, submits the statement once, and keeps the transaction  *)
(* state shown to the user.                                                *)
(*                                                                         *)
(* The statement in progress is a coroutine: pc is the await it is stopped *)
(* at.  Around it run the connection driver (a task on another thread that *)
(* notices a dead link and then clears the liveness flag), the server, the *)
(* network and the system clock.  The database adapter is reduced to what  *)
(* it lets its caller see; SessionHandle models it in detail.              *)
(***************************************************************************)
EXTENDS TransactionControl, Integers

CONSTANTS
  Statements,      \* the statements a user may submit
  Values,          \* the values of the restorable session settings
  ReconnectAge,    \* PROACTIVE_RECONNECT_AFTER
  MaxTime,         \* bound: the clock moves within 0 .. MaxTime
  MaxConnections   \* bound: connections one process opens

ASSUME ReconnectAgeAssumption == ReconnectAge \in Nat \ {0}
ASSUME BoundsAssumption == MaxTime \in Nat /\ MaxConnections \in Nat \ {0}
ASSUME StatementsAssumption == Statements \subseteq Seq(STRING)

VARIABLES
  \* the fields of ManagedSession
  state, settings, settings_current, reconnect_required, reconnected,
  connected_at,
  \* its ConnectedSession with the connection behind it
  conn,
  \* the statement in progress: the await it is at, its text, the clock value
  \* it was given, and the reconnect attempts that have failed
  pc, stmt, asked, attempt,
  now,
  \* history: how often the server has processed stmt, whether the user was
  \* told of a transaction that no statement has ended since, what the last
  \* statement reported, and whether output has ever failed
  runs, toldOpen, reported, outputFailed

fields == <<state, settings, settings_current, reconnect_required, reconnected,
            connected_at>>
history == <<runs, toldOpen, reported, outputFailed>>
vars == <<fields, conn, pc, stmt, asked, attempt, now, history>>

Time == 0 .. MaxTime
MaxAttempts == 3

(***************************************************************************)
(* A connection: the link itself, the liveness flag its driver clears some *)
(* time after the link is lost, and the server's side: the transaction     *)
(* status, the settings in force, and those an abort returns to.  The last *)
(* three keep the values they had when the link was lost.                  *)
(***************************************************************************)
Connection == [id : 1 .. MaxConnections, link : {"up", "down"}, alive : BOOLEAN,
               txn : ServerTxn, gucs : Values, saved : Values]

\* connect_postgres_inner: every setting is restored before the connection is
\* handed over, and one that cannot be restored fails the attempt.
Restored(id, value) == [id |-> id, link |-> "up", alive |-> TRUE,
                        txn |-> "none", gucs |-> value, saved |-> value]

Awaits == {"ready", "prepare", "reconnect", "execute", "succeeded",
           "rejected", "capture"}

Reports == {"none", "ok", "rejected", "lost", "output", "refused"}

TypeOK ==
  /\ state \in TransactionState
  /\ settings \in Values
  /\ settings_current \in BOOLEAN
  /\ reconnect_required \in BOOLEAN
  /\ reconnected \in BOOLEAN
  /\ connected_at \in Time
  /\ conn \in Connection
  /\ pc \in Awaits
  /\ stmt \in Statements
  /\ asked \in Time
  /\ attempt \in 0 .. MaxAttempts - 1
  /\ now \in Time
  /\ runs \in Nat
  /\ toldOpen \in BOOLEAN
  /\ reported \in Reports
  /\ outputFailed \in BOOLEAN

Init ==
  /\ state = "Idle"
  /\ settings \in Values
  /\ settings_current = TRUE
  /\ reconnect_required = FALSE
  /\ reconnected = FALSE
  /\ now \in Time
  /\ connected_at = now
  /\ conn = Restored(1, settings)
  /\ pc = "ready"
  /\ stmt \in Statements
  /\ asked = now
  /\ attempt = 0
  /\ runs = 0
  /\ toldOpen = FALSE
  /\ reported = "none"
  /\ outputFailed = FALSE
-----------------------------------------------------------------------------
Lost == ~conn.alive

\* A clock that went backwards makes the age an error, never a due connection.
connection_is_due(since, t) == t - since >= ReconnectAge

\* The conditions of prepare(), in the order it tests them.
mustReconnect == reconnect_required \/ Lost

\* Mutant of boundaryCrossed: a lost connection is replaced in any state.
boundaryAlwaysIdle == FALSE

boundaryCrossed == mustReconnect /\ state # "Idle"

wantsReconnect ==
  mustReconnect \/ (state = "Idle" /\ connection_is_due(connected_at, asked))

\* Mutant of unsafeReconnect: settings that could not be captured are ignored.
restoresAnything == FALSE

unsafeReconnect == wantsReconnect /\ ~settings_current

\* Mutant of refuses: a session marked uncertain is used again.
refusesOnlyBoundary == boundaryCrossed \/ unsafeReconnect

refuses == state = "Uncertain" \/ boundaryCrossed \/ unsafeReconnect

Return(report) == pc' = "ready" /\ reported' = report
-----------------------------------------------------------------------------
\* execute / execute_params: a caller submits a statement and the clock is
\* read once, before anything is awaited.
Submit(s) ==
  /\ pc = "ready"
  /\ stmt' = s
  /\ asked' = now
  /\ runs' = 0
  /\ pc' = "prepare"
  /\ UNCHANGED <<fields, conn, attempt, now, toldOpen, reported, outputFailed>>

PrepareRefuses ==
  /\ pc = "prepare"
  /\ refuses
  /\ Return("refused")
  /\ UNCHANGED <<fields, conn, stmt, asked, attempt, now, runs, toldOpen,
                 outputFailed>>

PrepareReconnects ==
  /\ pc = "prepare"
  /\ ~refuses /\ wantsReconnect
  /\ pc' = "reconnect"
  /\ attempt' = 0
  /\ UNCHANGED <<fields, conn, stmt, asked, now, history>>

PrepareProceeds ==
  /\ pc = "prepare"
  /\ ~refuses /\ ~wantsReconnect
  /\ pc' = "execute"
  /\ UNCHANGED <<fields, conn, stmt, asked, attempt, now, history>>

\* The replacement is installed and the old session dropped in one step.
ReconnectSucceeds ==
  /\ pc = "reconnect"
  /\ conn.id < MaxConnections
  /\ conn' = Restored(conn.id + 1, settings)
  /\ connected_at' = asked
  /\ reconnect_required' = FALSE
  /\ reconnected' = TRUE
  /\ pc' = "execute" /\ attempt' = 0
  /\ UNCHANGED <<state, settings, settings_current, stmt, asked, now, history>>

\* Mutant of ReconnectFails: the last attempt is not counted.
reconnectsOnceMore ==
  /\ pc = "reconnect"
  /\ IF attempt < MaxAttempts
     THEN attempt' = attempt + 1 /\ UNCHANGED <<pc, reported>>
     ELSE Return("refused") /\ attempt' = 0
  /\ UNCHANGED <<fields, conn, stmt, asked, now, runs, toldOpen, outputFailed>>

\* After the third failure the statement is refused on the old session.
ReconnectFails ==
  /\ pc = "reconnect"
  /\ IF attempt < MaxAttempts - 1
     THEN attempt' = attempt + 1 /\ UNCHANGED <<pc, reported>>
     ELSE Return("refused") /\ attempt' = 0
  /\ UNCHANGED <<fields, conn, stmt, asked, now, runs, toldOpen, outputFailed>>
-----------------------------------------------------------------------------
(***************************************************************************)
(* The server (external) processes the statement it was sent.  A setting   *)
(* changed inside a transaction lasts only if the transaction commits, and *)
(* not even then if it was changed for the transaction alone.              *)
(***************************************************************************)
Sets(s) == \E word \in {"SET", "RESET", "DISCARD"} : Is(s, 1, word)

SettingsAfter(s) ==
  CASE Sets(s) \/ ToSavepoint(s)            -> Values
    [] Aborts(s) /\ ~ToSavepoint(s)         -> {conn.saved}
    [] Commits(s) /\ conn.txn = "aborted"   -> {conn.saved}
    [] Commits(s) /\ conn.txn = "open"      -> {conn.saved, conn.gucs}
    [] OTHER                                -> {conn.gucs}

ServerSucceeds ==
  /\ pc = "execute"
  /\ conn.link = "up"
  /\ Accepts(stmt, conn.txn)
  /\ \E v \in SettingsAfter(stmt) :
       conn' = [conn EXCEPT
         !.txn = Succeeds(stmt, @),
         !.gucs = v,
         !.saved = IF Succeeds(stmt, conn.txn) = "none" \/ Chains(stmt) THEN v
                   ELSE IF conn.txn = "none" THEN conn.gucs ELSE @]
  /\ runs' = runs + 1
  /\ toldOpen' = (toldOpen /\ ~Ends(stmt))
  /\ pc' = "succeeded"
  /\ UNCHANGED <<fields, stmt, asked, attempt, now, reported, outputFailed>>

ServerRejects ==
  /\ pc = "execute"
  /\ conn.link = "up"
  /\ conn' = [conn EXCEPT !.txn = Fails(stmt, @), !.gucs = conn.saved]
  /\ runs' = runs + 1
  /\ toldOpen' = (toldOpen /\ Fails(stmt, conn.txn) # "none")
  /\ pc' = "rejected"
  /\ UNCHANGED <<fields, stmt, asked, attempt, now, reported, outputFailed>>

\* The capture is itself queries of the session: one that the server rejects
\* or cancels aborts the transaction they run in.
CaptureRejected ==
  /\ pc = "capture"
  /\ conn.link = "up" /\ conn.txn = "open"
  /\ conn' = [conn EXCEPT !.txn = "aborted", !.gucs = conn.saved]
  /\ UNCHANGED <<fields, pc, stmt, asked, attempt, now, history>>

\* The network drops the link; the driver notices later.  Between the two a
\* failure can be reported while the session still looks alive.
LoseLink ==
  /\ conn.link = "up"
  /\ conn' = [conn EXCEPT !.link = "down"]
  /\ UNCHANGED <<fields, pc, stmt, asked, attempt, now, history>>

DriverStops ==
  /\ conn.link = "down" /\ conn.alive
  /\ conn' = [conn EXCEPT !.alive = FALSE]
  /\ UNCHANGED <<fields, pc, stmt, asked, attempt, now, history>>

\* The system clock advances, or is set back.
Tick ==
  /\ \E t \in Time \ {now} : now' = t
  /\ UNCHANGED <<fields, conn, pc, stmt, asked, attempt, history>>
-----------------------------------------------------------------------------
(***************************************************************************)
(* finalize(): no await separates it from the end of the execution.        *)
(***************************************************************************)
FinalizeOk ==
  /\ pc = "succeeded"
  /\ state' = transition(state, classify(stmt))
  /\ toldOpen' = (toldOpen \/ Begins(stmt))
  /\ pc' = "capture"
  /\ UNCHANGED <<settings, settings_current, reconnect_required, reconnected,
                 connected_at, conn, stmt, asked, attempt, now, runs, reported,
                 outputFailed>>

\* Mutant of failureState: an error leaves an active transaction active.
failureKeepsState == state

\* The state after an error, by the liveness read at that moment.
failureState ==
  CASE Lost /\ (state # "Idle" \/ classify(stmt) = "Begin") -> "Uncertain"
    [] ~Lost /\ state = "Active" -> "Failed"
    [] OTHER -> state

FinalizeError(report) ==
  /\ reconnect_required' = (reconnect_required \/ Lost)
  /\ state' = failureState
  /\ outputFailed' = (outputFailed \/ report = "output")
  /\ Return(report)
  /\ UNCHANGED <<settings, settings_current, reconnected, connected_at, conn,
                 stmt, asked, attempt, now, runs, toldOpen>>

ReturnRejected == pc = "rejected" /\ FinalizeError("rejected")

\* Mutant of ReturnLost: a statement whose answer was lost is tried again.
resubmitsLost ==
  /\ pc \in {"execute", "succeeded", "rejected"}
  /\ conn.link = "down"
  /\ pc' = "reconnect" /\ attempt' = 0
  /\ UNCHANGED <<fields, conn, stmt, asked, now, history>>

\* The connection fails before the statement was sent, before its answer, or
\* after it: the driver's event or the closed stream ends the execution.
ReturnLost ==
  /\ pc \in {"execute", "succeeded", "rejected"}
  /\ conn.link = "down"
  /\ FinalizeError("lost")

\* A sink that cannot write ends the execution wherever the server is.  What the
\* server still makes of the statement comes before it takes the next one: the
\* model has it happen before the failure, or not at all.
ReturnOutputFailed ==
  /\ pc \in {"execute", "succeeded", "rejected"}
  /\ FinalizeError("output")

CaptureSucceeds ==
  /\ pc = "capture"
  /\ conn.link = "up" /\ conn.txn # "aborted"
  /\ settings' = conn.gucs
  /\ settings_current' = TRUE
  /\ Return("ok")
  /\ UNCHANGED <<state, reconnect_required, reconnected, connected_at, conn, stmt,
                 asked, attempt, now, runs, toldOpen, outputFailed>>

\* The connection is lost, a query was rejected, or an answer is unusable.
CaptureFails ==
  /\ pc = "capture"
  /\ settings_current' = FALSE
  /\ Return("ok")
  /\ UNCHANGED <<state, settings, reconnect_required, reconnected, connected_at,
                 conn, stmt, asked, attempt, now, runs, toldOpen, outputFailed>>
-----------------------------------------------------------------------------
(***************************************************************************)
(* What the callers do with the session between and across statements.     *)
(***************************************************************************)
mark_uncertain == state' = "Uncertain" /\ UNCHANGED reconnect_required

require_reconnect ==
  IF state = "Idle" THEN reconnect_required' = TRUE /\ UNCHANGED state
  ELSE mark_uncertain

\* execute_with_signals gives up: the statement is dropped at whatever await
\* it is at, or had just returned, and the session is not trusted again.
GiveUp ==
  /\ mark_uncertain
  /\ Return(IF pc = "ready" THEN reported ELSE "lost")
  /\ UNCHANGED <<settings, settings_current, reconnected, connected_at, conn,
                 stmt, asked, attempt, now, runs, toldOpen, outputFailed>>

\* load_rows: a catalog query that outlives its deadline is dropped.  The shell
\* loads the catalog only while no transaction is open.
DropCatalogQuery ==
  /\ pc # "ready"
  /\ state = "Idle"
  /\ classify(stmt) = "Other" /\ ~Sets(stmt)
  /\ require_reconnect
  /\ Return("lost")
  /\ UNCHANGED <<settings, settings_current, reconnected, connected_at, conn,
                 stmt, asked, attempt, now, runs, toldOpen, outputFailed>>

take_reconnected ==
  /\ pc = "ready" /\ reconnected
  /\ reconnected' = FALSE
  /\ UNCHANGED <<state, settings, settings_current, reconnect_required,
                 connected_at, conn, pc, stmt, asked, attempt, now, history>>

-----------------------------------------------------------------------------
Server == ServerSucceeds \/ ServerRejects \/ CaptureRejected

Polled ==
  \/ PrepareRefuses \/ PrepareReconnects \/ PrepareProceeds
  \/ ReconnectSucceeds \/ ReconnectFails
  \/ FinalizeOk \/ ReturnRejected \/ ReturnLost
  \/ CaptureSucceeds \/ CaptureFails

Session == Polled \/ ReturnOutputFailed

Environment == LoseLink \/ DriverStops \/ Tick

Caller ==
  \/ \E s \in Statements : Submit(s)
  \/ GiveUp \/ DropCatalogQuery \/ take_reconnected

Next == Session \/ Server \/ Environment \/ Caller

Spec == Init /\ [][Next]_vars
-----------------------------------------------------------------------------
(***************************************************************************)
(* Safety.                                                                 *)
(***************************************************************************)
\* The connection is never replaced while the user has a transaction open that
\* he was told of, whatever was lost in between: the statements of it that
\* follow may not run in autocommit on a fresh connection (docs/cli.md).
NeverReconnectsAcrossTransaction ==
  [][conn'.id # conn.id => ~toldOpen]_vars

\* A statement reaches the server at most once, on whatever connection, and one
\* that was refused has not reached it: nothing is replayed.
NeverReplayed ==
  /\ runs <= 1
  /\ pc = "ready" /\ reported = "refused" => runs = 0

\* What the user sees of the state: ShellPrompt, between the names of the cluster
\* and the role and the "> ".
ShellPrompt(s) ==
  CASE s = "Idle" -> "="
    [] s = "Active" -> "=*"
    [] s = "Failed" -> "=!"
    [] s = "Uncertain" -> "=?"

\* At rest on a live link the prompt does not promise too much: "=" means that the
\* server has no transaction, "=*" that its transaction still accepts statements.
\* Settings that could not be captured are the one exception: the capture may have
\* aborted the transaction it ran in.  And a statement whose output could not be
\* written is finalized as failed, though the server may have accepted it: from
\* then on nothing is promised.
PromptIsSound ==
  pc = "ready" /\ conn.link = "up" /\ ~outputFailed =>
    /\ ShellPrompt(state) = "=" => conn.txn = "none"
    /\ ShellPrompt(state) = "=*" /\ settings_current => conn.txn = "open"

\* Replacing a connection that still works does not change the settings the
\* user's next statement runs under, as long as output could be written: those
\* of a SET whose completion could not be are never captured.
SettingsSurviveRefresh ==
  [][conn'.id # conn.id /\ conn.link = "up" /\ ~outputFailed
     => conn'.gucs = conn.gucs]_vars

\* A session whose outcome is uncertain stays so, and nothing is submitted on
\* it again.
UncertainIsFinal ==
  [][state = "Uncertain" => state' = "Uncertain" /\ conn'.id = conn.id
                            /\ (pc = "prepare" => pc' \in {"prepare", "ready"})]_vars

(***************************************************************************)
(* The session implements the promise of SessionRefresh.                   *)
(***************************************************************************)
callBar == IF pc = "ready" THEN "none" ELSE IF runs = 0 THEN "asked" ELSE "ran"

Promise == INSTANCE SessionRefresh
             WITH connection <- conn.id, open <- toldOpen, call <- callBar

KeepsPromise == Promise!Spec

(***************************************************************************)
(* What the repository says and the code does not do in every interleaving.*)
(***************************************************************************)
\* src/app.rs, the tests lost_session_during_begin_becomes_uncertain_from_idle
\* and lost_non_idle_session_becomes_uncertain_and_refuses_reconnect: a
\* connection lost under a BEGIN, or under a statement of an open transaction,
\* leaves the session uncertain.
LostTransactionIsUncertain ==
  [][/\ pc # "ready" /\ pc' = "ready" /\ reported' = "lost"
     /\ state # "Idle" \/ classify(stmt) = "Begin"
     => state' = "Uncertain"]_vars
=============================================================================
