---------------------------- MODULE SessionHandle ----------------------------
(***************************************************************************)
(* One PostgreSQL connection of src/db/session.rs: the handle that runs    *)
(* statements, and the driver task that alone reads and writes the socket. *)
(* The driver routes answers to the request they belong to and hands the   *)
(* rest (notices, the loss of the connection) to the handle through a      *)
(* bounded channel; while it waits for room there it neither reads nor     *)
(* writes.  Only the drains and the loop of a running statement take from  *)
(* that channel: the capture of the session settings and the preparation   *)
(* of a parameterised statement wait for the server without doing so.      *)
(***************************************************************************)
EXTENDS Naturals, Sequences

CONSTANTS
  Capacity,      \* DRIVER_EVENT_CHANNEL_CAPACITY
  Queries,       \* settings restored or captured, one query each
  SinkFails,     \* may writing a result or a notice fail?
  MaxNotices,    \* bound: notices one server sends
  MaxRows,       \* bound: rows one statement returns
  MaxRequests    \* bound: requests sent on one connection

ASSUME CapacityAssumption == Capacity \in Nat \ {0}
ASSUME QueriesAssumption == Queries \in Nat \ {0}
\* A connection has room for the requests that open it.
ASSUME HandleBoundsAssumption ==
  /\ MaxNotices \in Nat /\ MaxRows \in Nat /\ MaxRequests \in Nat
  /\ 2 * Queries <= MaxRequests
  /\ SinkFails \in BOOLEAN

VARIABLES
  link,       \* the socket
  outbox,     \* requests the driver has not written
  todo,       \* requests the server has not finished
  rowsSent,   \* rows the server sent of the first of them
  wire,       \* what the server sent and the driver has not read
  drv,        \* the await the driver is at
  alive,      \* the liveness flag, cleared when the driver ends
  begun,      \* was the last request acknowledged (BindComplete)?
  chan,       \* the driver's events
  response,   \* answers to the current request not yet taken by the handle
  pc,         \* the await the handle is at
  left,       \* settings still to restore or capture
  request,    \* the number of the last request
  result,     \* what the last statement returned
  \* history: notices sent and emitted, rows emitted, and how the server
  \* answered the last request
  sent, emitted, shown, answer

serverVars == <<todo, rowsSent, sent, answer>>
driverVars == <<drv, alive, begun>>
handleVars == <<pc, left, request, result, emitted, shown>>
vars == <<link, outbox, wire, chan, response, serverVars, driverVars, handleVars>>

Notice == [kind |-> "notice"]
Failed == [kind |-> "failed"]
Message(kind) == [kind |-> kind, request |-> Head(todo)]

Unanswered == [kind |-> "none", rows |-> 0, notices |-> 0]

\* Where a statement waits; where the settings do; where nothing is awaited.
Preparing == {"describe", "bind"}
Running == {"before", "stream", "after"} \cup Preparing
SettingPhases == {"connect", "capture"}
Away == {"idle", "abandoned", "dropped"}
Results == {"none", "ok", "rejected", "lost", "lostAfter", "unsubmitted", "output"}

TypeOK ==
  /\ link \in {"up", "down"}
  /\ outbox \in Seq(1 .. MaxRequests) /\ todo \in Seq(1 .. MaxRequests)
  /\ rowsSent \in 0 .. MaxRows
  /\ drv \in {"polling", "notice", "failed", "exiting", "done"}
  /\ alive \in BOOLEAN /\ begun \in BOOLEAN
  /\ \A i \in DOMAIN chan : chan[i] \in {Notice, Failed}
  /\ Len(chan) <= Capacity
  /\ \A i \in DOMAIN response : response[i] \in {"row", "complete", "error", "ready"}
  /\ pc \in Running \cup SettingPhases \cup Away
  /\ left \in 0 .. 2 * Queries
  /\ request \in 0 .. MaxRequests
  /\ result \in Results

\* The connection is open, its driver runs, and the first setting was asked for:
\* a replacement restores every setting before it captures them, the first
\* connection only captures them.
Init ==
  /\ link = "up" /\ outbox = <<1>> /\ todo = <<>> /\ rowsSent = 0 /\ wire = <<>>
  /\ drv = "polling" /\ alive = TRUE /\ begun = FALSE /\ chan = <<>> /\ response = <<>>
  /\ pc = "connect" /\ left \in {Queries, 2 * Queries} /\ request = 1
  /\ result = "none"
  /\ sent = 0 /\ emitted = 0 /\ shown = 0 /\ answer = Unanswered
-----------------------------------------------------------------------------
(***************************************************************************)
(* The server and the network (external).                                  *)
(***************************************************************************)
ServerNotice ==
  /\ link = "up" /\ sent < MaxNotices
  /\ sent' = sent + 1
  /\ wire' = Append(wire, Notice)
  /\ UNCHANGED <<link, outbox, todo, rowsSent, answer, chan, response, driverVars,
                 handleVars>>

\* BindComplete, before the rows of a parameterised statement; it is sent once.
ServerBinds ==
  /\ link = "up" /\ todo # <<>> /\ Head(todo) = request /\ rowsSent = 0
  /\ ~begun /\ \A i \in DOMAIN wire : wire[i] # Message("bound")
  /\ wire' = Append(wire, Message("bound"))
  /\ UNCHANGED <<link, outbox, chan, response, serverVars, driverVars, handleVars>>

\* A row, or the description that answers a preparation.
ServerRow ==
  /\ link = "up" /\ todo # <<>> /\ rowsSent < MaxRows
  /\ rowsSent' = rowsSent + 1
  /\ wire' = Append(wire, Message("row"))
  /\ UNCHANGED <<link, outbox, todo, sent, answer, chan, response, driverVars,
                 handleVars>>

ServerFinishes ==
  /\ link = "up" /\ todo # <<>>
  /\ \E kind \in {"complete", "error"} :
       /\ wire' = wire \o <<Message(kind), Message("ready")>>
       /\ answer' = IF Head(todo) # request THEN answer
                    ELSE [kind |-> kind, rows |-> rowsSent, notices |-> sent]
  /\ todo' = Tail(todo)
  /\ rowsSent' = 0
  /\ UNCHANGED <<link, outbox, sent, chan, response, driverVars, handleVars>>

\* What was sent and not read may be lost with the link.
LoseLink ==
  /\ link = "up"
  /\ link' = "down"
  /\ \E n \in 0 .. Len(wire) : wire' = SubSeq(wire, 1, n)
  /\ UNCHANGED <<outbox, chan, response, serverVars, driverVars, handleVars>>
-----------------------------------------------------------------------------
(***************************************************************************)
(* drive_connection                                                        *)
(***************************************************************************)
DriverWrites ==
  /\ drv = "polling" /\ outbox # <<>> /\ link = "up"
  /\ todo' = Append(todo, Head(outbox))
  /\ outbox' = Tail(outbox)
  /\ UNCHANGED <<link, wire, chan, response, rowsSent, sent, answer, driverVars,
                 handleVars>>

\* An answer goes to its request, or nowhere when the handle gave that up.
DriverReads ==
  /\ drv = "polling" /\ wire # <<>>
  /\ LET m == Head(wire) IN
       IF m = Notice
       THEN drv' = "notice" /\ UNCHANGED <<response, begun>>
       ELSE /\ response' = IF m.kind # "bound" /\ m.request = request /\ pc # "idle"
                           THEN Append(response, m.kind) ELSE response
            /\ begun' = (begun \/ (m.kind = "bound" /\ m.request = request))
            /\ UNCHANGED drv
  /\ wire' = Tail(wire)
  /\ UNCHANGED <<link, outbox, chan, serverVars, alive, handleVars>>

\* Mutant of DriverQueuesNotice: the channel has no bound.
driverNeverWaits ==
  /\ drv = "notice"
  /\ chan' = Append(chan, Notice)
  /\ drv' = "polling"
  /\ UNCHANGED <<link, outbox, wire, response, serverVars, alive, begun, handleVars>>

DriverQueuesNotice ==
  /\ drv = "notice" /\ Len(chan) < Capacity
  /\ chan' = Append(chan, Notice)
  /\ drv' = "polling"
  /\ UNCHANGED <<link, outbox, wire, response, serverVars, alive, begun, handleVars>>

DriverSeesLoss ==
  /\ drv = "polling" /\ wire = <<>> /\ link = "down"
  /\ drv' = "failed"
  /\ UNCHANGED <<link, outbox, wire, chan, response, serverVars, alive, begun, handleVars>>

DriverQueuesFailure ==
  /\ drv = "failed" /\ Len(chan) < Capacity
  /\ chan' = Append(chan, Failed)
  /\ drv' = "exiting"
  /\ UNCHANGED <<link, outbox, wire, response, serverVars, alive, begun, handleVars>>

\* Mutant of DriverExits: nothing clears the flag.
driverForgetsFlag ==
  /\ drv = "exiting"
  /\ drv' = "done"
  /\ UNCHANGED <<link, outbox, wire, chan, response, serverVars, alive, begun, handleVars>>

\* The liveness guard is dropped, and with the connection every response
\* channel and the sender of the events.
DriverExits ==
  /\ drv = "exiting"
  /\ drv' = "done" /\ alive' = FALSE
  /\ UNCHANGED <<link, outbox, wire, chan, response, begun, serverVars, handleVars>>

\* The handle was dropped: its task is aborted at the await it is at.
DriverAborts ==
  /\ pc = "dropped" /\ drv # "done"
  /\ drv' = "done" /\ alive' = FALSE
  /\ UNCHANGED <<link, outbox, wire, chan, response, begun, serverVars, handleVars>>
-----------------------------------------------------------------------------
Closed == drv = "done"

\* The requests are queued without bound for the driver.
Send ==
  /\ request' = request + 1
  /\ outbox' = Append(outbox, request + 1)
  /\ response' = <<>> /\ begun' = FALSE
  /\ answer' = Unanswered
  /\ shown' = 0

\* A statement ends with an error; later answers to it go nowhere.
Return(r) ==
  /\ result' = r
  /\ pc' = "idle"
  /\ response' = <<>>
  /\ UNCHANGED <<left, request, shown>>

\* What an action of the handle that sends nothing leaves alone, and one that
\* sends.
handleOnly == UNCHANGED <<link, outbox, wire, serverVars, driverVars>>
sendOnly == UNCHANGED <<link, wire, todo, rowsSent, sent, drv, alive, emitted>>

\* execute / execute_params begin: the events queued while nothing ran are
\* taken first, so that a full channel cannot stall the driver.
Begin ==
  /\ pc = "idle" /\ request + 2 + Queries <= MaxRequests
  /\ pc' = "before"
  /\ result' = "none"
  /\ UNCHANGED <<chan, response, left, request, emitted, shown>>
  /\ handleOnly

EmitNotice ==
  /\ chan # <<>> /\ Head(chan) = Notice
  /\ emitted' = emitted + 1
  /\ chan' = Tail(chan)
  /\ UNCHANGED <<pc, left, request, result, shown, response>>
  /\ handleOnly

\* The end of the channel counts as the driver's failure.
TakesFailure ==
  \/ chan # <<>> /\ Head(chan) = Failed /\ chan' = Tail(chan)
  \/ chan = <<>> /\ Closed /\ UNCHANGED chan

DrainNotice == pc \in {"before", "after"} /\ EmitNotice

\* Mutant of DrainFails: the phase of the drain is ignored.
drainFailsUnphased ==
  /\ pc \in {"before", "after"}
  /\ TakesFailure
  /\ Return("unsubmitted")
  /\ UNCHANGED emitted
  /\ handleOnly

DrainFails ==
  /\ pc \in {"before", "after"}
  /\ TakesFailure
  /\ Return(IF pc = "before" THEN "unsubmitted" ELSE "lostAfter")
  /\ UNCHANGED emitted
  /\ handleOnly

\* simple_query_raw queues the statement and does not wait; prepare_typed does.
Submit ==
  /\ pc = "before" /\ chan = <<>> /\ ~Closed
  /\ Send
  /\ pc' \in {"stream", "describe"}
  /\ UNCHANGED <<chan, left, result>>
  /\ sendOnly

answered(kind) == response # <<>> /\ response[Len(response)] = kind
received(kind) == \E i \in DOMAIN response : response[i] = kind

\* The statement is described, and query_raw binds it.
Described ==
  /\ pc = "describe" /\ (received("row") \/ received("complete")) /\ ~received("error")
  /\ Send
  /\ pc' = "bind"
  /\ UNCHANGED <<chan, left, result>>
  /\ sendOnly

\* query_raw returns with the first answer to the execution.  Until then the
\* handle takes nothing from the channel.
Bound ==
  /\ pc = "bind" /\ (begun \/ (response # <<>> /\ Head(response) # "error"))
  /\ pc' = "stream"
  /\ UNCHANGED <<chan, response, left, request, result, emitted, shown>>
  /\ handleOnly

StreamRow ==
  /\ pc = "stream" /\ response # <<>> /\ Head(response) \in {"row", "complete"}
  /\ shown' = IF Head(response) = "row" THEN shown + 1 ELSE shown
  /\ response' = Tail(response)
  /\ UNCHANGED <<chan, pc, left, request, result, emitted>>
  /\ handleOnly

StreamError ==
  /\ \/ pc = "stream" /\ response # <<>> /\ Head(response) = "error"
     \/ pc \in Preparing /\ received("error")
  /\ Return("rejected")
  /\ UNCHANGED <<chan, emitted>>
  /\ handleOnly

\* A successful statement, and the first query of the capture that follows it.
\* The notices that came with the statement have been emitted.
Accept ==
  /\ result' = "ok"
  /\ pc' = "capture" /\ left' = Queries
  /\ Send
  /\ UNCHANGED chan
  /\ sendOnly

\* Mutant of StreamEnds: the last notices of a statement are not waited for.
streamEndsUndrained == pc = "stream" /\ response = <<"ready">> /\ Accept

StreamEnds ==
  /\ pc = "stream" /\ response = <<"ready">>
  /\ pc' = "after" /\ response' = <<>>
  /\ UNCHANGED <<chan, left, request, result, emitted, shown>>
  /\ handleOnly

DrainEnds == pc = "after" /\ chan = <<>> /\ ~Closed /\ Accept

\* Mutant of StreamNotice: only the answers of the server are awaited.
streamIgnoresEvents == FALSE

\* The select is biased: an event is taken only when no answer is there.
StreamNotice == pc = "stream" /\ response = <<>> /\ EmitNotice

\* The driver's failure, or a response channel closed with the connection.
StreamLost ==
  /\ \/ pc = "stream" /\ response = <<>> /\ TakesFailure
     \/ pc \in {"stream", "describe", "bind"} /\ ~answered("ready") /\ Closed
        /\ UNCHANGED chan
  /\ Return("lost")
  /\ UNCHANGED emitted
  /\ handleOnly

\* The sink cannot write the notice or the row it is handed.
OutputFails ==
  /\ SinkFails
  /\ \/ /\ pc \in {"before", "after"} \/ (pc = "stream" /\ response = <<>>)
        /\ chan # <<>> /\ Head(chan) = Notice
        /\ chan' = Tail(chan) /\ emitted' = emitted + 1
     \/ /\ pc = "stream" /\ response # <<>> /\ Head(response) \in {"row", "complete"}
        /\ UNCHANGED <<chan, emitted>>
  /\ Return("output")
  /\ handleOnly
-----------------------------------------------------------------------------
(***************************************************************************)
(* restore_session_settings and capture_session_settings: one query after  *)
(* another, each awaited.  The channel is not looked at.                   *)
(***************************************************************************)
SettingAnswered ==
  /\ pc \in SettingPhases /\ left > 1
  /\ answered("ready") /\ ~received("error")
  /\ Send
  /\ left' = left - 1
  /\ UNCHANGED <<chan, pc, result>>
  /\ sendOnly

LastSettingAnswered ==
  /\ pc \in SettingPhases /\ left = 1
  /\ answered("ready") /\ ~received("error")
  /\ pc' = "idle" /\ left' = 0 /\ response' = <<>>
  /\ UNCHANGED <<chan, request, result, emitted, shown>>
  /\ handleOnly

\* An error, a lost connection, or an answer that cannot be used.  It costs a
\* new connection its life and an established one only its capture.
SettingFails ==
  /\ pc \in SettingPhases
  /\ answered("ready") \/ answered("error") \/ Closed
  /\ pc' = IF pc = "connect" THEN "dropped" ELSE "idle"
  /\ left' = 0 /\ response' = <<>>
  /\ UNCHANGED <<chan, request, result, emitted, shown>>
  /\ handleOnly

\* The caller drops the future of a statement: ManagedSession then submits
\* nothing more to this handle.
Abandon ==
  /\ pc \in Running \cup {"capture"}
  /\ pc' = "abandoned" /\ response' = <<>> /\ result' = "none"
  /\ UNCHANGED <<chan, left, request, emitted, shown>>
  /\ handleOnly

\* The session is replaced, or the process ends.
Drop ==
  /\ pc \in {"idle", "abandoned"}
  /\ pc' = "dropped"
  /\ UNCHANGED <<chan, response, left, request, result, emitted, shown>>
  /\ handleOnly
-----------------------------------------------------------------------------
Server == ServerBinds \/ ServerRow \/ ServerFinishes

Driver ==
  \/ DriverWrites \/ DriverReads \/ DriverQueuesNotice
  \/ DriverSeesLoss \/ DriverQueuesFailure \/ DriverExits \/ DriverAborts

Handle ==
  \/ DrainNotice \/ DrainFails \/ Submit \/ Described \/ Bound
  \/ StreamRow \/ StreamError \/ StreamEnds \/ StreamNotice \/ StreamLost
  \/ DrainEnds
  \/ SettingAnswered \/ LastSettingAnswered \/ SettingFails

Next ==
  \/ Server \/ Driver \/ Handle
  \/ ServerNotice \/ LoseLink \/ OutputFails \/ Begin \/ Abandon \/ Drop

Spec == Init /\ [][Next]_vars

\* The executor polls the two tasks; the server answers what it has received.
\* Nothing obliges output to fail, or a user to run, drop or end a statement.
FairSpec == Spec /\ WF_vars(Driver) /\ WF_vars(Handle) /\ WF_vars(ServerFinishes)
-----------------------------------------------------------------------------
(***************************************************************************)
(* Safety.                                                                 *)
(***************************************************************************)
\* A statement is reported successful only when the server completed it, with
\* every row it sent and after every notice it sent before completing it, though
\* rows and notices reach the handle by two channels.
SuccessIsComplete ==
  [][result # "ok" /\ result' = "ok"
     => /\ answer.kind = "complete" /\ shown = answer.rows
        /\ emitted >= answer.notices]_vars

\* The other outcomes are true of the server as well: an error is the answer to
\* this very statement, whatever an earlier one left behind in the socket; and
\* one reported as not submitted was never sent.
OutcomeIsTrue ==
  [][result' # result =>
       /\ result' = "rejected" => answer.kind = "error"
       /\ result' = "lostAfter" => answer.kind = "complete"
       /\ result' = "unsubmitted" => request' = request /\ pc = "before"]_vars

(***************************************************************************)
(* Liveness.                                                               *)
(***************************************************************************)
\* Once it is prepared, or if it needs no preparation, a statement always ends,
\* however many notices come with it and however small the channel is.  Before
\* BindComplete a statement with parameters takes nothing from the channel and may
\* wait for ever, as the capture may (CaptureEnds).
StatementEnds ==
  pc \in {"before", "stream", "after"} ~> pc \notin {"before", "stream", "after"}

\* A lost connection is noticed unless the channel stays full.
LossIsNoticed ==
  []<>(Len(chan) < Capacity) /\ <>(link = "down") => <>(~alive)

(***************************************************************************)
(* What the repository says and the code does not do in every interleaving.*)
(***************************************************************************)
\* src/db/session.rs, in execute: a full channel cannot stall the driver.  The
\* capture waits for it without taking anything from the channel.
CaptureEnds == pc = "capture" ~> pc # "capture"
=============================================================================
