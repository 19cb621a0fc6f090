------------------------- MODULE SessionHandleProofs -------------------------
(***************************************************************************)
(* What a statement is reported to have done is what the server did with   *)
(* it, for every capacity of the driver's channel and every number of      *)
(* notices, rows, settings and requests.                                   *)
(***************************************************************************)
EXTENDS SessionHandle, TLAPS

Kinds == {"row", "complete", "error", "ready"}
Answers == [kind : Kinds \cup {"bound"}, request : 1 .. MaxRequests]
Notices == {Notice}
Messages == Notices \cup Answers
Outcomes == [kind : {"none", "complete", "error"}, rows : Nat, notices : Nat]

(***************************************************************************)
(* The types, and the requests that the bound leaves room for.             *)
(***************************************************************************)
LinkTypes ==
  /\ link \in {"up", "down"}
  /\ drv \in {"polling", "notice", "failed", "exiting", "done"}
  /\ alive \in BOOLEAN /\ begun \in BOOLEAN

QueueTypes ==
  /\ outbox \in Seq(1 .. MaxRequests)
  /\ todo \in Seq(1 .. MaxRequests)
  /\ rowsSent \in 0 .. MaxRows
  /\ wire \in Seq(Messages)

EventTypes ==
  /\ chan \in Seq({Notice, Failed})
  /\ Len(chan) <= Capacity
  /\ response \in Seq(Kinds)

HandleTypes ==
  /\ pc \in Running \cup SettingPhases \cup Away
  /\ left \in 0 .. 2 * Queries
  /\ request \in 1 .. MaxRequests
  /\ result \in Results

HistoryTypes ==
  /\ sent \in Nat /\ emitted \in Nat /\ shown \in Nat
  /\ answer \in Outcomes

Types == LinkTypes /\ QueueTypes /\ EventTypes /\ HandleTypes /\ HistoryTypes

\* Whoever is about to send still has the requests of what follows.
Budget ==
  /\ pc = "before" => request + 2 + Queries <= MaxRequests
  /\ pc = "describe" => request + 1 + Queries <= MaxRequests
  /\ pc \in {"bind", "stream", "after"} => request + Queries <= MaxRequests
  /\ pc \in SettingPhases => left >= 1 /\ request + left <= MaxRequests + 1

\* A notice is not an answer.
LEMMA NoticesApart ==
  /\ Notice \in Messages /\ Answers \subseteq Messages
  /\ \A m \in Messages : m \in Notices <=> m = Notice
  /\ \A m \in Messages : m # Notice => m \in Answers
  /\ \A m \in Answers : m # Notice
BY DEF Messages, Notices, Answers, Notice, Kinds

\* What is left of a sequence without its head.
LEMMA TailOf ==
  ASSUME NEW S, NEW s \in Seq(S), s # <<>>
  PROVE  /\ Head(s) \in S /\ Tail(s) \in Seq(S)
         /\ Len(Tail(s)) = Len(s) - 1
         /\ Head(s) = s[1]
         /\ \A i \in 1 .. Len(s) - 1 : Tail(s)[i] = s[i + 1]
OBVIOUS

LEMMA AppendOf ==
  ASSUME NEW S, NEW s \in Seq(S), NEW x \in S
  PROVE  /\ Append(s, x) \in Seq(S)
         /\ Len(Append(s, x)) = Len(s) + 1
         /\ Append(s, x)[Len(s) + 1] = x
         /\ \A i \in 1 .. Len(s) : Append(s, x)[i] = s[i]
OBVIOUS

LEMMA AppendTwo ==
  ASSUME NEW S, NEW s \in Seq(S), NEW x \in S, NEW y \in S
  PROVE  s \o <<x, y>> = Append(Append(s, x), y)
OBVIOUS

LEMMA PrefixOf ==
  ASSUME NEW S, NEW s \in Seq(S), NEW n \in 0 .. Len(s)
  PROVE  /\ SubSeq(s, 1, n) \in Seq(S)
         /\ Len(SubSeq(s, 1, n)) = n
         /\ \A i \in 1 .. n : SubSeq(s, 1, n)[i] = s[i]
OBVIOUS

USE CapacityAssumption, QueriesAssumption, HandleBoundsAssumption

LEMMA TypesStart == Init => Types /\ Budget
<1> SUFFICES ASSUME Init PROVE Types /\ Budget
  OBVIOUS
<1>a. alive \in BOOLEAN /\ begun \in BOOLEAN
  BY Zenon DEF Init
<1>1. LinkTypes /\ EventTypes
  BY <1>a DEF Init, LinkTypes, EventTypes
<1>2. QueueTypes
  BY DEF Init, QueueTypes
<1>3. HandleTypes /\ Budget
  BY DEF Init, HandleTypes, Budget, SettingPhases, Results
<1>4. HistoryTypes
  BY DEF Init, HistoryTypes, Unanswered, Outcomes
<1> QED
  BY <1>1, <1>2, <1>3, <1>4 DEF Types

LEMMA TypesStep ==
  ASSUME Types, Budget, [Next]_vars
  PROVE  Types' /\ Budget'
<1> USE DEF Types, LinkTypes, QueueTypes, EventTypes, HandleTypes, HistoryTypes,
            Budget, SettingPhases, Running, Preparing, Away, Results, Kinds, Answers, Outcomes,
            Messages, Notices, handleOnly, sendOnly, serverVars, driverVars, handleVars
<1>a. chan # <<>> => Tail(chan) \in Seq({Notice, Failed}) /\ Len(Tail(chan)) <= Capacity
  BY TailOf
<1>b. ASSUME Send, sendOnly, UNCHANGED chan, request < MaxRequests
      PROVE  LinkTypes' /\ QueueTypes' /\ EventTypes' /\ HistoryTypes'
  <2>1. outbox' \in Seq(1 .. MaxRequests)
    BY <1>b DEF Send
  <2>2. response' = <<>> /\ begun' = FALSE /\ shown' = 0 /\ answer' = Unanswered
    BY <1>b DEF Send
  <2>a. begun' \in BOOLEAN
    BY <2>2, Zenon
  <2>3. LinkTypes' /\ EventTypes'
    BY <1>b, <2>2, <2>a
  <2>4. QueueTypes'
    BY <1>b, <2>1
  <2>5. HistoryTypes'
    BY <1>b, <2>2 DEF Unanswered
  <2> QED
    BY <2>3, <2>4, <2>5
<1>1. CASE ServerBinds \/ ServerRow
  <2>1. todo # <<>> /\ Head(todo) \in 1 .. MaxRequests
    BY <1>1, TailOf DEF ServerBinds, ServerRow
  <2>2. Message("bound") \in Messages /\ Message("row") \in Messages
    BY <2>1 DEF Message
  <2>a. wire' \in {Append(wire, Message("bound")), Append(wire, Message("row"))}
    BY <1>1 DEF ServerBinds, ServerRow
  <2>3. wire' \in Seq(Messages)
    <3> HIDE DEF Messages
    <3>1. \A m \in Messages : Append(wire, m) \in Seq(Messages)
      OBVIOUS
    <3> QED
      BY <2>2, <2>a, <3>1
  <2>4. /\ rowsSent' \in 0 .. MaxRows
        /\ UNCHANGED <<link, outbox, todo, sent, answer, chan, response, drv, alive, begun>>
        /\ UNCHANGED handleVars
    <3>1. CASE ServerBinds
      BY <3>1 DEF ServerBinds
    <3>2. CASE ServerRow
      BY <3>2 DEF ServerRow
    <3> QED
      BY <1>1, <3>1, <3>2
  <2>5. LinkTypes' /\ QueueTypes' /\ EventTypes' /\ HistoryTypes'
    BY <2>3, <2>4
  <2> QED
    BY <2>4, <2>5
<1>2. CASE ServerFinishes
  <2>1. PICK kind \in {"complete", "error"} :
          /\ wire' = wire \o <<Message(kind), Message("ready")>>
          /\ answer' = IF Head(todo) # request THEN answer
                       ELSE [kind |-> kind, rows |-> rowsSent, notices |-> sent]
    BY <1>2 DEF ServerFinishes
  <2>2. todo # <<>> /\ Head(todo) \in 1 .. MaxRequests /\ Tail(todo) \in Seq(1 .. MaxRequests)
    BY <1>2, TailOf DEF ServerFinishes
  <2>3. Message(kind) \in Messages /\ Message("ready") \in Messages
    BY <2>2 DEF Message
  <2>4. wire' \in Seq(Messages)
    BY <2>1, <2>3
  <2>5. answer' \in Outcomes
    BY <2>1
  <2>6. /\ todo' \in Seq(1 .. MaxRequests) /\ rowsSent' = 0
        /\ UNCHANGED <<link, outbox, sent, chan, response, driverVars, handleVars>>
    BY <1>2, <2>2 DEF ServerFinishes
  <2> QED
    BY <2>4, <2>5, <2>6
<1>3. CASE DriverWrites
  BY <1>3 DEF DriverWrites
<1>4. CASE DriverReads
  <2>1. Tail(wire) \in Seq(Messages)
    BY <1>4 DEF DriverReads
  <2>2. Head(wire) # Notice /\ Head(wire).kind # "bound" => Head(wire).kind \in Kinds
    BY <1>4 DEF DriverReads
  <2>3. Head(wire) # Notice /\ Head(wire).kind # "bound"
          => Append(response, Head(wire).kind) \in Seq(Kinds)
    BY <2>2, AppendOf
  <2>4. response' \in Seq(Kinds)
    BY <1>4, <2>3 DEF DriverReads
  <2>5. drv' \in {drv, "notice"} /\ begun' \in BOOLEAN
    BY <1>4 DEF DriverReads
  <2> QED
    BY <1>4, <2>1, <2>4, <2>5 DEF DriverReads
<1>5. CASE DriverQueuesNotice
  BY <1>5 DEF DriverQueuesNotice
<1>6. CASE DriverSeesLoss
  BY <1>6 DEF DriverSeesLoss
<1>7. CASE DriverQueuesFailure
  BY <1>7 DEF DriverQueuesFailure
<1>8. CASE DriverExits \/ DriverAborts
  <2>1. /\ drv' = "done" /\ alive' = FALSE
        /\ UNCHANGED <<link, outbox, wire, chan, response, begun, serverVars, handleVars>>
    BY <1>8 DEF DriverExits, DriverAborts
  <2>2. LinkTypes' /\ QueueTypes' /\ EventTypes' /\ HistoryTypes'
    BY <2>1
  <2>3. HandleTypes' /\ Budget'
    BY <2>1
  <2> QED
    BY <2>2, <2>3
<1>10. CASE DrainNotice
  BY <1>10 DEF DrainNotice, EmitNotice
<1>11. CASE DrainFails
  <2>1. chan' \in Seq({Notice, Failed}) /\ Len(chan') <= Capacity
    BY <1>a, <1>11 DEF DrainFails, TakesFailure
  <2> QED
    BY <1>11, <2>1 DEF DrainFails, Return
<1>12. CASE Submit
  <2>1. Send /\ sendOnly /\ UNCHANGED chan /\ request < MaxRequests
    BY <1>12 DEF Submit
  <2>2. request' = request + 1
    BY <2>1 DEF Send
  <2>3. HandleTypes' /\ Budget'
    BY <1>12, <2>2 DEF Submit
  <2> QED
    BY <1>b, <2>1, <2>3
<1>13. CASE Described
  <2>1. Send /\ sendOnly /\ UNCHANGED chan /\ request < MaxRequests
    BY <1>13 DEF Described
  <2>2. request' = request + 1
    BY <2>1 DEF Send
  <2>3. HandleTypes' /\ Budget'
    BY <1>13, <2>2 DEF Described
  <2> QED
    BY <1>b, <2>1, <2>3
<1>13a. CASE Bound
  BY <1>13a DEF Bound
<1>14. CASE StreamRow
  BY <1>14 DEF StreamRow
<1>15. CASE StreamError
  BY <1>15 DEF StreamError, Return
<1>16. CASE StreamEnds
  BY <1>16 DEF StreamEnds
<1>17. CASE StreamNotice
  BY <1>17 DEF StreamNotice, EmitNotice
<1>18. CASE StreamLost
  <2>1. chan' \in Seq({Notice, Failed}) /\ Len(chan') <= Capacity
    BY <1>a, <1>18 DEF StreamLost, TakesFailure
  <2> QED
    BY <1>18, <2>1 DEF StreamLost, Return
<1>19. CASE DrainEnds
  <2>1. Send /\ sendOnly /\ UNCHANGED chan /\ request < MaxRequests
    BY <1>19 DEF DrainEnds, Accept
  <2>2. request' = request + 1
    BY <2>1 DEF Send
  <2>3. HandleTypes' /\ Budget'
    BY <1>19, <2>2 DEF DrainEnds, Accept
  <2> QED
    BY <1>b, <2>1, <2>3
<1>20. CASE SettingAnswered
  <2>1. Send /\ sendOnly /\ UNCHANGED chan /\ request < MaxRequests
    BY <1>20 DEF SettingAnswered
  <2>2. request' = request + 1
    BY <2>1 DEF Send
  <2>3. HandleTypes' /\ Budget'
    BY <1>20, <2>2 DEF SettingAnswered
  <2> QED
    BY <1>b, <2>1, <2>3
<1>21. CASE LastSettingAnswered
  BY <1>21 DEF LastSettingAnswered
<1>22. CASE SettingFails
  BY <1>22 DEF SettingFails
<1>23. CASE ServerNotice
  BY <1>23 DEF ServerNotice
<1>24. CASE LoseLink
  BY <1>24 DEF LoseLink
<1>25. CASE OutputFails
  <2>1. \/ chan # <<>> /\ chan' = Tail(chan) /\ emitted' = emitted + 1
        \/ chan' = chan /\ emitted' = emitted
    BY <1>25 DEF OutputFails
  <2>2. emitted' \in Nat
    BY <2>1
  <2>3. chan' \in Seq({Notice, Failed}) /\ Len(chan') <= Capacity
    BY <1>a, <2>1
  <2> QED
    BY <1>25, <2>2, <2>3 DEF OutputFails, Return
<1>26. CASE Begin
  BY <1>26 DEF Begin
<1>27. CASE Abandon
  BY <1>27 DEF Abandon
<1>28. CASE Drop
  BY <1>28 DEF Drop
<1>29. CASE UNCHANGED vars
  BY <1>29 DEF vars
<1> QED
  BY <1>1, <1>2, <1>3, <1>4, <1>5, <1>6, <1>7, <1>8, <1>10, <1>11, <1>12,
     <1>13, <1>13a, <1>14, <1>15, <1>16, <1>17, <1>18, <1>19, <1>20, <1>21, <1>22,
     <1>23, <1>24, <1>25, <1>26, <1>27, <1>28, <1>29
  DEF Next, Server, Driver, Handle
-----------------------------------------------------------------------------
(***************************************************************************)
(* Where the last request is, and what is known of its answer.             *)
(***************************************************************************)
\* The requests are written and finished in the order of their numbers, so that
\* the last of them is behind all others, until it is answered.
InOrder ==
  /\ \A i \in 1 .. Len(todo) :
       todo[i] <= request /\ (todo[i] = request => i = Len(todo) /\ outbox = <<>>)
  /\ \A i \in 1 .. Len(outbox) :
       outbox[i] <= request /\ (outbox[i] = request => i = Len(outbox))

Gone ==
  answer.kind # "none"
    => /\ \A i \in 1 .. Len(todo) : todo[i] # request
       /\ \A i \in 1 .. Len(outbox) : outbox[i] # request

RowsBelong == todo = <<>> => rowsSent = 0

\* What ends an answer comes after its rows, and the server has decided by then.
WireKnown ==
  \A i \in 1 .. Len(wire) :
    wire[i] # Notice =>
      /\ wire[i].request <= request
      /\ wire[i].request = request /\ wire[i].kind \notin {"row", "bound"}
           => answer.kind # "none"

QueueInv == InOrder /\ Gone /\ RowsBelong /\ WireKnown

\* The handle sends a request.
Sends ==
  /\ Send
  /\ UNCHANGED <<chan, link, wire, todo, rowsSent, sent, drv, alive, emitted>>

\* What a step does to the queues.
LEMMA QueueSteps ==
  ASSUME [Next]_vars
  PROVE  \/ Sends
         \/ ServerNotice \/ ServerBinds \/ ServerRow \/ ServerFinishes \/ LoseLink
         \/ DriverWrites \/ DriverReads
         \/ UNCHANGED <<request, outbox, todo, rowsSent, wire, answer, link, sent>>
BY DEF Sends, Next, vars, serverVars, driverVars, handleVars, Server, Driver,
       Handle, DriverQueuesNotice, DriverSeesLoss, DriverQueuesFailure,
       DriverExits, DriverAborts, DrainNotice, DrainFails, Submit, Described, Bound,
       StreamRow, StreamError, StreamEnds, StreamNotice, StreamLost, DrainEnds,
       Accept, SettingAnswered, LastSettingAnswered, SettingFails, OutputFails,
       Begin, Abandon, Drop, handleOnly, sendOnly, EmitNotice, Return

LEMMA QueueStart == Init => QueueInv
BY DEF Init, QueueInv, InOrder, Gone, RowsBelong, WireKnown, Unanswered

LEMMA QueueStep ==
  ASSUME Types, Budget, QueueInv, [Next]_vars
  PROVE  QueueInv'
<1> USE DEF QueueInv
<1>a. /\ request \in 1 .. MaxRequests /\ request' \in 1 .. MaxRequests
      /\ outbox \in Seq(1 .. MaxRequests) /\ todo \in Seq(1 .. MaxRequests)
      /\ wire \in Seq(Messages)
  BY TypesStep DEF Types, QueueTypes, HandleTypes
<1>b. \A i \in 1 .. Len(wire) : wire[i] # Notice => wire[i].request \in 1 .. MaxRequests
  <2>1. \A i \in 1 .. Len(wire) : wire[i] # Notice => wire[i] \in Answers
    BY <1>a, NoticesApart
  <2> QED
    BY <2>1 DEF Answers
<1>1. CASE Sends
  <2>1. /\ Len(outbox') = Len(outbox) + 1 /\ outbox'[Len(outbox) + 1] = request'
        /\ \A i \in 1 .. Len(outbox) : outbox'[i] = outbox[i]
    BY <1>1, <1>a, AppendOf DEF Sends, Send
  <2>2. request' = request + 1 /\ todo' = todo /\ wire' = wire /\ rowsSent' = rowsSent
        /\ answer' = Unanswered
    BY <1>1 DEF Sends, Send
  <2>3. InOrder'
    <3>1. \A i \in 1 .. Len(todo') : todo'[i] <= request /\ todo'[i] \in Nat
      BY <1>a, <2>2 DEF InOrder
    <3>2. \A i \in 1 .. Len(outbox) : outbox[i] <= request /\ outbox[i] \in Nat
      BY <1>a DEF InOrder
    <3>3. \A i \in 1 .. Len(outbox') : i \in 1 .. Len(outbox) \/ i = Len(outbox')
      BY <1>a, <2>1
    <3> QED
      <4>1. \A i \in 1 .. Len(todo') : todo'[i] <= request' /\ todo'[i] # request'
        BY <1>a, <2>2, <3>1
      <4>2. \A i \in 1 .. Len(outbox) : outbox'[i] <= request' /\ outbox'[i] # request'
        <5>1. \A i \in 1 .. Len(outbox) : outbox[i] <= request + 1 /\ outbox[i] # request + 1
          BY <1>a, <3>2
        <5> QED
          BY <2>1, <2>2, <5>1
      <4>3. outbox'[Len(outbox')] = request' /\ request' <= request'
        BY <1>a, <2>1
      <4> QED
        BY <3>3, <4>1, <4>2, <4>3 DEF InOrder
  <2>4. Gone'
    BY <2>2 DEF Gone, Unanswered
  <2>5. WireKnown'
    BY <1>a, <1>b, <2>2 DEF WireKnown
  <2> QED
    BY <2>2, <2>3, <2>4, <2>5 DEF RowsBelong
<1>2. CASE ServerNotice
  <2>1. /\ Len(wire') = Len(wire) + 1 /\ wire'[Len(wire) + 1] = Notice
        /\ \A i \in 1 .. Len(wire) : wire'[i] = wire[i]
    BY <1>2, <1>a, AppendOf DEF ServerNotice
  <2>2. WireKnown'
    <3>1. \A i \in 1 .. Len(wire') : i \in 1 .. Len(wire) \/ wire'[i] = Notice
      BY <1>a, <2>1
    <3> QED
      BY <1>2, <2>1, <3>1 DEF ServerNotice, handleVars, WireKnown
  <2> QED
    BY <1>2, <2>2 DEF ServerNotice, handleVars, InOrder, Gone, RowsBelong
<1>3. CASE ServerBinds \/ ServerRow
  <2>1. PICK kind \in {"bound", "row"} :
          wire' = Append(wire, Message(kind)) /\ todo # <<>>
    BY <1>3 DEF ServerBinds, ServerRow
  <2> DEFINE m == Message(kind)
  <2>2. m \in Answers /\ m.request <= request /\ m.kind = kind
    BY <1>a, <2>1 DEF Message, Answers, Kinds, InOrder
  <2> HIDE DEF m
  <2>3. /\ Len(wire') = Len(wire) + 1 /\ wire'[Len(wire) + 1] = m
        /\ \A i \in 1 .. Len(wire) : wire'[i] = wire[i]
    <3>1. wire' = Append(wire, m) /\ m \in Messages
      BY <2>1, <2>2, NoticesApart DEF m
    <3> QED
      BY <1>a, <3>1, AppendOf
  <2>4. UNCHANGED <<request, answer, outbox, todo>>
    BY <1>3 DEF ServerBinds, ServerRow, handleVars, serverVars
  <2>5. WireKnown'
    <3>1. \A i \in 1 .. Len(wire') : i \in 1 .. Len(wire) \/ wire'[i] = m
      <4>1. Len(wire) \in Nat
        BY <1>a
      <4>2. \A i \in 1 .. Len(wire) + 1 : i \in 1 .. Len(wire) \/ i = Len(wire) + 1
        BY <4>1
      <4> QED
        BY <2>3, <4>2
    <3> QED
      BY <1>a, <2>1, <2>2, <2>3, <2>4, <3>1 DEF WireKnown
  <2> QED
    BY <2>1, <2>4, <2>5 DEF InOrder, Gone, RowsBelong
<1>4. CASE ServerFinishes
  <2>1. PICK kind \in {"complete", "error"} :
          /\ wire' = wire \o <<Message(kind), Message("ready")>>
          /\ answer' = IF Head(todo) # request THEN answer
                       ELSE [kind |-> kind, rows |-> rowsSent, notices |-> sent]
    BY <1>4 DEF ServerFinishes
  <2>2. Head(todo) \in 1 .. MaxRequests /\ Head(todo) <= request
    BY <1>4, <1>a DEF ServerFinishes, InOrder
  <2>3. Message(kind) \in Answers /\ Message("ready") \in Answers
    BY <2>2 DEF Message, Answers, Kinds
  <2>4. /\ Len(wire') = Len(wire) + 2
        /\ wire'[Len(wire) + 1] = Message(kind) /\ wire'[Len(wire) + 2] = Message("ready")
        /\ \A i \in 1 .. Len(wire) : wire'[i] = wire[i]
    BY <1>a, <2>1, <2>3, AppendOf, AppendTwo
  <2>5. Message(kind).request = Head(todo) /\ Message("ready").request = Head(todo)
    BY DEF Message
  <2>6. /\ answer.kind # "none" => answer'.kind # "none"
        /\ Head(todo) = request => answer'.kind # "none"
        /\ answer'.kind # "none" => answer.kind # "none" \/ Head(todo) = request
    BY <2>1
  <2>7. WireKnown'
    <3>1. UNCHANGED request
      BY <1>4 DEF ServerFinishes, handleVars
    <3>2. \A i \in 1 .. Len(wire') :
            \/ i \in 1 .. Len(wire)
            \/ wire'[i].request = Head(todo)
      <4>1. Len(wire) \in Nat
        BY <1>a
      <4>2. \A i \in 1 .. Len(wire') : i \in 1 .. Len(wire) \/ i = Len(wire) + 1 \/ i = Len(wire) + 2
        BY <2>4, <4>1
      <4>3. /\ wire'[Len(wire) + 1].request = Head(todo)
            /\ wire'[Len(wire) + 2].request = Head(todo)
        BY <2>4, <2>5
      <4> QED
        BY <4>2, <4>3
    <3> QED
      BY <2>2, <2>4, <2>6, <3>1, <3>2 DEF WireKnown
  <2>8. /\ Len(todo') = Len(todo) - 1 /\ Head(todo) = todo[1]
        /\ \A i \in 1 .. Len(todo) - 1 : todo'[i] = todo[i + 1]
    BY <1>4, <1>a, TailOf DEF ServerFinishes
  <2>9. InOrder'
    <3>1. /\ \A i \in 1 .. Len(todo') : i + 1 \in 1 .. Len(todo) /\ todo'[i] = todo[i + 1]
          /\ \A i \in 1 .. Len(todo') : i + 1 = Len(todo) => i = Len(todo')
      <4>1. Len(todo) \in Nat
        BY <1>a
      <4> QED
        BY <2>8, <4>1
    <3> QED
      BY <1>4, <3>1 DEF ServerFinishes, handleVars, InOrder
  <2>10. Gone'
    <3>1. UNCHANGED <<request, outbox>>
      BY <1>4 DEF ServerFinishes, handleVars
    <3>2. \A i \in 1 .. Len(todo') :
            i + 1 \in 1 .. Len(todo) /\ i + 1 # 1 /\ todo'[i] = todo[i + 1]
      BY <1>a, <2>8
    <3>3. CASE answer.kind # "none"
      BY <3>1, <3>2, <3>3 DEF Gone
    <3>4. CASE Head(todo) = request
      <4>1. 1 \in 1 .. Len(todo)
        BY <1>4, <1>a DEF ServerFinishes
      <4>2. Len(todo) = 1 /\ outbox = <<>>
        BY <2>8, <3>4, <4>1 DEF InOrder
      <4>3. Len(todo') = 0 /\ Len(outbox') = 0
        BY <2>8, <3>1, <4>2
      <4> QED
        BY <4>3 DEF Gone
    <3> QED
      BY <2>6, <3>3, <3>4 DEF Gone
  <2> QED
    BY <1>4, <2>7, <2>9, <2>10 DEF ServerFinishes, RowsBelong
<1>5. CASE LoseLink
  <2>1. /\ Len(wire') <= Len(wire)
        /\ \A i \in 1 .. Len(wire') : wire'[i] = wire[i]
    BY <1>5, <1>a, PrefixOf DEF LoseLink
  <2>2. WireKnown'
    BY <1>5, <1>a, <2>1 DEF LoseLink, serverVars, handleVars, WireKnown
  <2> QED
    BY <1>5, <2>2
    DEF LoseLink, serverVars, handleVars, InOrder, Gone, RowsBelong
<1>6. CASE DriverWrites
  <2>1. /\ Head(outbox) = outbox[1] /\ Len(outbox') = Len(outbox) - 1
        /\ \A i \in 1 .. Len(outbox) - 1 : outbox'[i] = outbox[i + 1]
    BY <1>6, <1>a, TailOf DEF DriverWrites
  <2>2. /\ Len(todo') = Len(todo) + 1 /\ todo'[Len(todo) + 1] = Head(outbox)
        /\ \A i \in 1 .. Len(todo) : todo'[i] = todo[i]
    BY <1>6, <1>a, <2>1, AppendOf DEF DriverWrites
  <2>3. outbox' \in Seq(1 .. MaxRequests) /\ Len(outbox) # 0
    BY <1>6, <1>a, TailOf DEF DriverWrites
  <2>4. Len(outbox') = 0 => outbox' = <<>>
    BY <2>3
  <2>5. InOrder'
    <3>1. request' = request
      BY <1>6 DEF DriverWrites, handleVars
    <3>2. 1 \in 1 .. Len(outbox)
      BY <1>a, <2>3
    <3>a. Len(outbox) \in Nat /\ Len(todo) \in Nat
      BY <1>a
    <3>3. /\ \A i \in 1 .. Len(outbox') : i + 1 \in 1 .. Len(outbox) /\ outbox'[i] = outbox[i + 1]
          /\ \A i \in 1 .. Len(outbox') : i + 1 = Len(outbox) => i = Len(outbox')
      <4>1. \A i \in 1 .. Len(outbox) - 1 :
              /\ i + 1 \in 1 .. Len(outbox)
              /\ i + 1 = Len(outbox) => i = Len(outbox) - 1
        BY <3>a
      <4> QED
        BY <2>1, <4>1
    <3>4. \A i \in 1 .. Len(todo') : i \in 1 .. Len(todo) \/ i = Len(todo) + 1
      <4>1. \A i \in 1 .. Len(todo) + 1 : i \in 1 .. Len(todo) \/ i = Len(todo) + 1
        BY <3>a
      <4> QED
        BY <2>2, <4>1
    <3>5. \A i \in 1 .. Len(todo) : todo[i] # request
      BY <2>3 DEF InOrder
    <3>6. Head(outbox) = request => outbox' = <<>>
      BY <2>1, <2>4, <3>2 DEF InOrder
    <3>7. Head(outbox) <= request
      BY <2>1, <3>2 DEF InOrder
    <3>8. \A i \in 1 .. Len(outbox') :
            outbox'[i] <= request' /\ (outbox'[i] = request' => i = Len(outbox'))
      BY <3>1, <3>3 DEF InOrder
    <3>9. \A i \in 1 .. Len(todo') :
            todo'[i] <= request' /\ (todo'[i] = request' => i = Len(todo') /\ outbox' = <<>>)
      <4>1. ASSUME NEW i \in 1 .. Len(todo)
            PROVE  todo'[i] <= request' /\ todo'[i] # request'
        BY <2>2, <3>1, <3>5 DEF InOrder
      <4> QED
        BY <2>2, <3>1, <3>4, <3>6, <3>7, <4>1
    <3> QED
      BY <3>8, <3>9 DEF InOrder
  <2>6. Gone'
    BY <1>6, <1>a, <2>1, <2>2, <2>3 DEF DriverWrites, handleVars, Gone
  <2>7. RowsBelong'
    BY <1>a, <2>2 DEF RowsBelong
  <2> QED
    BY <1>6, <2>5, <2>6, <2>7 DEF DriverWrites, handleVars, WireKnown
<1>7. CASE DriverReads
  <2>1. /\ Len(wire') = Len(wire) - 1
        /\ \A i \in 1 .. Len(wire) - 1 : wire'[i] = wire[i + 1]
    BY <1>7, <1>a, TailOf DEF DriverReads
  <2>2. WireKnown'
    BY <1>7, <1>a, <2>1 DEF DriverReads, serverVars, handleVars, WireKnown
  <2> QED
    BY <1>7, <2>2
    DEF DriverReads, serverVars, handleVars, InOrder, Gone, RowsBelong
<1>8. CASE UNCHANGED <<request, outbox, todo, rowsSent, wire, answer, link, sent>>
  BY <1>8 DEF InOrder, Gone, RowsBelong, WireKnown
<1> QED
  BY <1>1, <1>2, <1>3, <1>4, <1>5, <1>6, <1>7, <1>8, QueueSteps
-----------------------------------------------------------------------------
(***************************************************************************)
(* The driver, and the events it has queued.                               *)
(***************************************************************************)
Reading == drv \in {"polling", "notice"}
Open == Reading \/ drv = "failed"

\* Who has given up the socket has lost it, or the handle is gone.
LinkInv == link = "up" => Reading \/ pc = "dropped"

\* The failure is the last thing that is queued,
NoFailure == Open => \A i \in 1 .. Len(chan) : chan[i] = Notice

\* and a statement that has its answer does not end without it.
FailureInv ==
  ~Open /\ (pc = "after" \/ (pc \in {"bind", "stream"} /\ response # <<>>))
    => \E i \in 1 .. Len(chan) : chan[i] = Failed

\* Notices that have reached the handle, and those the driver has read.
Told == emitted + Len(chan)
Held == Told + (IF drv = "notice" THEN 1 ELSE 0)

\* What a step does to the channel of the events.
LEMMA ChannelSteps ==
  ASSUME [Next]_vars
  PROVE  \/ DriverQueuesNotice \/ DriverQueuesFailure
         \/ /\ chan # <<>> /\ Head(chan) = Notice
            /\ chan' = Tail(chan) /\ emitted' = emitted + 1
            /\ UNCHANGED drv
            /\ \/ UNCHANGED <<pc, response>>
               \/ pc' = "idle"
         \/ TakesFailure /\ UNCHANGED <<drv, emitted>> /\ pc' = "idle"
         \/ UNCHANGED <<chan, emitted>>
BY DEF Next, vars, serverVars, driverVars, handleVars, Server, Driver, Handle,
       ServerBinds, ServerRow, ServerFinishes, DriverWrites, DriverReads, DriverQueuesNotice,
       DriverSeesLoss, DriverQueuesFailure, DriverExits, DriverAborts,
       DrainNotice, DrainFails, Submit, Described, Bound, StreamRow, StreamError,
       StreamEnds, StreamNotice, StreamLost, DrainEnds, Accept, SettingAnswered,
       LastSettingAnswered, SettingFails, ServerNotice, LoseLink, OutputFails,
       Begin, Abandon, Drop, handleOnly, sendOnly, EmitNotice, Return, Send

\* What a step does to the socket and the driver.
LEMMA DriverSteps ==
  ASSUME [Next]_vars
  PROVE  \/ UNCHANGED drv
         \/ DriverReads \/ DriverQueuesNotice
         \/ drv = "polling" /\ drv' = "failed" /\ link = "down"
         \/ DriverQueuesFailure
         \/ drv = "exiting" /\ drv' = "done"
         \/ drv' = "done" /\ pc = "dropped"
BY DEF Next, vars, serverVars, driverVars, handleVars, Server, Driver, Handle,
       ServerBinds, ServerRow, ServerFinishes, DriverWrites, DriverSeesLoss, DriverExits,
       DriverAborts, DrainNotice, DrainFails, Submit, Described, Bound, StreamRow,
       StreamError, StreamEnds, StreamNotice, StreamLost, DrainEnds, Accept,
       SettingAnswered, LastSettingAnswered, SettingFails, ServerNotice,
       LoseLink, OutputFails, Begin, Abandon, Drop, handleOnly, sendOnly,
       EmitNotice, TakesFailure, Return, Send

LEMMA LinkSteps ==
  ASSUME [Next]_vars
  PROVE  /\ link' = "up" => link = "up"
         /\ pc = "dropped" => pc' = "dropped"
BY DEF SettingPhases, Running, Preparing, Next, vars, serverVars, driverVars, handleVars,
       Server, Driver, Handle, ServerBinds, ServerRow, ServerFinishes, DriverWrites,
       DriverReads, DriverQueuesNotice, DriverSeesLoss, DriverQueuesFailure,
       DriverExits, DriverAborts, DrainNotice, DrainFails, Submit, Described, Bound,
       StreamRow, StreamError, StreamEnds, StreamNotice, StreamLost, DrainEnds,
       Accept, SettingAnswered, LastSettingAnswered, SettingFails, ServerNotice,
       LoseLink, OutputFails, Begin, Abandon, Drop, handleOnly, sendOnly,
       EmitNotice, TakesFailure, Return, Send

LEMMA DriverOnward ==
  ASSUME LinkTypes, LinkInv, [Next]_vars
  PROVE  /\ Reading' => Reading
         /\ Open' => Open
         /\ Reading' /\ ~(DriverReads \/ DriverQueuesNotice) => UNCHANGED drv
         /\ LinkInv'
BY DriverSteps, LinkSteps
DEF LinkTypes, LinkInv, Reading, Open, DriverReads, DriverQueuesNotice,
    DriverQueuesFailure, handleVars

LEMMA AnswerSteps ==
  ASSUME [Next]_vars, pc' = "after" \/ (pc' \in {"bind", "stream"} /\ response' # <<>>)
  PROVE  DriverReads \/ pc = "after" \/ (pc \in {"bind", "stream"} /\ response # <<>>)
<1> SUFFICES ASSUME ~DriverReads
             PROVE  pc = "after" \/ (pc \in {"bind", "stream"} /\ response # <<>>)
  OBVIOUS
<1>1. CASE UNCHANGED <<pc, response>>
  BY <1>1
<1>2. CASE Handle
  BY <1>2 DEF SettingPhases, Preparing, Handle, DrainNotice, DrainFails, Submit,
       Described, Bound, StreamRow, StreamError, StreamEnds, StreamNotice,
       StreamLost, DrainEnds, Accept, SettingAnswered, LastSettingAnswered,
       SettingFails, EmitNotice, Return, Send
<1>3. CASE OutputFails \/ Begin \/ Abandon \/ Drop
  BY <1>3 DEF OutputFails, Begin, Abandon, Drop, Return
<1>4. CASE Server \/ Driver \/ ServerNotice \/ LoseLink \/ UNCHANGED vars
  <2>1. UNCHANGED <<pc, response>>
    BY <1>4
    DEF vars, handleVars, Server, Driver, ServerBinds, ServerRow, ServerFinishes,
        DriverWrites, DriverQueuesNotice, DriverSeesLoss, DriverQueuesFailure,
        DriverExits, DriverAborts, ServerNotice, LoseLink
  <2> QED
    BY <1>1, <2>1
<1> QED
  BY <1>2, <1>3, <1>4 DEF Next

LEMMA ChannelStep ==
  ASSUME Types, LinkInv, NoFailure, FailureInv, [Next]_vars
  PROVE  NoFailure' /\ FailureInv'
<1>a. chan \in Seq({Notice, Failed})
  BY DEF Types, EventTypes
<1>b. Notice # Failed
  BY DEF Notice, Failed
<1>c. (Open' => Open) /\ (pc = "dropped" => pc' = "dropped")
  BY DriverOnward, LinkSteps DEF Types
<1>1. CASE DriverQueuesNotice
  <2>1. Open /\ Open'
    BY <1>1 DEF DriverQueuesNotice, Open, Reading
  <2>2. /\ Len(chan') = Len(chan) + 1 /\ chan'[Len(chan) + 1] = Notice
        /\ \A i \in 1 .. Len(chan) : chan'[i] = chan[i]
    BY <1>1, <1>a, AppendOf DEF DriverQueuesNotice
  <2>3. \A i \in 1 .. Len(chan') : i \in 1 .. Len(chan) \/ i = Len(chan) + 1
    BY <1>a, <2>2
  <2> QED
    BY <2>1, <2>2, <2>3 DEF NoFailure, FailureInv
<1>2. CASE DriverQueuesFailure
  <2>1. ~Open'
    BY <1>2 DEF DriverQueuesFailure, Open, Reading
  <2>2. Len(chan') = Len(chan) + 1 /\ chan'[Len(chan) + 1] = Failed
    BY <1>2, <1>a, AppendOf DEF DriverQueuesFailure
  <2>3. Len(chan) + 1 \in 1 .. Len(chan')
    BY <1>a, <2>2
  <2> QED
    BY <2>1, <2>2, <2>3 DEF NoFailure, FailureInv
<1>3. CASE /\ chan # <<>> /\ Head(chan) = Notice
           /\ chan' = Tail(chan) /\ UNCHANGED drv
           /\ \/ UNCHANGED <<pc, response>>
              \/ pc' = "idle"
  <2>1. /\ Len(chan') = Len(chan) - 1 /\ Head(chan) = chan[1]
        /\ \A i \in 1 .. Len(chan) - 1 : chan'[i] = chan[i + 1]
    BY <1>3, <1>a, TailOf
  <2>2. \A i \in 1 .. Len(chan') : i + 1 \in 1 .. Len(chan) /\ chan'[i] = chan[i + 1]
    BY <1>a, <2>1
  <2>3. Open' = Open
    BY <1>3 DEF Open, Reading
  <2>4. ASSUME NEW i \in 1 .. Len(chan), chan[i] = Failed
        PROVE  i - 1 \in 1 .. Len(chan') /\ chan'[i - 1] = Failed
    <3>1. i # 1
      BY <1>3, <1>b, <2>1, <2>4
    <3> QED
      BY <1>a, <2>1, <2>4, <3>1
  <2>5. NoFailure'
    BY <2>2, <2>3 DEF NoFailure
  <2>6. FailureInv'
    BY <1>3, <2>3, <2>4 DEF FailureInv
  <2> QED
    BY <2>5, <2>6
<1>4. CASE TakesFailure /\ UNCHANGED drv /\ pc' = "idle"
  <2>1. CASE chan' = chan
    BY <1>4, <1>c, <2>1 DEF NoFailure, FailureInv
  <2>2. CASE chan # <<>> /\ chan' = Tail(chan)
    <3>1. /\ Len(chan') = Len(chan) - 1
          /\ \A i \in 1 .. Len(chan) - 1 : chan'[i] = chan[i + 1]
      BY <1>a, <2>2, TailOf
    <3>2. \A i \in 1 .. Len(chan') : i + 1 \in 1 .. Len(chan) /\ chan'[i] = chan[i + 1]
      BY <1>a, <3>1
    <3> QED
      BY <1>4, <1>c, <3>2 DEF NoFailure, FailureInv
  <2> QED
    BY <1>4, <2>1, <2>2 DEF TakesFailure
<1>5. CASE UNCHANGED chan /\ ~DriverQueuesNotice /\ ~DriverQueuesFailure
  <2>1. NoFailure'
    BY <1>5, <1>c DEF NoFailure
  <2>2. DriverReads => Open'
    BY DEF DriverReads, Open, Reading
  <2>3. pc = "dropped" => ~(pc' = "after" \/ pc' \in {"bind", "stream"})
    BY <1>c
  <2>4. ~Open' /\ Open => pc = "dropped"
    BY <1>5, <2>2, DriverSteps DEF Open, Reading
  <2> QED
    BY <1>5, <1>c, <2>1, <2>2, <2>3, <2>4, AnswerSteps DEF FailureInv
<1> QED
  BY <1>1, <1>2, <1>3, <1>4, <1>5, ChannelSteps
-----------------------------------------------------------------------------
(***************************************************************************)
(* Counting what of a kind is in a sequence: f[i] is n and the number of   *)
(* the members of S among the first i elements of s.                       *)
(***************************************************************************)
Hit(x, S) == IF x \in S THEN 1 ELSE 0

Counts(f, n, s, S) ==
  /\ f \in [Nat -> Nat]
  /\ f[0] = n
  /\ \A i \in Nat, j \in Nat : i <= j => f[i] <= f[j]
  /\ \A i \in 1 .. Len(s) : f[i] = f[i - 1] + Hit(s[i], S)

\* g agrees with f on the first k elements and counts d for the next;
Onward(g, f, k, d) ==
  /\ \A i \in 0 .. k : g[i] = f[i]
  /\ g[k + 1] = f[k] + d

\* g counts what f counts from the second element on.
Shifted(g, f) == \A i \in Nat : g[i] = f[i + 1]

LEMMA CountsNothing ==
  ASSUME NEW T, NEW S, NEW s \in Seq(T), NEW n \in Nat,
         \A i \in 1 .. Len(s) : s[i] \notin S
  PROVE  Counts([i \in Nat |-> n], n, s, S)
BY DEF Counts, Hit

LEMMA CountsPrefix ==
  ASSUME NEW T, NEW S, NEW s \in Seq(T), NEW n, NEW f, Counts(f, n, s, S),
         NEW k \in 0 .. Len(s)
  PROVE  Counts(f, n, SubSeq(s, 1, k), S)
<1>1. /\ Len(SubSeq(s, 1, k)) = k
      /\ \A i \in 1 .. k : SubSeq(s, 1, k)[i] = s[i]
  BY PrefixOf
<1>2. \A i \in 1 .. k : i \in 1 .. Len(s)
  OBVIOUS
<1> QED
  BY <1>1, <1>2 DEF Counts

LEMMA CountsTail ==
  ASSUME NEW T, NEW S, NEW s \in Seq(T), NEW n, NEW f, Counts(f, n, s, S), s # <<>>
  PROVE  \E g : Counts(g, n + Hit(Head(s), S), Tail(s), S) /\ Shifted(g, f)
<1> DEFINE g == [i \in Nat |-> f[i + 1]]
<1>1. /\ Len(Tail(s)) = Len(s) - 1 /\ Head(s) = s[1]
      /\ \A i \in 1 .. Len(s) - 1 : Tail(s)[i] = s[i + 1]
  BY TailOf
<1>2. Len(s) \in Nat \ {0}
  OBVIOUS
<1>3. g \in [Nat -> Nat]
  BY DEF Counts
<1>4. g[0] = n + Hit(Head(s), S)
  BY <1>1, <1>2 DEF Counts
<1>5. \A i \in Nat, j \in Nat : i <= j => g[i] <= g[j]
  BY DEF Counts
<1>6. ASSUME NEW i \in 1 .. Len(Tail(s))
      PROVE  g[i] = g[i - 1] + Hit(Tail(s)[i], S)
  <2>1. i + 1 \in 1 .. Len(s) /\ i \in Nat /\ i - 1 \in Nat /\ Tail(s)[i] = s[i + 1]
    BY <1>1, <1>2
  <2>2. f[i + 1] = f[i + 1 - 1] + Hit(s[i + 1], S)
    BY <2>1 DEF Counts
  <2> QED
    BY <2>1, <2>2
<1>7. Shifted(g, f)
  BY DEF Shifted
<1> HIDE DEF g
<1>8. Counts(g, n + Hit(Head(s), S), Tail(s), S)
  BY <1>3, <1>4, <1>5, <1>6 DEF Counts
<1> QED
  BY <1>7, <1>8

LEMMA CountsAppend ==
  ASSUME NEW T, NEW S, NEW s \in Seq(T), NEW n, NEW f, Counts(f, n, s, S), NEW x \in T
  PROVE  \E g : Counts(g, n, Append(s, x), S) /\ Onward(g, f, Len(s), Hit(x, S))
<1> DEFINE g == [i \in Nat |-> IF i <= Len(s) THEN f[i] ELSE f[Len(s)] + Hit(x, S)]
<1>1. /\ Len(Append(s, x)) = Len(s) + 1
      /\ Append(s, x)[Len(s) + 1] = x
      /\ \A i \in 1 .. Len(s) : Append(s, x)[i] = s[i]
  BY AppendOf
<1>2. Len(s) \in Nat /\ Hit(x, S) \in Nat
  BY DEF Hit
<1>3. f \in [Nat -> Nat] /\ \A i \in Nat : f[i] \in Nat
  BY DEF Counts
<1>4. g \in [Nat -> Nat] /\ g[0] = n /\ \A i \in Nat, j \in Nat : i <= j => g[i] <= g[j]
  <2>1. f[Len(s)] \in Nat /\ f[Len(s)] + Hit(x, S) \in Nat
    <3> HIDE DEF g
    <3>1. f[Len(s)] \in Nat
      BY <1>2, <1>3
    <3> QED
      BY <1>2, <3>1
  <2>2. g \in [Nat -> Nat]
    BY <1>2, <1>3, <2>1
  <2>3. g[0] = f[0]
    BY <1>2
  <2>4. ASSUME NEW i \in Nat, NEW j \in Nat, i <= j
        PROVE  g[i] <= g[j]
    <3>1. /\ g[i] = IF i <= Len(s) THEN f[i] ELSE f[Len(s)] + Hit(x, S)
          /\ g[j] = IF j <= Len(s) THEN f[j] ELSE f[Len(s)] + Hit(x, S)
      OBVIOUS
    <3>2. (j <= Len(s) => f[i] <= f[j]) /\ (i <= Len(s) => f[i] <= f[Len(s)])
      BY <1>2, <2>4 DEF Counts
    <3>3. f[i] \in Nat /\ f[j] \in Nat
      BY <1>3
    <3> QED
      BY <1>2, <2>1, <2>4, <3>1, <3>2, <3>3
  <2> QED
    BY <2>2, <2>3, <2>4 DEF Counts
<1>5. \A i \in 0 .. Len(s) : g[i] = f[i]
  BY <1>2
<1>6. /\ g[Len(s) + 1] = f[Len(s)] + Hit(x, S)
      /\ g[Len(s)] = f[Len(s)]
  BY <1>2
<1>7. ASSUME NEW i \in 1 .. Len(Append(s, x))
      PROVE  g[i] = g[i - 1] + Hit(Append(s, x)[i], S)
  <2>1. CASE i = Len(s) + 1
    BY <1>1, <1>2, <1>6, <2>1
  <2>2. CASE i \in 1 .. Len(s)
    <3>1. i \in 0 .. Len(s) /\ i - 1 \in 0 .. Len(s)
      BY <1>2, <2>2
    <3> QED
      BY <1>1, <1>5, <2>2, <3>1 DEF Counts
  <2> QED
    BY <1>1, <1>2, <2>1, <2>2
<1> HIDE DEF g
<1>8. Counts(g, n, Append(s, x), S)
  BY <1>4, <1>7 DEF Counts
<1>9. Onward(g, f, Len(s), Hit(x, S))
  BY <1>5, <1>6 DEF Onward
<1> QED
  BY <1>8, <1>9
-----------------------------------------------------------------------------
(***************************************************************************)
(* The notices: those in front of the end of an answer are as many as the  *)
(* server had sent when it decided the answer.                             *)
(***************************************************************************)
\* What ends the answer to the last request.
Ends(m) == m # Notice /\ m.request = request /\ m.kind \notin {"row", "bound"}

NoticesCounted(f) ==
  /\ Counts(f, Held, wire, Notices)
  /\ link = "up" => sent <= f[Len(wire)]
  /\ \A i \in 1 .. Len(wire) : Ends(wire[i]) => answer.notices <= f[i]

NoticeInv == Reading => \E f : NoticesCounted(f)

LEMMA HeldStays ==
  ASSUME Types, LinkInv, NoFailure, [Next]_vars, Reading', ~DriverReads
  PROVE  Reading /\ Held' = Held
<1>a. chan \in Seq({Notice, Failed}) /\ emitted \in Nat /\ Len(chan) \in Nat
  BY DEF Types, EventTypes, HistoryTypes
<1>b. Reading /\ Open
  BY DriverOnward DEF Types, Open
<1>1. CASE DriverQueuesNotice
  <2>1. Len(chan') = Len(chan) + 1
    BY <1>1, <1>a, AppendOf DEF DriverQueuesNotice
  <2>2. emitted' = emitted /\ drv = "notice" /\ drv' = "polling"
    BY <1>1 DEF DriverQueuesNotice, handleVars
  <2> QED
    BY <1>a, <1>b, <2>1, <2>2 DEF Held, Told
<1>2. CASE chan # <<>> /\ chan' = Tail(chan) /\ emitted' = emitted + 1 /\ UNCHANGED drv
  <2>1. Len(chan') = Len(chan) - 1
    BY <1>2, <1>a, TailOf
  <2> QED
    BY <1>a, <1>b, <1>2, <2>1 DEF Held, Told
<1>3. ~TakesFailure
  <2>1. ~Closed
    BY <1>b DEF Closed, Reading
  <2>2. chan # <<>> => Head(chan) = chan[1] /\ 1 \in 1 .. Len(chan)
    BY <1>a
  <2>3. chan # <<>> => Head(chan) # Failed
    BY <1>b, <2>2 DEF NoFailure, Notice, Failed
  <2> QED
    BY <2>1, <2>3 DEF TakesFailure
<1>4. ~DriverQueuesFailure
  BY DEF DriverQueuesFailure, Reading
<1>5. CASE UNCHANGED <<chan, emitted>> /\ ~DriverQueuesNotice
  <2>1. UNCHANGED drv
    BY <1>5, DriverOnward DEF Types
  <2> QED
    BY <1>b, <1>5, <2>1 DEF Held, Told
<1> QED
  BY <1>1, <1>2, <1>3, <1>4, <1>5, ChannelSteps

LEMMA NoticeStart == Init => NoticeInv
<1> SUFFICES ASSUME Init PROVE \E f : NoticesCounted(f)
  BY DEF NoticeInv
<1>1. wire = <<>> /\ Held = 0 /\ sent = 0 /\ wire \in Seq(Notices) /\ Len(wire) = 0
  BY DEF Init, Held, Told
<1>2. Counts([i \in Nat |-> 0], 0, wire, Notices)
  BY <1>1, CountsNothing
<1>3. NoticesCounted([i \in Nat |-> 0])
  BY <1>1, <1>2 DEF NoticesCounted
<1> QED
  BY <1>3

LEMMA NoticeStep ==
  ASSUME Types, Budget, LinkInv, NoFailure, QueueInv, NoticeInv, [Next]_vars
  PROVE  NoticeInv'
<1> SUFFICES ASSUME Reading' PROVE \E f : NoticesCounted(f)'
  BY DEF NoticeInv
<1>a. /\ wire \in Seq(Messages) /\ Len(wire) \in Nat
      /\ request \in Nat /\ sent \in Nat /\ Held \in Nat
      /\ answer \in Outcomes
  BY DEF Types, QueueTypes, HandleTypes, HistoryTypes, Held, Told, EventTypes
<1>b. Reading /\ (~DriverReads => Held' = Held)
  <2>1. CASE DriverReads
    BY <2>1 DEF DriverReads, Reading
  <2> QED
    BY <2>1, HeldStays
<1>1. PICK f : NoticesCounted(f)
  BY <1>b DEF NoticeInv
<1>2. /\ f \in [Nat -> Nat] /\ f[0] = Held
      /\ \A i \in Nat : f[i] \in Nat
      /\ \A i \in Nat, j \in Nat : i <= j => f[i] <= f[j]
  BY <1>1 DEF NoticesCounted, Counts
<1>3. CASE Sends
  <2>1. /\ request' = request + 1 /\ UNCHANGED <<wire, link, sent>>
        /\ ~DriverReads
    BY <1>3, <1>a DEF Sends, Send, DriverReads, handleVars
  <2>2. \A i \in 1 .. Len(wire) : ~Ends(wire[i])'
    BY <1>a, <2>1 DEF Ends, QueueInv, WireKnown, Answers
  <2>3. NoticesCounted(f)'
    BY <1>b, <1>1, <2>1, <2>2 DEF NoticesCounted
  <2> QED
    BY <2>3
<1>4. CASE ServerNotice
  <2>1. /\ wire' = Append(wire, Notice) /\ sent' = sent + 1
        /\ UNCHANGED <<link, drv, request, answer>> /\ link = "up"
    BY <1>4 DEF ServerNotice, driverVars, handleVars
  <2>2. ~DriverReads
    BY <1>a, <2>1 DEF DriverReads, serverVars
  <2>3. Held' = Held
    BY <1>b, <2>2
  <2>4. Hit(Notice, Notices) = 1
    BY NoticesApart DEF Hit
  <2>5. PICK g :
          /\ Counts(g, Held', wire', Notices)
          /\ \A i \in 0 .. Len(wire) : g[i] = f[i]
          /\ g[Len(wire) + 1] = f[Len(wire)] + 1
    <3>1. Counts(f, Held', wire, Notices)
      BY <1>1, <2>3 DEF NoticesCounted
    <3>2. Notice \in Messages
      BY NoticesApart
    <3>3. \E g : /\ Counts(g, Held', Append(wire, Notice), Notices)
                 /\ Onward(g, f, Len(wire), Hit(Notice, Notices))
      BY <1>a, <3>1, <3>2, CountsAppend
    <3> QED
      BY <2>1, <2>4, <3>3 DEF Onward
  <2>6. /\ Len(wire') = Len(wire) + 1 /\ wire'[Len(wire) + 1] = Notice
        /\ \A i \in 1 .. Len(wire) : wire'[i] = wire[i]
    BY <1>a, <2>1, AppendOf
  <2>7. sent' <= g[Len(wire')]
    BY <1>1, <1>2, <1>a, <2>1, <2>5, <2>6 DEF NoticesCounted
  <2>8. ASSUME NEW i \in 1 .. Len(wire'), Ends(wire[i])'
        PROVE  answer'.notices <= g[i]
    <3>1. i # Len(wire) + 1
      BY <2>6, <2>8 DEF Ends
    <3>2. i \in 1 .. Len(wire) /\ i \in 0 .. Len(wire)
      BY <1>a, <2>6, <3>1
    <3>3. Ends(wire[i])
      BY <2>1, <2>6, <2>8, <3>2 DEF Ends
    <3> QED
      BY <1>1, <2>1, <2>5, <3>2, <3>3 DEF NoticesCounted
  <2>9. NoticesCounted(g)'
    BY <2>5, <2>7, <2>8 DEF NoticesCounted
  <2> QED
    BY <2>9
<1>5. CASE ServerBinds \/ ServerRow
  <2>1. PICK kind \in {"bound", "row"} :
          /\ wire' = Append(wire, Message(kind)) /\ todo # <<>>
          /\ UNCHANGED <<link, drv, request, answer, sent>>
    BY <1>5 DEF ServerBinds, ServerRow, driverVars, handleVars, serverVars
  <2> DEFINE m == Message(kind)
  <2>2. m \in Answers /\ m.kind = kind
    BY <2>1 DEF Message, Answers, Kinds, Types, QueueTypes
  <2> HIDE DEF m
  <2>a. wire' = Append(wire, m) /\ m \in Messages
    BY <2>1, <2>2, NoticesApart DEF m
  <2>3. ~DriverReads
    BY <1>a, <2>a DEF DriverReads
  <2>4. Held' = Held
    BY <1>b, <2>3
  <2>5. Hit(m, Notices) = 0 /\ m.kind \in {"row", "bound"}
    BY <2>2, NoticesApart DEF Hit
  <2>7. PICK g :
          /\ Counts(g, Held', wire', Notices)
          /\ \A i \in 0 .. Len(wire) : g[i] = f[i]
          /\ g[Len(wire) + 1] = f[Len(wire)] + 0
    <3>1. Counts(f, Held', wire, Notices)
      BY <1>1, <2>4 DEF NoticesCounted
    <3>3. \E g : /\ Counts(g, Held', Append(wire, m), Notices)
                 /\ Onward(g, f, Len(wire), Hit(m, Notices))
      BY <1>a, <2>a, <3>1, CountsAppend
    <3> QED
      BY <2>a, <2>5, <3>3 DEF Onward
  <2>8. /\ Len(wire') = Len(wire) + 1 /\ wire'[Len(wire) + 1] = m
        /\ \A i \in 1 .. Len(wire) : wire'[i] = wire[i]
    BY <1>a, <2>a, AppendOf
  <2>9. link' = "up" => sent' <= g[Len(wire')]
    <3>1. link = "up" => sent <= f[Len(wire)]
      BY <1>1 DEF NoticesCounted
    <3>2. g[Len(wire')] = f[Len(wire)]
      <4>1. f[Len(wire)] + 0 = f[Len(wire)]
        BY <1>1, <1>a DEF NoticesCounted, Counts
      <4> QED
        BY <2>7, <2>8, <4>1
    <3> QED
      BY <2>1, <3>1, <3>2
  <2>10. ASSUME NEW i \in 1 .. Len(wire'), Ends(wire[i])'
        PROVE  answer'.notices <= g[i]
    <3>1. i # Len(wire) + 1
      BY <2>5, <2>8, <2>10 DEF Ends
    <3>2. i \in 1 .. Len(wire) /\ i \in 0 .. Len(wire)
      BY <1>a, <2>8, <3>1
    <3>3. Ends(wire[i])
      BY <2>1, <2>8, <2>10, <3>2 DEF Ends
    <3> QED
      BY <1>1, <2>1, <2>7, <3>2, <3>3 DEF NoticesCounted
  <2>11. NoticesCounted(g)'
    BY <2>7, <2>9, <2>10 DEF NoticesCounted
  <2> QED
    BY <2>11
<1>6. CASE ServerFinishes
  <2>1. PICK kind \in {"complete", "error"} :
          /\ wire' = wire \o <<Message(kind), Message("ready")>>
          /\ answer' = IF Head(todo) # request THEN answer
                       ELSE [kind |-> kind, rows |-> rowsSent, notices |-> sent]
    BY <1>6 DEF ServerFinishes
  <2> DEFINE m == Message(kind)
             last == Message("ready")
  <2>2. Head(todo) \in 1 .. MaxRequests /\ Head(todo) = todo[1] /\ 1 \in 1 .. Len(todo)
    BY <1>6 DEF ServerFinishes, Types, QueueTypes
  <2>3. /\ m \in Answers /\ last \in Answers
        /\ m.request = Head(todo) /\ last.request = Head(todo)
    BY <2>2 DEF Message, Answers, Kinds
  <2>4. /\ m \in Messages /\ last \in Messages
        /\ Hit(m, Notices) = 0 /\ Hit(last, Notices) = 0
    BY <2>3, NoticesApart DEF Hit
  <2>5. UNCHANGED <<link, drv, request, sent, chan, emitted>>
    BY <1>6 DEF ServerFinishes, driverVars, handleVars
  <2>6. Held' = Held
    BY <2>5 DEF Held, Told
  <2> HIDE DEF m, last
  <2>7. /\ wire' = Append(Append(wire, m), last) /\ Append(wire, m) \in Seq(Messages)
        /\ Len(Append(wire, m)) = Len(wire) + 1
        /\ Len(wire') = Len(wire) + 2
        /\ wire'[Len(wire) + 1] = m /\ wire'[Len(wire) + 2] = last
        /\ \A i \in 1 .. Len(wire) : wire'[i] = wire[i]
    <3>1. wire' = Append(Append(wire, m), last)
      BY <1>a, <2>1, <2>4, AppendTwo DEF m, last
    <3> QED
      BY <1>a, <2>4, <3>1, AppendOf
  <2>8. PICK g : Counts(g, Held, Append(wire, m), Notices) /\ Onward(g, f, Len(wire), 0)
    BY <1>1, <1>a, <2>4, CountsAppend DEF NoticesCounted
  <2>9. PICK h : Counts(h, Held, wire', Notices) /\ Onward(h, g, Len(wire) + 1, 0)
    <3> DEFINE s == Append(wire, m)
    <3>1. s \in Seq(Messages) /\ Counts(g, Held, s, Notices)
      BY <2>7, <2>8
    <3>2. wire' = Append(s, last) /\ Len(s) = Len(wire) + 1
      BY <2>7
    <3> HIDE DEF s
    <3>3. \E h : /\ Counts(h, Held, Append(s, last), Notices)
                 /\ Onward(h, g, Len(s), Hit(last, Notices))
      BY <2>4, <3>1, CountsAppend
    <3> QED
      BY <2>4, <3>2, <3>3
  <2>10. /\ \A i \in 0 .. Len(wire) : h[i] = f[i]
         /\ h[Len(wire) + 1] = f[Len(wire)] /\ h[Len(wire) + 2] = f[Len(wire)]
    <3>1. /\ g[Len(wire) + 1] = f[Len(wire)] + 0
          /\ h[Len(wire) + 1] = g[Len(wire) + 1]
          /\ h[Len(wire) + 2] = g[Len(wire) + 1] + 0
          /\ \A i \in 0 .. Len(wire) : g[i] = f[i] /\ h[i] = g[i]
      BY <1>a, <2>8, <2>9 DEF Onward
    <3>2. f[Len(wire)] \in Nat
      BY <1>2, <1>a
    <3> QED
      BY <3>1, <3>2
  <2>11. link = "up" /\ sent <= f[Len(wire)]
    BY <1>1, <1>6 DEF NoticesCounted, ServerFinishes
  <2>12. link' = "up" => sent' <= h[Len(wire')]
    BY <2>5, <2>7, <2>10, <2>11
  <2>13. ASSUME NEW i \in 1 .. Len(wire'), Ends(wire[i])'
         PROVE  answer'.notices <= h[i]
    <3>1. i \in 1 .. Len(wire) \/ i = Len(wire) + 1 \/ i = Len(wire) + 2
      BY <1>a, <2>7
    <3>2. CASE Head(todo) = request
      <4>1. answer.kind = "none" /\ answer'.notices = sent
        BY <2>1, <2>2, <3>2 DEF QueueInv, Gone
      <4>2. i \notin 1 .. Len(wire)
        BY <2>5, <2>7, <2>13, <4>1 DEF QueueInv, WireKnown, Ends
      <4> QED
        BY <2>10, <2>11, <3>1, <4>1, <4>2
    <3>3. CASE Head(todo) # request
      <4>1. i \in 1 .. Len(wire) /\ i \in 0 .. Len(wire)
        BY <1>a, <2>3, <2>5, <2>7, <2>13, <3>1, <3>3 DEF Ends
      <4>2. Ends(wire[i]) /\ answer' = answer
        BY <2>1, <2>5, <2>7, <2>13, <3>3, <4>1 DEF Ends
      <4> QED
        BY <1>1, <2>10, <4>1, <4>2 DEF NoticesCounted
    <3> QED
      BY <3>2, <3>3
  <2>14. NoticesCounted(h)'
    BY <2>6, <2>9, <2>12, <2>13 DEF NoticesCounted
  <2> QED
    BY <2>14
<1>7. CASE LoseLink
  <2>1. PICK k \in 0 .. Len(wire) : wire' = SubSeq(wire, 1, k)
    BY <1>7 DEF LoseLink
  <2>2. link' # "up" /\ UNCHANGED <<request, answer, drv, chan, emitted>>
    BY <1>7 DEF LoseLink, serverVars, driverVars, handleVars
  <2>3. Held' = Held
    BY <2>2 DEF Held, Told
  <2>4. Counts(f, Held', wire', Notices)
    <3>1. Counts(f, Held, wire, Notices)
      BY <1>1 DEF NoticesCounted
    <3> QED
      BY <1>a, <2>1, <2>3, <3>1, CountsPrefix
  <2>5. \A i \in 1 .. Len(wire') : i \in 1 .. Len(wire) /\ wire'[i] = wire[i]
    BY <1>a, <2>1, PrefixOf
  <2>6. NoticesCounted(f)'
    BY <1>1, <2>2, <2>4, <2>5 DEF NoticesCounted, Ends
  <2> QED
    BY <2>6
<1>8. CASE DriverReads
  <2>1. /\ wire # <<>> /\ wire' = Tail(wire) /\ drv = "polling"
        /\ drv' = IF Head(wire) = Notice THEN "notice" ELSE drv
        /\ UNCHANGED <<link, request, answer, sent, chan, emitted>>
    BY <1>8 DEF DriverReads, serverVars, handleVars
  <2>2. Held' = Held + Hit(Head(wire), Notices)
    <3>1. Head(wire) \in Messages
      BY <1>a, <2>1, TailOf
    <3>2. Head(wire) \in Notices <=> Head(wire) = Notice
      BY <3>1, NoticesApart
    <3>3. Told \in Nat /\ Told' = Told
      BY <2>1 DEF Told, Types, EventTypes, HistoryTypes
    <3> QED
      BY <2>1, <3>2, <3>3 DEF Held, Hit
  <2>4. PICK g :
          /\ Counts(g, Held', wire', Notices)
          /\ \A i \in Nat : g[i] = f[i + 1]
    <3>1. Counts(f, Held, wire, Notices)
      BY <1>1 DEF NoticesCounted
    <3>2. \E g : /\ Counts(g, Held + Hit(Head(wire), Notices), Tail(wire), Notices)
                 /\ Shifted(g, f)
      BY <1>a, <2>1, <3>1, CountsTail
    <3> QED
      BY <2>1, <2>2, <3>2 DEF Shifted
  <2>5. /\ Len(wire') = Len(wire) - 1 /\ Len(wire') \in Nat
        /\ \A i \in 1 .. Len(wire') : i + 1 \in 1 .. Len(wire) /\ wire'[i] = wire[i + 1]
    BY <1>a, <2>1, TailOf
  <2>6. link' = "up" => sent' <= g[Len(wire')]
    <3>1. link = "up" => sent <= f[Len(wire)]
      BY <1>1 DEF NoticesCounted
    <3>2. g[Len(wire')] = f[Len(wire)]
      BY <1>a, <2>4, <2>5
    <3> QED
      BY <2>1, <3>1, <3>2
  <2>7. ASSUME NEW i \in 1 .. Len(wire'), Ends(wire[i])'
        PROVE  answer'.notices <= g[i]
    <3>1. i \in Nat /\ i + 1 \in 1 .. Len(wire)
      BY <2>5
    <3>2. Ends(wire[i + 1])
      BY <2>1, <2>5, <2>7 DEF Ends
    <3> QED
      BY <1>1, <2>1, <2>4, <3>1, <3>2 DEF NoticesCounted
  <2>8. NoticesCounted(g)'
    BY <2>4, <2>6, <2>7 DEF NoticesCounted
  <2> QED
    BY <2>8
<1>9. CASE DriverWrites \/ UNCHANGED <<request, outbox, todo, rowsSent, wire, answer, link, sent>>
  <2>1. UNCHANGED <<request, wire, link, sent, answer>>
    BY <1>9 DEF DriverWrites, handleVars
  <2>2. ~DriverReads
    <3>1. wire # <<>> => wire' # Tail(wire)
      BY <1>a, <2>1, TailOf
    <3> QED
      BY <3>1 DEF DriverReads
  <2>3. NoticesCounted(f)'
    BY <1>b, <1>1, <2>1, <2>2 DEF NoticesCounted, Ends
  <2> QED
    BY <2>3
<1> QED
  BY <1>3, <1>4, <1>5, <1>6, <1>7, <1>8, <1>9, QueueSteps
-----------------------------------------------------------------------------
(***************************************************************************)
(* The answer: its rows, and what ends it, reach the handle in order.      *)
(***************************************************************************)
Awaiting == {"describe", "bind", "stream"}

Mine == {m \in Answers : m.request = request /\ m.kind # "bound"}

\* What the answer has at its place n: rows, how it ended, and the mark that the
\* server is ready for the next request.
Nth(n, kind) ==
  \/ kind = "row" /\ (answer.kind # "none" => n <= answer.rows)
  \/ kind = answer.kind /\ answer.kind # "none" /\ n = answer.rows + 1
  \/ kind = "ready" /\ answer.kind # "none" /\ n = answer.rows + 2

\* The rows of the last request that the server has sent.
RowsOut == IF todo # <<>> /\ Head(todo) = request THEN rowsSent ELSE 0

\* base is what the handle has taken of the answer,
Taken(base) ==
  /\ base \in Nat
  /\ base = shown => (answer.kind # "none" => shown <= answer.rows)
  /\ base # shown => /\ base = shown + 1
                     /\ answer.kind = "complete" /\ shown = answer.rows
  /\ \A i \in 1 .. Len(response) : Nth(base + i, response[i])
  /\ Open /\ answer.kind # "none" /\ base + Len(response) > answer.rows
       => answer.notices <= Told

\* and r counts on from what it can take, along what the driver has still to read.
Coming(base, r) ==
  /\ Counts(r, base + Len(response), wire, Mine)
  /\ \A i \in 1 .. Len(wire) : wire[i] \in Mine => Nth(r[i], wire[i].kind)
  /\ link = "up" /\ answer.kind = "none" => r[Len(wire)] = RowsOut

StreamInv == pc \in Awaiting => \E base, r : Taken(base) /\ Coming(base, r)

AfterInv ==
  pc = "after" => /\ answer.kind = "complete" /\ shown = answer.rows
                  /\ Open => answer.notices <= Told

LEMMA StreamSteps ==
  ASSUME [Next]_vars, pc' \in Awaiting
  PROVE  \/ Sends
         \/ /\ pc \in Awaiting /\ UNCHANGED request
            /\ \/ StreamRow
               \/ DriverReads /\ UNCHANGED shown
               \/ UNCHANGED <<shown, response>>
BY DEF Sends, Awaiting, SettingPhases, Running, Preparing, Next, vars, serverVars,
       driverVars, handleVars, Server, Driver, Handle, ServerBinds, ServerRow,
       ServerFinishes, DriverWrites, DriverReads, DriverQueuesNotice,
       DriverSeesLoss, DriverQueuesFailure, DriverExits, DriverAborts,
       DrainNotice, DrainFails, Submit, Described, Bound, StreamRow, StreamError,
       StreamEnds, StreamNotice, StreamLost, DrainEnds, Accept, SettingAnswered,
       LastSettingAnswered, SettingFails, ServerNotice, LoseLink, OutputFails,
       Begin, Abandon, Drop, handleOnly, sendOnly, EmitNotice, TakesFailure,
       Return, Send

LEMMA AfterSteps ==
  ASSUME [Next]_vars, pc' = "after"
  PROVE  StreamEnds \/ (pc = "after" /\ UNCHANGED <<shown, request>>)
BY DEF Sends, SettingPhases, Running, Preparing, Next, vars, serverVars, driverVars,
       handleVars, Server, Driver, Handle, ServerBinds, ServerRow, ServerFinishes,
       DriverWrites, DriverReads, DriverQueuesNotice, DriverSeesLoss,
       DriverQueuesFailure, DriverExits, DriverAborts, DrainNotice, DrainFails,
       Submit, Described, Bound, StreamRow, StreamError, StreamNotice, StreamLost,
       DrainEnds, Accept, SettingAnswered, LastSettingAnswered, SettingFails,
       ServerNotice, LoseLink, OutputFails, Begin, Abandon, Drop, handleOnly,
       sendOnly, EmitNotice, TakesFailure, Return, Send

LEMMA ToldGrows ==
  ASSUME Types, LinkInv, NoFailure, [Next]_vars, Open'
  PROVE  Open /\ Told \in Nat /\ Told' \in Nat /\ Told' >= Told
<1>a. chan \in Seq({Notice, Failed}) /\ emitted \in Nat /\ Len(chan) \in Nat
  BY DEF Types, EventTypes, HistoryTypes
<1>b. Open
  BY DriverOnward DEF Types, Open
<1>1. CASE DriverQueuesNotice
  <2>1. Len(chan') = Len(chan) + 1
    BY <1>1, <1>a, AppendOf DEF DriverQueuesNotice
  <2>2. emitted' = emitted
    BY <1>1 DEF DriverQueuesNotice, handleVars
  <2> QED
    BY <1>a, <1>b, <2>1, <2>2 DEF Told
<1>2. CASE chan # <<>> /\ chan' = Tail(chan) /\ emitted' = emitted + 1
  <2>1. Len(chan') = Len(chan) - 1
    BY <1>2, <1>a, TailOf
  <2> QED
    BY <1>a, <1>b, <1>2, <2>1 DEF Told
<1>3. ~TakesFailure
  <2>1. ~Closed
    BY <1>b DEF Closed, Reading, Open
  <2>2. chan # <<>> => Head(chan) = chan[1] /\ 1 \in 1 .. Len(chan)
    BY <1>a
  <2>3. chan # <<>> => Head(chan) # Failed
    BY <1>b, <2>2 DEF NoFailure, Notice, Failed
  <2> QED
    BY <2>1, <2>3 DEF TakesFailure
<1>4. ~DriverQueuesFailure
  BY DEF DriverQueuesFailure, Reading, Open
<1>5. CASE UNCHANGED <<chan, emitted>>
  BY <1>a, <1>b, <1>5 DEF Told
<1> QED
  BY <1>1, <1>2, <1>3, <1>4, <1>5, ChannelSteps

LEMMA TakenStays ==
  ASSUME Types, LinkInv, NoFailure, [Next]_vars, UNCHANGED <<shown, response, answer>>,
         NEW base, Taken(base)
  PROVE  Taken(base)'
<1>a. answer \in Outcomes /\ base \in Nat /\ Len(response) \in Nat /\ answer.notices \in Nat
  BY DEF Types, HistoryTypes, Taken, Outcomes, EventTypes
<1>1. Open' => Open /\ Told \in Nat /\ Told' \in Nat /\ Told' >= Told
  BY ToldGrows
<1>2. \A i \in 1 .. Len(response) : Nth(base + i, response[i])'
  BY DEF Taken, Nth
<1>3. Open' /\ answer'.kind # "none" /\ base + Len(response') > answer'.rows
        => answer'.notices <= Told'
  BY <1>a, <1>1 DEF Taken
<1> QED
  BY <1>2, <1>3 DEF Taken

LEMMA StreamStep ==
  ASSUME Types, Budget, LinkInv, NoFailure, QueueInv, NoticeInv, StreamInv, [Next]_vars
  PROVE  StreamInv'
<1> SUFFICES ASSUME pc' \in Awaiting PROVE \E base, r : Taken(base)' /\ Coming(base, r)'
  BY DEF StreamInv
<1>a. /\ wire \in Seq(Messages) /\ Len(wire) \in Nat
      /\ response \in Seq(Kinds) /\ Len(response) \in Nat
      /\ request \in Nat /\ shown \in Nat
      /\ answer.kind \in {"none", "complete", "error"}
      /\ answer.rows \in Nat /\ answer.notices \in Nat
  BY DEF Types, QueueTypes, EventTypes, HandleTypes, HistoryTypes, Outcomes
<1>1. CASE Sends
  <2>1. /\ response' = <<>> /\ shown' = 0 /\ answer' = Unanswered
        /\ request' = request + 1 /\ wire' = wire /\ todo' = todo
    BY <1>1 DEF Sends, Send
  <2>2. \A i \in 1 .. Len(wire') : wire'[i] \notin Mine'
    BY <1>a, <2>1
    DEF Mine, QueueInv, WireKnown, Messages, Notices, Answers, Notice
  <2>3. RowsOut' = 0
    <3>1. todo # <<>> => Head(todo) = todo[1] /\ 1 \in 1 .. Len(todo) /\ Head(todo) \in Nat
      BY DEF Types, QueueTypes
    <3>2. todo # <<>> => Head(todo) <= request
      BY <3>1 DEF QueueInv, InOrder
    <3>3. todo # <<>> => Head(todo) # request + 1
      BY <1>a, <3>1, <3>2
    <3> QED
      BY <2>1, <3>3 DEF RowsOut
  <2> DEFINE r == [i \in Nat |-> 0]
  <2>4. Counts(r, 0, wire', Mine')
    BY <1>a, <2>1, <2>2, CountsNothing
  <2>5. r[Len(wire')] = 0
    BY <1>a, <2>1
  <2> HIDE DEF r
  <2>6. Taken(0)'
    BY <2>1 DEF Taken, Unanswered
  <2>7. Len(response') = 0 /\ 0 + Len(response') = 0
    BY <2>1
  <2>8. Coming(0, r)'
    BY <2>2, <2>3, <2>4, <2>5, <2>7 DEF Coming
  <2> QED
    BY <2>6, <2>8
<1> SUFFICES ASSUME ~Sends PROVE \E base, r : Taken(base)' /\ Coming(base, r)'
  BY <1>1
<1>b. pc \in Awaiting /\ request' = request
  BY StreamSteps
<1>c. PICK base, r : Taken(base) /\ Coming(base, r)
  BY <1>b DEF StreamInv
<1>d. /\ base \in Nat /\ r \in [Nat -> Nat] /\ r[0] = base + Len(response)
      /\ \A i \in Nat : r[i] \in Nat
      /\ \A i \in Nat, j \in Nat : i <= j => r[i] <= r[j]
      /\ Counts(r, base + Len(response), wire, Mine)
  BY <1>c DEF Taken, Coming, Counts
<1>e. Mine' = Mine /\ Notice \notin Mine
  BY <1>b, NoticesApart DEF Mine
<1>2. CASE StreamRow
  <2>1. /\ response # <<>> /\ response' = Tail(response)
        /\ Head(response) \in {"row", "complete"}
        /\ shown' = IF Head(response) = "row" THEN shown + 1 ELSE shown
        /\ UNCHANGED <<wire, todo, rowsSent, answer, link, chan, emitted, drv, request>>
    BY <1>2 DEF StreamRow, handleOnly, serverVars, driverVars
  <2>2. /\ Len(response') = Len(response) - 1 /\ Head(response) = response[1]
        /\ \A i \in 1 .. Len(response) - 1 : response'[i] = response[i + 1]
        /\ 1 \in 1 .. Len(response)
    BY <1>a, <2>1, TailOf
  <2>3. Nth(base + 1, Head(response))
    BY <1>c, <2>2 DEF Taken
  <2>4. /\ base = shown
        /\ Head(response) = "row" => (answer.kind # "none" => shown + 1 <= answer.rows)
        /\ Head(response) = "complete" => answer.kind = "complete" /\ shown = answer.rows
    <3>1. /\ Head(response) = "row" => (answer.kind # "none" => base + 1 <= answer.rows)
          /\ Head(response) = "complete"
               => answer.kind = "complete" /\ base + 1 = answer.rows + 1
      BY <1>a, <2>3 DEF Nth
    <3>2. /\ base = shown => (answer.kind # "none" => shown <= answer.rows)
          /\ base # shown => base = shown + 1 /\ answer.kind = "complete" /\ shown = answer.rows
      BY <1>c DEF Taken
    <3>3. shown \in Nat /\ base \in Nat /\ answer.rows \in Nat
      BY <1>a, <1>d
    <3>4. CASE base = shown
      BY <3>1, <3>2, <3>3, <3>4
    <3>5. CASE base # shown
      <4>1. base = answer.rows + 1 /\ answer.kind # "none"
        BY <3>2, <3>5
      <4>2. ~(base + 1 <= answer.rows) /\ base + 1 # answer.rows + 1
        BY <3>3, <4>1
      <4> QED
        BY <2>1, <3>1, <4>1, <4>2
    <3> QED
      BY <3>4, <3>5
  <2>5. base + 1 + Len(response') = base + Len(response)
    BY <1>a, <1>d, <2>2
  <2>6. Told' = Told /\ Open' = Open
    BY <2>1 DEF Told, Open, Reading
  <2>7. \A i \in 1 .. Len(response') : Nth(base + 1 + i, response[i])'
    <3>1. \A i \in 1 .. Len(response') :
            /\ i + 1 \in 1 .. Len(response) /\ base + (i + 1) = base + 1 + i
            /\ response'[i] = response[i + 1]
      BY <1>a, <1>d, <2>2
    <3> QED
      BY <1>c, <2>1, <3>1 DEF Taken, Nth
  <2>8. Taken(base + 1)'
    <3>1. /\ base + 1 \in Nat
          /\ base + 1 = shown' => (answer'.kind # "none" => shown' <= answer'.rows)
      <4>1. base + 1 \in Nat /\ shown + 1 # shown
        BY <1>a, <1>d
      <4> QED
        BY <2>1, <2>4, <4>1
    <3>2. base + 1 # shown'
            => base + 1 = shown' + 1 /\ answer'.kind = "complete" /\ shown' = answer'.rows
      BY <1>a, <1>d, <2>1, <2>4
    <3>3. Open' /\ answer'.kind # "none" /\ base + 1 + Len(response') > answer'.rows
            => answer'.notices <= Told'
      BY <1>c, <2>1, <2>5, <2>6 DEF Taken
    <3> QED
      BY <2>7, <3>1, <3>2, <3>3 DEF Taken
  <2>9. Coming(base + 1, r)'
    BY <1>c, <1>e, <2>1, <2>5 DEF Coming, Nth, RowsOut
  <2> QED
    BY <2>8, <2>9
<1>3. CASE ServerNotice \/ ServerBinds
  <2>1. PICK m \in Messages :
          /\ wire' = Append(wire, m) /\ m \notin Mine
          /\ UNCHANGED <<link, response, shown, answer, todo, rowsSent>>
    <3>1. CASE ServerNotice
      BY <1>e, <3>1, NoticesApart DEF ServerNotice, handleVars
    <3>2. CASE ServerBinds
      <4>1. Message("bound") \in Answers /\ Message("bound").kind = "bound"
        BY <3>2 DEF ServerBinds, Message, Answers, Kinds, Types, QueueTypes
      <4>2. Message("bound") \notin Mine
        BY <4>1 DEF Mine
      <4> QED
        BY <3>2, <4>1, <4>2, NoticesApart DEF ServerBinds, handleVars, serverVars
    <3> QED
      BY <1>3, <3>1, <3>2
  <2>2. Hit(m, Mine) = 0
    BY <2>1 DEF Hit
  <2>3. PICK g : Counts(g, base + Len(response), wire', Mine) /\ Onward(g, r, Len(wire), 0)
    BY <1>a, <1>d, <2>1, <2>2, CountsAppend
  <2>4. /\ Len(wire') = Len(wire) + 1 /\ wire'[Len(wire) + 1] = m
        /\ \A i \in 1 .. Len(wire) : wire'[i] = wire[i]
    BY <1>a, <2>1, <2>2, AppendOf
  <2>5. g[Len(wire')] = r[Len(wire)]
    <3>1. r[Len(wire)] \in Nat
      BY <1>a, <1>d
    <3> QED
      BY <2>3, <2>4, <3>1 DEF Onward
  <2>6. ASSUME NEW i \in 1 .. Len(wire'), (wire[i] \in Mine)'
        PROVE  Nth(g[i], wire[i].kind)'
    <3>1. i \in 1 .. Len(wire) /\ i \in 0 .. Len(wire)
      BY <1>a, <1>e, <2>1, <2>4, <2>6
    <3> QED
      BY <1>c, <1>e, <2>1, <2>3, <2>4, <2>6, <3>1 DEF Coming, Onward, Nth
  <2>7. Coming(base, g)'
    BY <1>b, <1>c, <1>e, <2>1, <2>3, <2>5, <2>6 DEF Coming, RowsOut
  <2>8. Taken(base)'
    BY <1>c, <2>1, TakenStays
  <2> QED
    BY <2>7, <2>8
<1>4. CASE ServerRow
  <2>1. /\ wire' = Append(wire, Message("row")) /\ todo # <<>>
        /\ rowsSent' = rowsSent + 1 /\ rowsSent \in Nat
        /\ UNCHANGED <<link, response, shown, answer, todo>>
    BY <1>4 DEF ServerRow, handleVars, Types, QueueTypes
  <2>2. Head(todo) \in 1 .. MaxRequests /\ Head(todo) = todo[1] /\ 1 \in 1 .. Len(todo)
    BY <2>1 DEF Types, QueueTypes
  <2> DEFINE m == Message("row")
  <2>3. m \in Answers /\ m.request = Head(todo) /\ m.kind = "row"
    BY <2>2 DEF Message, Answers, Kinds
  <2>4. m \in Messages /\ Hit(m, Mine) = IF Head(todo) = request THEN 1 ELSE 0
    BY <2>3, NoticesApart DEF Hit, Mine
  <2> HIDE DEF m
  <2>5. wire' = Append(wire, m)
    BY <2>1 DEF m
  <2>6. PICK g : Counts(g, base + Len(response), wire', Mine) /\ Onward(g, r, Len(wire), Hit(m, Mine))
    BY <1>a, <1>d, <2>4, <2>5, CountsAppend
  <2>7. /\ Len(wire') = Len(wire) + 1 /\ wire'[Len(wire) + 1] = m
        /\ \A i \in 1 .. Len(wire) : wire'[i] = wire[i]
    BY <1>a, <2>4, <2>5, AppendOf
  <2>8. link = "up" /\ answer.kind = "none" => g[Len(wire')] = RowsOut'
    <3>1. r[Len(wire)] \in Nat
      BY <1>a, <1>d
    <3>2. link = "up" /\ answer.kind = "none" => r[Len(wire)] = RowsOut
      BY <1>c DEF Coming
    <3>3. g[Len(wire')] = r[Len(wire)] + IF Head(todo) = request THEN 1 ELSE 0
      BY <2>4, <2>6, <2>7 DEF Onward
    <3> QED
      BY <1>b, <2>1, <3>1, <3>2, <3>3 DEF RowsOut
  <2>9. ASSUME NEW i \in 1 .. Len(wire'), (wire[i] \in Mine)'
        PROVE  Nth(g[i], wire[i].kind)'
    <3>1. CASE i = Len(wire) + 1
      <4>1. Head(todo) = request
        BY <1>e, <2>3, <2>7, <2>9, <3>1 DEF Mine
      <4>2. answer.kind = "none"
        BY <2>2, <4>1 DEF QueueInv, Gone
      <4> QED
        BY <2>1, <2>3, <2>7, <3>1, <4>2 DEF Nth
    <3>2. CASE i \in 1 .. Len(wire)
      <4>1. i \in 0 .. Len(wire)
        BY <1>a, <3>2
      <4> QED
        BY <1>c, <1>e, <2>1, <2>6, <2>7, <2>9, <3>2, <4>1
        DEF Coming, Onward, Nth
    <3> QED
      BY <1>a, <2>7, <3>1, <3>2
  <2>10. Coming(base, g)'
    BY <1>b, <1>c, <1>e, <2>1, <2>6, <2>8, <2>9 DEF Coming
  <2>11. Taken(base)'
    BY <1>c, <2>1, TakenStays
  <2> QED
    BY <2>10, <2>11
<1>5. CASE ServerFinishes
  <2>1. PICK kind \in {"complete", "error"} :
          /\ wire' = wire \o <<Message(kind), Message("ready")>>
          /\ answer' = IF Head(todo) # request THEN answer
                       ELSE [kind |-> kind, rows |-> rowsSent, notices |-> sent]
    BY <1>5 DEF ServerFinishes
  <2> DEFINE m == Message(kind)
             last == Message("ready")
             d == IF Head(todo) = request THEN 1 ELSE 0
  <2>2. /\ Head(todo) \in 1 .. MaxRequests /\ Head(todo) = todo[1] /\ 1 \in 1 .. Len(todo)
        /\ rowsSent \in Nat /\ rowsSent' = 0 /\ link = "up" /\ todo # <<>>
        /\ UNCHANGED <<response, shown, link>>
    BY <1>5 DEF ServerFinishes, handleVars, Types, QueueTypes
  <2>3. /\ m \in Answers /\ last \in Answers
        /\ m.request = Head(todo) /\ last.request = Head(todo)
        /\ m.kind = kind /\ last.kind = "ready"
    BY <2>2 DEF Message, Answers, Kinds
  <2>4. /\ m \in Messages /\ last \in Messages
        /\ Hit(m, Mine) = d /\ Hit(last, Mine) = d
        /\ m \in Mine \/ last \in Mine => Head(todo) = request
    BY <2>3, NoticesApart DEF Hit, Mine
  <2> HIDE DEF m, last
  <2>5. /\ wire' = Append(Append(wire, m), last) /\ Append(wire, m) \in Seq(Messages)
        /\ Len(Append(wire, m)) = Len(wire) + 1
        /\ Len(wire') = Len(wire) + 2
        /\ wire'[Len(wire) + 1] = m /\ wire'[Len(wire) + 2] = last
        /\ \A i \in 1 .. Len(wire) : wire'[i] = wire[i]
    <3>1. wire' = Append(Append(wire, m), last)
      BY <1>a, <2>1, <2>4, AppendTwo DEF m, last
    <3> QED
      BY <1>a, <2>4, <3>1, AppendOf
  <2>6. PICK g : /\ Counts(g, base + Len(response), Append(wire, m), Mine)
                 /\ Onward(g, r, Len(wire), Hit(m, Mine))
    BY <1>a, <1>d, <2>4, CountsAppend
  <2>7. PICK h : /\ Counts(h, base + Len(response), wire', Mine)
                 /\ Onward(h, g, Len(wire) + 1, Hit(last, Mine))
    <3> DEFINE s == Append(wire, m)
    <3>1. s \in Seq(Messages) /\ Counts(g, base + Len(response), s, Mine)
      BY <2>5, <2>6
    <3>2. wire' = Append(s, last) /\ Len(s) = Len(wire) + 1
      BY <2>5
    <3> HIDE DEF s
    <3>3. \E h : /\ Counts(h, base + Len(response), Append(s, last), Mine)
                 /\ Onward(h, g, Len(s), Hit(last, Mine))
      BY <2>4, <3>1, CountsAppend
    <3> QED
      BY <3>2, <3>3
  <2>8. /\ \A i \in 0 .. Len(wire) : h[i] = r[i]
        /\ h[Len(wire) + 1] = r[Len(wire)] + d
        /\ h[Len(wire) + 2] = r[Len(wire)] + d + d
    <3>1. /\ g[Len(wire) + 1] = r[Len(wire)] + d
          /\ h[Len(wire) + 1] = g[Len(wire) + 1]
          /\ h[Len(wire) + 2] = g[Len(wire) + 1] + d
          /\ \A i \in 0 .. Len(wire) : g[i] = r[i] /\ h[i] = g[i]
      BY <1>a, <2>4, <2>6, <2>7 DEF Onward
    <3> QED
      BY <1>a, <3>1
  <2>9. \A i \in 1 .. Len(wire') :
          i \in 1 .. Len(wire) \/ i = Len(wire) + 1 \/ i = Len(wire) + 2
    <3>1. Len(wire) \in Nat /\ Len(wire') = Len(wire) + 2
      BY <1>a, <2>5
    <3> QED
      BY <3>1
  <2>10. CASE Head(todo) = request
    <3>1. answer.kind = "none"
      BY <2>2, <2>10 DEF QueueInv, Gone
    <3>2. /\ answer'.kind = kind /\ answer'.rows = rowsSent
          /\ kind # "none" /\ kind # "row"
      BY <2>1, <2>10
    <3>3. r[Len(wire)] = rowsSent
      BY <1>c, <2>2, <2>10, <3>1 DEF Coming, RowsOut
    <3>4. base = shown /\ base + Len(response) <= rowsSent
      BY <1>a, <1>c, <1>d, <3>1, <3>3 DEF Taken
    <3>5. ASSUME NEW i \in 1 .. Len(response) PROVE Nth(base + i, response[i])'
      <4>1. response[i] = "row"
        BY <1>c, <3>1, <3>5 DEF Taken, Nth
      <4>2. base + i <= rowsSent
        BY <1>a, <1>d, <2>2, <3>4, <3>5
      <4> QED
        BY <2>2, <3>2, <4>1, <4>2 DEF Nth
    <3>6. base <= rowsSent
      BY <1>a, <1>d, <2>2, <3>4
    <3>7. ~(base + Len(response') > answer'.rows)
      BY <1>a, <1>d, <2>2, <3>2, <3>4
    <3>8. Taken(base)'
      BY <1>d, <2>2, <3>2, <3>4, <3>5, <3>6, <3>7 DEF Taken
    <3>9. ASSUME NEW i \in 1 .. Len(wire'), (wire[i] \in Mine)'
          PROVE  Nth(h[i], wire[i].kind)'
      <4>1. CASE i \in 1 .. Len(wire)
        <5>1. wire[i] \in Mine /\ i \in 0 .. Len(wire) /\ h[i] = r[i]
          BY <1>a, <1>e, <2>5, <2>8, <3>9, <4>1
        <5>2. wire[i].kind = "row"
          BY <3>1, <4>1, <5>1, NoticesApart DEF QueueInv, WireKnown, Mine
        <5>3. r[i] <= rowsSent
          BY <1>a, <1>d, <3>3, <5>1
        <5> QED
          BY <2>5, <3>2, <4>1, <5>1, <5>2, <5>3 DEF Nth
      <4>2. CASE i = Len(wire) + 1
        BY <2>3, <2>5, <2>8, <2>10, <3>2, <3>3, <4>2 DEF Nth
      <4>3. CASE i = Len(wire) + 2
        <5>1. h[i] = rowsSent + 2
          BY <2>2, <2>8, <2>10, <3>3, <4>3
        <5> QED
          BY <2>3, <2>5, <3>2, <4>3, <5>1 DEF Nth
      <4> QED
        BY <2>9, <4>1, <4>2, <4>3
    <3>10. Coming(base, h)'
      BY <1>e, <2>2, <2>7, <3>2, <3>9 DEF Coming
    <3> QED
      BY <3>8, <3>10
  <2>11. CASE Head(todo) # request
    <3>1. UNCHANGED answer
      BY <2>1, <2>11
    <3>2. Taken(base)'
      BY <1>c, <2>2, <3>1, TakenStays
    <3>3. ASSUME NEW i \in 1 .. Len(wire'), (wire[i] \in Mine)'
          PROVE  Nth(h[i], wire[i].kind)'
      <4>1. i \in 1 .. Len(wire) /\ i \in 0 .. Len(wire)
        BY <1>a, <1>e, <2>4, <2>5, <2>9, <2>11, <3>3
      <4>2. wire[i] \in Mine /\ wire'[i] = wire[i] /\ h[i] = r[i]
        BY <1>e, <2>5, <2>8, <3>3, <4>1
      <4> QED
        BY <1>c, <3>1, <4>1, <4>2 DEF Coming, Nth
    <3>4. answer.kind = "none" => h[Len(wire')] = RowsOut'
      <4>1. answer.kind = "none" => r[Len(wire)] = 0
        BY <1>c, <2>2, <2>11 DEF Coming, RowsOut
      <4>2. RowsOut' = 0
        BY <2>2 DEF RowsOut
      <4>3. h[Len(wire')] = r[Len(wire)] + 0 + 0
        BY <2>5, <2>8, <2>11
      <4> QED
        BY <4>1, <4>2, <4>3
    <3>5. Coming(base, h)'
      BY <1>e, <2>2, <2>7, <3>1, <3>3, <3>4 DEF Coming
    <3> QED
      BY <3>2, <3>5
  <2> QED
    BY <2>10, <2>11
<1>6. CASE LoseLink
  <2>1. PICK k \in 0 .. Len(wire) : wire' = SubSeq(wire, 1, k)
    BY <1>6 DEF LoseLink
  <2>2. link' # "up" /\ UNCHANGED <<response, shown, answer>>
    BY <1>6 DEF LoseLink, serverVars, handleVars
  <2>3. Counts(r, base + Len(response), wire', Mine)
    BY <1>a, <1>d, <2>1, CountsPrefix
  <2>4. \A i \in 1 .. Len(wire') : i \in 1 .. Len(wire) /\ wire'[i] = wire[i]
    BY <1>a, <2>1, PrefixOf
  <2>5. Coming(base, r)'
    BY <1>c, <1>e, <2>2, <2>3, <2>4 DEF Coming, Nth
  <2>6. Taken(base)'
    BY <1>c, <2>2, TakenStays
  <2> QED
    BY <2>5, <2>6
<1>7. CASE DriverReads
  <2> DEFINE m == Head(wire)
  <2>1. /\ wire # <<>> /\ wire' = Tail(wire) /\ drv = "polling"
        /\ UNCHANGED <<link, todo, rowsSent, answer, chan, emitted, shown>>
        /\ m # Notice /\ m.kind # "bound" /\ m.request = request
             => response' = Append(response, m.kind)
        /\ m = Notice \/ m.kind = "bound" \/ m.request # request => response' = response
    BY <1>7, <1>b DEF DriverReads, serverVars, handleVars, Awaiting
  <2>2. /\ Len(wire') = Len(wire) - 1 /\ Len(wire') \in Nat /\ m = wire[1]
        /\ 1 \in 1 .. Len(wire) /\ m \in Messages
        /\ \A i \in 1 .. Len(wire') : i + 1 \in 1 .. Len(wire) /\ wire'[i] = wire[i + 1]
    BY <1>a, <2>1, TailOf
  <2>3. m \in Mine <=> m # Notice /\ m.kind # "bound" /\ m.request = request
    BY <2>2, NoticesApart DEF Mine
  <2>4. PICK g : /\ Counts(g, base + Len(response) + Hit(m, Mine), wire', Mine)
                 /\ Shifted(g, r)
    BY <1>a, <1>d, <2>1, CountsTail
  <2> HIDE DEF m
  <2>5. r[1] = base + Len(response) + Hit(m, Mine)
    <3>1. r[1] = r[1 - 1] + Hit(wire[1], Mine)
      BY <1>d, <2>2 DEF Counts
    <3> QED
      BY <1>d, <2>2, <3>1
  <2>6. ASSUME NEW i \in 1 .. Len(wire'), (wire[i] \in Mine)'
        PROVE  Nth(g[i], wire[i].kind)'
    <3>1. i \in Nat /\ i + 1 \in 1 .. Len(wire) /\ wire'[i] = wire[i + 1]
      BY <2>2
    <3> QED
      BY <1>c, <1>e, <2>1, <2>4, <2>6, <3>1 DEF Coming, Shifted, Nth
  <2>7. link = "up" /\ answer.kind = "none" => g[Len(wire')] = RowsOut'
    <3>1. g[Len(wire')] = r[Len(wire)]
      BY <1>a, <2>2, <2>4 DEF Shifted
    <3> QED
      BY <1>b, <1>c, <2>1, <3>1 DEF Coming, RowsOut
  <2>8. CASE m \in Mine
    <3>1. response' = Append(response, m.kind) /\ m.kind \in Kinds /\ Hit(m, Mine) = 1
      BY <2>1, <2>3, <2>8 DEF Hit, Mine, Answers
    <3>2. /\ Len(response') = Len(response) + 1 /\ response'[Len(response) + 1] = m.kind
          /\ \A i \in 1 .. Len(response) : response'[i] = response[i]
          /\ \A i \in 1 .. Len(response') : i \in 1 .. Len(response) \/ i = Len(response) + 1
      <4>1. /\ Len(response') = Len(response) + 1 /\ response'[Len(response) + 1] = m.kind
            /\ \A i \in 1 .. Len(response) : response'[i] = response[i]
        BY <1>a, <3>1, AppendOf
      <4> QED
        BY <1>a, <4>1
    <3>3. base + Len(response') = base + Len(response) + 1
      BY <1>a, <1>d, <3>2
    <3>4. r[1] = base + Len(response) + 1 /\ Nth(r[1], m.kind)
      <4>1. Nth(r[1], m.kind)
        BY <1>c, <2>2, <2>8 DEF Coming
      <4> QED
        BY <2>5, <3>1, <4>1
    <3>5. Coming(base, g)'
      BY <1>e, <2>1, <2>4, <2>6, <2>7, <3>1, <3>3 DEF Coming
    <3>6. ASSUME NEW i \in 1 .. Len(response') PROVE Nth(base + i, response[i])'
      <4>1. CASE i \in 1 .. Len(response)
        BY <1>c, <2>1, <3>2, <4>1 DEF Taken, Nth
      <4>2. CASE i = Len(response) + 1
        <5>1. base + i = r[1]
          BY <1>a, <1>d, <3>4, <4>2
        <5> QED
          BY <2>1, <3>2, <3>4, <4>2, <5>1 DEF Nth
      <4> QED
        BY <3>2, <4>1, <4>2
    <3>7. answer.kind # "none" /\ base + Len(response') > answer.rows
            => answer.notices <= Told
      <4>1. SUFFICES ASSUME answer.kind # "none", base + Len(response') > answer.rows
                     PROVE  answer.notices <= Told
        OBVIOUS
      <4>2. r[1] \in Nat /\ r[1] > answer.rows
        BY <1>a, <1>d, <3>3, <3>4, <4>1
      <4>3. m.kind # "row"
        BY <1>a, <3>4, <4>1, <4>2 DEF Nth
      <4>4. Ends(wire[1])
        BY <2>2, <2>3, <2>8, <4>3 DEF Ends
      <4>5. PICK f : NoticesCounted(f)
        BY <2>1 DEF NoticeInv, Reading
      <4>6. answer.notices <= f[1] /\ f[1] = f[1 - 1] + Hit(wire[1], Notices) /\ f[0] = Held
        BY <2>2, <4>4, <4>5 DEF NoticesCounted, Counts
      <4>7. Hit(wire[1], Notices) = 0
        BY <2>2, <2>3, <2>8, NoticesApart DEF Hit
      <4>8. Held = Told /\ Told \in Nat
        BY <2>1 DEF Held, Told, Types, EventTypes, HistoryTypes
      <4> QED
        BY <4>6, <4>7, <4>8
    <3>8. Told' = Told
      BY <2>1 DEF Told
    <3>9. Taken(base)'
      BY <1>c, <2>1, <3>6, <3>7, <3>8 DEF Taken
    <3> QED
      BY <3>5, <3>9
  <2>9. CASE m \notin Mine
    <3>1. response' = response /\ Hit(m, Mine) = 0
      BY <2>1, <2>3, <2>9 DEF Hit
    <3>2. base + Len(response) + 0 = base + Len(response)
      BY <1>a, <1>d
    <3>3. Coming(base, g)'
      BY <1>e, <2>1, <2>4, <2>6, <2>7, <3>1, <3>2 DEF Coming
    <3>4. Taken(base)'
      BY <1>c, <2>1, <3>1, TakenStays
    <3> QED
      BY <3>3, <3>4
  <2> QED
    BY <2>8, <2>9
<1>8. CASE DriverWrites
  <2>1. UNCHANGED <<link, response, shown, answer, wire, rowsSent>>
    BY <1>8 DEF DriverWrites, handleVars
  <2>2. RowsOut' = RowsOut
    <3>1. todo # <<>> => todo' # <<>> /\ Head(todo') = Head(todo)
      BY <1>8 DEF DriverWrites, Types, QueueTypes
    <3> QED
      BY <1>b, <2>1, <3>1 DEF RowsOut, QueueInv, RowsBelong
  <2>3. Coming(base, r)'
    BY <1>c, <1>e, <2>1, <2>2 DEF Coming, Nth
  <2>4. Taken(base)'
    BY <1>c, <2>1, TakenStays
  <2> QED
    BY <2>3, <2>4
<1>9. CASE UNCHANGED <<shown, response, request, todo, rowsSent, wire, answer, link>>
  <2>1. Coming(base, r)'
    BY <1>c, <1>e, <1>9 DEF Coming, Nth, RowsOut
  <2>2. Taken(base)'
    BY <1>c, <1>9, TakenStays
  <2> QED
    BY <2>1, <2>2
<1> QED
  BY <1>2, <1>3, <1>4, <1>5, <1>6, <1>7, <1>8, <1>9, StreamSteps, QueueSteps

LEMMA AfterStep ==
  ASSUME Types, LinkInv, NoFailure, QueueInv, StreamInv, AfterInv, [Next]_vars
  PROVE  AfterInv'
<1> SUFFICES ASSUME pc' = "after"
             PROVE  /\ answer'.kind = "complete" /\ shown' = answer'.rows
                    /\ Open' => answer'.notices <= Told'
  BY DEF AfterInv
<1>a. /\ answer.kind \in {"none", "complete", "error"}
      /\ answer.rows \in Nat /\ answer.notices \in Nat /\ shown \in Nat
  BY DEF Types, HistoryTypes, Outcomes
<1>b. Open' => Open /\ Told \in Nat /\ Told' \in Nat /\ Told' >= Told
  BY ToldGrows
<1>1. CASE StreamEnds
  <2>1. /\ pc \in Awaiting /\ response[1] = "ready" /\ Len(response) = 1
        /\ UNCHANGED <<answer, shown>>
    BY <1>1 DEF StreamEnds, Awaiting, handleOnly, serverVars
  <2>2. PICK base : Taken(base)
    BY <2>1 DEF StreamInv
  <2>3. base \in Nat /\ Nth(base + 1, "ready")
    BY <2>1, <2>2 DEF Taken
  <2>4. answer.kind # "none" /\ base + 1 = answer.rows + 2
    BY <1>a, <2>3 DEF Nth
  <2>5. base # shown
    BY <1>a, <2>2, <2>3, <2>4 DEF Taken
  <2>6. Open => answer.notices <= Told
    BY <1>a, <2>1, <2>2, <2>3, <2>4 DEF Taken
  <2> QED
    BY <1>a, <1>b, <2>1, <2>2, <2>5, <2>6 DEF Taken
<1>2. CASE pc = "after" /\ UNCHANGED <<shown, request>>
  <2>1. UNCHANGED answer
    <3>1. CASE ServerFinishes
      <4>1. Head(todo) = todo[1] /\ 1 \in 1 .. Len(todo)
        BY <3>1 DEF ServerFinishes, Types, QueueTypes
      <4>2. Head(todo) # request
        BY <1>2, <4>1 DEF AfterInv, QueueInv, Gone
      <4> QED
        BY <3>1, <4>2 DEF ServerFinishes
    <3>2. ~Sends
      BY <1>2 DEF Sends, Send, Types, HandleTypes
    <3> QED
      BY <3>1, <3>2, QueueSteps
      DEF ServerNotice, ServerBinds, ServerRow, LoseLink, DriverWrites, DriverReads,
          serverVars
  <2> QED
    BY <1>a, <1>b, <1>2, <2>1 DEF AfterInv
<1> QED
  BY <1>1, <1>2, AfterSteps
-----------------------------------------------------------------------------
(***************************************************************************)
(* The inductive invariant.                                                *)
(***************************************************************************)
IInv ==
  /\ Types /\ Budget
  /\ LinkInv /\ NoFailure /\ FailureInv
  /\ QueueInv
  /\ NoticeInv /\ StreamInv /\ AfterInv

LEMMA IInvStart == Init => IInv
<1> SUFFICES ASSUME Init PROVE IInv
  OBVIOUS
<1>1. LinkInv /\ NoFailure /\ FailureInv
  BY DEF Init, LinkInv, NoFailure, FailureInv, Open, Reading
<1>2. StreamInv /\ AfterInv
  BY DEF Init, StreamInv, AfterInv, Awaiting
<1> QED
  BY <1>1, <1>2, TypesStart, QueueStart, NoticeStart DEF IInv

LEMMA IInvStep ==
  ASSUME IInv, [Next]_vars
  PROVE  IInv'
BY TypesStep, DriverOnward, ChannelStep, QueueStep, NoticeStep, StreamStep,
   AfterStep
DEF IInv, Types

LEMMA IInvHolds == Spec => []IInv
BY IInvStart, IInvStep, PTL DEF Spec

\* Every variable of a connection keeps its type; in particular the driver never
\* queues more events than DRIVER_EVENT_CHANNEL_CAPACITY, and the requests of a
\* statement, of the settings and of the capture that follows fit their number.
THEOREM HandleTypeCorrect == Spec => []TypeOK
<1>1. IInv => TypeOK
  BY DEF IInv, Types, LinkTypes, QueueTypes, EventTypes, HandleTypes, TypeOK,
         Kinds
<1> QED
  BY <1>1, IInvHolds, PTL

\* Which step reports what.
LEMMA ResultSteps ==
  ASSUME [Next]_vars, result' # result
  PROVE  /\ result' = "ok" => DrainEnds
         /\ result' = "rejected" => StreamError
         /\ result' \in {"lostAfter", "unsubmitted"} => DrainFails
<1>1. \/ DrainEnds \/ StreamError \/ DrainFails
      \/ result' \in {"none", "lost", "output"}
  BY DEF Next, vars, serverVars, driverVars, handleVars, Server, Driver, Handle,
         ServerBinds, ServerRow, ServerFinishes, DriverWrites, DriverReads,
         DriverQueuesNotice, DriverSeesLoss, DriverQueuesFailure, DriverExits,
         DriverAborts, DrainNotice, Submit, Described, Bound, StreamRow, StreamEnds,
         StreamNotice, StreamLost, Accept, SettingAnswered, LastSettingAnswered,
         SettingFails, ServerNotice, LoseLink, OutputFails, Begin, Abandon,
         Drop, handleOnly, sendOnly, EmitNotice, Return, Send
<1>2. DrainEnds => result' = "ok"
  BY DEF DrainEnds, Accept
<1>3. StreamError => result' = "rejected"
  BY DEF StreamError, Return
<1>4. DrainFails => result' \in {"lostAfter", "unsubmitted"}
  BY DEF DrainFails, Return
<1> QED
  BY <1>1, <1>2, <1>3, <1>4

\* A statement that is reported successful was completed by the server, all its
\* rows were shown, and every notice the server sent before completing it was
\* emitted, though rows and notices come by two channels: the notices in front
\* of the end of the answer are in the handle's channel by the time the driver
\* has read that end, and execute drains the channel before it returns.
THEOREM SuccessIsWhole == Spec => SuccessIsComplete
<1>1. ASSUME IInv, [Next]_vars, result # "ok", result' = "ok"
      PROVE  /\ answer.kind = "complete" /\ shown = answer.rows
             /\ emitted >= answer.notices
  <2>1. pc = "after" /\ chan = <<>> /\ drv # "done"
    BY <1>1, ResultSteps DEF DrainEnds, Closed
  <2>2. Open
    BY <1>1, <2>1 DEF IInv, FailureInv
  <2>3. answer.notices \in Nat /\ emitted \in Nat /\ Told = emitted
    BY <1>1, <2>1 DEF IInv, Types, HistoryTypes, Outcomes, Told
  <2> QED
    BY <1>1, <2>1, <2>2, <2>3 DEF IInv, AfterInv
<1> QED
  BY <1>1, IInvHolds, PTL DEF Spec, SuccessIsComplete

\* An error is reported only for a statement the server answered with one, a
\* connection lost after completion only for a statement it completed, and a
\* statement reported as not submitted was never sent, whatever an earlier
\* statement left behind in the queues and in the socket.
THEOREM OutcomesAreTrue == Spec => OutcomeIsTrue
<1>1. ASSUME IInv, [Next]_vars, result' # result
      PROVE  /\ result' = "rejected" => answer.kind = "error"
             /\ result' = "lostAfter" => answer.kind = "complete"
             /\ result' = "unsubmitted" => request' = request /\ pc = "before"
  <2>1. ASSUME result' = "rejected" PROVE answer.kind = "error"
    <3>1. StreamError
      BY <1>1, <2>1, ResultSteps
    <3>2. PICK i \in 1 .. Len(response) : response[i] = "error" /\ pc \in Awaiting
      BY <1>1, <3>1 DEF StreamError, received, Preparing, Awaiting, IInv, Types, EventTypes
    <3>3. PICK base : Taken(base)
      BY <1>1, <3>2 DEF IInv, StreamInv
    <3> QED
      BY <3>2, <3>3 DEF Taken, Nth
  <2>2. ASSUME result' \in {"lostAfter", "unsubmitted"}
        PROVE  /\ request' = request
               /\ IF result' = "unsubmitted" THEN pc = "before" ELSE pc = "after"
    BY <1>1, <2>2, ResultSteps DEF DrainFails, Return
  <2> QED
    BY <1>1, <2>1, <2>2 DEF IInv, AfterInv
<1> QED
  BY <1>1, IInvHolds, PTL DEF Spec, OutcomeIsTrue
=============================================================================
