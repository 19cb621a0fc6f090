---------------------------- MODULE StartupProofs ----------------------------
(***************************************************************************)
(* Five properties of the start and the session, for any selectors,        *)
(* Regions, roles, inventories, disks, lines and messages, and whatever    *)
(* AWS, the network, the server and the user do: a start without a user    *)
(* never asks, the history stays in the file it was bound to, the target   *)
(* is the one asked for, the inventory shown is whole, and what is shown   *)
(* of a message hides what is secret.                                      *)
(***************************************************************************)
EXTENDS Startup, SequenceTheorems, FiniteSetTheorems, DataInduction, TLAPS
-----------------------------------------------------------------------------
(***************************************************************************)
(* Starts without a user: scripts and `clusters`.                          *)
(***************************************************************************)
Script == request.command = "preview" /\ noninteractive
Listing == request.command = "clusters"

\* `clusters` takes no selector, so that it only lists.
ListingInv ==
  Listing =>
    /\ phase \in {"begin", "configure", "identity", "discover", "ended"}
    /\ phase # "ended" => exit.code # 2
    /\ phase # "ended" => selector = <<>>
    /\ phase \in {"begin", "configure"} => called = {}
    /\ exit.code = 2 => called = {}
    /\ asked = {} /\ called \subseteq {"sts", "dsql"}

\* A script has its role before AWS is configured, its target before it connects,
\* and a connection when an input can be found wrong.
ScriptInv ==
  Script =>
    /\ phase \in {"begin", "configure", "target", "connect", "read roots", "dial",
                  "connected", "ended"}
    /\ phase # "ended" => exit.code # 2
    /\ phase \in {"begin", "configure", "target"} => called = {}
    /\ phase \notin {"begin", "ended"} => role.name # ""
    /\ phase \notin {"begin", "configure", "target", "ended"} => target.from = "selector"
    /\ phase = "connected" => "database" \in called
    /\ exit.code = 2 /\ called # {} => "database" \in called
    /\ called # {} => target.from = "selector" /\ role.name # ""
    /\ asked = {}

UnattendedInv == request \in Requests /\ ListingInv /\ ScriptInv

\* Without a user no Region is asked for.
LEMMA UnaskedRegion ==
  ASSUME NEW explicit, NEW selected, NEW default
  PROVE  load_aws_configuration(explicit, selected, default, FALSE).verdict
           \in {"usage", "resolved"}
BY DEF load_aws_configuration, resolve_region, Resolved, Unresolved

\* How the process ends; only with a usage error is its code 2.
LEMMA Ends ==
  /\ \A quiet : Exits("runtime", quiet) => phase' = "ended" /\ exit'.code # 2
  /\ Fails("runtime") => phase' = "ended" /\ exit'.code # 2
  /\ Fails("usage") => phase' = "ended" /\ exit'.code = 2
  /\ Finishes => phase' = "ended" /\ exit'.code # 2
BY DEF Exits, Fails, Finishes, exit_code

\* What was parsed stays, but for what the session no longer needs.
LEMMA RequestStays ==
  ASSUME request \in Requests, [Next]_vars
  PROVE  /\ request' \in Requests
         /\ Listing' <=> Listing
         /\ Script' <=> Script
<1>1. CASE EnterShell
  <2>1. request' = [request EXCEPT !.cluster = <<>>, !.region = <<>>, !.username = <<>>]
    BY <1>1 DEF EnterShell
  <2>2. /\ request' \in Requests
        /\ request'.command = request.command /\ request'.inputs = request.inputs
        /\ request'.terminal = request.terminal
    BY <2>1 DEF Requests, Options
  <2> QED  BY <2>2 DEF Listing, Script, noninteractive, uses_stdin_script
<1>2. CASE request' = request
  BY <1>2 DEF Listing, Script, noninteractive, uses_stdin_script
<1>3. CASE UNCHANGED vars
  BY <1>3, <1>2 DEF vars
<1>4. CASE Progress /\ ~EnterShell
  <2>1. request' = request
    BY <1>4 DEF Progress, Begin, Configure, ResolveIdentity, Discover, ListInventory,
      OfferInventory, SelectTarget, UseSelector, ChooseRole, Connect, ReadRoots, Dial,
      RunInput, Same
  <2> QED  BY <2>1, <1>2
<1>5. CASE Asking
  <2>1. request' = request
    BY <1>5 DEF Asking, Ask, Same
  <2> QED  BY <2>1, <1>2
<1>6. CASE EditLine \/ LeaveShell \/ ServerSays \/ OutputFails
  <2>1. request' = request
    BY <1>6 DEF EditLine, LeaveShell, ServerSays, OutputFails, Shell, Same
  <2> QED  BY <2>1, <1>2
<1> QED  BY <1>1, <1>3, <1>4, <1>5, <1>6 DEF Next

\* Every step of a listing.
LEMMA ListingStep ==
  ASSUME request \in Requests, Listing, ListingInv, Next
  PROVE  ListingInv'
<1>1. CASE Begin
  <2>1. phase = "begin" /\ UNCHANGED <<selector, called, asked>>
    BY <1>1 DEF Begin, Listing, history
  <2>2. Fails("usage") \/ Goes("configure")
    BY <1>1 DEF Begin, Listing
  <2> QED  BY <2>1, <2>2, Ends DEF ListingInv, Goes
<1>2. CASE Configure
  <2>1. phase = "configure" /\ UNCHANGED <<selector, called, asked>>
    BY <1>2 DEF Configure, history
  <2>2. config'.verdict \in {"usage", "resolved"}
    BY <1>2, UnaskedRegion DEF Configure, Listing, interactive
  <2>3. Fails("usage") \/ Goes("identity")
    BY <1>2, <2>2 DEF Configure, Listing
  <2> QED  BY <2>1, <2>3, Ends DEF ListingInv, Goes
<1>3. CASE ResolveIdentity
  <2>1. /\ phase = "identity" /\ UNCHANGED <<selector, asked>>
        /\ called' = called \cup {"sts"}
    BY <1>3 DEF ResolveIdentity, decided
  <2>2. selector = <<>>
    BY <2>1 DEF ListingInv
  <2>3. Goes("discover")
    BY <1>3, <2>2 DEF ResolveIdentity
  <2> QED  BY <2>1, <2>3 DEF ListingInv, Goes
<1>4. CASE Discover
  <2>1. /\ phase = "discover" /\ UNCHANGED <<phase, exit, selector, asked>>
        /\ called' = called \cup {"dsql"}
    BY <1>4 DEF Discover, decided
  <2> QED  BY <2>1 DEF ListingInv
<1>5. CASE ListInventory \/ OutputFails
  <2>1. UNCHANGED <<selector, called, asked>> /\ phase # "ended"
    BY <1>5 DEF ListInventory, OutputFails, decided, history
  <2>2. phase' = "ended" /\ exit'.code # 2
    BY <1>5, Ends DEF ListInventory, OutputFails
  <2> QED  BY <2>1, <2>2 DEF ListingInv
<1>6. /\ ~OfferInventory /\ ~SelectTarget /\ ~UseSelector /\ ~ChooseRole /\ ~Connect
      /\ ~ReadRoots /\ ~Dial /\ ~RunInput /\ ~EnterShell
  BY DEF Listing, ListingInv, OfferInventory, SelectTarget, SelectDiscovered, UseSelector,
    ChooseRole, Connect, ReadRoots, Dial, RunInput, EnterShell
<1>7. ~Asking /\ ~EditLine /\ ~LeaveShell /\ ~ServerSays
  BY DEF ListingInv, Asking, Ask, EditLine, LeaveShell, ServerSays, inSession
<1> QED
  BY <1>1, <1>2, <1>3, <1>4, <1>5, <1>6, <1>7 DEF Next, Progress

\* Every step of a script.
LEMMA ScriptStep ==
  ASSUME request \in Requests, Script, ScriptInv, Next
  PROVE  ScriptInv'
<1>1. CASE Begin
  <2>1. phase = "begin" /\ UNCHANGED <<target, called, asked>>
    BY <1>1 DEF Begin, history
  <2>2. Fails("usage") \/ (Goes("configure") /\ ~scriptRefused)
    BY <1>1 DEF Begin, Script
  <2>3. ~scriptRefused => role'.name # ""
    <3>1. \A name : name # "" => database_role_from_username(name).name # ""
      BY DEF database_role_from_username, Admin, Custom
    <3>2. ~scriptRefused => role' = database_role_from_username(request.username[1])
      BY <1>1 DEF Begin, Script, scriptRefused
    <3> QED  BY <3>1, <3>2 DEF scriptRefused
  <2> QED  BY <2>1, <2>2, <2>3, Ends DEF ScriptInv, Goes
<1>2. CASE Configure
  <2>1. phase = "configure" /\ UNCHANGED <<target, role, called, asked>>
    BY <1>2 DEF Configure, history
  <2>2. config'.verdict \in {"usage", "resolved"}
    BY <1>2, UnaskedRegion DEF Configure, Script, interactive
  <2>3. Fails("usage") \/ Goes("target")
    BY <1>2, <2>2 DEF Configure, Script
  <2> QED  BY <2>1, <2>3, Ends DEF ScriptInv, Goes
<1>3. CASE UseSelector
  <2>1. phase = "target" /\ UNCHANGED <<role, called, asked>>
    BY <1>3 DEF UseSelector, history
  <2>2. Fails("usage") \/ (Goes("connect") /\ target'.from = "selector")
    BY <1>3 DEF UseSelector, Script
  <2> QED  BY <2>1, <2>2, Ends DEF ScriptInv, Goes
<1>4. CASE Connect
  <2>1. /\ phase = "connect" /\ UNCHANGED <<target, role, asked>>
        /\ called' = called \/ \E service : called' = called \cup {service}
    BY <1>4 DEF Connect, decided
  <2>2. Fails("runtime") \/ Goes("read roots")
    BY <1>4 DEF Connect
  <2> QED  BY <2>1, <2>2, Ends DEF ScriptInv, Goes
<1>5. CASE ReadRoots
  <2>1. phase = "read roots" /\ UNCHANGED <<target, role, called, asked>>
    BY <1>5 DEF ReadRoots, decided, history
  <2>2. Fails("runtime") \/ Goes("dial")
    BY <1>5 DEF ReadRoots
  <2> QED  BY <2>1, <2>2, Ends DEF ScriptInv, Goes
<1>6. CASE Dial
  <2>1. /\ phase = "dial" /\ UNCHANGED <<target, role, asked>>
        /\ called' = called \cup {"database"}
    BY <1>6 DEF Dial, decided
  <2>2. Fails("runtime") \/ Goes("connected")
    BY <1>6 DEF Dial
  <2> QED  BY <2>1, <2>2, Ends DEF ScriptInv, Goes
<1>7. CASE RunInput
  <2>1. phase = "connected" /\ UNCHANGED <<target, role, called, asked>>
    BY <1>7 DEF RunInput, decided, history
  <2>2. UNCHANGED <<phase, exit>> \/ phase' = "ended"
    BY <1>7, Ends DEF RunInput
  <2> QED  BY <2>1, <2>2 DEF ScriptInv
<1>8. CASE OutputFails
  <2>1. phase # "ended" /\ UNCHANGED <<target, role, called, asked>>
    BY <1>8 DEF OutputFails, decided, history
  <2>2. phase' = "ended" /\ exit'.code # 2
    BY <1>8, Ends DEF OutputFails
  <2> QED  BY <2>1, <2>2 DEF ScriptInv
<1>9. /\ ~ResolveIdentity /\ ~Discover /\ ~ListInventory /\ ~OfferInventory
      /\ ~SelectTarget /\ ~ChooseRole /\ ~EnterShell
  BY DEF Script, ScriptInv, ResolveIdentity, Discover, ListInventory,
    OfferInventory, SelectTarget, SelectDiscovered, ChooseRole, EnterShell
<1>10. ~Asking /\ ~EditLine /\ ~LeaveShell /\ ~ServerSays
  BY DEF ScriptInv, Asking, Ask, EditLine, LeaveShell, ServerSays, inSession
<1> QED
  BY <1>1, <1>2, <1>3, <1>4, <1>5, <1>6, <1>7, <1>8, <1>9, <1>10 DEF Next, Progress

\* What a listing and a script know of themselves holds from the start on.
LEMMA InvInit == Init => UnattendedInv
<1> SUFFICES ASSUME Init PROVE UnattendedInv
  OBVIOUS
<1>1. exit.code # 2
  <2>1. exit.code = -1
    BY DEF Init, Running
  <2> QED  BY <2>1
<1>2. /\ request \in Requests /\ phase = "begin"
      /\ selector = <<>> /\ called = {} /\ asked = {}
  BY DEF Init
<1> QED  BY <1>1, <1>2 DEF UnattendedInv, ListingInv, ScriptInv

LEMMA InvNext == UnattendedInv /\ [Next]_vars => UnattendedInv'
<1> SUFFICES ASSUME UnattendedInv, [Next]_vars PROVE UnattendedInv'
  OBVIOUS
<1>1. request' \in Requests /\ (Listing' <=> Listing) /\ (Script' <=> Script)
  BY RequestStays DEF UnattendedInv
<1>2. CASE Next
  <2>1. ListingInv'
    <3>1. CASE Listing
      BY <1>2, <3>1, ListingStep DEF UnattendedInv
    <3>2. CASE ~Listing
      BY <1>1, <3>2 DEF ListingInv
    <3> QED  BY <3>1, <3>2
  <2>2. ScriptInv'
    <3>1. CASE Script
      BY <1>2, <3>1, ScriptStep DEF UnattendedInv
    <3>2. CASE ~Script
      BY <1>1, <3>2 DEF ScriptInv
    <3> QED  BY <3>1, <3>2
  <2> QED  BY <1>1, <2>1, <2>2 DEF UnattendedInv
<1>3. CASE UNCHANGED vars
  BY <1>1, <1>3 DEF vars, decided, history, UnattendedInv, ListingInv, ScriptInv
<1> QED  BY <1>2, <1>3

\* docs/cli.md:35: a script and `clusters` never ask, and what a script does not
\* name or names wrongly ends it before AWS is called at all.
THEOREM UnattendedStartsNeverAsk == Spec => []UnattendedNeverAsks
<1>1. UnattendedInv => UnattendedNeverAsks
  <2> SUFFICES ASSUME UnattendedInv, ~interactive PROVE UnattendedNeverAsks
    BY DEF UnattendedNeverAsks
  <2>1. Listing \/ Script
    BY DEF UnattendedInv, Requests, Listing, Script, interactive
  <2>2. CASE Listing
    BY <2>2 DEF UnattendedInv, ListingInv, UnattendedNeverAsks
  <2>3. CASE Script
    <3>1. target.from = "selector" => target # NoTarget
      BY DEF NoTarget
    <3> QED  BY <2>3, <3>1 DEF UnattendedInv, ScriptInv, UnattendedNeverAsks
  <2> QED  BY <2>1, <2>2, <2>3
<1> QED  BY <1>1, InvInit, InvNext, PTL DEF Spec
-----------------------------------------------------------------------------
(***************************************************************************)
(* The history, for any disk, capacity and lines.                          *)
(***************************************************************************)
AllLines == Lines \cup {Other}

\* The lines counted from the newest, which is at 0.
Back(lines, j) == lines[Len(lines) - j]

LEMMA SameBack ==
  ASSUME NEW T, NEW a \in Seq(T), NEW b \in Seq(T), Len(a) = Len(b),
         \A j \in 0 .. Len(a) - 1 : Back(a, j) = Back(b, j)
  PROVE  a = b
<1>1. ASSUME NEW k \in 1 .. Len(a) PROVE a[k] = b[k]
  <2>1. Len(a) - k \in 0 .. Len(a) - 1 /\ Len(a) - (Len(a) - k) = k
    OBVIOUS
  <2>2. Back(a, Len(a) - k) = Back(b, Len(a) - k)
    BY <2>1
  <2> QED  BY <2>1, <2>2 DEF Back
<1> QED  BY <1>1, SeqEqual

\* The newest lines are the last ones, as many as the capacity.
NewestOf(lines, newest) ==
  /\ Len(newest) = IF Len(lines) <= HistoryCapacity THEN Len(lines) ELSE HistoryCapacity
  /\ \A j \in 0 .. Len(newest) - 1 : Back(newest, j) = Back(lines, j)

LEMMA NewestLast ==
  ASSUME NEW T, NEW lines \in Seq(T)
  PROVE  Newest(lines) \in Seq(T) /\ NewestOf(lines, Newest(lines))
<1>1. CASE Len(lines) <= HistoryCapacity
  BY <1>1 DEF Newest, NewestOf
<1>2. CASE ~(Len(lines) <= HistoryCapacity)
  <2> DEFINE from == Len(lines) - HistoryCapacity + 1
  <2>1. /\ HistoryCapacity \in Nat /\ from \in 1 .. Len(lines)
        /\ Len(lines) - from + 1 = HistoryCapacity
    BY <1>2, HistoryAssumption
  <2>2. Newest(lines) = SubSeq(lines, from, Len(lines))
    BY <1>2 DEF Newest
  <2>3. /\ Newest(lines) \in Seq(T) /\ Len(Newest(lines)) = HistoryCapacity
        /\ \A k \in 1 .. HistoryCapacity : Newest(lines)[k] = lines[from + k - 1]
    BY <2>1, <2>2
  <2> QED  BY <1>2, <2>1, <2>3 DEF NewestOf, Back
<1> QED  BY <1>1, <1>2

\* One sequence behind another.
Join(a, b, ab) ==
  /\ Len(ab) = Len(a) + Len(b)
  /\ \A j \in 0 .. Len(b) - 1 : Back(ab, j) = Back(b, j)
  /\ \A j \in 0 .. Len(a) - 1 : Back(ab, Len(b) + j) = Back(a, j)

LEMMA Joins ==
  ASSUME NEW T, NEW a \in Seq(T), NEW b \in Seq(T)
  PROVE  a \o b \in Seq(T) /\ Join(a, b, a \o b)
<1>1. /\ a \o b \in Seq(T) /\ Len(a \o b) = Len(a) + Len(b)
      /\ Len(a) \in Nat /\ Len(b) \in Nat
      /\ \A k \in 1 .. Len(a) + Len(b) :
           (a \o b)[k] = IF k <= Len(a) THEN a[k] ELSE b[k - Len(a)]
  OBVIOUS
<1>2. ASSUME NEW j \in 0 .. Len(b) - 1 PROVE Back(a \o b, j) = Back(b, j)
  <2>1. (a \o b)[Len(a) + Len(b) - j] = b[Len(a) + Len(b) - j - Len(a)]
    BY <1>1
  <2>2. Len(a) + Len(b) - j - Len(a) = Len(b) - j
    BY <1>1
  <2> QED  BY <1>1, <2>1, <2>2 DEF Back
<1>3. ASSUME NEW j \in 0 .. Len(a) - 1 PROVE Back(a \o b, Len(b) + j) = Back(a, j)
  <2>1. (a \o b)[Len(a) - j] = a[Len(a) - j]
    BY <1>1
  <2>2. Len(a) + Len(b) - (Len(b) + j) = Len(a) - j
    BY <1>1
  <2> QED  BY <1>1, <2>1, <2>2 DEF Back
<1> QED  BY <1>1, <1>2, <1>3 DEF Join

\* What is left out of a part is left out of the whole.
LEMMA NewestTwice ==
  ASSUME NEW T, NEW a \in Seq(T), NEW b \in Seq(T), NEW na \in Seq(T), NEW nb \in Seq(T),
         NEW ab \in Seq(T), NEW x \in Seq(T), NEW s \in Seq(T), NEW y \in Seq(T),
         NewestOf(a, na), NewestOf(b, nb), Join(a, b, ab), NewestOf(ab, x),
         Join(na, b, s) \/ Join(a, nb, s), NewestOf(s, y)
  PROVE  x = y
<1>1. /\ HistoryCapacity \in Nat \ {0}
      /\ Len(a) \in Nat /\ Len(b) \in Nat
  BY HistoryAssumption
<1>2. Len(x) = Len(y)
  <2>1. /\ Len(x) = IF Len(a) + Len(b) <= HistoryCapacity THEN Len(a) + Len(b)
                    ELSE HistoryCapacity
        /\ Len(y) = IF Len(s) <= HistoryCapacity THEN Len(s) ELSE HistoryCapacity
    BY DEF NewestOf, Join
  <2>2. Len(s) = Len(na) + Len(b) \/ Len(s) = Len(a) + Len(nb)
    BY DEF Join
  <2>3. /\ Len(na) = IF Len(a) <= HistoryCapacity THEN Len(a) ELSE HistoryCapacity
        /\ Len(nb) = IF Len(b) <= HistoryCapacity THEN Len(b) ELSE HistoryCapacity
    BY DEF NewestOf
  <2> HIDE DEF NewestOf, Join
  <2> QED  BY <2>1, <2>2, <2>3, <1>1
<1>3. ASSUME NEW j \in 0 .. Len(x) - 1 PROVE Back(x, j) = Back(y, j)
  <2>1. Back(x, j) = Back(ab, j) /\ Back(y, j) = Back(s, j)
    BY <1>2 DEF NewestOf
  <2>2. j < HistoryCapacity /\ j < Len(a) + Len(b)
    BY <1>1 DEF NewestOf, Join
  <2>3. CASE j < Len(b)
    <3>1. Back(ab, j) = Back(b, j)
      BY <2>3, <1>1 DEF Join
    <3>2. CASE Join(na, b, s)
      BY <3>1, <3>2, <2>1, <2>3, <1>1 DEF Join
    <3>3. CASE Join(a, nb, s)
      <4>1. j \in 0 .. Len(nb) - 1
        BY <1>1, <2>2, <2>3 DEF NewestOf
      <4> QED  BY <3>1, <3>3, <2>1, <4>1 DEF Join, NewestOf
    <3> QED  BY <3>2, <3>3
  <2>4. CASE ~(j < Len(b))
    <3> DEFINE i == j - Len(b)
    <3>1. i \in 0 .. Len(a) - 1 /\ Len(b) + i = j
      BY <2>2, <2>4, <1>1
    <3>2. Back(ab, j) = Back(a, i)
      BY <3>1 DEF Join
    <3>3. CASE Join(na, b, s)
      <4>1. i \in 0 .. Len(na) - 1
        BY <1>1, <2>2, <2>4, <3>1 DEF NewestOf
      <4>2. Back(s, j) = Back(na, i) /\ Back(na, i) = Back(a, i)
        BY <3>1, <3>3, <4>1 DEF Join, NewestOf
      <4> QED  BY <3>2, <2>1, <4>2
    <3>4. CASE Join(a, nb, s)
      <4>1. Len(nb) = Len(b)
        BY <1>1, <2>2, <2>4 DEF NewestOf
      <4>2. Back(s, j) = Back(a, i)
        BY <3>1, <3>4, <4>1 DEF Join
      <4> QED  BY <3>2, <2>1, <4>2
    <3> QED  BY <3>3, <3>4
  <2> QED  BY <2>3, <2>4
<1> QED  BY <1>2, <1>3, SameBack

LEMMA NewestWhole ==
  ASSUME NEW T, NEW a \in Seq(T), NEW b \in Seq(T)
  PROVE  /\ Newest(Newest(a) \o b) = Newest(a \o b)
         /\ Newest(a \o Newest(b)) = Newest(a \o b)
<1>1. /\ Newest(a) \in Seq(T) /\ Newest(b) \in Seq(T)
      /\ NewestOf(a, Newest(a)) /\ NewestOf(b, Newest(b))
  BY NewestLast
<1>2. /\ a \o b \in Seq(T) /\ Newest(a) \o b \in Seq(T) /\ a \o Newest(b) \in Seq(T)
      /\ Join(a, b, a \o b) /\ Join(Newest(a), b, Newest(a) \o b)
      /\ Join(a, Newest(b), a \o Newest(b))
  BY <1>1, Joins, Zenon
<1>3. /\ Newest(a \o b) \in Seq(T) /\ NewestOf(a \o b, Newest(a \o b))
      /\ Newest(Newest(a) \o b) \in Seq(T)
      /\ NewestOf(Newest(a) \o b, Newest(Newest(a) \o b))
      /\ Newest(a \o Newest(b)) \in Seq(T)
      /\ NewestOf(a \o Newest(b), Newest(a \o Newest(b)))
  BY <1>2, NewestLast, Zenon
<1>4. Newest(Newest(a) \o b) = Newest(a \o b)
  BY <1>1, <1>2, <1>3, NewestTwice, Zenon
<1>5. Newest(a \o Newest(b)) = Newest(a \o b)
  BY <1>1, <1>2, <1>3, NewestTwice, Zenon
<1> QED  BY <1>4, <1>5

LEMMA LastLines ==
  ASSUME NEW T, NEW a \in Seq(T), NEW m \in 0 .. Len(a)
  PROVE  \E c \in Seq(T) : Len(c) = m /\ \A j \in 0 .. m - 1 : Back(c, j) = Back(a, j)
<1> DEFINE c == [k \in 1 .. m |-> a[k + (Len(a) - m)]]
<1>1. c \in Seq(T) /\ Len(c) = m
  OBVIOUS
<1>2. ASSUME NEW j \in 0 .. m - 1 PROVE Back(c, j) = Back(a, j)
  <2>1. m - j \in 1 .. m /\ m - j + (Len(a) - m) = Len(a) - j
    OBVIOUS
  <2>2. c[m - j] = a[Len(a) - j]
    BY <2>1
  <2> QED  BY <1>1, <2>2 DEF Back
<1> QED  BY <1>1, <1>2

\* How many lines are kept, with one more before the last ones.
AtMost(n) == IF n <= HistoryCapacity THEN n ELSE HistoryCapacity

Fits(n, a, b) == n \in Nat /\ n <= a + b
Around(a, b, c) ==
  /\ AtMost(a + b) = c + b /\ AtMost(a + 1 + b) = AtMost(c + 1 + b)
  /\ Fits(AtMost(a + b), a, b) /\ Fits(AtMost(a + b), c, b)
  /\ Fits(AtMost(a + 1 + b), a + 1, b) /\ Fits(AtMost(a + 1 + b), c + 1, b)

LEMMA AroundLengths ==
  ASSUME NEW a \in Nat, NEW b \in Nat, NEW c \in Nat, b < HistoryCapacity,
         c = IF a + b <= HistoryCapacity THEN a ELSE HistoryCapacity - b
  PROVE  Around(a, b, c)
BY HistoryAssumption DEF AtMost, Around, Fits

\* A place from the end that is before the last b.
LEMMA Before ==
  ASSUME NEW a \in Nat, NEW b \in Nat, NEW n, Fits(n, a, b),
         NEW j \in 0 .. n - 1, ~(j < b)
  PROVE  j - b \in 0 .. a - 1
BY DEF Fits

LEMMA BackAgain == ASSUME NEW b \in Nat, NEW n, NEW j \in 0 .. n PROVE b + (j - b) = j
OBVIOUS

\* A line of another shell that goes into the file before the lines not yet
\* written: it is left out again, or what is newest has it between them.
LEMMA NewestAround ==
  ASSUME NEW T, NEW a \in Seq(T), NEW b \in Seq(T), NEW ab \in Seq(T), NEW x \in Seq(T),
         NEW o \in Seq(T), NEW ao \in Seq(T), NEW aob \in Seq(T), NEW y \in Seq(T),
         NEW c \in Seq(T), NEW cb \in Seq(T), NEW co \in Seq(T), NEW cob \in Seq(T),
         NEW z \in Seq(T), Len(o) = 1,
         Join(a, b, ab), NewestOf(ab, x), Join(a, o, ao), Join(ao, b, aob), NewestOf(aob, y),
         Join(c, b, cb), Join(c, o, co), Join(co, b, cob), NewestOf(cob, z),
         Len(b) < HistoryCapacity,
         Len(c) = IF Len(a) + Len(b) <= HistoryCapacity THEN Len(a)
                  ELSE HistoryCapacity - Len(b),
         \A j \in 0 .. Len(c) - 1 : Back(c, j) = Back(a, j)
  PROVE  x = cb /\ y = z
<1>1. Len(a) \in Nat /\ Len(b) \in Nat /\ Len(c) \in Nat
  OBVIOUS
<1>2. /\ Len(ab) = Len(a) + Len(b) /\ Len(cb) = Len(c) + Len(b)
      /\ Len(ao) = Len(a) + 1 /\ Len(co) = Len(c) + 1
      /\ Len(aob) = Len(a) + 1 + Len(b) /\ Len(cob) = Len(c) + 1 + Len(b)
  BY DEF Join
<1>3. /\ Len(x) = AtMost(Len(ab)) /\ Len(y) = AtMost(Len(aob))
      /\ Len(z) = AtMost(Len(cob))
  BY DEF NewestOf, AtMost
<1>4. Around(Len(a), Len(b), Len(c))
  BY <1>1, AroundLengths, Zenon
<1>5. Len(x) = Len(cb) /\ Len(y) = Len(z)
  BY <1>2, <1>3, <1>4, Zenon DEF Around
<1>6. /\ Fits(Len(x), Len(c), Len(b)) /\ Fits(Len(x), Len(a), Len(b))
      /\ Fits(Len(y), Len(co), Len(b)) /\ Fits(Len(y), Len(ao), Len(b))
  BY <1>2, <1>3, <1>4, Zenon DEF Around
<1>7. ASSUME NEW j \in 0 .. Len(x) - 1 PROVE Back(x, j) = Back(cb, j)
  <2>1. Back(x, j) = Back(ab, j)
    BY DEF NewestOf
  <2>2. CASE j < Len(b)
    <3>1. j \in 0 .. Len(b) - 1
      BY <2>2, <1>1
    <3>2. Back(ab, j) = Back(b, j) /\ Back(cb, j) = Back(b, j)
      BY <3>1 DEF Join
    <3> QED  BY <2>1, <3>2
  <2>3. CASE ~(j < Len(b))
    <3> DEFINE i == j - Len(b)
    <3>1. i \in 0 .. Len(c) - 1 /\ i \in 0 .. Len(a) - 1
      BY <2>3, <1>1, <1>6, Before, Zenon
    <3>2. Len(b) + i = j
      BY <1>1, BackAgain, Zenon
    <3> HIDE DEF i
    <3>3. Back(ab, Len(b) + i) = Back(a, i) /\ Back(cb, Len(b) + i) = Back(c, i)
      BY <3>1, Zenon DEF Join
    <3> QED  BY <2>1, <3>1, <3>2, <3>3, Zenon
  <2> QED  BY <2>2, <2>3
<1>8. ASSUME NEW j \in 0 .. Len(y) - 1 PROVE Back(y, j) = Back(z, j)
  <2>1. Back(y, j) = Back(aob, j) /\ Back(z, j) = Back(cob, j)
    BY <1>5 DEF NewestOf
  <2>2. CASE j < Len(b)
    <3>1. j \in 0 .. Len(b) - 1
      BY <2>2, <1>1
    <3>2. Back(aob, j) = Back(b, j) /\ Back(cob, j) = Back(b, j)
      BY <3>1 DEF Join
    <3> QED  BY <2>1, <3>2
  <2>3. CASE ~(j < Len(b))
    <3> DEFINE i == j - Len(b)
    <3>1. Len(co) \in Nat /\ Len(ao) \in Nat
      BY <1>1, <1>2
    <3>2. i \in 0 .. Len(co) - 1 /\ i \in 0 .. Len(ao) - 1
      BY <3>1, <2>3, <1>1, <1>6, Before, Zenon
    <3>3. Len(b) + i = j
      BY <1>1, BackAgain, Zenon
    <3> HIDE DEF i
    <3>4. Back(aob, j) = Back(ao, i) /\ Back(cob, j) = Back(co, i)
      BY <3>2, <3>3, Zenon DEF Join
    <3>5. CASE i = 0
      BY <2>1, <3>4, <3>5 DEF Join
    <3>6. CASE i # 0
      <4> DEFINE h == i - 1
      <4>1. ~(i < 1) /\ 1 \in Nat
        BY <3>2, <3>6
      <4>2. Fits(Len(co), Len(c), 1) /\ Fits(Len(ao), Len(a), 1)
        BY <1>1, <1>2 DEF Fits
      <4>3. h \in 0 .. Len(c) - 1 /\ h \in 0 .. Len(a) - 1
        BY <3>2, <4>1, <4>2, <1>1, Before, Zenon
      <4>4. 1 + h = i
        BY <3>2, <4>1, BackAgain, Zenon
      <4>5. Back(ao, Len(o) + h) = Back(a, h) /\ Back(co, Len(o) + h) = Back(c, h)
        BY <4>3 DEF Join
      <4> QED  BY <2>1, <3>4, <4>3, <4>4, <4>5
    <3> QED  BY <3>5, <3>6
  <2> QED  BY <2>2, <2>3
<1>9. x = cb
  BY <1>5, <1>7, SameBack, Zenon
<1>10. y = z
  BY <1>5, <1>8, SameBack, Zenon
<1> QED  BY <1>9, <1>10

Between(a, b, e, T) ==
  \/ Newest((a \o <<e>>) \o b) = Newest(a \o b)
  \/ \E c \in Seq(T) : /\ Newest(a \o b) = c \o b
                       /\ Newest((a \o <<e>>) \o b) = Newest((c \o <<e>>) \o b)

LEMMA NewestBetween ==
  ASSUME NEW T, NEW a \in Seq(T), NEW b \in Seq(T), NEW e \in T
  PROVE  Between(a, b, e, T)
<1>1. HistoryCapacity \in Nat \ {0} /\ Len(a) \in Nat /\ Len(b) \in Nat
  BY HistoryAssumption
<1> DEFINE o == <<e>>
           Mid(c) == c \o o
<1>2. o \in Seq(T) /\ Len(o) = 1
  OBVIOUS
<1> HIDE DEF o
<1>3. ASSUME NEW c \in Seq(T)
      PROVE  /\ c \o b \in Seq(T) /\ Mid(c) \in Seq(T) /\ Mid(c) \o b \in Seq(T)
             /\ Join(c, b, c \o b) /\ Join(c, o, Mid(c)) /\ Join(Mid(c), b, Mid(c) \o b)
             /\ Newest(c \o b) \in Seq(T) /\ Newest(Mid(c) \o b) \in Seq(T)
             /\ NewestOf(c \o b, Newest(c \o b)) /\ NewestOf(Mid(c) \o b, Newest(Mid(c) \o b))
  <2>1. c \o b \in Seq(T) /\ Mid(c) \in Seq(T) /\ Join(c, b, c \o b) /\ Join(c, o, Mid(c))
    BY <1>2, Joins, Zenon
  <2>2. Mid(c) \o b \in Seq(T) /\ Join(Mid(c), b, Mid(c) \o b)
    BY <2>1, Joins, Zenon
  <2> QED  BY <2>1, <2>2, NewestLast, Zenon
<1>4. CASE Len(b) >= HistoryCapacity
  <2>1. PICK x \in Seq(T), y \in Seq(T), ab \in Seq(T), aob \in Seq(T), ao \in Seq(T) :
          /\ x = Newest(a \o b) /\ y = Newest(Mid(a) \o b)
          /\ Join(a, b, ab) /\ Join(ao, b, aob) /\ NewestOf(ab, x) /\ NewestOf(aob, y)
    BY <1>3, Zenon
  <2>2. /\ Len(ab) = Len(a) + Len(b) /\ Len(aob) = Len(ao) + Len(b) /\ Len(ao) \in Nat
    BY <2>1 DEF Join
  <2>3. Len(x) = HistoryCapacity /\ Len(y) = HistoryCapacity
    BY <1>1, <1>4, <2>1, <2>2 DEF NewestOf
  <2>4. ASSUME NEW j \in 0 .. Len(x) - 1 PROVE Back(x, j) = Back(y, j)
    <3>1. j \in 0 .. Len(b) - 1 /\ j \in 0 .. Len(y) - 1
      BY <1>1, <1>4, <2>3
    <3> QED  BY <2>1, <3>1 DEF NewestOf, Join
  <2>5. x = y
    BY <2>3, <2>4, SameBack
  <2>6. Newest(Mid(a) \o b) = Newest(a \o b)
    BY <2>1, <2>5, Zenon
  <2> QED  BY <2>6, Zenon DEF o, Between
<1>5. CASE Len(b) < HistoryCapacity
  <2> DEFINE m == IF Len(a) + Len(b) <= HistoryCapacity THEN Len(a)
                  ELSE HistoryCapacity - Len(b)
  <2>1. m \in 0 .. Len(a)
    BY <1>1, <1>5
  <2> HIDE DEF m
  <2>2. PICK c \in Seq(T) : Len(c) = m /\ \A j \in 0 .. m - 1 : Back(c, j) = Back(a, j)
    BY <2>1, LastLines
  <2>3. /\ Len(c) = IF Len(a) + Len(b) <= HistoryCapacity THEN Len(a)
                    ELSE HistoryCapacity - Len(b)
        /\ \A j \in 0 .. Len(c) - 1 : Back(c, j) = Back(a, j)
    BY <2>2 DEF m
  <2> HIDE DEF Mid
  <2>4. /\ a \o b \in Seq(T) /\ Mid(a) \in Seq(T) /\ Mid(a) \o b \in Seq(T)
        /\ Join(a, b, a \o b) /\ Join(a, o, Mid(a)) /\ Join(Mid(a), b, Mid(a) \o b)
        /\ Newest(a \o b) \in Seq(T) /\ Newest(Mid(a) \o b) \in Seq(T)
        /\ NewestOf(a \o b, Newest(a \o b)) /\ NewestOf(Mid(a) \o b, Newest(Mid(a) \o b))
    BY <1>3, Zenon
  <2>5. /\ c \o b \in Seq(T) /\ Mid(c) \in Seq(T) /\ Mid(c) \o b \in Seq(T)
        /\ Join(c, b, c \o b) /\ Join(c, o, Mid(c)) /\ Join(Mid(c), b, Mid(c) \o b)
        /\ Newest(Mid(c) \o b) \in Seq(T)
        /\ NewestOf(Mid(c) \o b, Newest(Mid(c) \o b))
    BY <1>3, Zenon
  <2>6. Newest(a \o b) = c \o b /\ Newest(Mid(a) \o b) = Newest(Mid(c) \o b)
    BY <1>2, <1>5, <2>3, <2>4, <2>5, NewestAround, ZenonT(60)
  <2>7. Newest((a \o <<e>>) \o b) = Newest((c \o <<e>>) \o b)
    BY <2>6, Zenon DEF Mid, o
  <2>8. Newest(a \o b) = c \o b
    BY <2>6
  <2> HIDE DEF Mid
  <2> QED  BY <2>2, <2>7, <2>8 DEF Between
<1>6. Len(b) >= HistoryCapacity \/ Len(b) < HistoryCapacity
  BY <1>1
<1> QED  BY <1>4, <1>5, <1>6, Zenon

\* What is left of lines that follow does so.
LEMMA FollowPart ==
  ASSUME NEW lines \in Seq(AllLines), NEW part \in Seq(AllLines), NEW kept \in Seq(Lines),
         NEW last, NEW n \in Nat, NEW d \in Nat,
         Len(part) = n, Len(lines) = n + d, d = 0 \/ n >= HistoryCapacity,
         \A k \in 1 .. n : part[k] = lines[k + d],
         Follow(lines, kept, last)
  PROVE  Follow(part, kept, last)
<1>1. /\ DOMAIN lines = 1 .. n + d /\ DOMAIN part = 1 .. n
      /\ \A k \in 0 .. n : k + d \in 0 .. n + d
  OBVIOUS
<1>2. PICK turn \in [0 .. n + d -> 0 .. Len(kept)] :
        /\ turn[0] = 0 \/ n + d >= HistoryCapacity
        /\ turn[n + d] = last
        /\ \A k \in DOMAIN lines : InTurn(turn, lines, kept, k)
  BY DEF Follow
<1> DEFINE then == [k \in 0 .. n |-> turn[k + d]]
<1>3. then \in [0 .. n -> 0 .. Len(kept)]
  BY <1>1, <1>2
<1>4. then[0] = 0 \/ n >= HistoryCapacity
  <2>1. CASE d = 0
    <3>1. then[0] = turn[0] /\ n + d = n
      BY <2>1
    <3> QED  BY <1>2, <3>1
  <2> QED  BY <2>1
<1>5. then[n] = last
  BY <1>2
<1>6. ASSUME NEW k \in 1 .. n
      PROVE  InTurn(then, part, kept, k)
  <2>1. k + d \in DOMAIN lines /\ k \in 0 .. n /\ k - 1 \in 0 .. n /\ k + d - 1 = k - 1 + d
    BY <1>1, SMTT(30)
  <2>2. then[k] = turn[k + d] /\ then[k - 1] = turn[k + d - 1] /\ part[k] = lines[k + d]
    BY <2>1
  <2>3. InTurn(turn, lines, kept, k + d)
    BY <1>2, <2>1, Zenon
  <2> HIDE DEF then
  <2> QED  BY <2>2, <2>3 DEF InTurn
<1> HIDE DEF then
<1> QED  BY <1>1, <1>3, <1>4, <1>5, <1>6 DEF Follow

LEMMA FollowNewest ==
  ASSUME NEW lines \in Seq(AllLines), NEW kept \in Seq(Lines), NEW last,
         Follow(lines, kept, last)
  PROVE  Follow(Newest(lines), kept, last)
<1>1. PICK part \in Seq(AllLines) : part = Newest(lines) /\ NewestOf(lines, part)
  BY NewestLast, Zenon
<1>2. HistoryCapacity \in Nat \ {0} /\ Len(lines) \in Nat /\ Len(part) \in Nat
  BY HistoryAssumption
<1> DEFINE n == Len(part)
           d == Len(lines) - n
<1>3. n \in Nat /\ d \in Nat /\ Len(lines) = n + d /\ (d = 0 \/ n >= HistoryCapacity)
  BY <1>1, <1>2 DEF NewestOf
<1>4. ASSUME NEW k \in 1 .. n PROVE part[k] = lines[k + d]
  <2>1. n - k \in 0 .. n - 1 /\ n - (n - k) = k /\ Len(lines) - (n - k) = k + d
    BY <1>3
  <2>2. Back(part, n - k) = Back(lines, n - k)
    BY <1>1, <2>1 DEF NewestOf
  <2> QED  BY <2>1, <2>2 DEF Back
<1>5. Follow(part, kept, last)
  <2> HIDE DEF d
  <2> QED  BY <1>3, <1>4, FollowPart
<1> QED  BY <1>1, <1>5

\* A line that is kept follows the others.
LEMMA FollowAppend ==
  ASSUME NEW lines \in Seq(AllLines), NEW kept \in Seq(Lines), NEW line \in Lines,
         Follow(lines, kept, Len(kept))
  PROVE  Follow(lines \o <<line>>, Append(kept, line), Len(kept) + 1)
<1> DEFINE n == Len(lines)
           longer == lines \o <<line>>
<1>1. /\ n \in Nat /\ HistoryCapacity \in Nat /\ DOMAIN lines = 1 .. n
      /\ longer \in Seq(AllLines) /\ Len(longer) = n + 1 /\ DOMAIN longer = 1 .. n + 1
      /\ \A k \in 1 .. n : longer[k] = lines[k]
      /\ longer[n + 1] = line
  BY HistoryAssumption DEF AllLines
<1>2. /\ Len(kept) \in Nat /\ Len(Append(kept, line)) = Len(kept) + 1
      /\ \A k \in 1 .. Len(kept) : Append(kept, line)[k] = kept[k]
      /\ Append(kept, line)[Len(kept) + 1] = line
  OBVIOUS
<1>3. PICK turn \in [0 .. n -> 0 .. Len(kept)] :
        /\ turn[0] = 0 \/ n >= HistoryCapacity
        /\ turn[n] = Len(kept)
        /\ \A k \in DOMAIN lines : InTurn(turn, lines, kept, k)
  BY DEF Follow
<1> DEFINE then == [k \in 0 .. n + 1 |-> IF k <= n THEN turn[k] ELSE Len(kept) + 1]
<1> HIDE DEF n, longer
<1>4. then \in [0 .. n + 1 -> 0 .. Len(kept) + 1]
  BY <1>1, <1>2, <1>3
<1>5. (then[0] = 0 \/ n + 1 >= HistoryCapacity) /\ then[n + 1] = Len(kept) + 1
  BY <1>1, <1>3
<1>6. ASSUME NEW k \in 1 .. n + 1
      PROVE  InTurn(then, longer, Append(kept, line), k)
  <2>1. CASE k <= n
    <3>1. /\ k \in DOMAIN lines /\ then[k] = turn[k] /\ then[k - 1] = turn[k - 1]
          /\ longer[k] = lines[k] /\ turn[k] \in 0 .. Len(kept)
          /\ turn[k - 1] \in 0 .. Len(kept)
      BY <1>1, <1>3, <2>1
    <3>2. InTurn(turn, lines, kept, k)
      BY <1>3, <3>1, Zenon
    <3>3. longer[k] \in Lines => turn[k] \in 1 .. Len(kept)
      BY <3>1, <3>2 DEF InTurn
    <3> HIDE DEF then
    <3> QED  BY <1>2, <3>1, <3>2, <3>3 DEF InTurn
  <2>2. CASE k = n + 1
    <3>1. /\ then[k] = Len(kept) + 1 /\ then[k - 1] = Len(kept) /\ longer[k] = line
      BY <1>1, <1>3, <2>2
    <3> QED  BY <1>2, <3>1 DEF InTurn
  <2> QED  BY <1>1, <2>1, <2>2
<1> HIDE DEF then
<1>7. Follow(longer, Append(kept, line), Len(kept) + 1)
  <2>1. /\ then \in [0 .. Len(longer) -> 0 .. Len(Append(kept, line))]
        /\ then[0] = 0 \/ Len(longer) >= HistoryCapacity
        /\ then[Len(longer)] = Len(kept) + 1
    BY <1>1, <1>2, <1>4, <1>5
  <2> QED  BY <1>1, <1>6, <2>1 DEF Follow
<1> QED  BY <1>7 DEF longer

\* What was kept may go on.
LEMMA FollowMore ==
  ASSUME NEW lines \in Seq(AllLines), NEW kept \in Seq(Lines), NEW line \in Lines,
         NEW last \in 0 .. Len(kept), Follow(lines, kept, last)
  PROVE  Follow(lines, Append(kept, line), last)
<1>1. /\ Len(kept) \in Nat /\ Len(Append(kept, line)) = Len(kept) + 1
      /\ \A k \in 1 .. Len(kept) : Append(kept, line)[k] = kept[k]
      /\ Len(lines) \in Nat /\ DOMAIN lines = 1 .. Len(lines)
  OBVIOUS
<1>2. PICK turn \in [0 .. Len(lines) -> 0 .. Len(kept)] :
        /\ turn[0] = 0 \/ Len(lines) >= HistoryCapacity
        /\ turn[Len(lines)] = last
        /\ \A k \in DOMAIN lines : InTurn(turn, lines, kept, k)
  BY DEF Follow
<1>3. turn \in [0 .. Len(lines) -> 0 .. Len(Append(kept, line))]
  BY <1>1, <1>2
<1>4. ASSUME NEW k \in DOMAIN lines PROVE InTurn(turn, lines, Append(kept, line), k)
  <2>1. turn[k - 1] \in 0 .. Len(kept) /\ turn[k] \in 0 .. Len(kept)
    BY <1>1, <1>2
  <2>2. InTurn(turn, lines, kept, k)
    BY <1>2, Zenon
  <2>3. lines[k] \in Lines => turn[k] \in 1 .. Len(kept)
    BY <2>1, <2>2 DEF InTurn
  <2> QED  BY <1>1, <2>2, <2>3 DEF InTurn
<1> QED  BY <1>2, <1>3, <1>4 DEF Follow

LEMMA Concat ==
  ASSUME NEW T, NEW a \in Seq(T), NEW b \in Seq(T)
  PROVE  /\ a \o b \in Seq(T) /\ Len(a \o b) = Len(a) + Len(b)
         /\ \A k \in 1 .. Len(a) + Len(b) :
              (a \o b)[k] = IF k <= Len(a) THEN a[k] ELSE b[k - Len(a)]
OBVIOUS

\* A line of another shell may lie anywhere between them.
LEMMA FollowBetween ==
  ASSUME NEW a \in Seq(AllLines), NEW b \in Seq(AllLines), NEW kept \in Seq(Lines),
         NEW last, Follow(a \o b, kept, last)
  PROVE  Follow((a \o <<Other>>) \o b, kept, last)
<1> DEFINE n == Len(a)
           m == Len(b)
           ab == a \o b
           aob == (a \o <<Other>>) \o b
<1>1. /\ n \in Nat /\ m \in Nat /\ HistoryCapacity \in Nat /\ Other \notin Lines
      /\ Other \in AllLines
  BY HistoryAssumption DEF AllLines
<1>2. /\ ab \in Seq(AllLines) /\ Len(ab) = n + m /\ DOMAIN ab = 1 .. n + m
      /\ \A k \in 1 .. n + m : ab[k] = IF k <= n THEN a[k] ELSE b[k - n]
  OBVIOUS
<1>3. /\ aob \in Seq(AllLines) /\ Len(aob) = n + m + 1 /\ DOMAIN aob = 1 .. n + m + 1
      /\ \A k \in 1 .. n + m + 1 :
           aob[k] = IF k <= n THEN a[k] ELSE IF k = n + 1 THEN Other ELSE b[k - (n + 1)]
  <2> DEFINE ao == a \o <<Other>>
  <2>1. /\ ao \in Seq(AllLines) /\ Len(ao) = n + 1
        /\ \A k \in 1 .. n + 1 : ao[k] = IF k <= n THEN a[k] ELSE Other
    BY <1>1
  <2> HIDE DEF ao
  <2>4. /\ ao \o b \in Seq(AllLines) /\ Len(ao \o b) = Len(ao) + Len(b)
        /\ \A k \in 1 .. Len(ao) + Len(b) :
             (ao \o b)[k] = IF k <= Len(ao) THEN ao[k] ELSE b[k - Len(ao)]
    BY <2>1, Concat, Zenon
  <2>2. /\ ao \o b \in Seq(AllLines) /\ Len(ao \o b) = n + 1 + m
        /\ \A k \in 1 .. n + 1 + m : (ao \o b)[k] = IF k <= n + 1 THEN ao[k] ELSE b[k - (n + 1)]
    <3> DEFINE g == ao \o b
    <3> HIDE DEF g
    <3>1. /\ g \in Seq(AllLines) /\ Len(g) = Len(ao) + Len(b)
          /\ \A k \in 1 .. Len(ao) + Len(b) : g[k] = IF k <= Len(ao) THEN ao[k] ELSE b[k - Len(ao)]
      BY <2>4 DEF g
    <3>2. /\ g \in Seq(AllLines) /\ Len(g) = n + 1 + m
          /\ \A k \in 1 .. n + 1 + m : g[k] = IF k <= n + 1 THEN ao[k] ELSE b[k - (n + 1)]
      BY <2>1, <3>1
    <3> QED  BY <3>2 DEF g
  <2> HIDE DEF n, m
  <2>3. ASSUME NEW k \in 1 .. n + m + 1
        PROVE  (ao \o b)[k] = IF k <= n THEN a[k] ELSE IF k = n + 1 THEN Other ELSE b[k - (n + 1)]
    BY <1>1, <2>1, <2>2
  <2> QED  BY <1>1, <2>2, <2>3 DEF ao
<1>4. PICK turn \in [0 .. Len(ab) -> 0 .. Len(kept)] :
        /\ turn[0] = 0 \/ Len(ab) >= HistoryCapacity
        /\ turn[Len(ab)] = last
        /\ \A k \in DOMAIN ab : InTurn(turn, ab, kept, k)
  BY DEF Follow
<1> HIDE DEF n, m, ab, aob
<1> DEFINE then == [k \in 0 .. n + m + 1 |-> IF k <= n THEN turn[k] ELSE turn[k - 1]]
<1>5. then \in [0 .. n + m + 1 -> 0 .. Len(kept)]
  BY <1>1, <1>2, <1>4
<1>6. then[0] = 0 \/ n + m + 1 >= HistoryCapacity
  BY <1>1, <1>2, <1>4
<1>7. then[n + m + 1] = last
  BY <1>1, <1>2, <1>4
<1>8. ASSUME NEW k \in 1 .. n + m + 1 PROVE InTurn(then, aob, kept, k)
  <2>1. CASE k <= n
    <3>4. k \in 1 .. n + m /\ k \in DOMAIN ab
      BY <1>1, <1>2, <2>1
    <3>5. aob[k] = a[k] /\ ab[k] = a[k]
      BY <1>2, <1>3, <2>1, <3>4
    <3>1. /\ aob[k] = ab[k] /\ then[k] = turn[k] /\ then[k - 1] = turn[k - 1]
          /\ k \in DOMAIN ab
      BY <1>1, <2>1, <3>4, <3>5
    <3>2. InTurn(turn, ab, kept, k)
      BY <1>4, <3>1, Zenon
    <3> HIDE DEF then
    <3> QED  BY <3>1, <3>2 DEF InTurn
  <2>2. CASE k = n + 1
    <3>1. aob[k] = Other /\ then[k] = turn[n] /\ then[k - 1] = turn[n]
      BY <1>1, <1>3, <2>2
    <3> HIDE DEF then
    <3> QED  BY <1>1, <3>1 DEF InTurn
  <2>3. CASE k > n + 1
    <3> DEFINE i == k - 1
    <3>1. i \in 1 .. n + m /\ i > n /\ i - n = k - (n + 1)
      BY <1>1, <2>3
    <3>2. i \in DOMAIN ab /\ ab[i] = b[i - n] /\ aob[k] = b[k - (n + 1)]
      <4>1. i \in DOMAIN ab /\ ~(i <= n)
        BY <1>1, <1>2, <3>1
      <4>2. ab[i] = b[i - n]
        BY <1>2, <3>1, <4>1, Zenon
      <4>3. ~(k <= n) /\ k # n + 1
        BY <1>1, <2>3
      <4>4. aob[k] = b[k - (n + 1)]
        BY <1>3, <4>3, Zenon
      <4> QED  BY <4>1, <4>2, <4>4
    <3>3. /\ aob[k] = ab[i] /\ then[k] = turn[i] /\ then[k - 1] = turn[i - 1]
          /\ i \in DOMAIN ab
      BY <1>1, <2>3, <3>1, <3>2, SMTT(30)
    <3>4. InTurn(turn, ab, kept, i)
      BY <1>4, <3>3, Zenon
    <3> HIDE DEF then, i
    <3> QED  BY <3>3, <3>4 DEF InTurn
  <2> QED  BY <1>1, <2>1, <2>2, <2>3
<1> HIDE DEF then
<1>9. Follow(aob, kept, last)
  BY <1>3, <1>5, <1>6, <1>7, <1>8 DEF Follow
<1> QED  BY <1>9 DEF aob

LEMMA Appended ==
  ASSUME NEW T, NEW a \in Seq(T), NEW e \in T
  PROVE  Append(a, e) = a \o <<e>> /\ a \o <<>> = a /\ <<e>> \in Seq(T)
OBVIOUS

LEMMA NewestFrom ==
  ASSUME NEW T, NEW lines \in Seq(T), NEW k \in DOMAIN Newest(lines)
  PROVE  \E j \in DOMAIN lines : Newest(lines)[k] = lines[j]
<1>1. PICK newest \in Seq(T) : newest = Newest(lines) /\ NewestOf(lines, newest)
  BY NewestLast, Zenon
<1>2. /\ DOMAIN newest = 1 .. Len(newest) /\ DOMAIN lines = 1 .. Len(lines)
      /\ Len(newest) \in Nat /\ Len(lines) \in Nat /\ HistoryCapacity \in Nat
  BY HistoryAssumption
<1>3. k \in 1 .. Len(newest) /\ Len(newest) <= Len(lines)
  BY <1>1, <1>2 DEF NewestOf
<1> DEFINE j == Len(newest) - k
<1>4. j \in 0 .. Len(newest) - 1 /\ Len(newest) - j = k /\ Len(lines) - j \in DOMAIN lines
  BY <1>2, <1>3
<1>5. Back(newest, j) = Back(lines, j)
  BY <1>1, <1>4 DEF NewestOf
<1> HIDE DEF j
<1> QED  BY <1>1, <1>4, <1>5 DEF Back

\* Lines that are all of others follow from nothing.
LEMMA FollowOthers ==
  ASSUME NEW lines \in Seq({Other})
  PROVE  Follow(lines, <<>>, 0)
<1> DEFINE turn == [k \in 0 .. Len(lines) |-> 0]
<1>1. /\ turn \in [0 .. Len(lines) -> 0 .. Len(<<>>)]
      /\ turn[0] = 0 /\ turn[Len(lines)] = 0
  OBVIOUS
<1>2. ASSUME NEW k \in DOMAIN lines PROVE InTurn(turn, lines, <<>>, k)
  <2>1. turn[k] = 0 /\ turn[k - 1] = 0 /\ lines[k] = Other
    OBVIOUS
  <2> HIDE DEF turn
  <2> QED  BY <2>1, HistoryAssumption DEF InTurn
<1> HIDE DEF turn
<1> QED  BY <1>1, <1>2 DEF Follow
-----------------------------------------------------------------------------
HistoryTypes ==
  /\ files \in [Files -> [lines : Seq(AllLines), owner : BOOLEAN]]
  /\ accepted \in Seq(Lines) /\ unsaved \in Seq(Lines)
  /\ bound \in Options(Files)

\* What waits to be written is to be kept; the file bound is its owner's; and
\* only a shell with a history writes.
HistoryHolds ==
  /\ HistoryTypes
  /\ \A n \in DOMAIN unsaved : retained(unsaved[n])
  /\ bound # <<>> => files[bound[1]].owner
  /\ syncing # "no" => bound # <<>>
  /\ HistoryStaysBound

\* Before there is a shell nothing was entered.
HistoryInv ==
  /\ HistoryHolds
  /\ phase \notin {"session", "ended"} =>
       accepted = <<>> /\ unsaved = <<>> /\ syncing = "no"

\* The invariant of the file that is bound.
LEMMA BoundFile ==
  ASSUME HistoryTypes, bound # <<>>
  PROVE  \E f \in Files : /\ bound = <<f>> /\ bound[1] = f
                          /\ files[f].lines \in Seq(AllLines)
                          /\ files[f].lines \o unsaved \in Seq(AllLines)
<1>1. PICK f \in Files : bound = <<f>>
  BY DEF HistoryTypes, Options
<1>2. files[f].lines \in Seq(AllLines) /\ unsaved \in Seq(AllLines)
  BY DEF HistoryTypes, AllLines
<1> QED  BY <1>1, <1>2

LEMMA WriteKeeps ==
  ASSUME HistoryHolds, bound # <<>>, Written, UNCHANGED <<bound, accepted>>,
         syncing' # "no" => bound # <<>>
  PROVE  HistoryHolds'
<1>1. PICK f \in Files : /\ bound = <<f>> /\ bound[1] = f
                        /\ files[f].lines \in Seq(AllLines)
                        /\ files[f].lines \o unsaved \in Seq(AllLines)
  BY BoundFile DEF HistoryHolds
<1> DEFINE all == files[f].lines \o unsaved
<1>2. all \in Seq(AllLines) /\ Newest(all) \in Seq(AllLines)
  BY <1>1, NewestLast, Zenon
<1>3. /\ files' = [files EXCEPT ![f].lines = Newest(all)] /\ unsaved' = <<>>
      /\ files \in [Files -> [lines : Seq(AllLines), owner : BOOLEAN]]
  BY <1>1 DEF Written, own_file, HistoryHolds, HistoryTypes
<1> HIDE DEF all
<1>4. /\ files'[f].lines = Newest(all) /\ files'[f].owner = files[f].owner
      /\ \A g \in Files : g # f => files'[g] = files[g]
  BY <1>3
<1>5. HistoryTypes'
  <2>1. files' \in [Files -> [lines : Seq(AllLines), owner : BOOLEAN]]
    BY <1>2, <1>3
  <2>2. accepted \in Seq(Lines) /\ bound \in Options(Files)
    BY DEF HistoryHolds, HistoryTypes
  <2> QED  BY <1>3, <2>1, <2>2 DEF HistoryTypes
<1>6. ASSUME NEW g \in Files, NEW k \in DOMAIN files'[g].lines, files'[g].lines[k] \in Lines
      PROVE  <<g>> = bound' /\ files'[g].owner /\ retained(files'[g].lines[k])
  <2>1. CASE g # f
    BY <1>4, <1>6, <2>1 DEF HistoryHolds, HistoryStaysBound
  <2>2. CASE g = f
    <3>1. PICK j \in DOMAIN all : Newest(all)[k] = all[j]
      <4>1. k \in DOMAIN Newest(all)
        BY <1>4, <1>6, <2>2
      <4> QED  BY <1>2, <4>1, NewestFrom, Zenon
    <3>2. retained(all[j])
      <4>1. /\ j \in 1 .. Len(files[f].lines) + Len(unsaved)
            /\ all[j] = IF j <= Len(files[f].lines) THEN files[f].lines[j]
                        ELSE unsaved[j - Len(files[f].lines)]
        BY <1>1, <3>1 DEF all, HistoryHolds, HistoryTypes
      <4>2. CASE j <= Len(files[f].lines)
        <5>1. j \in DOMAIN files[f].lines /\ files[f].lines[j] \in Lines
          BY <1>1, <1>4, <1>6, <2>2, <3>1, <4>1, <4>2
        <5> QED  BY <4>1, <4>2, <5>1 DEF HistoryHolds, HistoryStaysBound
      <4>3. CASE ~(j <= Len(files[f].lines))
        <5>1. j - Len(files[f].lines) \in DOMAIN unsaved
          BY <1>1, <4>1, <4>3 DEF HistoryHolds, HistoryTypes
        <5> QED  BY <4>1, <4>3, <5>1 DEF HistoryHolds
      <4> QED  BY <4>2, <4>3
    <3>3. files'[g].owner /\ <<g>> = bound'
      BY <1>1, <1>4, <2>2 DEF HistoryHolds
    <3> QED  BY <1>4, <2>2, <3>1, <3>2, <3>3
  <2> QED  BY <2>1, <2>2
<1>7. Follow(Newest(all), accepted, Len(accepted))
  BY <1>1 DEF HistoryHolds, HistoryStaysBound, all
<1>8. Newest(Newest(all) \o <<>>) = Newest(all)
  <2>1. all \in Seq(AllLines) /\ <<>> \in Seq(AllLines) /\ all \o <<>> = all
    BY <1>1 DEF all
  <2> HIDE DEF all
  <2>2. Newest(Newest(all) \o <<>>) = Newest(all \o <<>>)
    BY <2>1, NewestWhole, Zenon
  <2> QED  BY <2>1, <2>2, Zenon
<1>9. HistoryStaysBound'
  <2>1. Len(accepted) \in 0 .. Len(accepted)
    BY DEF HistoryHolds, HistoryTypes
  <2> QED
    BY <1>1, <1>3, <1>4, <1>6, <1>7, <1>8, <2>1 DEF HistoryStaysBound
<1> QED  BY <1>1, <1>3, <1>4, <1>5, <1>9 DEF HistoryHolds

LEMMA EnterKeeps ==
  ASSUME HistoryHolds, NEW line \in Lines, EnterLine(line)
  PROVE  HistoryHolds'
<1>1. CASE UNCHANGED <<unsaved, accepted>>
  BY <1>1 DEF EnterLine, HistoryHolds, HistoryTypes, HistoryStaysBound
<1>2. CASE /\ bound # <<>> /\ retained(line)
           /\ unsaved' = Newest(Append(unsaved, line)) /\ accepted' = Append(accepted, line)
  <2>1. PICK f \in Files : /\ bound = <<f>> /\ bound[1] = f
                          /\ files[f].lines \in Seq(AllLines)
                          /\ files[f].lines \o unsaved \in Seq(AllLines)
    BY <1>2, BoundFile DEF HistoryHolds
  <2> DEFINE lines == files[f].lines
             one == <<line>>
             more == unsaved \o one
             all == lines \o unsaved
  <2>2. /\ accepted \in Seq(Lines) /\ unsaved \in Seq(Lines) /\ unsaved \in Seq(AllLines)
        /\ line \in AllLines
    BY DEF HistoryHolds, HistoryTypes, AllLines
  <2>3. /\ Append(unsaved, line) = more /\ more \in Seq(Lines) /\ more \in Seq(AllLines)
        /\ one \in Seq(AllLines)
    BY <2>2
  <2>4. Newest(more) \in Seq(Lines)
    BY <2>3, NewestLast, Zenon
  <2>5. \A n \in DOMAIN more : retained(more[n])
    BY <1>2, <2>2 DEF HistoryHolds
  <2>6. ASSUME NEW n \in DOMAIN Newest(more) PROVE retained(Newest(more)[n])
    <3>1. PICK j \in DOMAIN more : Newest(more)[n] = more[j]
      BY <2>3, NewestFrom, Zenon
    <3> QED  BY <2>5, <3>1
  <2>7. UNCHANGED <<at, files, bound>> /\ syncing' = "verify"
    BY <1>2 DEF EnterLine
  <2>8. ASSUME NEW last \in 0 .. Len(accepted), Follow(lines, accepted, last)
        PROVE  Follow(lines, accepted', last) /\ last \in 0 .. Len(accepted')
    <3>1. Len(accepted') = Len(accepted) + 1 /\ Len(accepted) \in Nat
      BY <1>2, <2>2
    <3>2. Follow(lines, accepted', last)
      BY <1>2, <2>1, <2>2, <2>8, FollowMore, Zenon
    <3> QED  BY <3>1, <3>2
  <2>9. Follow(Newest(lines \o Newest(more)), accepted', Len(accepted'))
    <3>1. Follow(Newest(all), accepted, Len(accepted))
      BY <1>2, <2>1 DEF HistoryHolds, HistoryStaysBound
    <3>2. Newest(all) \in Seq(AllLines)
      BY <2>1, NewestLast, Zenon
    <3>3. Follow(Newest(all) \o one, Append(accepted, line), Len(accepted) + 1)
      BY <2>2, <3>1, <3>2, FollowAppend, Zenon
    <3>4. Newest(all) \o one \in Seq(AllLines) /\ Append(accepted, line) \in Seq(Lines)
      BY <2>2, <2>3, <3>2
    <3>5. Follow(Newest(Newest(all) \o one), Append(accepted, line), Len(accepted) + 1)
      BY <3>3, <3>4, FollowNewest, Zenon
    <3>6. Newest(lines \o Newest(more)) = Newest(Newest(all) \o one)
      <4>1. Newest(lines \o Newest(more)) = Newest(lines \o more)
        BY <2>1, <2>3, NewestWhole, Zenon
      <4>2. lines \o more = all \o one
        <5>1. lines \in Seq(AllLines) /\ unsaved \in Seq(AllLines) /\ one \in Seq(AllLines)
          BY <2>1, <2>2, <2>3
        <5> HIDE DEF lines, one
        <5> QED  BY <5>1, ConcatAssociative
      <4>3. Newest(Newest(all) \o one) = Newest(all \o one)
        BY <2>1, <2>3, NewestWhole, Zenon
      <4> QED  BY <4>1, <4>2, <4>3
    <3>7. Len(accepted') = Len(accepted) + 1
      BY <1>2, <2>2
    <3> QED  BY <1>2, <3>5, <3>6, <3>7
  <2>10. HistoryTypes'
    <3>1. accepted' \in Seq(Lines)
      BY <1>2, <2>2
    <3> QED  BY <1>2, <2>3, <2>4, <2>7, <3>1 DEF HistoryHolds, HistoryTypes
  <2>11. HistoryStaysBound'
    <3> HIDE DEF lines, more
    <3>1. /\ \A g \in Files : \A k \in DOMAIN files'[g].lines : files'[g].lines[k] \in Lines =>
               <<g>> = bound' /\ files'[g].owner /\ retained(files'[g].lines[k])
      BY <2>7 DEF HistoryHolds, HistoryStaysBound
    <3>2. \E last \in 0 .. Len(accepted) : Follow(lines, accepted, last)
      BY <1>2, <2>1 DEF HistoryHolds, HistoryStaysBound, lines
    <3>3. \E last \in 0 .. Len(accepted') : Follow(lines, accepted', last)
      BY <2>8, <3>2
    <3>4. files'[bound'[1]].lines = lines /\ unsaved' = Newest(more)
      BY <1>2, <2>1, <2>3, <2>7 DEF lines
    <3> QED  BY <2>9, <3>1, <3>3, <3>4 DEF HistoryStaysBound
  <2> QED
    BY <1>2, <2>3, <2>6, <2>7, <2>10, <2>11 DEF HistoryHolds
<1> QED  BY <1>1, <1>2 DEF EnterLine

LEMMA OthersKeep ==
  ASSUME HistoryHolds, OtherWrites
  PROVE  HistoryHolds'
<1>1. PICK f \in Files : files' = [files EXCEPT ![f].lines = Newest(Append(@, Other))]
  BY DEF OtherWrites
<1> DEFINE lines == files[f].lines
           one == <<Other>>
           more == lines \o one
<1>2. /\ files \in [Files -> [lines : Seq(AllLines), owner : BOOLEAN]]
      /\ lines \in Seq(AllLines) /\ Other \in AllLines /\ Other \notin Lines
      /\ one \in Seq(AllLines)
  BY HistoryAssumption DEF HistoryHolds, HistoryTypes, AllLines
<1>3. Append(lines, Other) = more /\ more \in Seq(AllLines)
  BY <1>2, Appended
<1>4. Newest(more) \in Seq(AllLines)
  BY <1>3, NewestLast, Zenon
<1>5. /\ files'[f].lines = Newest(more) /\ files'[f].owner = files[f].owner
      /\ \A g \in Files : g # f => files'[g] = files[g]
      /\ files' = [files EXCEPT ![f].lines = Newest(more)]
  BY <1>1, <1>2, <1>3
<1>6. \A g \in Files : files'[g].owner = files[g].owner
  BY <1>5
<1>7. UNCHANGED <<at, bound, unsaved, syncing, accepted>>
  BY DEF OtherWrites
<1>8. HistoryTypes'
  <2> HIDE DEF more
  <2>1. files' \in [Files -> [lines : Seq(AllLines), owner : BOOLEAN]]
    BY <1>2, <1>4, <1>5
  <2> QED  BY <1>7, <2>1 DEF HistoryHolds, HistoryTypes
<1>9. ASSUME NEW g \in Files, NEW k \in DOMAIN files'[g].lines, files'[g].lines[k] \in Lines
      PROVE  <<g>> = bound' /\ files'[g].owner /\ retained(files'[g].lines[k])
  <2>1. CASE g # f
    BY <1>5, <1>7, <1>9, <2>1 DEF HistoryHolds, HistoryStaysBound
  <2>2. CASE g = f
    <3> HIDE DEF more, lines
    <3>1. PICK j \in DOMAIN more : Newest(more)[k] = more[j]
      <4>1. k \in DOMAIN Newest(more)
        BY <1>5, <1>9, <2>2
      <4> QED  BY <1>3, <4>1, NewestFrom, Zenon
    <3>2. more[j] \in Lines
      BY <1>5, <1>9, <2>2, <3>1
    <3>3. j \in DOMAIN lines /\ lines[j] = more[j]
      BY <1>2, <3>1, <3>2 DEF more
    <3>4. <<f>> = bound /\ files[f].owner /\ retained(lines[j])
      BY <3>2, <3>3 DEF HistoryHolds, HistoryStaysBound, lines
    <3> QED  BY <1>5, <1>6, <1>7, <2>2, <3>1, <3>3, <3>4
  <2> QED  BY <2>1, <2>2
<1>10. ASSUME bound # <<>>
       PROVE  /\ \E last \in 0 .. Len(accepted) : Follow(files'[bound[1]].lines, accepted, last)
              /\ Follow(Newest(files'[bound[1]].lines \o unsaved), accepted, Len(accepted))
  <2>1. PICK g \in Files : /\ bound = <<g>> /\ bound[1] = g
                          /\ files[g].lines \in Seq(AllLines)
                          /\ files[g].lines \o unsaved \in Seq(AllLines)
    BY <1>10, BoundFile DEF HistoryHolds
  <2>2. PICK last \in 0 .. Len(accepted) : Follow(files[g].lines, accepted, last)
    BY <1>10, <2>1 DEF HistoryHolds, HistoryStaysBound
  <2>3. Follow(Newest(files[g].lines \o unsaved), accepted, Len(accepted))
    BY <1>10, <2>1 DEF HistoryHolds, HistoryStaysBound
  <2>4. CASE g # f
    BY <1>5, <2>1, <2>2, <2>3, <2>4
  <2>5. CASE g = f
    <3>1. /\ accepted \in Seq(Lines) /\ unsaved \in Seq(AllLines) /\ <<>> \in Seq(AllLines)
      BY DEF HistoryHolds, HistoryTypes, AllLines
    <3> HIDE DEF lines
    <3>2. Follow(Newest(more), accepted, last)
      <4>1. lines \o <<>> = lines /\ more \o <<>> = more
        BY <1>2, <1>3
      <4>2. Follow(lines \o <<>>, accepted, last)
        BY <2>2, <2>5, <4>1 DEF lines
      <4>3. Follow(more \o <<>>, accepted, last)
        BY <1>2, <3>1, <4>2, FollowBetween, Zenon
      <4> QED  BY <1>3, <3>1, <4>1, <4>3, FollowNewest, Zenon
    <3>3. Follow(Newest(more \o unsaved), accepted, Len(accepted))
      <4>1. Follow(Newest(lines \o unsaved), accepted, Len(accepted))
        BY <2>3, <2>5 DEF lines
      <4>2. CASE Newest(more \o unsaved) = Newest(lines \o unsaved)
        BY <4>1, <4>2
      <4>3. ASSUME NEW c \in Seq(AllLines), Newest(lines \o unsaved) = c \o unsaved,
                   Newest(more \o unsaved) = Newest((c \o one) \o unsaved)
            PROVE  Follow(Newest(more \o unsaved), accepted, Len(accepted))
        <5>1. Follow(c \o unsaved, accepted, Len(accepted))
          BY <4>1, <4>3
        <5>2. Follow((c \o one) \o unsaved, accepted, Len(accepted))
          BY <3>1, <5>1, FollowBetween, Zenon
        <5>3. c \o one \in Seq(AllLines)
          BY <1>2, Concat
        <5>4. (c \o one) \o unsaved \in Seq(AllLines)
          BY <3>1, <5>3, Concat, Zenon
        <5> QED  BY <3>1, <4>3, <5>2, <5>4, FollowNewest, Zenon
      <4>4. \/ Newest(more \o unsaved) = Newest(lines \o unsaved)
            \/ \E c \in Seq(AllLines) :
                 /\ Newest(lines \o unsaved) = c \o unsaved
                 /\ Newest(more \o unsaved) = Newest((c \o one) \o unsaved)
        <5>1. lines \in Seq(AllLines) /\ Other \in AllLines
          BY <1>2
        <5>2. Between(lines, unsaved, Other, AllLines)
          BY <3>1, <5>1, NewestBetween, Zenon
        <5> QED  BY <5>2, Zenon DEF Between
      <4> QED  BY <4>2, <4>3, <4>4, Zenon
    <3>4. Newest(Newest(more) \o unsaved) = Newest(more \o unsaved)
      BY <1>3, <3>1, NewestWhole, Zenon
    <3>5. files'[bound[1]].lines = Newest(more)
      BY <1>5, <2>1, <2>5
    <3> QED  BY <3>2, <3>3, <3>4, <3>5
  <2> QED  BY <2>4, <2>5
<1>11. HistoryStaysBound'
  <2> HIDE DEF more, lines
  <2> QED  BY <1>7, <1>9, <1>10 DEF HistoryStaysBound
<1>12. bound' # <<>> => files'[bound'[1]].owner
  <2> SUFFICES ASSUME bound # <<>> PROVE files'[bound[1]].owner
    BY <1>7
  <2>1. bound[1] \in Files
    BY BoundFile DEF HistoryHolds
  <2> QED  BY <1>6, <2>1 DEF HistoryHolds
<1> QED  BY <1>7, <1>8, <1>11, <1>12 DEF HistoryHolds

LEMMA EditorKeeps ==
  ASSUME HistoryHolds, EditorSteps \/ Disk \/ DropHistory
  PROVE  HistoryHolds'
<1>1. CASE \E line \in Lines : EnterLine(line)
  BY <1>1, EnterKeeps
<1>2. CASE Verify \/ PathReplaced
  BY <1>2 DEF Verify, PathReplaced, HistoryHolds, HistoryTypes, HistoryStaysBound
<1>3. CASE WriteHistory
  <2>1. CASE Written
    BY <1>3, <2>1, WriteKeeps DEF WriteHistory, HistoryHolds
  <2>2. CASE UNCHANGED <<files, unsaved>>
    BY <1>3, <2>2 DEF WriteHistory, HistoryHolds, HistoryTypes, HistoryStaysBound
  <2> QED  BY <1>3, <2>1, <2>2 DEF WriteHistory
<1>4. CASE DropHistory
  <2>1. CASE bound # <<>> /\ Written
    BY <1>4, <2>1, WriteKeeps DEF DropHistory
  <2>2. CASE UNCHANGED <<files, unsaved>>
    BY <1>4, <2>2 DEF DropHistory, HistoryHolds, HistoryTypes, HistoryStaysBound
  <2> QED  BY <1>4, <2>1, <2>2 DEF DropHistory
<1>5. CASE OtherWrites
  BY <1>5, OthersKeep
<1> QED  BY <1>1, <1>2, <1>3, <1>4, <1>5 DEF EditorSteps, Disk

\* The shell starts with the file it was admitted to, and with no line of its own.
LEMMA BuildKeeps ==
  ASSUME HistoryHolds, accepted = <<>>, unsaved = <<>>, syncing = "no",
         NEW no_history, NEW disk \in Disks, build_editor(no_history, disk)
  PROVE  HistoryHolds'
<1> DEFINE f == disk.at.file
<1>1. /\ f \in Files /\ Other \notin Lines
      /\ disk.files \in [Files -> [lines : Seq({Other}), owner : BOOLEAN]]
  BY HistoryAssumption
<1>2. \A g \in Files : Newest(disk.files[g].lines) \in Seq({Other})
  <2>1. ASSUME NEW g \in Files PROVE Newest(disk.files[g].lines) \in Seq({Other})
    <3>1. disk.files[g].lines \in Seq({Other})
      BY <1>1
    <3> QED  BY <3>1, NewestLast, Zenon
  <2> QED  BY <2>1
<1>3. /\ bound' = IF ~no_history /\ Admits(disk) THEN <<f>> ELSE <<>>
      /\ files' = IF no_history \/ ~Opens(disk.at) THEN disk.files
                  ELSE [disk.files EXCEPT ![f] =
                         [lines |-> IF Admits(disk) THEN Newest(@.lines) ELSE @.lines,
                          owner |-> TRUE]]
      /\ UNCHANGED <<unsaved, syncing, accepted>>
  BY DEF build_editor
<1>4. files' \in [Files -> [lines : Seq({Other}), owner : BOOLEAN]]
  BY <1>1, <1>2, <1>3
<1>5. bound' # <<>> => bound' = <<f>> /\ files'[f].owner
  BY <1>1, <1>3 DEF Admits
<1>6. HistoryTypes'
  <2>1. \A g \in Files : files'[g] \in [lines : Seq(AllLines), owner : BOOLEAN]
    BY <1>4 DEF AllLines
  <2>2. files' \in [Files -> [lines : Seq(AllLines), owner : BOOLEAN]]
    BY <1>4, <2>1
  <2> QED  BY <1>1, <1>3, <2>2 DEF HistoryTypes, Options, HistoryHolds
<1>7. HistoryStaysBound'
  <2>1. \A g \in Files : \A k \in DOMAIN files'[g].lines : files'[g].lines[k] \notin Lines
    BY <1>1, <1>4
  <2>2. ASSUME NEW lines \in Seq({Other})
        PROVE  /\ \E last \in 0 .. Len(<<>>) : Follow(lines, <<>>, last)
               /\ Follow(Newest(lines \o <<>>), <<>>, Len(<<>>))
    <3>1. /\ lines \o <<>> = lines /\ Len(<<>>) = 0
      OBVIOUS
    <3>2. Newest(lines) \in Seq({Other})
      BY NewestLast, Zenon
    <3> QED  BY <3>1, <3>2, FollowOthers
  <2>3. bound' # <<>> => files'[bound'[1]].lines \in Seq({Other})
    BY <1>1, <1>4, <1>5
  <2> QED  BY <1>3, <2>1, <2>2, <2>3 DEF HistoryStaysBound
<1> QED  BY <1>3, <1>5, <1>6, <1>7 DEF HistoryHolds

\* The history holds from the start on.
LEMMA HistoryInitial == Init => HistoryInv
<1> SUFFICES ASSUME Init PROVE HistoryInv
  OBVIOUS
<1>1. /\ files = [f \in Files |-> Blank]
      /\ bound = <<>> /\ unsaved = <<>> /\ syncing = "no" /\ accepted = <<>>
  BY DEF Init, HistoryInit
<1>2. HistoryTypes
  <2>1. Blank \in [lines : Seq(AllLines), owner : BOOLEAN]
    BY DEF Blank
  <2> QED  BY <1>1, <2>1 DEF HistoryTypes, Options
<1>3. HistoryStaysBound
  <2>1. \A f \in Files : DOMAIN files[f].lines = {}
    BY <1>1 DEF Blank
  <2> QED  BY <1>1, <2>1 DEF HistoryStaysBound
<1> QED  BY <1>1, <1>2, <1>3 DEF HistoryInv, HistoryHolds

LEMMA HistoryNext == HistoryInv /\ [Next]_vars => HistoryInv'
<1> SUFFICES ASSUME HistoryInv, [Next]_vars PROVE HistoryInv'
  OBVIOUS
<1>1. ASSUME UNCHANGED historyVars,
             phase \in {"session", "ended"} => phase' \in {"session", "ended"}
      PROVE  HistoryInv'
  <2>1. HistoryHolds'
    BY <1>1 DEF historyVars, HistoryInv, HistoryHolds, HistoryTypes, HistoryStaysBound
  <2> QED  BY <1>1, <2>1 DEF HistoryInv, historyVars
<1>2. CASE EnterShell
  BY <1>2, BuildKeeps DEF EnterShell, HistoryInv, Goes
<1>3. CASE EditLine
  BY <1>3, EditorKeeps DEF EditLine, inSession, HistoryInv
<1>4. CASE LeaveShell
  BY <1>4, EditorKeeps DEF LeaveShell, inSession, HistoryInv, Finishes
<1>5. CASE Progress /\ ~EnterShell
  <2>1. UNCHANGED historyVars /\ phase \notin {"session", "ended"}
    BY <1>5 DEF Progress, Begin, Configure, ResolveIdentity, Discover, ListInventory,
      OfferInventory, SelectTarget, SelectDiscovered, UseSelector, ChooseRole, Connect,
      ReadRoots, Dial, RunInput, Same, historyVars
  <2> QED  BY <1>1, <2>1
<1>6. CASE Asking \/ OutputFails
  <2>1. UNCHANGED historyVars /\ phase \notin {"session", "ended"}
    BY <1>6 DEF Asking, Ask, OutputFails, Same, historyVars
  <2> QED  BY <1>1, <2>1
<1>7. CASE ServerSays \/ UNCHANGED vars
  <2>1. UNCHANGED historyVars /\ UNCHANGED phase
    BY <1>7 DEF ServerSays, vars, historyVars
  <2> QED  BY <1>1, <2>1
<1> QED  BY <1>2, <1>3, <1>4, <1>5, <1>6, <1>7 DEF Next

\* docs/interactive-shell.md:14-20: whatever is done to its path, the history goes
\* into the file that was verified at the start, in order and with nothing lost but
\* what is beyond its capacity.
THEOREM HistoryIsBound == Spec => []HistoryStaysBound
<1>1. HistoryInv => HistoryStaysBound
  BY DEF HistoryInv, HistoryHolds
<1> QED  BY <1>1, HistoryInitial, HistoryNext, PTL DEF Spec
-----------------------------------------------------------------------------
(***************************************************************************)
(* The parts of a text, and what a selector names.                         *)
(***************************************************************************)
UpTo(S, i) == {j \in S : j <= i}

\* A larger number has all up to the smaller one, and more.
LEMMA UpToGrows ==
  ASSUME NEW S \in SUBSET Nat, NEW i \in S, NEW j \in S, i <= j
  PROVE  UpTo(S, i) \in SUBSET UpTo(S, j) /\ UpTo(S, j) \in SUBSET S
<1>1. i \in Nat /\ j \in Nat
  OBVIOUS
<1>2. ASSUME NEW h \in S, h <= i PROVE h <= j
  <2>1. h \in Nat
    OBVIOUS
  <2> QED  BY <1>1, <1>2, <2>1
<1> QED  BY <1>2, Zenon DEF UpTo

\* As many numbers have a k-th least as there are.
LEMMA NthOf ==
  ASSUME NEW S \in SUBSET Nat, IsFiniteSet(S), NEW k \in 1 .. Cardinality(S)
  PROVE  Nth(S, k) \in S /\ Cardinality(UpTo(S, Nth(S, k))) = k
<1> DEFINE n == Cardinality(S)
           rank == [i \in S |-> Cardinality(UpTo(S, i))]
<1>1. n \in Nat
  BY FS_CardinalityType
<1>2. ASSUME NEW i \in S
      PROVE  IsFiniteSet(UpTo(S, i)) /\ Cardinality(UpTo(S, i)) \in 1 .. n
  <2>1. UpTo(S, i) \in SUBSET S /\ i \in UpTo(S, i)
    BY DEF UpTo
  <2>2. IsFiniteSet(UpTo(S, i)) /\ Cardinality(UpTo(S, i)) <= n
    BY <2>1, FS_Subset
  <2>3. Cardinality(UpTo(S, i)) \in Nat /\ Cardinality(UpTo(S, i)) # 0
    BY <2>1, <2>2, FS_CardinalityType, FS_EmptySet
  <2> QED  BY <1>1, <2>2, <2>3
<1>3. ASSUME NEW i \in S, NEW j \in S, i < j
      PROVE  Cardinality(UpTo(S, i)) # Cardinality(UpTo(S, j))
  <2>1. i \in Nat /\ j \in Nat
    OBVIOUS
  <2>2. i <= j /\ j <= j /\ ~(j <= i)
    BY <1>3, <2>1
  <2>3. j \in UpTo(S, j) /\ j \notin UpTo(S, i)
    BY <2>2, Zenon DEF UpTo
  <2> QED  BY <1>2, <2>2, <2>3, UpToGrows, FS_Subset, Zenon
<1>4. rank \in Injection(S, 1 .. n)
  <2>1. rank \in [S -> 1 .. n]
    BY <1>2
  <2>2. ASSUME NEW i \in S, NEW j \in S, rank[i] = rank[j]
        PROVE  i = j
    <3>1. ~(i < j) /\ ~(j < i)
      BY <1>3, <2>2
    <3> QED  BY <3>1
  <2> HIDE DEF rank
  <2> QED  BY <2>1, <2>2 DEF Injection, IsInjective
<1>5. IsFiniteSet(1 .. n) /\ Cardinality(1 .. n) = n
  BY <1>1, FS_Interval
<1>6. rank \in Surjection(S, 1 .. n)
  <2> HIDE DEF rank
  <2> QED  BY <1>4, <1>5, FS_Injection, Zenon
<1>7. \E i \in S : rank[i] = k
  <2> HIDE DEF rank
  <2> QED  BY <1>6 DEF Surjection
<1>8. \E i \in S : Cardinality({j \in S : j <= i}) = k
  BY <1>7 DEF UpTo
<1> QED  BY <1>8 DEF Nth, UpTo

\* The numbers of a set come in their order.
LEMMA NthIncreases ==
  ASSUME NEW S \in SUBSET Nat, IsFiniteSet(S),
         NEW k \in 1 .. Cardinality(S), NEW l \in 1 .. Cardinality(S), k < l
  PROVE  Nth(S, k) < Nth(S, l)
<1>1. /\ Nth(S, k) \in S /\ Cardinality(UpTo(S, Nth(S, k))) = k
      /\ Nth(S, l) \in S /\ Cardinality(UpTo(S, Nth(S, l))) = l
  BY NthOf, Zenon
<1>2. ASSUME NEW i \in S, NEW j \in S, i <= j
      PROVE  Cardinality(UpTo(S, i)) <= Cardinality(UpTo(S, j))
  <2>1. UpTo(S, i) \in SUBSET UpTo(S, j) /\ UpTo(S, j) \in SUBSET S
    BY <1>2, UpToGrows, Zenon
  <2> QED  BY <2>1, FS_Subset, Zenon
<1>3. Nth(S, l) <= Nth(S, k) => l <= k
  BY <1>1, <1>2, Zenon
<1>4. Nth(S, k) \in Nat /\ Nth(S, l) \in Nat
  BY <1>1
<1> QED  BY <1>3, <1>4

Marks(text, mark) == {i \in DOMAIN text : text[i] = mark}

\* A text has finitely many marks.
LEMMA MarksFinite ==
  ASSUME NEW T, NEW text \in Seq(T), NEW mark
  PROVE  /\ Marks(text, mark) \in SUBSET Nat /\ IsFiniteSet(Marks(text, mark))
         /\ Cardinality(Marks(text, mark)) \in Nat
         /\ Marks(text, mark) \subseteq 1 .. Len(text)
<1>1. /\ Marks(text, mark) \in SUBSET (1 .. Len(text)) /\ Marks(text, mark) \in SUBSET Nat
      /\ Len(text) \in Int /\ 1 \in Int
  BY DEF Marks
<1>2. IsFiniteSet(Marks(text, mark))
  BY <1>1, FS_Interval, FS_Subset, Zenon
<1> QED  BY <1>1, <1>2, FS_CardinalityType, Zenon

\* Where a text is split.
Parted(text, mark, k) == Cut(Marks(text, mark), Len(text) + 1, k)

\* A text with n marks has n + 1 parts, each between two of the places.
LEMMA SplitIs ==
  ASSUME NEW T, NEW text \in Seq(T), NEW mark
  PROVE  LET n == Cardinality(Marks(text, mark)) IN
           /\ Len(Split(text, mark)) = n + 1
           /\ \A k \in 1 .. n + 1 : Split(text, mark)[k] =
                SubSeq(text, Parted(text, mark, k - 1) + 1, Parted(text, mark, k) - 1)
<1> DEFINE n == Cardinality(Marks(text, mark))
           part(k) == SubSeq(text, Parted(text, mark, k - 1) + 1, Parted(text, mark, k) - 1)
<1>1. n \in Nat
  BY MarksFinite, Zenon
<1>2. Split(text, mark) = [k \in 1 .. n + 1 |-> part(k)]
  BY Zenon DEF Split, Parted, Marks
<1> HIDE DEF n, part
<1>3. Len(Split(text, mark)) = n + 1
  BY <1>1, <1>2
<1>4. \A k \in 1 .. n + 1 : Split(text, mark)[k] = part(k)
  BY <1>2, Zenon
<1> QED  BY <1>3, <1>4, Zenon DEF n, part

\* The places are the marks, in between the two ends of the text.
LEMMA PartedIs ==
  ASSUME NEW T, NEW text \in Seq(T), NEW mark,
         NEW k \in 0 .. Cardinality(Marks(text, mark)) + 1
  PROVE  /\ Parted(text, mark, k) \in 0 .. Len(text) + 1
         /\ k = 0 => Parted(text, mark, k) = 0
         /\ k = Cardinality(Marks(text, mark)) + 1 => Parted(text, mark, k) = Len(text) + 1
         /\ k \in 1 .. Cardinality(Marks(text, mark)) =>
              /\ Parted(text, mark, k) \in 1 .. Len(text)
              /\ text[Parted(text, mark, k)] = mark
<1>1. /\ Marks(text, mark) \in SUBSET Nat /\ IsFiniteSet(Marks(text, mark))
      /\ Cardinality(Marks(text, mark)) \in Nat /\ Marks(text, mark) \subseteq 1 .. Len(text)
  BY MarksFinite, Zenon
<1>2. CASE k = 0
  BY <1>1, <1>2 DEF Parted, Cut
<1>3. CASE k = Cardinality(Marks(text, mark)) + 1
  BY <1>1, <1>3 DEF Parted, Cut
<1>4. CASE k \in 1 .. Cardinality(Marks(text, mark))
  <2>1. Nth(Marks(text, mark), k) \in Marks(text, mark)
    BY <1>1, <1>4, NthOf, Zenon
  <2>2. Parted(text, mark, k) = Nth(Marks(text, mark), k)
    BY <1>1, <1>4 DEF Parted, Cut
  <2>3. Parted(text, mark, k) \in 1 .. Len(text) /\ text[Parted(text, mark, k)] = mark
    BY <1>1, <2>1, <2>2 DEF Marks
  <2> QED  BY <1>1, <1>4, <2>3
<1> QED  BY <1>1, <1>2, <1>3, <1>4

\* No part begins before the last one has ended.
LEMMA PartedIncreases ==
  ASSUME NEW T, NEW text \in Seq(T), NEW mark,
         NEW k \in 0 .. Cardinality(Marks(text, mark))
  PROVE  Parted(text, mark, k) < Parted(text, mark, k + 1)
<1> DEFINE n == Cardinality(Marks(text, mark))
<1>1. /\ Marks(text, mark) \in SUBSET Nat /\ IsFiniteSet(Marks(text, mark)) /\ n \in Nat
  BY MarksFinite, Zenon
<1>2. k \in 0 .. n + 1 /\ k + 1 \in 0 .. n + 1
  BY <1>1
<1>3. CASE k = 0 \/ k = n
  <2>1. Parted(text, mark, k) = 0 \/ Parted(text, mark, k) \in 1 .. Len(text)
    BY <1>1, <1>2, PartedIs
  <2>2. Parted(text, mark, k + 1) \in 1 .. Len(text) + 1
    BY <1>1, <1>2, PartedIs
  <2>3. k = n => Parted(text, mark, k + 1) = Len(text) + 1
    BY <1>1, <1>2, PartedIs
  <2> QED  BY <1>2, <1>3, <2>1, <2>2, <2>3, PartedIs
<1>4. CASE k # 0 /\ k # n
  <2>1. k \in 1 .. n /\ k + 1 \in 1 .. n /\ k < k + 1
    BY <1>1, <1>4
  <2>2. Nth(Marks(text, mark), k) < Nth(Marks(text, mark), k + 1)
    BY <1>1, <2>1, NthIncreases, Zenon
  <2> QED  BY <1>1, <2>1, <2>2 DEF Parted, Cut
<1> QED  BY <1>3, <1>4

Matches(text, part, a) == \A i \in 1 .. Len(part) : part[i] = text[a + i]

\* Where the elements of one sequence followed by another are.
Follows(s, t, u) ==
  /\ Len(u) = Len(s) + Len(t)
  /\ \A i \in 1 .. Len(s) : u[i] = s[i]
  /\ \A i \in 1 .. Len(t) : u[Len(s) + i] = t[i]

\* A concatenation is the one and then the other.
LEMMA FollowsBoth ==
  ASSUME NEW S, NEW s \in Seq(S), NEW t \in Seq(S)
  PROVE  s \o t \in Seq(S) /\ Follows(s, t, s \o t)
<1>1. /\ s \o t \in Seq(S) /\ Len(s \o t) = Len(s) + Len(t)
      /\ \A i \in 1 .. Len(s) + Len(t) :
           (s \o t)[i] = IF i <= Len(s) THEN s[i] ELSE t[i - Len(s)]
  BY ConcatProperties, Zenon
<1> DEFINE u == s \o t
<1>2. Len(s) \in Nat /\ Len(t) \in Nat
  OBVIOUS
<1> HIDE DEF u
<1>3. ASSUME NEW i \in 1 .. Len(s) PROVE u[i] = s[i]
  <2>1. i \in 1 .. Len(s) + Len(t) /\ i <= Len(s)
    BY <1>2
  <2> QED  BY <1>1, <2>1, Zenon DEF u
<1>4. ASSUME NEW i \in 1 .. Len(t) PROVE u[Len(s) + i] = t[i]
  <2> DEFINE j == Len(s) + i
  <2>1. j \in 1 .. Len(s) + Len(t) /\ ~(j <= Len(s)) /\ j - Len(s) = i
    BY <1>2
  <2> HIDE DEF j
  <2>2. u[j] = t[i]
    BY <1>1, <2>1, Zenon DEF u
  <2> QED  BY <2>2, Zenon DEF j
<1> QED  BY <1>1, <1>3, <1>4, Zenon DEF Follows, u

\* A text that has four parts one after the other is their concatenation.
LEMMA FourParts ==
  ASSUME NEW S, NEW text \in Seq(S), NEW m \in Nat, Len(text) = m + 8,
         NEW a \in Seq(S), NEW b \in Seq(S), NEW c \in Seq(S),
         NEW h \in Seq(S), NEW x \in Seq(S), NEW r \in Seq(S), NEW y \in Seq(S),
         Follows(h, x, a), Follows(a, r, b), Follows(b, y, c),
         Len(h) = 1, Len(x) = 3, Len(r) = m, Len(y) = 4,
         Matches(text, h, 0), Matches(text, x, 1), Matches(text, r, 4),
         Matches(text, y, m + 4)
  PROVE  text = c
<1>1. Len(a) = 4 /\ \A i \in 1 .. 4 : a[i] = text[i]
  <2>1. Len(a) = 4
    BY DEF Follows
  <2>2. ASSUME NEW i \in 1 .. 4 PROVE a[i] = text[i]
    <3>1. CASE i = 1
      BY <3>1 DEF Follows, Matches
    <3>2. CASE i # 1
      <4>1. i - 1 \in 1 .. 3 /\ 1 + (i - 1) = i
        BY <3>2
      <4>2. a[1 + (i - 1)] = x[i - 1]
        BY <4>1, Zenon DEF Follows
      <4>3. x[i - 1] = text[1 + (i - 1)]
        BY <4>1, Zenon DEF Matches
      <4> QED  BY <4>1, <4>2, <4>3, Zenon
    <3> QED  BY <3>1, <3>2
  <2> QED  BY <2>1, <2>2
<1>2. Len(b) = m + 4 /\ \A i \in 1 .. m + 4 : b[i] = text[i]
  <2>1. Len(b) = m + 4
    BY <1>1 DEF Follows
  <2>2. ASSUME NEW i \in 1 .. m + 4 PROVE b[i] = text[i]
    <3>1. CASE i <= 4
      <4>1. i \in 1 .. 4
        BY <3>1
      <4>2. b[i] = a[i]
        BY <1>1, <4>1, Zenon DEF Follows
      <4> QED  BY <1>1, <4>1, <4>2
    <3>2. CASE ~(i <= 4)
      <4>1. i - 4 \in 1 .. m /\ 4 + (i - 4) = i
        BY <3>2
      <4>2. b[4 + (i - 4)] = r[i - 4]
        BY <1>1, <4>1, Zenon DEF Follows
      <4>3. r[i - 4] = text[4 + (i - 4)]
        BY <4>1, Zenon DEF Matches
      <4> QED  BY <4>1, <4>2, <4>3, Zenon
    <3> QED  BY <3>1, <3>2
  <2> QED  BY <2>1, <2>2
<1>3. Len(c) = m + 8 /\ \A i \in 1 .. m + 8 : c[i] = text[i]
  <2>1. Len(c) = m + 8
    BY <1>2 DEF Follows
  <2>2. ASSUME NEW i \in 1 .. m + 8 PROVE c[i] = text[i]
    <3>1. CASE i <= m + 4
      BY <1>2, <3>1 DEF Follows
    <3>2. CASE ~(i <= m + 4)
      <4>1. i - (m + 4) \in 1 .. 4 /\ m + 4 + (i - (m + 4)) = i
        BY <3>2
      <4>2. c[m + 4 + (i - (m + 4))] = y[i - (m + 4)]
        BY <1>2, <4>1, Zenon DEF Follows
      <4>3. y[i - (m + 4)] = text[m + 4 + (i - (m + 4))]
        BY <4>1, Zenon DEF Matches
      <4> QED  BY <4>1, <4>2, <4>3, Zenon
    <3> QED  BY <3>1, <3>2
  <2> QED  BY <2>1, <2>2
<1> QED  BY <1>3, SeqEqual

\* A part of a text, between two marks.
Part(text, part, a, b) ==
  Len(part) = b - a - 1 /\ Matches(text, part, a)

\* What is taken from between two marks is a part.
LEMMA PartIs ==
  ASSUME NEW T, NEW text \in Seq(T), NEW a \in 0 .. Len(text), NEW b \in 1 .. Len(text) + 1,
         a < b
  PROVE  /\ SubSeq(text, a + 1, b - 1) \in Seq(T)
         /\ Part(text, SubSeq(text, a + 1, b - 1), a, b)
<1>1. \A i \in a + 1 .. b - 1 : text[i] \in T
  OBVIOUS
<1> DEFINE m == a + 1
           n == b - 1
           part == SubSeq(text, m, n)
<1>2. m \in Int /\ n \in Int /\ a \in Int /\ b \in Int
  OBVIOUS
<1>3. \/ n - m + 1 = b - a - 1 /\ m <= n
      \/ b - a - 1 = 0 /\ ~(m <= n)
  BY <1>2
<1> HIDE DEF m, n
<1>4. \A i \in m .. n : text[i] \in T
  BY <1>1, Zenon DEF m, n
<1>5. /\ part \in Seq(T) /\ Len(part) = IF m <= n THEN n - m + 1 ELSE 0
      /\ \A i \in 1 .. n - m + 1 : part[i] = text[m + i - 1]
  BY <1>2, <1>4, SubSeqProperties, SMTT(30)
<1> HIDE DEF part
<1>6. Len(part) = b - a - 1
  BY <1>2, <1>3, <1>5
<1>7. ASSUME NEW i \in 1 .. Len(part) PROVE part[i] = text[a + i]
  <2>1. i \in 1 .. n - m + 1 /\ m + i - 1 = a + i
    BY <1>2, <1>5 DEF m
  <2> QED  BY <1>5, <2>1, Zenon
<1> QED  BY <1>5, <1>6, <1>7, Zenon DEF Part, Matches, part, m, n

\* A part of one word is where the text has that word.
LEMMA WordPart ==
  ASSUME NEW text, NEW w, NEW part, part = <<w>>, NEW a \in Nat, NEW b \in Nat,
         Part(text, part, a, b)
  PROVE  b = a + 2 /\ text[a + 1] = w
<1>1. Len(part) = 1 /\ part[1] = w
  OBVIOUS
<1> QED  BY <1>1 DEF Part, Matches

\* So is the first part, when it is one word.
LEMMA FirstPart ==
  ASSUME NEW text, NEW part, Len(part) = 1, NEW b \in Nat, Part(text, part, 0, b)
  PROVE  b = 2 /\ part[1] = text[1]
<1>1. Len(part) = b - 0 - 1 /\ \A i \in 1 .. Len(part) : part[i] = text[0 + i]
  BY Zenon DEF Part, Matches
<1>2. b = 2
  <2>1. 1 = b - 0 - 1
    BY <1>1, Zenon
  <2> QED  BY <2>1
<1>3. 1 \in 1 .. 1 /\ 0 + 1 = 1
  OBVIOUS
<1>4. 1 \in 1 .. Len(part)
  BY <1>3, Zenon
<1>5. part[1] = text[0 + 1]
  BY <1>1, <1>4, Zenon
<1>6. text[0 + 1] = text[1]
  BY <1>3, Zenon
<1> QED  BY <1>2, <1>5, <1>6, Zenon

\* Of a text of the form of an endpoint, the identifier and the Region make it up.
InFiveParts(text, id, region, a1, a2, a3, a4) ==
  /\ a1 \in Nat /\ a2 \in Nat /\ a3 \in Nat /\ a4 \in Nat /\ a2 < a3
  /\ text[a1] = "." /\ text[a2] = "." /\ text[a3] = "." /\ text[a4] = "."
  /\ Len(id) = 1 /\ Part(text, id, 0, a1) /\ Part(text, region, a2, a3)
  /\ \E dsql, on, aws :
       /\ dsql = <<"dsql">> /\ on = <<"on">> /\ aws = <<"aws">>
       /\ Part(text, dsql, a1, a2) /\ Part(text, on, a3, a4)
       /\ Part(text, aws, a4, Len(text) + 1)

LEMMA EndpointOfParts ==
  ASSUME NEW T, NEW text \in Seq(T), NEW id \in Seq(T), NEW region \in Seq(T),
         NEW a1, NEW a2, NEW a3, NEW a4, InFiveParts(text, id, region, a1, a2, a3, a4)
  PROVE  text = canonical_endpoint(id, region)
<1>p. /\ a1 \in Nat /\ a2 \in Nat /\ a3 \in Nat /\ a4 \in Nat /\ a2 < a3
      /\ text[a1] = "." /\ text[a2] = "." /\ text[a3] = "." /\ text[a4] = "."
      /\ Len(id) = 1 /\ Part(text, id, 0, a1) /\ Part(text, region, a2, a3)
  BY Zenon DEF InFiveParts
<1>q. PICK dsql, on, aws :
        /\ dsql = <<"dsql">> /\ on = <<"on">> /\ aws = <<"aws">>
        /\ Part(text, dsql, a1, a2) /\ Part(text, on, a3, a4)
        /\ Part(text, aws, a4, Len(text) + 1)
  BY Zenon DEF InFiveParts
<1>1. a1 = 2 /\ id[1] = text[1]
  BY <1>p, FirstPart, Zenon
<1> DEFINE end == Len(text) + 1
<1>2. end \in Nat
  OBVIOUS
<1> HIDE DEF end
<1>3. /\ a2 = a1 + 2 /\ text[a1 + 1] = "dsql"
      /\ a4 = a3 + 2 /\ text[a3 + 1] = "on"
      /\ Len(text) + 1 = a4 + 2 /\ text[a4 + 1] = "aws"
  <2>1. a2 = a1 + 2 /\ text[a1 + 1] = "dsql"
    <3>1. /\ dsql = <<"dsql">> /\ a1 \in Nat /\ a2 \in Nat
          /\ Part(text, dsql, a1, a2)
      BY <1>p, <1>q, Zenon
    <3> QED  BY <3>1, WordPart
  <2>2. a4 = a3 + 2 /\ text[a3 + 1] = "on"
    <3>1. /\ on = <<"on">> /\ a3 \in Nat /\ a4 \in Nat
          /\ Part(text, on, a3, a4)
      BY <1>p, <1>q, Zenon
    <3> QED  BY <3>1, WordPart
  <2>3. Part(text, aws, a4, end)
    BY <1>q, Zenon DEF end
  <2>4. end = a4 + 2 /\ text[a4 + 1] = "aws"
    BY <1>2, <1>p, <1>q, <2>3, WordPart
  <2> QED  BY <2>1, <2>2, <2>4, Zenon DEF end
<1> DEFINE m == a3 - 5
<1>4. /\ m \in Nat /\ a3 = m + 5 /\ a4 = m + 7 /\ Len(text) = m + 8 /\ a2 = 4
      /\ a4 + 1 = m + 8 /\ a3 + 1 = m + 6
  BY <1>1, <1>3, <1>p
<1> HIDE DEF m
<1>5. Len(region) = m /\ Matches(text, region, 4)
  BY <1>4, <1>p DEF Part
<1>6. /\ text[2] = "." /\ text[3] = "dsql" /\ text[4] = "." /\ text[m + 5] = "."
      /\ text[m + 6] = "on" /\ text[m + 7] = "." /\ text[m + 8] = "aws"
  BY <1>1, <1>3, <1>4, <1>p
<1> DEFINE S == T \cup {".", "dsql", "on", "aws"}
           x == <<".", "dsql", ".">>
           y == <<".", "on", ".", "aws">>
<1>7. text \in Seq(S) /\ id \in Seq(S) /\ region \in Seq(S) /\ x \in Seq(S) /\ y \in Seq(S)
  OBVIOUS
<1>8. /\ Len(x) = 3 /\ x[1] = "." /\ x[2] = "dsql" /\ x[3] = "."
      /\ Len(y) = 4 /\ y[1] = "." /\ y[2] = "on" /\ y[3] = "." /\ y[4] = "aws"
  OBVIOUS
<1> HIDE DEF S, x, y
<1>9. Matches(text, id, 0) /\ Matches(text, x, 1) /\ Matches(text, y, m + 4)
  <2>1. \A i \in 1 .. 3 : i = 1 \/ i = 2 \/ i = 3
    OBVIOUS
  <2>2. \A i \in 1 .. 4 : i = 1 \/ i = 2 \/ i = 3 \/ i = 4
    OBVIOUS
  <2> QED  BY <1>1, <1>4, <1>6, <1>8, <1>p, <2>1, <2>2 DEF Matches
<1>10. /\ id \o x \in Seq(S) /\ Follows(id, x, id \o x)
       /\ (id \o x) \o region \in Seq(S) /\ Follows(id \o x, region, (id \o x) \o region)
       /\ ((id \o x) \o region) \o y \in Seq(S)
       /\ Follows((id \o x) \o region, y, ((id \o x) \o region) \o y)
  BY <1>7, FollowsBoth, Zenon
<1>11. text = ((id \o x) \o region) \o y
  BY <1>4, <1>5, <1>7, <1>8, <1>9, <1>10, <1>p, FourParts, ZenonT(60)
<1> QED  BY <1>11, Zenon DEF canonical_endpoint, x, y

\* A text whose labels are those of an endpoint is the canonical endpoint of its
\* identifier and its Region.
LEMMA EndpointIs ==
  ASSUME NEW T, NEW text \in Seq(T), NEW labels, labels = Split(text, "."),
         Len(labels) = 5, Len(labels[1]) = 1,
         labels[2] = <<"dsql">>, labels[4] = <<"on">>, labels[5] = <<"aws">>
  PROVE  text = canonical_endpoint(labels[1], labels[3])
<1> DEFINE place(k) == Parted(text, ".", k)
           n == Cardinality(Marks(text, "."))
<1>1. /\ n \in Nat /\ Len(labels) = n + 1
      /\ \A k \in 1 .. n + 1 : labels[k] = SubSeq(text, place(k - 1) + 1, place(k) - 1)
  BY MarksFinite, SplitIs, Zenon
<1>2. n = 4 /\ n + 1 = 5 /\ Len(text) \in Nat
  <2>1. n \in Nat /\ n + 1 = 5
    BY <1>1, Zenon
  <2> QED  BY <2>1
<1>3. \A k \in 0 .. 4 : place(k) < place(k + 1)
  BY <1>2, PartedIncreases
<1>4. /\ place(0) = 0 /\ place(5) = Len(text) + 1
      /\ \A k \in 1 .. 4 : place(k) \in 1 .. Len(text) /\ text[place(k)] = "."
  BY <1>2, PartedIs
<1> HIDE DEF place, n
<1>5. ASSUME NEW k \in 1 .. 5
      PROVE  labels[k] \in Seq(T) /\ Part(text, labels[k], place(k - 1), place(k))
  <2>1. place(k - 1) \in 0 .. Len(text)
    <3>1. CASE k = 1
      BY <1>2, <1>4, <3>1
    <3>2. CASE k # 1
      <4>1. k - 1 \in 1 .. 4
        BY <3>2
      <4>2. place(k - 1) \in 1 .. Len(text)
        BY <1>4, <4>1
      <4> QED  BY <1>2, <4>2
    <3> QED  BY <3>1, <3>2
  <2>2. place(k) \in 1 .. Len(text) + 1
    <3>1. CASE k = 5
      BY <1>2, <1>4, <3>1
    <3>2. CASE k # 5
      <4>1. k \in 1 .. 4
        BY <3>2
      <4>2. place(k) \in 1 .. Len(text)
        BY <1>4, <4>1
      <4> QED  BY <1>2, <4>2
    <3> QED  BY <3>1, <3>2
  <2>3. place(k - 1) < place(k)
    <3>1. k - 1 \in 0 .. 4 /\ k - 1 + 1 = k
      OBVIOUS
    <3> QED  BY <1>3, <3>1
  <2>4. labels[k] = SubSeq(text, place(k - 1) + 1, place(k) - 1)
    BY <1>1, <1>2
  <2> QED  BY <2>1, <2>2, <2>3, <2>4, PartIs, Zenon
<1>6. /\ Part(text, labels[1], 0, place(1)) /\ Part(text, labels[2], place(1), place(2))
      /\ Part(text, labels[3], place(2), place(3)) /\ Part(text, labels[4], place(3), place(4))
      /\ Part(text, labels[5], place(4), Len(text) + 1)
  <2>1. /\ Part(text, labels[1], place(1 - 1), place(1))
        /\ Part(text, labels[2], place(2 - 1), place(2))
        /\ Part(text, labels[3], place(3 - 1), place(3))
        /\ Part(text, labels[4], place(4 - 1), place(4))
        /\ Part(text, labels[5], place(5 - 1), place(5))
    BY <1>5
  <2> QED  BY <1>4, <2>1
<1>7. /\ place(1) \in Nat /\ place(2) \in Nat /\ place(3) \in Nat /\ place(4) \in Nat
      /\ text[place(1)] = "." /\ text[place(2)] = "."
      /\ text[place(3)] = "." /\ text[place(4)] = "."
  BY <1>2, <1>4
<1>8. place(2) < place(3)
  BY <1>3
<1>9. labels[1] \in Seq(T) /\ labels[3] \in Seq(T)
  BY <1>5
<1> DEFINE id == labels[1]
           dsql == labels[2]
           region == labels[3]
           on == labels[4]
           aws == labels[5]
           a1 == place(1)
           a2 == place(2)
           a3 == place(3)
           a4 == place(4)
<1>10. Len(id) = 1 /\ dsql = <<"dsql">> /\ on = <<"on">> /\ aws = <<"aws">>
  OBVIOUS
<1>11. /\ Part(text, id, 0, a1) /\ Part(text, dsql, a1, a2) /\ Part(text, region, a2, a3)
       /\ Part(text, on, a3, a4) /\ Part(text, aws, a4, Len(text) + 1)
       /\ a1 \in Nat /\ a2 \in Nat /\ a3 \in Nat /\ a4 \in Nat /\ a2 < a3
       /\ text[a1] = "." /\ text[a2] = "." /\ text[a3] = "." /\ text[a4] = "."
       /\ id \in Seq(T) /\ region \in Seq(T)
  BY <1>6, <1>7, <1>8, <1>9, Zenon
<1> HIDE DEF id, dsql, region, on, aws, a1, a2, a3, a4
<1>12. InFiveParts(text, id, region, a1, a2, a3, a4)
  BY <1>10, <1>11, Zenon DEF InFiveParts
<1>13. text = canonical_endpoint(id, region)
  BY <1>11, <1>12, EndpointOfParts, Zenon
<1> QED  BY <1>13, Zenon DEF id, region

-----------------------------------------------------------------------------
(***************************************************************************)
(* The discovery: what was listed of what there is, and which of the       *)
(* requests for details were answered.                                     *)
(***************************************************************************)
\* The first n elements of a sequence.
Beginning(s, n, whole) ==
  Len(s) = n /\ \A i \in 1 .. n : s[i] = whole[i]

\* Another page of m elements makes a longer beginning.
LEMMA BeginningGrows ==
  ASSUME NEW S, NEW whole \in Seq(S), NEW s \in Seq(S), NEW n \in Nat, NEW m \in Nat,
         n + m <= Len(whole), Beginning(s, n, whole)
  PROVE  /\ s \o SubSeq(whole, n + 1, n + m) \in Seq(S)
         /\ Beginning(s \o SubSeq(whole, n + 1, n + m), n + m, whole)
         /\ Len(SubSeq(whole, n + 1, n + m)) = m
<1> DEFINE page == SubSeq(whole, n + 1, n + m)
           b == n + m + 1
           t == s \o page
<1>1. n \in 0 .. Len(whole) /\ b \in 1 .. Len(whole) + 1 /\ n < b /\ b - 1 = n + m
  OBVIOUS
<1>2. SubSeq(whole, n + 1, b - 1) \in Seq(S) /\ Part(whole, SubSeq(whole, n + 1, b - 1), n, b)
  BY <1>1, PartIs
<1>3. page \in Seq(S) /\ Part(whole, page, n, b)
  BY <1>1, <1>2, Zenon
<1> HIDE DEF page
<1>4. Len(page) = m /\ \A i \in 1 .. m : page[i] = whole[n + i]
  BY <1>3 DEF Part, Matches
<1>5. t \in Seq(S) /\ Follows(s, page, t)
  BY <1>3, FollowsBoth, Zenon
<1> HIDE DEF t, b
<1>6. Len(t) = n + m /\ Len(s) = n
  BY <1>4, <1>5 DEF Follows, Beginning
<1>7. ASSUME NEW i \in 1 .. n + m PROVE t[i] = whole[i]
  <2>1. CASE i <= n
    <3>1. i \in 1 .. n
      BY <2>1
    <3> QED  BY <1>5, <1>6, <3>1 DEF Follows, Beginning
  <2>2. CASE ~(i <= n)
    <3>1. i - n \in 1 .. m /\ n + (i - n) = i
      BY <2>2
    <3>2. t[n + (i - n)] = page[i - n]
      BY <1>4, <1>5, <1>6, <3>1, Zenon DEF Follows
    <3> QED  BY <1>4, <3>1, <3>2
  <2> QED  BY <2>1, <2>2
<1> QED  BY <1>4, <1>5, <1>6, <1>7, Zenon DEF Beginning, page, t

\* A beginning of full length is the whole.
LEMMA BeginningWhole ==
  ASSUME NEW S, NEW whole \in Seq(S), NEW s \in Seq(S), Beginning(s, Len(whole), whole)
  PROVE  s = whole
BY SeqEqual DEF Beginning

\* The requests so far are the first ones, each one answered once or in flight; as
\* long as there are rows without one, there is one in flight.
Numbered(rows, waiting, n) ==
  /\ waiting \in SUBSET (1 .. n) /\ IsFiniteSet(waiting)
  /\ Cardinality(waiting) \in Nat /\ Len(rows) + Cardinality(waiting) = n
  /\ \A k \in DOMAIN rows : rows[k].index \in (1 .. n) \ waiting
  /\ \A j, k \in DOMAIN rows : rows[j].index = rows[k].index => j = k
  /\ \A i \in (1 .. n) \ waiting : \E k \in DOMAIN rows : rows[k].index = i

Answers == [index : Nat, detail : Details]

Requested(rows, waiting, total) ==
  /\ rows \in Seq(Answers)
  /\ \E n \in 0 .. total : Numbered(rows, waiting, n) /\ (n = total \/ waiting # {})

\* The inventory there should be.
Whole(region) ==
  /\ region \in Seq(STRING)
  /\ DOMAIN inventory = DOMAIN account /\ inventory = [k \in DOMAIN account |-> inventory[k]]
  /\ \A k \in DOMAIN account : \E detail \in Details :
       inventory[k] = Cluster(account[k], region, detail)
  /\ \A k \in DOMAIN enriched :
       /\ enriched[k].index \in DOMAIN account
       /\ inventory[enriched[k].index] =
            Cluster(account[enriched[k].index], region, enriched[k].detail)

Early == {"begin", "configure", "ask region", "identity"}

Discovering ==
  /\ account \in Seq(Identifiers) /\ IsInjective(account)
  /\ stage \in {"off", "listing", "details", "done", "failed"}
  /\ listed \in Seq(Identifiers)
  /\ phase \in Early => stage = "off" /\ sent = 0 /\ listed = <<>> /\ enriched = <<>>
  /\ stage = "listing" =>
       /\ sent \in Nat /\ sent <= Len(account)
       /\ Beginning(listed, sent, account) /\ enriched = <<>>
  /\ stage = "details" => listed = account /\ Requested(enriched, pending, Len(account))

\* What is sent when the details begin.
LEMMA FirstRequests ==
  ASSUME NEW total \in Nat
  PROVE  Requested(<<>>, InFlight(1, total), total)
<1>1. Concurrency \in Nat \ {0}
  BY DiscoveryAssumption
<1> DEFINE n == IF total < Concurrency THEN total ELSE Concurrency
<1>2. n \in 0 .. total /\ n \in Int /\ n >= 0 /\ 1 \in Int /\ (n = total \/ 1 \in 1 .. n)
      /\ InFlight(1, total) = 1 .. n
  BY <1>1 DEF InFlight
<1> HIDE DEF n
<1>3. IsFiniteSet(1 .. n) /\ Cardinality(1 .. n) = n
  <2>1. IsFiniteSet(1 .. n) /\ Cardinality(1 .. n) = IF 1 > n THEN 0 ELSE n - 1 + 1
    BY <1>2, FS_Interval, Zenon
  <2> QED  BY <1>2, <2>1
<1>4. Numbered(<<>>, 1 .. n, n)
  BY <1>2, <1>3 DEF Numbered
<1> QED  BY <1>2, <1>4 DEF Requested

\* One of the requests is answered, and another may be sent.
LEMMA OneAnswered ==
  ASSUME NEW rows \in Seq(Answers), NEW waiting, NEW n \in Nat, Numbered(rows, waiting, n),
         NEW i \in waiting, NEW row \in Answers, row.index = i
  PROVE  /\ Append(rows, row) \in Seq(Answers)
         /\ Numbered(Append(rows, row), waiting \ {i}, n)
         /\ Numbered(Append(rows, row), (waiting \ {i}) \cup {n + 1}, n + 1)
<1> DEFINE more == Append(rows, row)
           rest == waiting \ {i}
           last == Len(rows) + 1
<1>1. /\ more \in Seq(Answers) /\ Len(more) = last /\ last \in DOMAIN more
      /\ \A k \in DOMAIN rows : k \in DOMAIN more /\ k # last
      /\ \A k \in DOMAIN more : k = last \/ k \in DOMAIN rows
      /\ Len(rows) \in Nat
  OBVIOUS
<1>2. more[last] = row /\ \A k \in DOMAIN rows : more[k] = rows[k]
  OBVIOUS
<1> HIDE DEF more, last
<1>3. /\ waiting \in SUBSET (1 .. n) /\ IsFiniteSet(waiting) /\ Cardinality(waiting) \in Nat
      /\ Len(rows) + Cardinality(waiting) = n
      /\ \A k \in DOMAIN rows : rows[k].index \in (1 .. n) \ waiting
      /\ \A j, k \in DOMAIN rows : rows[j].index = rows[k].index => j = k
      /\ \A h \in (1 .. n) \ waiting : \E k \in DOMAIN rows : rows[k].index = h
  BY Zenon DEF Numbered
<1>4. IsFiniteSet(rest) /\ Cardinality(rest) = Cardinality(waiting) - 1
      /\ rest \in SUBSET (1 .. n)
  BY <1>3, FS_RemoveElement
<1>5. Cardinality(rest) \in Nat
  BY <1>4, FS_CardinalityType
<1>6. Len(more) + Cardinality(rest) = n
  BY <1>1, <1>3, <1>4 DEF last
<1>7. \A k \in DOMAIN more : more[k].index \in (1 .. n) \ rest
  BY <1>1, <1>2, <1>3, Zenon
<1>8. \A j, k \in DOMAIN more : more[j].index = more[k].index => j = k
  BY <1>1, <1>2, <1>3, Zenon
<1>9. ASSUME NEW h \in (1 .. n) \ rest
      PROVE  \E k \in DOMAIN more : more[k].index = h
  <2>1. CASE h = i
    BY <1>1, <1>2, <2>1, Zenon
  <2>2. CASE h # i
    <3>1. h \in (1 .. n) \ waiting
      BY <2>2
    <3>2. PICK k \in DOMAIN rows : rows[k].index = h
      BY <1>3, <3>1, Zenon
    <3> QED  BY <1>1, <1>2, <3>2, Zenon
  <2> QED  BY <2>1, <2>2
<1>10. Numbered(more, rest, n)
  BY <1>4, <1>5, <1>6, <1>7, <1>8, <1>9, Zenon DEF Numbered
<1> DEFINE next == rest \cup {n + 1}
<1>11. /\ n + 1 \notin rest /\ next \in SUBSET (1 .. n + 1)
       /\ \A h \in (1 .. n) \ rest : h \in (1 .. n + 1) \ next
       /\ \A h \in (1 .. n + 1) \ next : h \in (1 .. n) \ rest
  BY <1>4
<1>12. /\ IsFiniteSet(next) /\ Cardinality(next) = Cardinality(rest) + 1
  BY <1>4, <1>11, FS_AddElement
<1> HIDE DEF next, rest
<1>13. Cardinality(next) \in Nat /\ Len(more) + Cardinality(next) = n + 1
  BY <1>1, <1>5, <1>6, <1>12 DEF last
<1>14. Numbered(more, next, n + 1)
  <2>1. \A k \in DOMAIN more : more[k].index \in (1 .. n + 1) \ next
    BY <1>7, <1>11, Zenon
  <2>2. \A h \in (1 .. n + 1) \ next : \E k \in DOMAIN more : more[k].index = h
    BY <1>9, <1>11, Zenon
  <2> QED  BY <1>8, <1>11, <1>12, <1>13, <2>1, <2>2, Zenon DEF Numbered
<1> QED  BY <1>1, <1>10, <1>14, Zenon DEF more, rest, next

\* An answer that makes room for the next request, when there is one.
LEMMA OneMore ==
  ASSUME NEW rows, NEW waiting, NEW total \in Nat, Requested(rows, waiting, total),
         NEW i \in waiting, NEW detail \in Details
  PROVE  LET next == Len(rows) + Cardinality(waiting) + 1 IN
           Requested(Append(rows, [index |-> i, detail |-> detail]),
                     (waiting \ {i}) \cup (IF next <= total THEN {next} ELSE {}), total)
<1>1. /\ rows \in Seq(Answers)
      /\ \E n \in 0 .. total : Numbered(rows, waiting, n) /\ (n = total \/ waiting # {})
  BY Zenon DEF Requested
<1>2. PICK n \in 0 .. total : Numbered(rows, waiting, n)
  BY <1>1
<1> DEFINE row == [index |-> i, detail |-> detail]
           more == Append(rows, row)
<1>3. /\ Len(rows) + Cardinality(waiting) = n /\ waiting \in SUBSET (1 .. n)
      /\ n \in Nat /\ i \in Nat
  BY <1>2 DEF Numbered
<1>4. row \in Answers /\ row.index = i
  BY <1>3 DEF Answers
<1> HIDE DEF row
<1>5. /\ more \in Seq(Answers) /\ Numbered(more, waiting \ {i}, n)
      /\ Numbered(more, (waiting \ {i}) \cup {n + 1}, n + 1)
  BY <1>1, <1>2, <1>3, <1>4, OneAnswered, Zenon
<1> HIDE DEF more
<1>6. CASE n + 1 <= total
  <2>1. n + 1 \in 0 .. total
    BY <1>3, <1>6
  <2>2. (waiting \ {i}) \cup {n + 1} # {}
    OBVIOUS
  <2>3. Requested(more, (waiting \ {i}) \cup {n + 1}, total)
    BY <1>5, <2>1, <2>2, Zenon DEF Requested
  <2> QED  BY <1>3, <1>6, <2>3, Zenon DEF more, row
<1>7. CASE ~(n + 1 <= total)
  <2>1. n = total /\ (waiting \ {i}) \cup {} = waiting \ {i}
    BY <1>3, <1>7
  <2>2. Requested(more, waiting \ {i}, total)
    BY <1>5, <2>1, Zenon DEF Requested
  <2> QED  BY <1>3, <1>7, <2>1, <2>2, Zenon DEF more, row
<1> QED  BY <1>6, <1>7

\* The k-th of the rows put in order is the answer to the k-th request.
LEMMA InOrder ==
  ASSUME NEW rows, NEW total \in Nat, Requested(rows, {}, total)
  PROVE  /\ rows \in Seq(Answers) /\ Len(rows) = total
         /\ \A k \in 1 .. total : /\ byIndex(rows)[k] \in Answers
                                  /\ byIndex(rows)[k].index = k
         /\ \A k \in DOMAIN rows : /\ rows[k].index \in 1 .. total
                                   /\ byIndex(rows)[rows[k].index] = rows[k]
         /\ DOMAIN byIndex(rows) = 1 .. total
<1>1. rows \in Seq(Answers) /\ Numbered(rows, {}, total)
  BY DEF Requested
<1>2. Len(rows) = total /\ DOMAIN rows = 1 .. total
  BY <1>1, FS_EmptySet DEF Numbered
<1>3. /\ \A k \in DOMAIN rows : rows[k].index \in 1 .. total
      /\ \A j, k \in DOMAIN rows : rows[j].index = rows[k].index => j = k
      /\ \A i \in 1 .. total : \E k \in DOMAIN rows : rows[k].index = i
  BY <1>1 DEF Numbered
<1>4. ASSUME NEW i \in 1 .. total
      PROVE  \E k \in DOMAIN rows : rows[k].index = i /\ byIndex(rows)[i] = rows[k]
  <2>1. PICK k \in DOMAIN rows : rows[k].index = i
    BY <1>3
  <2>2. rows[k] \in ToSet(rows) /\ \A row \in ToSet(rows) : row.index = i => row = rows[k]
    BY <1>3, <2>1, ZenonT(30) DEF ToSet
  <2>3. (CHOOSE row \in ToSet(rows) : row.index = i) = rows[k]
    BY <2>1, <2>2
  <2> QED  BY <1>2, <2>1, <2>3 DEF byIndex
<1>5. \A k \in DOMAIN rows : byIndex(rows)[rows[k].index] = rows[k]
  BY <1>3, <1>4, Zenon
<1>6. \A k \in DOMAIN rows : rows[k] \in Answers
  BY <1>1
<1>7. DOMAIN byIndex(rows) = 1 .. total
  BY <1>2 DEF byIndex
<1> QED  BY <1>1, <1>2, <1>3, <1>4, <1>5, <1>6, <1>7, ZenonT(30)

\* When every request is answered the inventory is whole.
LEMMA CollectsWhole ==
  ASSUME Discovering, NEW region \in Seq(STRING), Collect(region)
  PROVE  stage' = "done" /\ Whole(region)' /\ UNCHANGED account
<1>1. /\ stage = "details" /\ pending = {} /\ stage' = "done"
      /\ UNCHANGED <<account, enriched>>
      /\ inventory' = [k \in DOMAIN byIndex(enriched) |->
            Cluster(listed[byIndex(enriched)[k].index], region, byIndex(enriched)[k].detail)]
  BY DEF Collect
<1>2. /\ listed = account /\ Requested(enriched, {}, Len(account)) /\ Len(account) \in Nat
      /\ DOMAIN account = 1 .. Len(account)
  BY <1>1 DEF Discovering
<1> DEFINE total == Len(account)
           rows == byIndex(enriched)
<1>3. /\ \A k \in 1 .. total : rows[k] \in Answers /\ rows[k].index = k
      /\ \A k \in DOMAIN enriched : enriched[k].index \in 1 .. total
                                    /\ rows[enriched[k].index] = enriched[k]
      /\ DOMAIN rows = 1 .. total
  BY <1>2, InOrder, Zenon
<1> HIDE DEF rows, total
<1>4. inventory' = [k \in 1 .. total |-> Cluster(account[k], region, rows[k].detail)]
  BY <1>1, <1>2, <1>3 DEF rows
<1>5. \A k \in 1 .. total : rows[k].detail \in Details
  BY <1>3 DEF Answers
<1>6. /\ DOMAIN inventory' = 1 .. total
      /\ inventory' = [k \in 1 .. total |-> inventory'[k]]
      /\ \A k \in 1 .. total : inventory'[k] = Cluster(account[k], region, rows[k].detail)
  BY <1>4
<1>7. \A k \in DOMAIN enriched :
        inventory'[enriched[k].index] =
          Cluster(account[enriched[k].index], region, enriched[k].detail)
  BY <1>3, <1>6, Zenon
<1>8. DOMAIN account = 1 .. total
  BY <1>2 DEF total
<1> QED  BY <1>1, <1>3, <1>5, <1>6, <1>7, <1>8, Zenon DEF Whole

\* A page of the listing, or the first requests after the last page.
LEMMA PageListed ==
  ASSUME Discovering, ServiceLists
  PROVE  /\ account' = account /\ listed' \in Seq(Identifiers)
         /\ stage' \in {"listing", "details", "failed"}
         /\ stage' = "listing" =>
              /\ sent' \in Nat /\ sent' <= Len(account)
              /\ Beginning(listed', sent', account) /\ enriched' = <<>>
         /\ stage' = "details" =>
              listed' = account /\ Requested(enriched', pending', Len(account))
<1>1. PICK n \in 0 .. PageSize,
           token \in {<<>>} \cup {<<t>> : t \in Tokens \cup FreshTokens} :
        /\ sent + n <= Len(account)
        /\ token = <<>> => sent + n = Len(account)
        /\ PageArrives(SubSeq(account, sent + 1, sent + n), token)
  BY DEF ServiceLists
<1> DEFINE page == SubSeq(account, sent + 1, sent + n)
<1>2. /\ stage = "listing" /\ UNCHANGED <<account, enriched>>
      /\ sent' = sent + Len(page)
      /\ \/ stage' = "failed" /\ (listed' = listed \/ listed' = listed \o page)
         \/ /\ listed' = listed \o page /\ token = <<>> /\ stage' = "details"
            /\ pending' = InFlight(1, Len(listed'))
         \/ listed' = listed \o page /\ UNCHANGED stage
  BY <1>1 DEF PageArrives
<1>3. /\ sent \in Nat /\ n \in Nat /\ account \in Seq(Identifiers)
      /\ listed \in Seq(Identifiers) /\ Beginning(listed, sent, account) /\ enriched = <<>>
  BY <1>2, DiscoveryAssumption DEF Discovering
<1>4. /\ listed \o page \in Seq(Identifiers) /\ Beginning(listed \o page, sent + n, account)
      /\ Len(page) = n
  BY <1>1, <1>3, BeginningGrows
<1> HIDE DEF page
<1>5. CASE stage' = "failed"
  BY <1>2, <1>3, <1>4, <1>5
<1>6. CASE listed' = listed \o page /\ UNCHANGED stage
  <2>1. sent + n \in Nat
    BY <1>3
  <2> QED  BY <1>1, <1>2, <1>3, <1>4, <1>6, <2>1
<1>7. CASE /\ listed' = listed \o page /\ token = <<>> /\ stage' = "details"
           /\ pending' = InFlight(1, Len(listed'))
  <2>1. listed' = account
    BY <1>1, <1>3, <1>4, <1>7, BeginningWhole
  <2>2. Len(account) \in Nat
    BY <1>3
  <2>3. Requested(enriched', pending', Len(account))
    BY <1>2, <1>3, <1>7, <2>1, <2>2, FirstRequests, Zenon
  <2> QED  BY <1>2, <1>3, <1>7, <2>1, <2>3
<1> QED  BY <1>2, <1>5, <1>6, <1>7

\* Details of one cluster, in whatever order they come.
LEMMA DetailComes ==
  ASSUME Discovering, NEW i \in pending, NEW detail \in Details, DetailAnswered(i, detail)
  PROVE  /\ UNCHANGED <<account, listed, stage>> /\ stage = "details" /\ listed = account
         /\ Requested(enriched', pending', Len(account))
<1>1. /\ stage = "details" /\ UNCHANGED <<account, listed, stage>>
      /\ enriched' = Append(enriched, [index |-> i, detail |-> detail])
      /\ pending' = (pending \ {i}) \cup
           (IF Len(enriched) + Cardinality(pending) + 1 <= Len(listed)
            THEN {Len(enriched) + Cardinality(pending) + 1} ELSE {})
  BY DEF DetailAnswered
<1>2. /\ listed = account /\ Requested(enriched, pending, Len(account))
      /\ Len(account) \in Nat
  BY <1>1 DEF Discovering
<1>3. Requested(Append(enriched, [index |-> i, detail |-> detail]),
        (pending \ {i}) \cup
          (IF Len(enriched) + Cardinality(pending) + 1 <= Len(account)
           THEN {Len(enriched) + Cardinality(pending) + 1} ELSE {}), Len(account))
  BY <1>2, OneMore, Zenon
<1> QED  BY <1>1, <1>2, <1>3, Zenon

\* What the discovery does, and the steps without a part in it.
LEMMA DiscoveryNext ==
  ASSUME Discovering, [Next]_vars
  PROVE  Discovering'
<1>1. CASE ResolveIdentity
  <2>1. phase = "identity" /\ (phase' = "target" \/ phase' = "discover")
        /\ (UNCHANGED discovery \/ discover_clusters)
    BY <1>1 DEF ResolveIdentity, Goes
  <2>2. stage = "off" /\ sent = 0 /\ listed = <<>> /\ enriched = <<>>
    BY <2>1 DEF Discovering, Early
  <2>3. Beginning(<<>>, 0, account) /\ 0 <= Len(account)
    BY DEF Beginning, Discovering
  <2>4. /\ UNCHANGED <<account, sent, listed, enriched>>
        /\ stage' \in {"off", "listing"}
    BY <2>1, <2>2 DEF discovery, discover_clusters
  <2>5. phase' \notin Early
    BY <2>1 DEF Early
  <2> QED  BY <2>2, <2>3, <2>4, <2>5 DEF Discovering
<1>2. CASE Discover
  <2>1. phase = "discover" /\ phase' = phase /\ Discovers(config.sdk[1])
    BY <1>2 DEF Discover
  <2>2. phase' \notin Early
    BY <2>1 DEF Early
  <2>3. CASE ServiceLists
    BY <2>2, <2>3, PageListed, Zenon DEF Discovering
  <2>4. CASE ListFails
    BY <2>2, <2>4 DEF ListFails, Discovering
  <2>5. CASE Collect(config.sdk[1])
    BY <2>2, <2>5 DEF Collect, Discovering
  <2>6. ASSUME NEW i \in pending, NEW detail \in Details, DetailAnswered(i, detail)
        PROVE  Discovering'
    <3>1. /\ UNCHANGED <<account, listed, stage>> /\ stage = "details" /\ listed = account
          /\ Requested(enriched', pending', Len(account))
      BY <2>6, DetailComes
    <3> QED  BY <2>2, <3>1 DEF Discovering
  <2> QED  BY <2>1, <2>3, <2>4, <2>5, <2>6 DEF Discovers
<1>3. CASE ListInventory \/ OfferInventory
  <2>1. /\ phase' \in {"ended", "manual", "select"} /\ stage \in {"failed", "done"}
        /\ Returned
    BY <1>3 DEF ListInventory, OfferInventory, Fails, Exits, Finishes, Goes
  <2>2. phase' \notin Early
    BY <2>1 DEF Early
  <2> QED  BY <2>1, <2>2 DEF Returned, Discovering
<1>4. CASE EnterShell
  <2>1. phase' = "session" /\ account' = <<>> /\ stage' = "off" /\ UNCHANGED listed
    BY <1>4 DEF EnterShell, Goes
  <2>2. phase' \notin Early /\ IsInjective(<<>>)
    BY <2>1 DEF Early, IsInjective
  <2> QED  BY <2>1, <2>2 DEF Discovering
<1>5. CASE /\ UNCHANGED discovery
           /\ phase' \in Early => phase \in Early
  BY <1>5 DEF discovery, Discovering
<1>6. CASE UNCHANGED vars
  BY <1>5, <1>6 DEF vars
<1>7. CASE Begin \/ Configure \/ Asking
  <2>1. phase \in Early \/ phase' \notin Early
    BY <1>7 DEF Early, Begin, Configure, Asking, Ask, Goes, Fails, Exits
  <2>2. UNCHANGED discovery
    BY <1>7 DEF Begin, Configure, Asking, Ask
  <2> QED  BY <1>5, <2>1, <2>2
<1>8. CASE SelectTarget \/ UseSelector \/ ChooseRole \/ Connect \/ ReadRoots \/ Dial \/ RunInput
  <2>1. phase' \notin Early
    BY <1>8 DEF Early, SelectTarget, SelectDiscovered, UseSelector, ChooseRole, Connect,
      ReadRoots, Dial, RunInput, Goes, Fails, Exits, Finishes
  <2>2. UNCHANGED discovery
    BY <1>8 DEF SelectTarget, UseSelector, ChooseRole, Connect, ReadRoots, Dial, RunInput
  <2> QED  BY <1>5, <2>1, <2>2
<1>9. CASE EditLine \/ LeaveShell \/ ServerSays \/ OutputFails
  <2>1. phase' \notin Early
    BY <1>9 DEF Early, EditLine, LeaveShell, ServerSays, OutputFails, inSession, Exits,
      Finishes
  <2>2. UNCHANGED discovery
    BY <1>9 DEF EditLine, LeaveShell, ServerSays, OutputFails, Shell
  <2> QED  BY <1>5, <2>1, <2>2
<1> QED
  BY <1>1, <1>2, <1>3, <1>4, <1>6, <1>7, <1>8, <1>9 DEF Next, Progress

-----------------------------------------------------------------------------
(***************************************************************************)
(* What a selector names, and which Region the clients are made for.       *)
(***************************************************************************)
Words == Seq(STRING)

\* The parts of words are words.
LEMMA SplitWords ==
  ASSUME NEW text \in Words, NEW mark, NEW k \in 1 .. Len(Split(text, mark))
  PROVE  Split(text, mark)[k] \in Words
<1> DEFINE place(i) == Parted(text, mark, i)
           n == Cardinality(Marks(text, mark))
<1>1. /\ n \in Nat /\ Len(Split(text, mark)) = n + 1
      /\ \A i \in 1 .. n + 1 :
           Split(text, mark)[i] = SubSeq(text, place(i - 1) + 1, place(i) - 1)
  BY MarksFinite, SplitIs, Zenon DEF Words
<1>2. k \in 1 .. n + 1 /\ k - 1 \in 0 .. n /\ k \in 0 .. n + 1 /\ k - 1 \in 0 .. n + 1
      /\ k - 1 + 1 = k
  BY <1>1
<1>3. place(k - 1) < place(k)
  BY <1>2, PartedIncreases DEF Words
<1>4. place(k - 1) \in 0 .. Len(text) + 1 /\ place(k) \in 0 .. Len(text) + 1
  BY <1>2, PartedIs DEF Words
<1> HIDE DEF place, n
<1>5. place(k - 1) \in 0 .. Len(text) /\ place(k) \in 1 .. Len(text) + 1
  BY <1>3, <1>4 DEF Words
<1> QED  BY <1>1, <1>2, <1>3, <1>5, PartIs, Zenon DEF Words

\* The Region of a selector, if it has one, and its endpoint is the one of its
\* identifier and Region.
Selects(s) ==
  /\ s.region = <<>> \/ \E region \in Words : s.region = <<region>>
  /\ s.endpoint # <<>> =>
       s.region # <<>> /\ s.endpoint = <<canonical_endpoint(s.identifier, s.region[1])>>

\* What a selector names is consistent in itself.
LEMMA SelectorParsed ==
  ASSUME NEW text \in Words, parse_cluster_selector(text) # <<>>
  PROVE  Selects(parse_cluster_selector(text)[1])
<1>1. parse_cluster_selector(text) \in {parse_arn(text), parse_endpoint(text),
        <<ClusterSelectorOf(text, <<>>, <<>>, <<>>, <<>>, <<>>)>>, <<>>}
  BY DEF parse_cluster_selector, Malformed
<1>2. ASSUME parse_arn(text) # <<>> PROVE Selects(parse_arn(text)[1])
  <2> DEFINE parts == Split(text, ":")
  <2>1. /\ Len(parts) = 6
        /\ parse_arn(text) = <<ClusterSelectorOf(Tail(parts[6]), <<parts[4]>>, <<parts[5]>>,
                                                 <<parts[2]>>, <<text>>, <<>>)>>
    BY <1>2, Zenon DEF parse_arn, Malformed
  <2>2. parts[4] \in Words
    <3>1. 4 \in 1 .. Len(parts)
      BY <2>1
    <3> QED  BY <3>1, SplitWords, Zenon
  <2> HIDE DEF parts
  <2> QED  BY <2>1, <2>2 DEF Selects, ClusterSelectorOf
<1>3. ASSUME parse_endpoint(text) # <<>> PROVE Selects(parse_endpoint(text)[1])
  <2> DEFINE labels == Split(text, ".")
  <2>1. /\ Len(labels) = 5 /\ labels[2] = <<"dsql">> /\ labels[4] = <<"on">>
        /\ labels[5] = <<"aws">> /\ is_identifier(labels[1])
        /\ parse_endpoint(text) =
             <<ClusterSelectorOf(labels[1], <<labels[3]>>, <<>>, <<>>, <<>>, <<text>>)>>
    BY <1>3, Zenon DEF parse_endpoint, Malformed
  <2>2. labels[3] \in Words
    <3>1. 3 \in 1 .. Len(labels)
      BY <2>1
    <3> QED  BY <3>1, SplitWords, Zenon
  <2>3. Len(labels[1]) = 1
    BY <2>1 DEF is_identifier
  <2>4. text = canonical_endpoint(labels[1], labels[3])
    BY <2>1, <2>3, EndpointIs, Zenon DEF Words
  <2> HIDE DEF labels
  <2> QED  BY <2>1, <2>2, <2>4 DEF Selects, ClusterSelectorOf
<1>4. Selects(ClusterSelectorOf(text, <<>>, <<>>, <<>>, <<>>, <<>>))
  BY DEF Selects, ClusterSelectorOf
<1> DEFINE r == parse_cluster_selector(text)
<1>5. CASE r = <<ClusterSelectorOf(text, <<>>, <<>>, <<>>, <<>>, <<>>)>>
  <2>1. r[1] = ClusterSelectorOf(text, <<>>, <<>>, <<>>, <<>>, <<>>)
    BY <1>5
  <2> QED  BY <1>4, <2>1, Zenon
<1> QED  BY <1>1, <1>2, <1>3, <1>5, Zenon

\* A Region that was asked for, or taken from the defaults, is the one the clients
\* work in.
LEMMA RegionAsked ==
  ASSUME NEW answer, answer = <<>> \/ \E region \in Words : answer = <<region>>,
         NEW default, NEW c, c = prompted_region(answer, default), c.verdict # "usage"
  PROVE  c.sdk = <<c.region>> /\ c.region \in Words
BY DEF prompted_region, load_sdk_config, Resolved, Unresolved

\* The first cluster of the inventory with an identifier.
LEMMA FoundIs ==
  ASSUME NEW n \in Nat, DOMAIN inventory = 1 .. n, Len(inventory) = n, Found # 0
  PROVE  Found \in DOMAIN inventory /\ inventory[Found].id = chosen
<1> DEFINE I == {i \in 1 .. Len(inventory) : inventory[i].id = chosen}
<1>1. Found = IF I # {} THEN Min(I) ELSE 0
  BY DEF Found, SelectInSeq
<1>2. I # {} /\ I \subseteq Nat
  BY <1>1
<1>3. \E i \in I : \A j \in I : i <= j
  BY <1>2, Least, Zenon
<1>4. Min(I) \in I
  BY <1>3 DEF Min
<1> QED  BY <1>1, <1>2, <1>4

-----------------------------------------------------------------------------
(***************************************************************************)
(* From the command line to the target.                                    *)
(***************************************************************************)
\* From the time it is known, the Region is the one the clients were made for.
Located ==
  phase \notin {"begin", "configure", "ask region", "session", "ended"} =>
    /\ config.sdk = <<config.region>> /\ config.region \in Words
    /\ request.region # <<>> => config.region = request.region[1]

\* The selector is the one of the command line, or was typed; a user who gave none
\* may choose.
Named ==
  /\ phase = "begin" => selector = <<>>
  /\ selector = <<>> \/ \E text \in Selectors : selector = parse_cluster_selector(text)
  /\ phase \notin {"begin", "session", "ended"} =>
       /\ request.cluster # <<>> =>
            selector = parse_cluster_selector(request.cluster[1]) /\ selector # <<>>
       /\ Script => request.cluster # <<>>
  /\ phase = "target" => selector # <<>>
  /\ phase = "ask region" => request.region = <<>>
  /\ phase \in {"discover", "select", "chosen", "confirm", "confirmed", "manual"} =>
       request.cluster = <<>>

\* The role is the one given, or asked for if none was.
Roled ==
  /\ request.username # <<>> /\ role # NoRole => role.name = request.username[1]
  /\ phase \in {"role", "role name"} => request.username = <<>>

\* Until there is a token only the services of the inventory were called.
Uncalled ==
  phase \notin {"read roots", "dial", "connected", "session", "ended"} =>
    called \subseteq {"sts", "dsql"}

\* A cluster is picked from a whole inventory, and confirmed if it is not known.
Picked ==
  /\ phase \in {"select", "chosen", "confirm", "confirmed"} => stage = "done"
  /\ stage = "done" => Whole(config.region)
  /\ phase \in {"confirm", "confirmed"} =>
       Found # 0 /\ inventory[Found].status \in {<<>>, <<"UNKNOWN">>}
  /\ phase = "confirmed" => "confirm" \in asked

\* A selector that was accepted is consistent in itself.
LEMMA NamedRegion ==
  ASSUME Named
  PROVE  selector # <<>> => Selects(selector[1])
<1>1. CASE selector # <<>>
  <2>1. PICK text \in Selectors : selector = parse_cluster_selector(text)
    BY <1>1 DEF Named
  <2>2. text \in Words
    BY StartupAssumption DEF Words
  <2> QED  BY <1>1, <2>1, <2>2, SelectorParsed, Zenon
<1> QED  BY <1>1

\* A Region given is a text.
LEMMA OptionsAre ==
  ASSUME NEW option \in Options(Regions)
  PROVE  option = <<>> \/ \E region \in Words : option = <<region>>
BY StartupAssumption DEF Options, Words

\* An optional value is missing, or one of the values.
LEMMA OptionOf ==
  ASSUME NEW values, NEW option \in Options(values)
  PROVE  option = <<>> \/ option[1] \in values
BY DEF Options

\* An input that cannot be read is told from one that can.
LEMMA Readable == Len(<<"", "unreadable">>) = 2
OBVIOUS

\* The Region is resolved, to the one of the flag if there is one; or it is asked for,
\* when there is none; or the process ends.
LEMMA Configured ==
  ASSUME request \in Requests, Named, Configure
  PROVE  /\ phase = "configure"
         /\ \/ phase' = "ended"
            \/ phase' = "ask region" /\ request.region = <<>>
            \/ /\ phase' = IF noninteractive /\ request.command = "preview"
                           THEN "target" ELSE "identity"
               /\ config'.sdk = <<config'.region>> /\ config'.region \in Words
               /\ request.region # <<>> => config'.region = request.region[1]
         /\ config'.verdict \in {"usage", "ask", "resolved"}
         /\ UNCHANGED <<request, selector, target, role, chosen, shown, history, discovery>>
<1> DEFINE named == IF selector = <<>> THEN <<>> ELSE selector[1].region
<1>1. PICK default \in Options(Regions) :
        config' = load_aws_configuration(request.region, named, default, interactive)
  BY DEF Configure
<1>2. /\ default = <<>> \/ \E region \in Words : default = <<region>>
      /\ request.region = <<>> \/ \E region \in Words : request.region = <<region>>
  <2>1. request.region \in Options(Regions)
    BY DEF Requests
  <2> QED  BY <2>1, OptionsAre, Zenon
<1>3. named = <<>> \/ \E region \in Words : named = <<region>>
  BY NamedRegion DEF Selects
<1> HIDE DEF named
<1>4. /\ config'.verdict \in {"usage", "ask", "resolved"}
      /\ config'.verdict = "resolved" =>
           /\ config'.sdk = <<config'.region>> /\ config'.region \in Words
           /\ request.region # <<>> => config'.region = request.region[1]
      /\ config'.verdict = "ask" => request.region = <<>>
  BY <1>1, <1>2, <1>3 DEF load_aws_configuration, resolve_region, load_sdk_config,
    Resolved, Unresolved
<1>5. /\ phase = "configure"
      /\ config'.verdict = "usage" => Fails("usage")
      /\ config'.verdict = "ask" => Goes("ask region")
      /\ config'.verdict = "resolved" =>
           Goes(IF noninteractive /\ request.command = "preview" THEN "target" ELSE "identity")
      /\ Same /\ UNCHANGED <<selector, target, role, chosen, shown, history, discovery>>
  BY DEF Configure
<1>6. UNCHANGED request
  BY <1>5, Zenon DEF Same
<1> QED  BY <1>4, <1>5, <1>6 DEF Goes, Fails, Exits

\* The clients and the Region stay together.
LEMMA LocatedNext ==
  ASSUME request \in Requests, Named, Located, [Next]_vars
  PROVE  Located'
<1>1. CASE Configure
  BY <1>1, Configured DEF Located
<1>2. CASE Asking
  <2>1. UNCHANGED request
    BY <1>2 DEF Asking, Ask, Same
  <2>2. CASE Ask("ask region", Regions)
    <3>1. PICK answer \in Options(Regions) \cup {<<"", "unreadable">>} :
            IF Len(answer) = 2 THEN Fails("runtime")
            ELSE \E default \in Options(Regions) :
                   /\ config' = prompted_region(answer, default)
                   /\ IF config'.verdict = "usage" THEN Fails("usage") ELSE Goes("identity")
      BY <2>2 DEF Ask
    <3>2. CASE Len(answer) = 2
      BY <3>1, <3>2 DEF Fails, Exits, Located
    <3>3. CASE Len(answer) # 2
      <4>1. PICK default \in Options(Regions) :
              /\ config' = prompted_region(answer, default)
              /\ IF config'.verdict = "usage" THEN Fails("usage") ELSE Goes("identity")
        BY <3>1, <3>3
      <4>2. answer \in Options(Regions)
        BY <3>3, Readable
      <4>3. answer = <<>> \/ \E region \in Words : answer = <<region>>
        BY <4>2, OptionsAre, Zenon
      <4>4. CASE config'.verdict = "usage"
        BY <4>1, <4>4 DEF Fails, Exits, Located
      <4>5. CASE config'.verdict # "usage"
        <5>1. config'.sdk = <<config'.region>> /\ config'.region \in Words
          BY <4>1, <4>3, <4>5, RegionAsked
        <5>2. request'.region = <<>>
          BY <2>1, <2>2 DEF Named, Ask
        <5> QED  BY <5>1, <5>2 DEF Located
      <4> QED  BY <4>4, <4>5
    <3> QED  BY <3>2, <3>3
  <2>3. CASE ~Ask("ask region", Regions)
    <3>1. /\ UNCHANGED config
          /\ phase \notin {"begin", "configure", "ask region", "session", "ended"}
      BY <1>2, <2>3 DEF Asking, Ask, decided
    <3> QED  BY <2>1, <3>1 DEF Located
  <2> QED  BY <2>2, <2>3
<1>3. CASE EnterShell
  BY <1>3 DEF EnterShell, Goes, Located
<1>4. CASE Begin
  <2>1. phase' = "configure" \/ phase' = "ended"
    BY <1>4 DEF Begin, Goes, Fails, Exits, Requests
  <2> QED  BY <2>1 DEF Located
<1>5. CASE UNCHANGED vars
  BY <1>5 DEF vars, decided, Located
<1>6. CASE Progress /\ ~EnterShell /\ ~Begin /\ ~Configure
  <2>1. UNCHANGED <<request, config>>
    BY <1>6 DEF Progress, ResolveIdentity, Discover, ListInventory,
      OfferInventory, SelectTarget, UseSelector, ChooseRole, Connect, ReadRoots, Dial,
      RunInput, Same, decided
  <2>2. phase \notin {"begin", "configure", "ask region", "session", "ended"}
    BY <1>6 DEF Progress, ResolveIdentity, Discover, ListInventory,
      OfferInventory, SelectTarget, SelectDiscovered, UseSelector, ChooseRole, Connect,
      ReadRoots, Dial, RunInput
  <2> QED  BY <2>1, <2>2 DEF Located
<1>7. CASE EditLine \/ LeaveShell \/ ServerSays \/ OutputFails
  <2>1. phase' \in {"session", "ended"}
    BY <1>7 DEF EditLine, LeaveShell, ServerSays, OutputFails, inSession, Exits, Finishes
  <2> QED  BY <2>1 DEF Located
<1> QED  BY <1>1, <1>2, <1>3, <1>4, <1>5, <1>6, <1>7 DEF Next

\* No step puts another selector in the place of the one of the command line.
LEMMA NamedNext ==
  ASSUME request \in Requests, Named, [Next]_vars
  PROVE  Named'
<1>1. CASE Begin
  <2>1. /\ phase = "begin" /\ UNCHANGED request /\ selector = <<>>
        /\ request.command \in {"clusters", "preview"}
        /\ phase' = "configure" \/ phase' = "ended"
    BY <1>1 DEF Begin, Same, Goes, Fails, Exits, Named, Requests
  <2>2. Script' <=> Script
    BY <2>1 DEF Script, noninteractive, uses_stdin_script
  <2>3. CASE request.command = "clusters"
    <3>1. /\ UNCHANGED selector
          /\ phase' = "configure" => request.cluster = <<>>
      BY <1>1, <2>3 DEF Begin, Fails, Exits
    <3> QED  BY <2>1, <2>2, <2>3, <3>1 DEF Named, Script
  <2>4. CASE request.command = "preview"
    <3>1. /\ selector' = IF request.cluster = <<>> THEN <<>>
                         ELSE parse_cluster_selector(request.cluster[1])
          /\ phase' = "configure" =>
               /\ request.cluster # <<>> => selector' # <<>>
               /\ noninteractive => request.cluster # <<>>
      BY <1>1, <2>4 DEF Begin, Fails, Exits, Malformed, scriptRefused
    <3>2. request.cluster # <<>> => request.cluster[1] \in Selectors
      BY DEF Requests, Options
    <3> QED  BY <2>1, <2>2, <3>1, <3>2 DEF Named, Script
  <2> QED  BY <2>1, <2>3, <2>4
<1>2. CASE Configure
  <2>1. /\ phase = "configure" /\ UNCHANGED <<request, selector>>
        /\ \/ phase' = "ended"
           \/ phase' = "ask region" /\ request.region = <<>>
           \/ phase' = IF noninteractive /\ request.command = "preview"
                       THEN "target" ELSE "identity"
    BY <1>2, Configured
  <2>2. Script' <=> Script
    BY <2>1 DEF Script, noninteractive, uses_stdin_script
  <2> QED  BY <2>1, <2>2 DEF Named, Script
<1>3. CASE Asking
  <2>1. UNCHANGED request
    BY <1>3 DEF Asking, Ask, Same
  <2>2. Script' <=> Script
    BY <2>1 DEF Script, noninteractive, uses_stdin_script
  <2>3. CASE Ask("manual", Selectors)
    <3>1. PICK answer \in Options(Selectors) \cup {<<"", "unreadable">>} :
            IF Len(answer) = 2 THEN Fails("runtime") /\ UNCHANGED selector
            ELSE /\ selector' = IF answer = <<>> THEN <<>>
                                ELSE parse_cluster_selector(answer[1])
                 /\ IF selector' = Malformed THEN Fails("usage") ELSE Goes("target")
      BY <2>3 DEF Ask, decided
    <3>2. phase = "manual" /\ request.cluster = <<>>
      BY <2>3 DEF Ask, Named
    <3>3. CASE Len(answer) = 2
      BY <2>1, <3>1, <3>3 DEF Fails, Exits, Named
    <3>4. CASE Len(answer) # 2
      <4>1. answer = <<>> \/ answer[1] \in Selectors
        <5>1. answer \in Options(Selectors)
          BY <3>4, Readable
        <5> QED  BY <5>1, OptionOf, Zenon
      <4>2. selector' = <<>> \/ \E text \in Selectors : selector' = parse_cluster_selector(text)
        BY <3>1, <3>4, <4>1
      <4>3. phase' = "ended" \/ (phase' = "target" /\ selector' # <<>>)
        <5>1. IF selector' = <<>> THEN Fails("usage") ELSE Goes("target")
          BY <3>1, <3>4 DEF Malformed
        <5> QED  BY <5>1, Ends, Zenon DEF Goes
      <4>4. ~Script
        BY <3>2 DEF Named
      <4> QED  BY <2>1, <2>2, <3>2, <4>2, <4>3, <4>4 DEF Named
    <3> QED  BY <3>3, <3>4
  <2>4. CASE ~Ask("manual", Selectors)
    <3>1. UNCHANGED selector /\ phase \notin {"begin", "session", "ended"}
      BY <1>3, <2>4 DEF Asking, Ask, decided
    <3>2. \/ phase' \in {"ended", "identity", "connect", "role name"}
          \/ phase \in {"select", "confirm"} /\ phase' \in {"chosen", "confirmed", "select"}
      BY <1>3, <2>4 DEF Asking, Ask, Goes, Fails, Exits
    <3> QED  BY <2>1, <2>2, <3>1, <3>2 DEF Named
  <2> QED  BY <2>3, <2>4
<1>4. CASE ResolveIdentity
  <2>1. /\ phase = "identity" /\ UNCHANGED <<request, selector>>
        /\ phase' = IF selector # <<>> THEN "target" ELSE "discover"
    BY <1>4 DEF ResolveIdentity, Same, decided, Goes
  <2>2. Script' <=> Script
    BY <2>1 DEF Script, noninteractive, uses_stdin_script
  <2> QED  BY <2>1, <2>2 DEF Named
<1>5. CASE EnterShell
  <2>1. phase' = "session" /\ selector' = <<>>
    BY <1>5 DEF EnterShell, Goes
  <2> QED  BY <2>1 DEF Named
<1>6. CASE UNCHANGED <<request, phase, selector>>
  BY <1>6 DEF Named, Script, noninteractive, uses_stdin_script
<1>7. CASE UNCHANGED vars \/ Discover
  BY <1>6, <1>7 DEF vars, decided, Discover
<1>8. CASE ListInventory \/ OfferInventory \/ SelectTarget \/ UseSelector \/ ChooseRole
           \/ Connect \/ ReadRoots \/ Dial \/ RunInput
  <2>1. UNCHANGED <<request, selector>>
    BY <1>8 DEF ListInventory, OfferInventory, SelectTarget, UseSelector, ChooseRole,
      Connect, ReadRoots, Dial, RunInput, Same, decided
  <2>2. Script' <=> Script
    BY <2>1 DEF Script, noninteractive, uses_stdin_script
  <2>3. /\ phase \notin {"begin", "session", "ended"}
        /\ \/ phase' \notin {"begin", "ask region", "discover", "select", "chosen", "confirm",
                            "confirmed", "manual", "target"}
           \/ phase \in {"discover", "chosen"} /\ phase' \notin {"begin", "ask region", "target"}
    BY <1>8 DEF ListInventory, OfferInventory, SelectTarget, SelectDiscovered, UseSelector,
      ChooseRole, Connect, ReadRoots, Dial, RunInput, Goes, Fails, Exits, Finishes
  <2> QED  BY <2>1, <2>2, <2>3 DEF Named
<1>9. CASE EditLine \/ LeaveShell \/ ServerSays \/ OutputFails
  <2>1. phase' \in {"session", "ended"} /\ UNCHANGED <<request, selector>>
    BY <1>9 DEF EditLine, LeaveShell, ServerSays, OutputFails, inSession, Exits, Finishes,
      Shell, Same, decided
  <2> QED  BY <2>1 DEF Named
<1> QED
  BY <1>1, <1>2, <1>3, <1>4, <1>5, <1>7, <1>8, <1>9 DEF Next, Progress

\* A role has the name it is made from.
LEMMA RoleNamed == \A name : database_role_from_username(name).name = name
BY DEF database_role_from_username, Admin, Custom

\* The role asked for is never another one than the role given.
LEMMA RoledNext ==
  ASSUME request \in Requests, Named, Roled, [Next]_vars
  PROVE  Roled'
<1>1. CASE Begin
  <2>1. UNCHANGED request /\ phase' \notin {"role", "role name"}
    BY <1>1 DEF Begin, Same, Goes, Fails, Exits, Requests
  <2>2. \/ UNCHANGED role \/ role' = NoRole
        \/ /\ request.username # <<>>
           /\ role' = database_role_from_username(request.username[1])
    <3>1. request.command = "clusters" \/ request.command = "preview"
      BY DEF Requests
    <3>2. CASE request.command = "clusters"
      BY <1>1, <3>2 DEF Begin
    <3>3. CASE request.command = "preview"
      <4>1. role' = IF noninteractive /\ request.username # <<>>
                    THEN database_role_from_username(request.username[1]) ELSE NoRole
        BY <1>1, <3>3 DEF Begin
      <4> QED  BY <4>1, Zenon
    <3> QED  BY <3>1, <3>2, <3>3
  <2> QED  BY <2>1, <2>2, RoleNamed DEF Roled
<1>2. CASE ChooseRole
  <2>1. /\ UNCHANGED request
        /\ phase' \in {"role", "role name"} => request.username = <<>>
    BY <1>2 DEF ChooseRole, Same, Goes, Fails, Exits
  <2>2. \/ UNCHANGED role
        \/ /\ request.username # <<>>
           /\ role' = database_role_from_username(request.username[1])
    BY <1>2, Zenon DEF ChooseRole
  <2> QED  BY <2>1, <2>2, RoleNamed DEF Roled
<1>3. CASE Asking
  <2>1. UNCHANGED request
    BY <1>3 DEF Asking, Ask, Same
  <2>2. UNCHANGED role \/ phase \in {"role", "role name"}
    BY <1>3 DEF Asking, Ask, decided
  <2>3. phase' \in {"role", "role name"} => phase \in {"role", "role name"}
    BY <1>3 DEF Asking, Ask, Goes, Fails, Exits
  <2> QED  BY <2>1, <2>2, <2>3 DEF Roled
<1>4. CASE EnterShell
  <2>1. /\ phase' = "session"
        /\ request' = [request EXCEPT !.cluster = <<>>, !.region = <<>>, !.username = <<>>]
    BY <1>4 DEF EnterShell, Goes
  <2>2. request'.username = <<>>
    BY <2>1 DEF Requests
  <2> QED  BY <2>1, <2>2 DEF Roled
<1>5. CASE UNCHANGED <<request, role>> /\ (phase' = phase \/ phase' \notin {"role", "role name"})
  BY <1>5 DEF Roled
<1>6. CASE UNCHANGED vars \/ Discover
  BY <1>5, <1>6 DEF vars, decided, Discover
<1>7. CASE Configure \/ ResolveIdentity \/ ListInventory \/ OfferInventory \/ SelectTarget
           \/ UseSelector \/ Connect \/ ReadRoots \/ Dial \/ RunInput
  <2>1. UNCHANGED <<request, role>>
    BY <1>7 DEF Configure, ResolveIdentity, ListInventory, OfferInventory, SelectTarget,
      UseSelector, Connect, ReadRoots, Dial, RunInput, Same, decided
  <2>2. phase' = phase \/ phase' \notin {"role", "role name"}
    <3>1. CASE Configure
      <4>1. phase' \in {"ended", "ask region", "target", "identity"}
        BY <3>1, Configured, Zenon
      <4> QED  BY <4>1
    <3>2. CASE ~Configure
      BY <1>7, <3>2 DEF ResolveIdentity, ListInventory, OfferInventory, SelectTarget,
        SelectDiscovered, UseSelector, Connect, ReadRoots, Dial, RunInput, Goes, Fails, Exits,
        Finishes
    <3> QED  BY <3>1, <3>2
  <2> QED  BY <1>5, <2>1, <2>2
<1>8. CASE EditLine \/ LeaveShell \/ ServerSays \/ OutputFails
  <2>1. phase' \in {"session", "ended"} /\ UNCHANGED <<request, role>>
    BY <1>8 DEF EditLine, LeaveShell, ServerSays, OutputFails, inSession, Exits, Finishes,
      Shell, Same, decided
  <2> QED  BY <1>5, <2>1
<1> QED  BY <1>1, <1>2, <1>3, <1>4, <1>6, <1>7, <1>8 DEF Next, Progress

\* No step asks for a token before there is a role.
LEMMA UncalledNext ==
  ASSUME Uncalled, [Next]_vars
  PROVE  Uncalled'
<1> DEFINE Past == {"read roots", "dial", "connected", "session", "ended"}
<1>1. CASE UNCHANGED called /\ (phase \in Past => phase' \in Past)
  BY <1>1 DEF Uncalled
<1>2. CASE phase' \in Past
  BY <1>2 DEF Uncalled
<1>3. CASE UNCHANGED vars
  BY <1>1, <1>3 DEF vars, history
<1>4. CASE ResolveIdentity \/ Discover
  <2>1. phase \notin Past /\ called' \in {called \cup {"sts"}, called \cup {"dsql"}}
    BY <1>4 DEF ResolveIdentity, Discover
  <2> QED  BY <2>1 DEF Uncalled
<1>5. CASE Connect \/ ReadRoots \/ Dial \/ RunInput \/ EnterShell
  <2>1. phase' \in Past
    BY <1>5 DEF Connect, ReadRoots, Dial, RunInput, EnterShell, Goes, Fails, Exits, Finishes
  <2> QED  BY <1>2, <2>1
<1>6. CASE EditLine \/ LeaveShell \/ ServerSays \/ OutputFails
  <2>1. phase' \in Past
    BY <1>6 DEF EditLine, LeaveShell, ServerSays, OutputFails, inSession, Exits, Finishes
  <2> QED  BY <1>2, <2>1
<1>7. CASE Begin \/ Configure \/ Asking
  <2>1. UNCHANGED called /\ phase \notin Past
    BY <1>7 DEF Begin, Configure, Asking, Ask, history
  <2> QED  BY <1>1, <2>1
<1>8. CASE ListInventory \/ OfferInventory \/ SelectTarget \/ UseSelector \/ ChooseRole
  <2>1. UNCHANGED called /\ phase \notin Past
    BY <1>8 DEF ListInventory, OfferInventory, SelectTarget, SelectDiscovered, UseSelector,
      ChooseRole, history
  <2> QED  BY <1>1, <2>1
<1> QED  BY <1>3, <1>4, <1>5, <1>6, <1>7, <1>8 DEF Next, Progress

\* Where the inventory, and what is made of it, stay as they are.
KeepsPick ==
  /\ UNCHANGED <<account, stage, inventory>> /\ (enriched' = enriched \/ enriched' = <<>>)
  /\ config' = config \/ stage # "done"
  /\ \/ phase' = phase \/ phase' \notin {"select", "chosen", "confirm", "confirmed"}
     \/ stage = "done" /\ phase' \in {"select", "chosen"}
  /\ chosen' = chosen \/ phase' \notin {"confirm", "confirmed"}
  /\ asked \subseteq asked'

\* What is picked stays where nothing of the inventory changes.
LEMMA PickedStays ==
  ASSUME Picked, KeepsPick
  PROVE  Picked'
<1>1. ASSUME stage = "done"
      PROVE  Whole(config.region)'
  <2>1. Whole(config.region) /\ config' = config
    BY <1>1 DEF Picked, KeepsPick
  <2> QED  BY <2>1 DEF Whole, KeepsPick
<1>2. ASSUME phase' \in {"confirm", "confirmed"}
      PROVE  Found' = Found
  BY <1>2 DEF Found, SelectInSeq, KeepsPick
<1> QED  BY <1>1, <1>2 DEF Picked, KeepsPick

\* What is picked was in the inventory the user saw, and is confirmed if it must be.
LEMMA PickedNext ==
  ASSUME request \in Requests, Named, Discovering, Located, Picked, [Next]_vars
  PROVE  Picked'
<1> DEFINE Picking == {"select", "chosen", "confirm", "confirmed"}
<1>1. CASE UNCHANGED vars
  <2>1. KeepsPick
    BY <1>1 DEF vars, decided, history, discovery, KeepsPick
  <2> QED  BY <2>1, PickedStays
<1>2. CASE ResolveIdentity
  <2>1. /\ phase = "identity" /\ phase' \notin Picking
        /\ UNCHANGED discovery \/ discover_clusters
    BY <1>2 DEF ResolveIdentity, Goes
  <2>2. stage = "off"
    BY <2>1 DEF Discovering, Early
  <2>3. stage' # "done"
    BY <2>1, <2>2 DEF discovery, discover_clusters
  <2> QED  BY <2>1, <2>3 DEF Picked
<1>3. CASE Discover
  <2>1. /\ phase = "discover" /\ phase' = phase /\ UNCHANGED config
        /\ Discovers(config.sdk[1])
    BY <1>3 DEF Discover, decided
  <2>2. config.sdk[1] = config.region /\ config.region \in Seq(STRING)
    BY <2>1 DEF Located, Words
  <2>3. CASE Collect(config.sdk[1])
    <3>1. stage' = "done" /\ Whole(config.region)'
      BY <2>1, <2>2, <2>3, CollectsWhole DEF Whole
    <3> QED  BY <2>1, <3>1 DEF Picked
  <2>4. CASE ~Collect(config.sdk[1])
    <3>1. stage' # "done"
      BY <2>1, <2>4 DEF Discovers, ServiceLists, PageArrives, ListFails, DetailAnswered
    <3> QED  BY <2>1, <3>1 DEF Picked
  <2> QED  BY <2>3, <2>4
<1>4. CASE ListInventory \/ OfferInventory
  <2>1. /\ \/ phase' \notin Picking
           \/ stage = "done" /\ phase' = "select"
        /\ Returned /\ UNCHANGED decided /\ UNCHANGED asked
    BY <1>4 DEF ListInventory, OfferInventory, Fails, Exits, Finishes, Goes, history
  <2>9. KeepsPick
    BY <2>1 DEF Returned, decided, KeepsPick
  <2> QED  BY <2>9, PickedStays
<1>5. CASE SelectTarget
  <2>1. UNCHANGED <<config, chosen, asked, discovery>>
    BY <1>5 DEF SelectTarget, history
  <2>2. stage = "done"
    BY <1>5 DEF SelectTarget, SelectDiscovered, Picked
  <2>3. CASE phase' \in {"confirm", "confirmed"}
    <3>1. /\ Found # 0 /\ inventory[Found].status \in {<<>>, <<"UNKNOWN">>}
          /\ phase' = "confirm"
      BY <1>5, <2>3 DEF SelectTarget, SelectDiscovered, Fails, Exits, Goes
    <3>2. Found' = Found /\ inventory' = inventory
      BY <2>1 DEF Found, SelectInSeq, discovery
    <3>3. Whole(config.region)' /\ stage' = "done"
      BY <2>1, <2>2 DEF Picked, Whole, discovery
    <3> QED  BY <3>1, <3>2, <3>3 DEF Picked
  <2>4. CASE phase' \notin {"confirm", "confirmed"}
    <3>1. KeepsPick
      BY <2>1, <2>2, <2>4 DEF discovery, KeepsPick
    <3> QED  BY <3>1, PickedStays
  <2> QED  BY <2>3, <2>4
<1>6. CASE Asking
  <2>1. UNCHANGED discovery /\ asked \subseteq asked'
    BY <1>6 DEF Asking, Ask
  <2>2. CASE Ask("confirm", {"yes", "no"})
    <3>1. /\ phase = "confirm" /\ asked' = asked \cup {"confirm"}
          /\ UNCHANGED decided
          /\ phase' \in {"ended", "confirmed", "select"}
      BY <2>2 DEF Ask, Goes, Fails, Exits, decided
    <3>2. CASE phase' = "confirmed"
      <4>1. Found' = Found /\ UNCHANGED <<inventory, account, stage, enriched, config>>
        BY <2>1, <3>1 DEF Found, SelectInSeq, discovery, decided
      <4>2. Whole(config.region)' <=> Whole(config.region)
        BY <4>1 DEF Whole
      <4> QED  BY <3>1, <3>2, <4>1, <4>2 DEF Picked
    <3>3. CASE phase' # "confirmed"
      <4>1. stage = "done"
        BY <3>1 DEF Picked
      <4>9. KeepsPick
        BY <2>1, <3>1, <3>3, <4>1 DEF discovery, decided, KeepsPick
      <4> QED  BY <4>9, PickedStays
    <3> QED  BY <3>2, <3>3
  <2>3. CASE Ask("select", Identifiers)
    <3>1. /\ phase = "select" /\ UNCHANGED config
          /\ phase' \in {"ended", "chosen"}
      BY <2>3 DEF Ask, Goes, Fails, Exits, decided
    <3>2. stage = "done"
      BY <3>1 DEF Picked
    <3>9. KeepsPick
      BY <2>1, <3>1, <3>2 DEF discovery, KeepsPick
    <3> QED  BY <3>9, PickedStays
  <2>4. CASE Ask("ask region", Regions)
    <3>1. /\ phase = "ask region" /\ UNCHANGED chosen
          /\ phase' \in {"ended", "identity"}
      BY <2>4 DEF Ask, Goes, Fails, Exits, decided
    <3>2. stage = "off"
      BY <3>1 DEF Discovering, Early
    <3>9. KeepsPick
      BY <2>1, <3>1, <3>2 DEF discovery, KeepsPick
    <3> QED  BY <3>9, PickedStays
  <2>5. CASE Ask("manual", Selectors) \/ Ask("role", {"admin", "custom", "both"})
             \/ Ask("role name", Usernames \ {""})
    <3>1. /\ UNCHANGED <<config, chosen>> /\ phase' \notin Picking
      BY <2>5 DEF Ask, Goes, Fails, Exits, decided
    <3>9. KeepsPick
      BY <2>1, <3>1 DEF discovery, KeepsPick
    <3> QED  BY <3>9, PickedStays
  <2> QED  BY <1>6, <2>2, <2>3, <2>4, <2>5 DEF Asking
<1>7. CASE Begin \/ Configure
  <2>1. /\ UNCHANGED <<chosen, asked, discovery>> /\ phase \in Early
        /\ phase' \notin Picking
    <3>1. CASE Begin
      BY <3>1 DEF Begin, Goes, Fails, Exits, history, Early, Requests
    <3>2. CASE Configure
      <4>1. /\ phase' \in {"ended", "ask region", "target", "identity"}
            /\ phase = "configure" /\ UNCHANGED <<chosen, history, discovery>>
        BY <3>2, Configured, Zenon
      <4> QED  BY <4>1 DEF history, Early
    <3> QED  BY <1>7, <3>1, <3>2
  <2>2. stage = "off"
    BY <2>1 DEF Discovering
  <2>9. KeepsPick
    BY <2>1, <2>2 DEF discovery, KeepsPick
  <2> QED  BY <2>9, PickedStays
<1>8. CASE EnterShell
  <2>1. phase' = "session" /\ stage' = "off"
    BY <1>8 DEF EnterShell, Goes
  <2> QED  BY <2>1 DEF Picked
<1>9. CASE UseSelector \/ ChooseRole \/ Connect \/ ReadRoots \/ Dial \/ RunInput
  <2>1. UNCHANGED <<config, chosen, asked, discovery>>
    BY <1>9 DEF UseSelector, ChooseRole, Connect, ReadRoots, Dial, RunInput, decided, history
  <2>2. phase' = phase \/ phase' \notin Picking
    BY <1>9 DEF UseSelector, ChooseRole, Connect, ReadRoots, Dial, RunInput, Goes, Fails,
      Exits, Finishes
  <2>9. KeepsPick
    BY <2>1, <2>2 DEF discovery, KeepsPick
  <2> QED  BY <2>9, PickedStays
<1>10. CASE EditLine \/ LeaveShell \/ ServerSays \/ OutputFails
  <2>1. UNCHANGED <<config, chosen, asked, discovery>> /\ phase' \in {"session", "ended"}
    BY <1>10 DEF EditLine, LeaveShell, ServerSays, OutputFails, inSession, Exits, Finishes,
      Shell, decided, history
  <2>9. KeepsPick
    BY <2>1 DEF discovery, KeepsPick
  <2> QED  BY <2>9, PickedStays
<1> QED
  BY <1>1, <1>2, <1>3, <1>4, <1>5, <1>6, <1>7, <1>8, <1>9, <1>10 DEF Next, Progress

\* What stays with a target that was chosen.
KeepsTarget ==
  /\ Targeted /\ UNCHANGED <<request, config, target, chosen, account>>
  /\ asked \subseteq asked'
  /\ \A service \in called' \ {"sts", "dsql", "database"} : service = token_for(role')

\* A target that is kept is still the one asked for.
LEMMA TargetStays ==
  ASSUME TargetIsAsked, KeepsTarget, Roled'
  PROVE  TargetIsAsked'
<1>1. /\ config.sdk = <<config.region>> /\ target.region = config.region
      /\ request.region # <<>> => target.region = request.region[1]
      /\ target.endpoint \in Options({canonical_endpoint(target.id, target.region)})
      /\ request.cluster # <<>> =>
           /\ target.id = parse_cluster_selector(request.cluster[1])[1].identifier
           /\ parse_cluster_selector(request.cluster[1])[1].region \in Options({target.region})
      /\ target.from = "inventory" =>
           /\ target.id = chosen /\ \E k \in DOMAIN account : target.id = <<account[k]>>
           /\ target.status # <<"ACTIVE">> =>
                target.status \in {<<>>, <<"UNKNOWN">>} /\ "confirm" \in asked
  BY DEF TargetIsAsked, KeepsTarget
<1>2. /\ UNCHANGED <<request, config, target, chosen, account>> /\ asked \subseteq asked'
      /\ \A service \in called' \ {"sts", "dsql", "database"} : service = token_for(role')
  BY DEF KeepsTarget
<1>3. request'.username # <<>> /\ role' # NoRole => role'.name = request'.username[1]
  BY DEF Roled
<1> QED  BY <1>1, <1>2, <1>3 DEF TargetIsAsked

\* The target made from a selector is the one the selector names.
LEMMA SelectorAims ==
  ASSUME Named, Located, Uncalled, Roled', UseSelector
  PROVE  TargetIsAsked'
<1> DEFINE s == selector[1]
           endpoint == canonical_endpoint(s.identifier, config.region)
<1>1. /\ phase = "target" /\ UNCHANGED <<request, config, role, history>>
      /\ \/ phase' = "ended"
         \/ /\ check_region(s, config.region)
            /\ target' = [id |-> s.identifier, region |-> config.region, status |-> <<>>,
                          endpoint |-> IF s.endpoint # <<>> THEN s.endpoint ELSE <<endpoint>>,
                          from |-> "selector"]
  BY DEF UseSelector, Same, Fails, Exits
<1>2. CASE phase' = "ended"
  BY <1>2 DEF TargetIsAsked, Targeted
<1>3. CASE phase' # "ended"
  <2>1. /\ config.sdk = <<config.region>>
        /\ request.region # <<>> => config.region = request.region[1]
    BY <1>1 DEF Located
  <2>2. /\ Selects(s)
        /\ request.cluster # <<>> => s = parse_cluster_selector(request.cluster[1])[1]
    BY <1>1, NamedRegion DEF Named
  <2>3. s.region # <<>> => s.region = <<config.region>>
    BY <1>1, <1>3 DEF check_region
  <2>4. s.endpoint # <<>> => s.endpoint = <<endpoint>>
    BY <2>2, <2>3 DEF Selects
  <2> HIDE DEF s, endpoint
  <2>5. /\ target'.id = s.identifier /\ target'.region = config.region
        /\ target'.endpoint = <<endpoint>> /\ target'.from = "selector"
    BY <1>1, <1>3, <2>4
  <2>6. target'.endpoint \in Options({canonical_endpoint(target'.id, target'.region)})
    BY <2>5 DEF Options, endpoint
  <2>7. s.region \in Options({target'.region})
    BY <2>3, <2>5 DEF Options
  <2>8. request'.username # <<>> /\ role' # NoRole => role'.name = request'.username[1]
    BY DEF Roled
  <2>9. called' \subseteq {"sts", "dsql"}
    BY <1>1 DEF Uncalled, history
  <2> QED  BY <1>1, <2>1, <2>2, <2>5, <2>6, <2>7, <2>8, <2>9 DEF TargetIsAsked
<1> QED  BY <1>2, <1>3

\* The target picked from the inventory is the one picked.
LEMMA InventoryAims ==
  ASSUME Discovering, Named, Located, Uncalled, Picked, Roled', SelectTarget
  PROVE  TargetIsAsked'
<1>1. CASE phase' # "choose role"
  BY <1>1 DEF SelectTarget, SelectDiscovered, Goes, Fails, Exits, TargetIsAsked, Targeted
<1>2. CASE phase' = "choose role"
  <2> DEFINE cluster == inventory[Found]
  <2>1. /\ UNCHANGED <<request, config, role, chosen, history, discovery>>
        /\ target' = target_of(cluster) /\ Found # 0
        /\ phase \in {"chosen", "confirmed"}
        /\ \/ cluster.status = <<"ACTIVE">>
           \/ cluster.status \in {<<>>, <<"UNKNOWN">>} /\ "confirm" \in asked
    BY <1>2 DEF SelectTarget, Same, SelectDiscovered, Goes, Fails, Exits, selectable, Picked
  <2>2. /\ config.sdk = <<config.region>>
        /\ request.region # <<>> => config.region = request.region[1]
        /\ request.cluster = <<>> /\ called \subseteq {"sts", "dsql"}
    BY <2>1 DEF Located, Named, Uncalled
  <2>3. /\ DOMAIN inventory = DOMAIN account
        /\ inventory = [k \in DOMAIN account |-> inventory[k]]
        /\ \A k \in DOMAIN account : \E detail \in Details :
             inventory[k] = Cluster(account[k], config.region, detail)
    BY <2>1 DEF Picked, Whole
  <2>4. DOMAIN account = 1 .. Len(account) /\ Len(account) \in Nat
    BY DEF Discovering
  <2>5. Found \in DOMAIN account /\ cluster.id = chosen
    <3>1. Len(inventory) = Len(account)
      BY <2>3, <2>4
    <3> QED  BY <2>1, <2>3, <2>4, <3>1, FoundIs
  <2>6. PICK detail \in Details : cluster = Cluster(account[Found], config.region, detail)
    BY <2>3, <2>5
  <2>7. /\ cluster.id = <<account[Found]>> /\ cluster.region = config.region
        /\ cluster.endpoint \in Options({canonical_endpoint(cluster.id, cluster.region)})
    BY <2>6 DEF Cluster, Options
  <2> HIDE DEF cluster
  <2>8. /\ target'.id = cluster.id /\ target'.region = cluster.region
        /\ target'.endpoint = cluster.endpoint /\ target'.status = cluster.status
    BY <2>1 DEF target_of
  <2>9. request'.username # <<>> /\ role' # NoRole => role'.name = request'.username[1]
    BY DEF Roled
  <2> QED
    BY <2>1, <2>2, <2>5, <2>7, <2>8, <2>9 DEF TargetIsAsked, history, discovery
<1> QED  BY <1>1, <1>2

\* No step goes astray from the target asked for.
LEMMA TargetNext ==
  ASSUME request \in Requests, Discovering, Named, Located, Uncalled, Picked, Roled',
         TargetIsAsked, [Next]_vars
  PROVE  TargetIsAsked'
<1>1. CASE ~Targeted'
  BY <1>1 DEF TargetIsAsked
<1>2. CASE UseSelector
  BY <1>2, SelectorAims
<1>3. CASE SelectTarget
  BY <1>3, InventoryAims
<1>4. CASE UNCHANGED vars /\ Targeted'
  <2>1. UNCHANGED <<request, phase, config, target, chosen, account, asked, called, role>>
    BY <1>4 DEF vars, decided, history, discovery
  <2>2. KeepsTarget
    BY <1>4, <2>1 DEF KeepsTarget, Targeted, TargetIsAsked
  <2> QED  BY <2>2, TargetStays
<1>5. CASE ChooseRole \/ Ask("role", {"admin", "custom", "both"})
           \/ Ask("role name", Usernames \ {""})
  <2>1. /\ phase \in {"choose role", "role", "role name"}
        /\ UNCHANGED <<request, config, target, chosen, called, discovery>>
        /\ asked \subseteq asked'
    BY <1>5 DEF ChooseRole, Ask, Same, decided, history
  <2>2. called' \subseteq {"sts", "dsql"}
    BY <2>1 DEF Uncalled
  <2>3. KeepsTarget
    BY <2>1, <2>2 DEF KeepsTarget, Targeted, discovery
  <2> QED  BY <2>3, TargetStays
<1>6. CASE Connect \/ ReadRoots \/ Dial \/ RunInput
  <2>1. /\ phase \in {"connect", "read roots", "dial", "connected"}
        /\ UNCHANGED <<request, config, target, chosen, role, asked, discovery>>
    BY <1>6 DEF Connect, ReadRoots, Dial, RunInput, Same, decided, history
  <2>2. Targeted
    BY <2>1 DEF Targeted
  <2>3. \A service \in called' \ {"sts", "dsql", "database"} : service = token_for(role)
    <3>1. \A service \in called \ {"sts", "dsql", "database"} : service = token_for(role)
      BY <2>2 DEF TargetIsAsked
    <3>2. called' \in {called, called \cup {token_for(role)}, called \cup {"database"}}
      BY <1>6 DEF Connect, ReadRoots, Dial, RunInput, history
    <3> QED  BY <3>1, <3>2
  <2>4. KeepsTarget
    BY <2>1, <2>2, <2>3 DEF KeepsTarget, discovery
  <2> QED  BY <2>4, TargetStays
<1>7. CASE Begin \/ Configure
  <2>1. phase' \in {"ended", "configure", "ask region", "target", "identity"}
    <3>1. CASE Begin
      BY <3>1 DEF Begin, Exits, Fails, Goes, Requests
    <3>2. CASE Configure
      BY <3>2, Configured
    <3> QED  BY <1>7, <3>1, <3>2
  <2> QED  BY <1>1, <2>1 DEF Targeted
<1>8. CASE ResolveIdentity \/ Discover \/ ListInventory \/ OfferInventory
           \/ EnterShell \/ EditLine \/ LeaveShell \/ ServerSays \/ OutputFails
  <2>1. ~Targeted'
    BY <1>8 DEF ResolveIdentity, Discover, ListInventory, OfferInventory,
      EnterShell, EditLine, LeaveShell, ServerSays, OutputFails, inSession, Exits, Finishes,
      Fails, Goes, Targeted
  <2> QED  BY <1>1, <2>1
<1>9. CASE Ask("ask region", Regions) \/ Ask("select", Identifiers)
           \/ Ask("confirm", {"yes", "no"}) \/ Ask("manual", Selectors)
  <2>1. ~Targeted'
    BY <1>9 DEF Ask, Exits, Fails, Goes, Targeted
  <2> QED  BY <1>1, <2>1
<1> QED
  BY <1>1, <1>2, <1>3, <1>4, <1>5, <1>6, <1>7, <1>8, <1>9 DEF Next, Progress, Asking

\* What was asked for, from the command line to the connection: a part says what the
\* steps that decide, or use what was decided, find when they come to it.
AimInv ==
  /\ request \in Requests
  /\ Discovering /\ Located /\ Named /\ Roled /\ Uncalled /\ Picked /\ TargetIsAsked

\* At the start nothing is picked.
LEMMA AimInit == Init => AimInv
<1> SUFFICES ASSUME Init PROVE AimInv
  OBVIOUS
<1>1. /\ request \in Requests /\ phase = "begin" /\ selector = <<>> /\ role = NoRole
      /\ called = {} /\ DiscoveryInit
  BY DEF Init
<1>2. account \in Seq(Identifiers) /\ IsInjective(account)
  BY <1>1, DiscoveryAssumption DEF DiscoveryInit
<1>3. Discovering
  BY <1>1, <1>2 DEF DiscoveryInit, Discovering
<1>4. Located /\ Named /\ Roled /\ Uncalled /\ Picked /\ TargetIsAsked
  BY <1>1 DEF DiscoveryInit, Located, Named, Roled, Uncalled, Picked, TargetIsAsked, Targeted
<1> QED  BY <1>1, <1>3, <1>4 DEF AimInv

\* The parts are inductive together: each step needs what the others say of its guard.
LEMMA AimNext == AimInv /\ [Next]_vars => AimInv'
<1> SUFFICES ASSUME AimInv, [Next]_vars PROVE AimInv'
  OBVIOUS
<1>1. /\ request \in Requests
      /\ Discovering /\ Located /\ Named /\ Roled /\ Uncalled /\ Picked /\ TargetIsAsked
  BY DEF AimInv
<1>2. request' \in Requests
  BY <1>1, RequestStays
<1>3. Roled'
  BY <1>1, RoledNext
<1>4. Discovering' /\ Located' /\ Named' /\ Uncalled' /\ Picked'
  BY <1>1, DiscoveryNext, LocatedNext, NamedNext, UncalledNext, PickedNext
<1>5. TargetIsAsked'
  BY <1>1, <1>3, TargetNext
<1> QED  BY <1>2, <1>3, <1>4, <1>5 DEF AimInv

\* docs/cli.md:41: whatever is typed, picked or confirmed, and whatever AWS answers, the
\* cluster connected to is the one asked for, in the Region of the clients, and the token
\* is for the role.
THEOREM TargetsAreAsked == Spec => []TargetIsAsked
<1>1. AimInv => TargetIsAsked
  BY DEF AimInv
<1> QED  BY AimInit, AimNext, <1>1, PTL DEF Spec

-----------------------------------------------------------------------------
(***************************************************************************)
(* The lines of an inventory.                                              *)
(***************************************************************************)
\* A text joined from one part or more is like them, if what is joined from two is.
LEMMA FlattenKeeps ==
  ASSUME NEW C, \A a, b \in C : a \o b \in C,
         NEW seqs, NEW n \in Nat \ {0}, Len(seqs) = n, \A i \in 1 .. n : seqs[i] \in C
  PROVE  Text!FlattenSeq(seqs) \in C
<1> DEFINE f == CHOOSE f : f = [i \in 1 .. n |->
                  IF i = 1 THEN seqs[i] ELSE f[i - 1] \o seqs[i]]
<1>1. Text!FlattenSeq(seqs) = f[n]
  BY DEF Text!FlattenSeq
<1>2. Flattens(seqs, f, n)
  BY FlattensSome DEF Flattens
<1> HIDE DEF f
<1> DEFINE S == {k \in Nat : k \in 1 .. n => f[k] \in C}
<1>3. 0 \in S
  OBVIOUS
<1>4. ASSUME NEW k \in Nat, k \in S
      PROVE  k + 1 \in S
  <2> SUFFICES ASSUME k + 1 \in 1 .. n
               PROVE  f[k + 1] \in C
    OBVIOUS
  <2>1. \A i \in 1 .. n : f[i] = IF i = 1 THEN seqs[i] ELSE f[i - 1] \o seqs[i]
    BY <1>2 DEF Flattens
  <2>2. CASE k = 0
    BY <2>1, <2>2
  <2>3. CASE k # 0
    <3>1. k + 1 # 1 /\ k + 1 - 1 = k /\ k \in 1 .. n
      BY <2>3
    <3>2. f[k + 1] = f[k] \o seqs[k + 1]
      <4>1. f[k + 1] = IF k + 1 = 1 THEN seqs[k + 1] ELSE f[k + 1 - 1] \o seqs[k + 1]
        BY <2>1
      <4> QED  BY <3>1, <4>1
    <3>3. f[k] \in C /\ seqs[k + 1] \in C
      BY <1>4, <3>1
    <3> QED  BY <3>2, <3>3
  <2> QED  BY <2>2, <2>3
<1> HIDE DEF S
<1>5. Nat \subseteq S
  BY <1>3, <1>4, SetInduction
<1> QED  BY <1>1, <1>5 DEF S

\* A text of one part.
LEMMA FlattenOne ==
  ASSUME NEW s
  PROVE  Text!FlattenSeq(<<s>>) = s
<1> DEFINE seqs == <<s>>
           f == CHOOSE f : f = [i \in 1 .. 1 |->
                  IF i = 1 THEN seqs[i] ELSE f[i - 1] \o seqs[i]]
<1>1. Len(seqs) = 1 /\ seqs[1] = s
  OBVIOUS
<1>2. Flattens(seqs, f, 1)
  BY FlattensSome DEF Flattens
<1> HIDE DEF seqs
<1>3. Text!FlattenSeq(seqs) = f[1]
  BY <1>1 DEF Text!FlattenSeq
<1> HIDE DEF f
<1>4. f[1] = s
  BY <1>1, <1>2 DEF Flattens
<1> QED  BY <1>3, <1>4 DEF seqs

\* What the texts of the inventory are made of.
Letters ==
  STRING \cup Identifiers
    \cup {"\\", "n", "r", "t", "u", "{", "0", "7", "}", ".", "dsql", "on", "aws"}
Clean == Letters \ Text!Controls

\* What is shown in place of a character is not empty and has no control character.
LEMMA CharEscaped ==
  ASSUME NEW c \in Letters
  PROVE  Text!EscapeChar(c) \in Seq(Clean) \ {<<>>}
<1>1. /\ "\\" \in Clean /\ "n" \in Clean /\ "r" \in Clean /\ "t" \in Clean /\ "u" \in Clean
      /\ "{" \in Clean /\ "0" \in Clean /\ "7" \in Clean /\ "}" \in Clean
  BY DEF Clean, Letters, Text!Controls, Text!Control
<1>2. c \in Clean \/ c \in Text!Controls
  BY DEF Clean
<1> HIDE DEF Clean
<1>3. \A x, y \in Clean : <<x, y>> \in Seq(Clean) /\ <<x>> \in Seq(Clean)
                          /\ <<x, y>> # <<>> /\ <<x>> # <<>>
  OBVIOUS
<1>4. ASSUME NEW x1 \in Clean, NEW x2 \in Clean, NEW x3 \in Clean, NEW x4 \in Clean,
             NEW x5 \in Clean, NEW x6 \in Clean, NEW x7 \in Clean, NEW x8 \in Clean
      PROVE  /\ <<x1, x2, x3, x4, x5, x6, x7, x8>> \in Seq(Clean)
             /\ <<x1, x2, x3, x4, x5, x6, x7, x8>> # <<>>
  OBVIOUS
<1>5. CASE c \in Text!Controls
  BY <1>1, <1>3, <1>4, <1>5 DEF Text!EscapeChar, Text!Controls
<1>6. CASE c \in Clean
  BY <1>1, <1>3, <1>4, <1>6 DEF Text!EscapeChar
<1> QED  BY <1>2, <1>5, <1>6

\* Neither has a text, and it is empty only if it was.
LEMMA TextEscaped ==
  ASSUME NEW text \in Seq(Letters)
  PROVE  /\ Text!escape_terminal_text(text) \in Seq(Clean)
         /\ text # <<>> => Text!escape_terminal_text(text) # <<>>
<1> DEFINE parts == [i \in DOMAIN text |-> Text!EscapeChar(text[i])]
           C == Seq(Clean) \ {<<>>}
<1>1. Text!escape_terminal_text(text) = Text!FlattenSeq(parts)
  BY DEF Text!escape_terminal_text
<1>2. /\ DOMAIN text = 1 .. Len(text) /\ Len(text) \in Nat
      /\ \A i \in 1 .. Len(text) : text[i] \in Letters
  OBVIOUS
<1>3. \A i \in 1 .. Len(text) : parts[i] \in C
  BY <1>2, CharEscaped
<1>4. parts \in Seq(C) /\ Len(parts) = Len(text)
  <2>1. parts = [i \in 1 .. Len(text) |-> parts[i]]
    BY <1>2
  <2> HIDE DEF parts, C
  <2> QED  BY <1>2, <1>3, <2>1
<1>5. ASSUME NEW a \in C, NEW b \in C PROVE a \o b \in C
  <2>1. a \in Seq(Clean) /\ b \in Seq(Clean) /\ Len(a) # 0
    OBVIOUS
  <2>2. a \o b \in Seq(Clean) /\ Len(a \o b) = Len(a) + Len(b)
    BY <2>1, ConcatProperties, Zenon
  <2>3. Len(a \o b) # 0
    BY <2>1, <2>2
  <2> QED  BY <2>2, <2>3
<1>6. CASE text = <<>>
  <2>1. Len(parts) = 0
    BY <1>4, <1>6
  <2>2. Text!FlattenSeq(parts) = parts /\ parts = <<>>
    BY <1>4, <2>1 DEF Text!FlattenSeq
  <2> HIDE DEF parts
  <2> QED  BY <1>1, <1>6, <2>2
<1>7. CASE text # <<>>
  <2>1. Len(text) \in Nat \ {0}
    BY <1>7
  <2> HIDE DEF parts, C
  <2>2. Text!FlattenSeq(parts) \in C
    BY <1>3, <1>4, <1>5, <2>1, FlattenKeeps
  <2> QED  BY <1>1, <2>2 DEF C
<1> QED  BY <1>6, <1>7

\* A word without control characters is shown as it is.
LEMMA WordEscaped ==
  ASSUME NEW w, w \notin Text!Controls
  PROVE  Text!escape_terminal_text(<<w>>) = <<w>>
<1>1. Text!EscapeChar(w) = <<w>>
  BY DEF Text!EscapeChar, Text!Controls
<1>2. [i \in DOMAIN <<w>> |-> Text!EscapeChar(<<w>>[i])] = <<Text!EscapeChar(w)>>
  OBVIOUS
<1>3. Text!escape_terminal_text(<<w>>) = Text!FlattenSeq(<<Text!EscapeChar(w)>>)
  BY <1>2, Zenon DEF Text!escape_terminal_text
<1> QED  BY <1>1, <1>3, FlattenOne, Zenon

\* What a row tells of a cluster.
Tells(row, c) ==
  /\ IdOf(row) = c.id
  /\ EndpointOf(row) # <<>> <=> c.endpoint # <<>>
  /\ \/ c.status = <<>> /\ StatusOf(row) = <<>> /\ VerdictOf(row) # <<"complete">>
     \/ c.status # <<>> /\ StatusOf(row) # <<>> /\ VerdictOf(row) = <<"complete">>

Unescaped(text) == ToSet(text) \cap Text!Controls # {}

\* A row of a cluster; one for a terminal has no control character.
RowOf(row, c, terminal) ==
  /\ row.kind \in {"cells", "object"}
  /\ Tells(row, c)
  /\ terminal /\ row.kind = "cells" => \A k \in DOMAIN row.cells : ~Unescaped(row.cells[k])

\* Texts that need no escape.
LEMMA CleanTexts ==
  /\ \A text \in Seq(Clean) : ~Unescaped(text)
  /\ ~Unescaped(<<>>)
  /\ \A w : w \notin Text!Controls => ~Unescaped(<<w>>)
BY DEF Unescaped, ToSet, Clean

\* A sequence over a set is one over a larger set.
LEMMA Wider ==
  ASSUME NEW S, NEW T, S \subseteq T, NEW s \in Seq(S)
  PROVE  s \in Seq(T)
OBVIOUS

\* Regions and display names are texts.
LEMMA WordLetters == \A text \in Words : text \in Seq(Letters)
<1>1. STRING \subseteq Letters
  BY DEF Letters
<1> QED  BY <1>1, Wider DEF Words

\* So are endpoints.
LEMMA EndpointText ==
  ASSUME NEW id \in Identifiers, NEW region \in Words
  PROVE  /\ canonical_endpoint(<<id>>, region) \in Seq(Letters)
         /\ canonical_endpoint(<<id>>, region) # <<>>
<1>1. /\ <<id>> \in Seq(Letters) /\ region \in Seq(Letters) /\ Len(<<id>>) = 1
      /\ <<".", "dsql", ".">> \in Seq(Letters) /\ <<".", "on", ".", "aws">> \in Seq(Letters)
  <2>1. /\ id \in Letters /\ "." \in Letters /\ "dsql" \in Letters /\ "on" \in Letters
        /\ "aws" \in Letters
    BY DEF Letters
  <2> HIDE DEF Letters
  <2>2. region \in Seq(Letters)
    BY WordLetters
  <2> QED  BY <2>1, <2>2
<1> DEFINE a == <<id>>
           x == <<".", "dsql", ".">>
           y == <<".", "on", ".", "aws">>
<1>2. a \in Seq(Letters) /\ x \in Seq(Letters) /\ y \in Seq(Letters) /\ Len(a) = 1
  BY <1>1
<1> HIDE DEF a, x, y, Letters
<1>3. a \o x \in Seq(Letters) /\ Follows(a, x, a \o x)
  BY <1>2, FollowsBoth, Zenon
<1>4. (a \o x) \o region \in Seq(Letters) /\ Follows(a \o x, region, (a \o x) \o region)
  BY <1>1, <1>3, FollowsBoth, Zenon
<1>5. /\ ((a \o x) \o region) \o y \in Seq(Letters)
      /\ Follows((a \o x) \o region, y, ((a \o x) \o region) \o y)
  BY <1>2, <1>4, FollowsBoth, Zenon
<1> DEFINE e == ((a \o x) \o region) \o y
<1>6. Len(e) = 1 + Len(x) + Len(region) + Len(y) /\ Len(x) \in Nat /\ Len(y) \in Nat
      /\ Len(region) \in Nat
  BY <1>1, <1>2, <1>3, <1>4, <1>5 DEF Follows
<1>7. e \in Seq(Letters) /\ e # <<>>
  BY <1>5, <1>6
<1>8. canonical_endpoint(<<id>>, region) = e
  BY Zenon DEF canonical_endpoint, a, x, y
<1> QED  BY <1>7, <1>8, Zenon

\* The texts of a cluster.
LEMMA ClusterTexts ==
  ASSUME NEW id \in Identifiers, NEW region \in Words, NEW detail \in Details,
         NEW c, c = Cluster(id, region, detail)
  PROVE  /\ c.id = <<id>> /\ id \notin Text!Controls
         /\ c.id \in Seq(Letters) /\ c.region \in Seq(Letters)
         /\ OrEmpty(c.endpoint) \in Seq(Letters)
         /\ OrEmpty(c.endpoint) # <<>> <=> c.endpoint # <<>>
         /\ OrEmpty(c.display_name) \in Seq(Letters)
<1>1. /\ c.id = <<id>> /\ c.region = region /\ c.display_name = detail.display_name
      /\ c.endpoint = IF detail.endpoint THEN <<canonical_endpoint(<<id>>, region)>> ELSE <<>>
  BY DEF Cluster
<1>2. id \notin Text!Controls
  BY StartupAssumption
<1>3. <<id>> \in Seq(Letters) /\ region \in Seq(Letters) /\ <<>> \in Seq(Letters)
  <2>1. id \in Letters
    BY DEF Letters
  <2> HIDE DEF Letters
  <2> QED  BY <2>1, WordLetters
<1>4. /\ canonical_endpoint(<<id>>, region) \in Seq(Letters)
      /\ canonical_endpoint(<<id>>, region) # <<>>
  BY EndpointText
<1>5. detail.display_name # <<>> => detail.display_name[1] \in Seq(Letters)
  BY StartupAssumption, WordLetters DEF Words
<1>6. \A text : OrEmpty(<<text>>) = text /\ <<text>> # <<>>
  BY DEF OrEmpty
<1>7. OrEmpty(c.display_name) \in Seq(Letters)
  BY <1>1, <1>3, <1>5 DEF OrEmpty
<1>8. CASE detail.endpoint
  <2>1. c.endpoint = <<canonical_endpoint(<<id>>, region)>>
    BY <1>1, <1>8
  <2>2. /\ OrEmpty(c.endpoint) = canonical_endpoint(<<id>>, region) /\ c.endpoint # <<>>
    BY <1>6, <2>1
  <2>3. OrEmpty(c.endpoint) \in Seq(Letters) /\ OrEmpty(c.endpoint) # <<>>
    BY <1>4, <2>2
  <2> QED  BY <1>1, <1>2, <1>3, <1>7, <2>2, <2>3
<1>9. CASE ~detail.endpoint
  <2>1. c.endpoint = <<>> /\ OrEmpty(<<>>) = <<>>
    BY <1>1, <1>9 DEF OrEmpty
  <2> QED  BY <1>1, <1>2, <1>3, <1>7, <2>1
<1> QED  BY <1>8, <1>9

\* The words for a status and for the verdict on the details.
LEMMA StatusWords ==
  ASSUME NEW id, NEW region, NEW detail, NEW c, c = Cluster(id, region, detail)
  PROVE  /\ ~Unescaped(status_value(c.status)) /\ ~Unescaped(enrichment_value(c.enrichment))
         /\ \/ /\ c.status = <<>> /\ status_value(c.status) = <<>>
               /\ enrichment_value(c.enrichment) # <<"complete">>
            \/ /\ c.status # <<>> /\ status_value(c.status) # <<>>
               /\ enrichment_value(c.enrichment) = <<"complete">>
<1>1. CASE detail.error = "none"
  <2>1. c.status = <<map_status(detail.status)>> /\ c.enrichment = "complete"
    BY <1>1 DEF Cluster
  <2>2. map_status(detail.status) \in Lifecycle \cup {"UNKNOWN"}
    BY DEF map_status
  <2>3. \A s \in Lifecycle \cup {"UNKNOWN"} : StatusValues[s] \notin Text!Controls
    BY DEF Lifecycle, StatusValues, Text!Controls, Text!Control
  <2>4. enrichment_value(c.enrichment) = <<"complete">> /\ "complete" \notin Text!Controls
    BY <2>1 DEF enrichment_value, EnrichmentValues, Text!Controls, Text!Control
  <2>5. status_value(c.status) = <<StatusValues[map_status(detail.status)]>>
    BY <2>1 DEF status_value
  <2> QED  BY <2>1, <2>2, <2>3, <2>4, <2>5, CleanTexts
<1>2. CASE detail.error # "none"
  <2>1. c.status = <<>> /\ c.enrichment = map_error(detail.error)
    BY <1>2 DEF Cluster
  <2>2. map_error(detail.error) \in {"access_denied", "throttled", "not_found", "other"}
    BY DEF map_error
  <2>3. \A v \in {"access_denied", "throttled", "not_found", "other"} :
          EnrichmentValues[v] \notin Text!Controls /\ EnrichmentValues[v] # "complete"
    BY DEF EnrichmentValues, Text!Controls, Text!Control
  <2>4. enrichment_value(c.enrichment) = <<EnrichmentValues[c.enrichment]>>
    BY DEF enrichment_value
  <2>5. status_value(c.status) = <<>>
    BY <2>1 DEF status_value
  <2> QED  BY <2>1, <2>2, <2>3, <2>4, <2>5, CleanTexts
<1> QED  BY <1>1, <1>2

\* A row of a table, or of tab-separated values, tells all of its cluster.
LEMMA CellsTell ==
  ASSUME NEW id \in Identifiers, NEW region \in Words, NEW detail \in Details,
         NEW c, c = Cluster(id, region, detail), NEW escaped \in BOOLEAN,
         NEW terminal, terminal => escaped
  PROVE  RowOf([kind |-> "cells", cells |-> inventory_cells(c, escaped)], c, terminal)
<1> DEFINE row == [kind |-> "cells", cells |-> inventory_cells(c, escaped)]
           name == OnScreen(OrEmpty(c.display_name), escaped)
           endpoint == OnScreen(OrEmpty(c.endpoint), escaped)
           place == OnScreen(c.region, escaped)
<1>1. /\ row.kind = "cells" /\ DOMAIN row.cells = 1 .. 6
      /\ row.cells[1] = OnScreen(c.id, escaped) /\ row.cells[2] = place
      /\ row.cells[3] = status_value(c.status) /\ row.cells[4] = endpoint
      /\ row.cells[5] = name /\ row.cells[6] = enrichment_value(c.enrichment)
  BY DEF inventory_cells
<1> HIDE DEF row
<1>2. OnScreen(c.id, escaped) = c.id /\ ~Unescaped(c.id)
  BY ClusterTexts, WordEscaped, CleanTexts DEF OnScreen
<1>3. endpoint # <<>> <=> c.endpoint # <<>>
  <2>1. /\ OrEmpty(c.endpoint) \in Seq(Letters)
        /\ OrEmpty(c.endpoint) # <<>> <=> c.endpoint # <<>>
    BY ClusterTexts
  <2>2. c.endpoint = <<>> => endpoint = <<>>
    <3>1. Text!escape_terminal_text(<<>>) = <<>>
      BY DEF Text!escape_terminal_text, Text!FlattenSeq
    <3> QED  BY <2>1, <3>1 DEF OnScreen
  <2>3. c.endpoint # <<>> => endpoint # <<>>
    BY <2>1, TextEscaped DEF OnScreen
  <2> QED  BY <2>2, <2>3
<1>4. ASSUME terminal
      PROVE  ~Unescaped(name) /\ ~Unescaped(endpoint) /\ ~Unescaped(place)
  <2>1. escaped
    BY <1>4
  <2>2. ASSUME NEW text \in Seq(Letters) PROVE ~Unescaped(OnScreen(text, escaped))
    BY <2>1, TextEscaped, CleanTexts DEF OnScreen
  <2> QED  BY <2>2, ClusterTexts
<1>5. Tells(row, c)
  BY <1>1, <1>2, <1>3, StatusWords DEF Tells, IdOf, EndpointOf, StatusOf, VerdictOf
<1>6. terminal => \A k \in DOMAIN row.cells : ~Unescaped(row.cells[k])
  <2>1. ASSUME terminal, NEW k \in 1 .. 6 PROVE ~Unescaped(row.cells[k])
    <3>1. k = 1 \/ k = 2 \/ k = 3 \/ k = 4 \/ k = 5 \/ k = 6
      OBVIOUS
    <3> QED  BY <1>1, <1>2, <1>4, <2>1, <3>1, StatusWords
  <2> QED  BY <1>1, <2>1
<1> QED  BY <1>1, <1>5, <1>6 DEF RowOf, row

\* So does an object of JSON.
LEMMA ObjectTells ==
  ASSUME NEW id \in Identifiers, NEW region \in Words, NEW detail \in Details,
         NEW c, c = Cluster(id, region, detail), NEW terminal
  PROVE  RowOf(JsonCluster(c), c, terminal)
<1> DEFINE row == JsonCluster(c)
<1>1. /\ row.kind = "object" /\ row.id = c.id /\ row.status = status_value(c.status)
      /\ row.endpoint = c.endpoint /\ row.enrichment = enrichment_value(c.enrichment)
  BY DEF JsonCluster
<1> HIDE DEF row
<1>2. OrEmpty(c.endpoint) # <<>> <=> c.endpoint # <<>>
  BY ClusterTexts
<1>3. Tells(row, c)
  BY <1>1, <1>2, StatusWords DEF Tells, IdOf, EndpointOf, StatusOf, VerdictOf
<1> QED  BY <1>1, <1>3 DEF RowOf, row

\* A heading, if any, and then a row for each cluster.
Laid(lines, top, s, n, terminal) ==
  /\ top \in 0 .. 2 /\ DOMAIN lines = 1 .. top + n
  /\ \A i \in 1 .. top : lines[i].kind \notin {"cells", "object"}
  /\ \A i \in 1 .. n : RowOf(lines[top + i], s[i], terminal)

\* A heading before the rows.
LEMMA HeadedLines ==
  ASSUME NEW H, \A h \in H : h.kind \notin {"cells", "object"},
         NEW head \in Seq(H), Len(head) \in 0 .. 2,
         NEW n \in Nat, NEW rows, rows = [k \in 1 .. n |-> rows[k]], NEW s, NEW terminal,
         \A i \in 1 .. n : RowOf(rows[i], s[i], terminal)
  PROVE  Laid(head \o rows, Len(head), s, n, terminal)
<1> DEFINE X == H \cup {rows[k] : k \in 1 .. n}
           m == Len(head)
           lines == head \o rows
<1>1. rows \in Seq(X) /\ Len(rows) = n
  <2>1. \A k \in 1 .. n : rows[k] \in X
    OBVIOUS
  <2> HIDE DEF X
  <2> QED  BY <2>1
<1>2. head \in Seq(X) /\ \A i \in 1 .. m : head[i] \in H
  <2>1. H \subseteq X
    OBVIOUS
  <2> HIDE DEF X
  <2> QED  BY <2>1, Wider
<1> HIDE DEF X
<1>3. lines \in Seq(X) /\ Follows(head, rows, lines)
  BY <1>1, <1>2, FollowsBoth, Zenon
<1> HIDE DEF lines
<1>4. DOMAIN lines = 1 .. m + n
  BY <1>1, <1>3 DEF Follows
<1>5. \A i \in 1 .. m : lines[i].kind \notin {"cells", "object"}
  BY <1>2, <1>3, Zenon DEF Follows
<1>6. \A i \in 1 .. n : RowOf(lines[m + i], s[i], terminal)
  BY <1>1, <1>3, Zenon DEF Follows
<1> QED  BY <1>4, <1>5, <1>6, Zenon DEF Laid, lines

\* Clusters as the inventory has them.
Clusters(s, n, region) ==
  /\ s = [k \in 1 .. n |-> s[k]]
  /\ \A k \in 1 .. n : \E id \in Identifiers, detail \in Details :
       s[k] = Cluster(id, region, detail)

\* Each format is a heading, if any, and a row for each cluster.
LEMMA RenderedLaid ==
  ASSUME NEW n \in Nat, NEW region \in Words, NEW s, Clusters(s, n, region),
         NEW format \in InventoryFormats, NEW terminal \in BOOLEAN
  PROVE  \E top : Laid(Rendered(s, format, terminal), top, s, n, terminal)
<1>1. /\ DOMAIN s = 1 .. n
      /\ \A k \in 1 .. n : \E id \in Identifiers, detail \in Details :
           s[k] = Cluster(id, region, detail)
  BY DEF Clusters
<1> DEFINE cells(escaped) == [k \in DOMAIN s |->
             [kind |-> "cells", cells |-> inventory_cells(s[k], escaped)]]
<1>2. ASSUME NEW escaped \in BOOLEAN, terminal => escaped
      PROVE  /\ cells(escaped) = [k \in 1 .. n |-> cells(escaped)[k]]
             /\ \A k \in 1 .. n : RowOf(cells(escaped)[k], s[k], terminal)
  <2>1. \A k \in 1 .. n :
          cells(escaped)[k] = [kind |-> "cells", cells |-> inventory_cells(s[k], escaped)]
    BY <1>1
  <2>2. cells(escaped) = [k \in 1 .. n |-> cells(escaped)[k]]
    BY <1>1
  <2> HIDE DEF cells
  <2>3. ASSUME NEW k \in 1 .. n PROVE RowOf(cells(escaped)[k], s[k], terminal)
    <3>1. PICK id \in Identifiers, detail \in Details : s[k] = Cluster(id, region, detail)
      BY <1>1
    <3>2. RowOf([kind |-> "cells", cells |-> inventory_cells(s[k], escaped)], s[k], terminal)
      BY <1>2, <3>1, CellsTell, Zenon
    <3> QED  BY <2>1, <3>2, Zenon
  <2> QED  BY <2>2, <2>3
<1> DEFINE H == {Header, Separators}
<1>3. /\ \A h \in H : h.kind \notin {"cells", "object"}
      /\ <<Header>> \in Seq(H) /\ Len(<<Header>>) \in 0 .. 2
      /\ <<Header, Separators>> \in Seq(H) /\ Len(<<Header, Separators>>) \in 0 .. 2
  BY DEF Header, Separators
<1>4. CASE format = "table"
  <2>1. Rendered(s, format, terminal) = <<Header, Separators>> \o cells(TRUE)
    BY <1>4, Zenon DEF Rendered, render_table, Cells
  <2> HIDE DEF cells, H
  <2>2. /\ cells(TRUE) = [k \in 1 .. n |-> cells(TRUE)[k]]
        /\ \A k \in 1 .. n : RowOf(cells(TRUE)[k], s[k], terminal)
    BY <1>2, Zenon
  <2>3. Laid(<<Header, Separators>> \o cells(TRUE), Len(<<Header, Separators>>), s, n, terminal)
    BY <1>3, <2>2, HeadedLines, Zenon
  <2> QED  BY <2>1, <2>3, Zenon
<1>5. CASE format = "delimited"
  <2>1. Rendered(s, format, terminal) = <<Header>> \o cells(terminal)
    BY <1>5, Zenon DEF Rendered, render_delimited, Cells
  <2> HIDE DEF cells, H
  <2>2. /\ cells(terminal) = [k \in 1 .. n |-> cells(terminal)[k]]
        /\ \A k \in 1 .. n : RowOf(cells(terminal)[k], s[k], terminal)
    BY <1>2, Zenon
  <2>3. Laid(<<Header>> \o cells(terminal), Len(<<Header>>), s, n, terminal)
    BY <1>3, <2>2, HeadedLines, Zenon
  <2> QED  BY <2>1, <2>3, Zenon
<1>6. CASE format = "jsonl"
  <2> DEFINE rows == [k \in DOMAIN s |-> JsonCluster(s[k])]
  <2>1. Rendered(s, format, terminal) = rows
    BY <1>6, Zenon DEF Rendered, render_jsonl
  <2>2. DOMAIN rows = 1 .. 0 + n /\ \A k \in 1 .. n : rows[0 + k] = JsonCluster(s[k])
    BY <1>1
  <2> HIDE DEF rows
  <2>3. ASSUME NEW k \in 1 .. n PROVE RowOf(rows[0 + k], s[k], terminal)
    <3>1. PICK id \in Identifiers, detail \in Details : s[k] = Cluster(id, region, detail)
      BY <1>1
    <3>2. RowOf(JsonCluster(s[k]), s[k], terminal)
      BY <3>1, ObjectTells, Zenon
    <3> QED  BY <2>2, <3>2, Zenon
  <2>4. Laid(rows, 0, s, n, terminal)
    <3>1. 0 \in 0 .. 2 /\ \A i \in 1 .. 0 : rows[i].kind \notin {"cells", "object"}
      OBVIOUS
    <3> QED  BY <2>2, <2>3, <3>1, Zenon DEF Laid
  <2> QED  BY <2>1, <2>4, Zenon
<1> QED  BY <1>4, <1>5, <1>6 DEF InventoryFormats

\* The clusters in the order of their identifiers: a rearrangement of the inventory.
Arranged(s, n, order) ==
  /\ order \in [1 .. n -> 1 .. n]
  /\ \A i, j \in 1 .. n : order[i] = order[j] => i = j
  /\ \A k \in 1 .. n : \E i \in 1 .. n : order[i] = k
  /\ DOMAIN s = 1 .. n /\ \A i \in 1 .. n : s[i] = inventory[order[i]]
  /\ \A i, j \in 1 .. n : i < j => Rank[s[i].id[1]] <= Rank[s[j].id[1]]

\* What is sorted is the inventory, in another order.
LEMMA SortedArranged ==
  ASSUME NEW n \in Nat, DOMAIN inventory = 1 .. n, NEW s \in Sorted(inventory)
  PROVE  /\ \E order : Arranged(s, n, order)
         /\ s = [k \in 1 .. n |-> s[k]]
<1> DEFINE rows == 1 .. n
<1>1. /\ s \in {[k \in rows |-> inventory[order[k]]] : order \in Bijection(rows, rows)}
      /\ \A i, j \in rows : i < j => Rank[s[i].id[1]] <= Rank[s[j].id[1]]
  BY DEF Sorted
<1>2. PICK order \in Bijection(rows, rows) : s = [k \in rows |-> inventory[order[k]]]
  BY <1>1
<1>3. /\ order \in [rows -> rows] /\ \A i, j \in rows : order[i] = order[j] => i = j
      /\ \A k \in rows : \E i \in rows : order[i] = k
  BY DEF Bijection, Injection, Surjection, IsInjective
<1>4. DOMAIN s = rows /\ \A i \in rows : s[i] = inventory[order[i]]
  BY <1>2
<1>5. s = [k \in rows |-> s[k]]
  BY <1>2
<1> QED  BY <1>1, <1>3, <1>4, <1>5, Zenon DEF Arranged

\* What the lines of an inventory come to.
ShowsAll(lines, s, n, terminal) ==
  /\ Cardinality(RowsOf(lines)) = n
  /\ \A i, j \in RowsOf(lines) : i < j => Rank[IdOf(lines[i])[1]] < Rank[IdOf(lines[j])[1]]
  /\ \A k \in 1 .. n : \E i \in RowsOf(lines) : RowOf(lines[i], inventory[k], terminal)
  /\ \A i \in RowsOf(lines) : \E k \in 1 .. n : RowOf(lines[i], s[k], terminal)

LEMMA LaidIsWhole ==
  ASSUME NEW n \in Nat, NEW lines, NEW top, NEW s, NEW terminal, NEW order,
         Laid(lines, top, s, n, terminal), Arranged(s, n, order),
         account \in Seq(Identifiers), IsInjective(account), Len(account) = n,
         \A k \in 1 .. n : inventory[k].id = <<account[k]>>
  PROVE  ShowsAll(lines, s, n, terminal)
<1>1. /\ top \in 0 .. 2 /\ DOMAIN lines = 1 .. top + n
      /\ \A i \in 1 .. top : lines[i].kind \notin {"cells", "object"}
      /\ \A i \in 1 .. n : RowOf(lines[top + i], s[i], terminal)
  BY Zenon DEF Laid
<1>2. /\ order \in [1 .. n -> 1 .. n]
      /\ \A i, j \in 1 .. n : order[i] = order[j] => i = j
      /\ \A k \in 1 .. n : \E i \in 1 .. n : order[i] = k
      /\ \A i \in 1 .. n : s[i] = inventory[order[i]]
      /\ \A i, j \in 1 .. n : i < j => Rank[s[i].id[1]] <= Rank[s[j].id[1]]
  BY Zenon DEF Arranged
<1>3. /\ \A i \in 1 .. n : lines[top + i].kind \in {"cells", "object"}
                           /\ IdOf(lines[top + i]) = s[i].id
  BY <1>1, Zenon DEF RowOf, Tells
<1>4. ASSUME NEW i \in RowsOf(lines)
      PROVE  i - top \in 1 .. n /\ top + (i - top) = i
  <2>1. i \in 1 .. top + n /\ lines[i].kind \in {"cells", "object"}
    BY <1>1, Zenon DEF RowsOf
  <2>2. i \notin 1 .. top
    BY <1>1, <2>1, Zenon
  <2> QED  BY <1>1, <2>1, <2>2
<1>5. ASSUME NEW i \in 1 .. n PROVE top + i \in RowsOf(lines)
  <2>1. top + i \in 1 .. top + n
    BY <1>1
  <2> QED  BY <1>1, <1>3, <2>1, Zenon DEF RowsOf
<1>6. Cardinality(RowsOf(lines)) = n
  <2> DEFINE a == top + 1
             b == top + n
  <2>1. RowsOf(lines) = a .. b
    <3>1. ASSUME NEW i \in RowsOf(lines) PROVE i \in a .. b
      BY <1>1, <1>4
    <3>2. ASSUME NEW i \in a .. b PROVE i \in RowsOf(lines)
      <4>1. i - top \in 1 .. n /\ top + (i - top) = i
        BY <1>1
      <4> QED  BY <1>5, <4>1
    <3> QED  BY <3>1, <3>2
  <2>2. /\ a \in Int /\ b \in Int
        /\ (IF a > b THEN 0 ELSE b - a + 1) = n
    BY <1>1
  <2> HIDE DEF a, b
  <2>3. Cardinality(a .. b) = IF a > b THEN 0 ELSE b - a + 1
    BY <2>2, FS_Interval, Zenon
  <2> QED  BY <2>1, <2>2, <2>3, Zenon
<1>7. ASSUME NEW i \in 1 .. n
      PROVE  /\ s[i].id[1] = account[order[i]] /\ account[order[i]] \in Identifiers
             /\ Rank[account[order[i]]] \in Nat
  <2>1. order[i] \in 1 .. n /\ s[i] = inventory[order[i]]
    BY <1>2
  <2>2. s[i].id = <<account[order[i]]>> /\ account[order[i]] \in Identifiers
    BY <2>1
  <2>3. Rank[account[order[i]]] \in Nat
    BY <2>2, DiscoveryAssumption
  <2> QED  BY <2>2, <2>3
<1>8. ASSUME NEW i \in 1 .. n, NEW j \in 1 .. n, i < j
      PROVE  Rank[s[i].id[1]] < Rank[s[j].id[1]]
  <2>1. order[i] # order[j] /\ order[i] \in 1 .. n /\ order[j] \in 1 .. n
    BY <1>2, <1>8
  <2>2. account[order[i]] # account[order[j]]
    BY <2>1 DEF IsInjective
  <2>3. Rank[account[order[i]]] # Rank[account[order[j]]]
    BY <1>7, <2>2, DiscoveryAssumption DEF IsInjective
  <2>4. Rank[s[i].id[1]] <= Rank[s[j].id[1]]
    BY <1>2, <1>8
  <2> QED  BY <1>7, <2>3, <2>4
<1>9. ASSUME NEW i \in RowsOf(lines), NEW j \in RowsOf(lines), i < j
      PROVE  Rank[IdOf(lines[i])[1]] < Rank[IdOf(lines[j])[1]]
  <2>1. /\ i - top \in 1 .. n /\ top + (i - top) = i
        /\ j - top \in 1 .. n /\ top + (j - top) = j
    BY <1>4
  <2>2. i - top < j - top
    <3>1. i \in Int /\ j \in Int /\ top \in Int
      BY <1>1, <2>1 DEF RowsOf
    <3> QED  BY <1>9, <3>1
  <2>3. IdOf(lines[i]) = s[i - top].id /\ IdOf(lines[j]) = s[j - top].id
    BY <1>3, <2>1, Zenon
  <2> QED  BY <1>8, <2>1, <2>2, <2>3, Zenon
<1>10. ASSUME NEW k \in 1 .. n
       PROVE  \E i \in RowsOf(lines) : RowOf(lines[i], inventory[k], terminal)
  <2>1. PICK i \in 1 .. n : order[i] = k
    BY <1>2
  <2>2. RowOf(lines[top + i], inventory[k], terminal)
    BY <1>1, <1>2, <2>1, Zenon
  <2> QED  BY <1>5, <2>2
<1>11. ASSUME NEW i \in RowsOf(lines)
       PROVE  \E k \in 1 .. n : RowOf(lines[i], s[k], terminal)
  <2>1. i - top \in 1 .. n /\ top + (i - top) = i
    BY <1>4
  <2> QED  BY <1>1, <2>1, Zenon
<1> QED  BY <1>6, <1>9, <1>10, <1>11, Zenon DEF ShowsAll

-----------------------------------------------------------------------------
(***************************************************************************)
(* From the inventory to what is shown of it.                              *)
(***************************************************************************)
\* The inventory that is shown is the one that was found; a listing that succeeds has
\* shown it.
Renders ==
  /\ stage = "done"
  /\ \E format \in InventoryFormats, terminal \in BOOLEAN :
       \E lines \in render_inventory(format, terminal) :
         shown = [lines |-> lines, terminal |-> terminal]

Rendering ==
  /\ shown = NotShown \/ Renders
  /\ Listing /\ exit.code = 0 => Renders
  /\ phase # "ended" => exit.code # 0
  /\ phase \in Early \cup {"discover"} => shown = NotShown

\* What does not touch the inventory.
KeepsShown ==
  /\ UNCHANGED <<stage, inventory, shown>>
  /\ \/ exit' = exit /\ phase' # "ended"
     \/ phase' = "ended" /\ (exit'.code # 0 \/ ~Listing)
  /\ phase' \in Early \cup {"discover"} => phase \in Early \cup {"discover"}

\* A step goes on to the next question or call, or ends the process with an error.
Continues ==
  \/ exit' = exit /\ phase' # "ended"
  \/ phase' = "ended" /\ exit'.code # 0

\* All steps before the session but the ones that end a listing.
LEMMA GoesOrFails ==
  /\ Fails("usage") => Continues
  /\ Fails("runtime") => Continues
  /\ \A next : next # "ended" /\ Goes(next) => Continues
BY DEF Fails, Exits, Goes, exit_code, Continues

\* A step that leaves the inventory alone.
LEMMA RenderingStays ==
  ASSUME Rendering, KeepsShown, Listing' <=> Listing, phase # "ended"
  PROVE  Rendering'
<1>1. \A format, terminal :
        render_inventory(format, terminal)' = render_inventory(format, terminal)
  BY DEF render_inventory, KeepsShown
<1>2. Renders => Renders'
  BY <1>1 DEF Renders, KeepsShown
<1>3. exit.code # 0
  BY DEF Rendering
<1>4. UNCHANGED shown
  BY DEF KeepsShown
<1>5. Listing' /\ exit'.code = 0 => FALSE
  BY <1>3 DEF KeepsShown
<1>6. phase' # "ended" => exit'.code # 0
  BY <1>3 DEF KeepsShown
<1>7. phase' \in Early \cup {"discover"} => shown' = NotShown
  BY <1>4 DEF KeepsShown, Rendering
<1>8. shown' = NotShown \/ Renders'
  BY <1>2, <1>4 DEF Rendering
<1> QED  BY <1>5, <1>6, <1>7, <1>8 DEF Rendering

\* A step that shows it.
LEMMA RenderingShown ==
  ASSUME stage = "done", NEW format \in InventoryFormats, NEW terminal \in BOOLEAN,
         NEW lines \in render_inventory(format, terminal),
         stage' = stage, inventory' = inventory,
         shown' = [lines |-> lines, terminal |-> terminal]
  PROVE  Renders'
<1>1. render_inventory(format, terminal)' = render_inventory(format, terminal)
  BY DEF render_inventory
<1> QED  BY <1>1 DEF Renders

\* No step shows anything but the whole inventory, and none that lists ends well
\* without it.
LEMMA RenderingNext ==
  ASSUME request \in Requests, Named, ListingInv, Rendering, [Next]_vars
  PROVE  Rendering'
<1>1. Listing' <=> Listing
  BY RequestStays
<1>2. CASE UNCHANGED vars
  BY <1>2 DEF vars, decided, discovery, Rendering, Renders, render_inventory, Listing
<1>3. CASE ListInventory
  <2>1. phase' = "ended" /\ UNCHANGED <<stage, inventory>> /\ phase = "discover"
    BY <1>3 DEF ListInventory, Fails, Exits, Finishes, Returned
  <2>2. CASE stage = "failed" /\ Fails("runtime") /\ UNCHANGED shown
    <3>1. KeepsShown
      BY <2>1, <2>2, Ends DEF KeepsShown, Early, Fails, Exits, exit_code
    <3> QED  BY <1>1, <2>1, <3>1, RenderingStays
  <2>3. CASE ~(stage = "failed" /\ Fails("runtime") /\ UNCHANGED shown)
    <3>1. PICK format \in InventoryFormats, terminal \in BOOLEAN :
            /\ stage = "done"
            /\ \E lines \in render_inventory(format, terminal) :
                 shown' = [lines |-> lines, terminal |-> terminal]
      BY <1>3, <2>3 DEF ListInventory
    <3>2. Renders'
      BY <2>1, <3>1, RenderingShown
    <3> QED  BY <2>1, <3>2 DEF Rendering, Early
  <2> QED  BY <2>2, <2>3
<1>4. CASE OfferInventory
  <2>1. /\ phase = "discover" /\ phase' \in {"manual", "select"} /\ UNCHANGED exit
        /\ UNCHANGED <<stage, inventory>>
    BY <1>4 DEF OfferInventory, Goes, Returned
  <2>2. CASE UNCHANGED shown
    <3>1. KeepsShown
      BY <2>1, <2>2 DEF KeepsShown, Early
    <3> QED  BY <1>1, <2>1, <3>1, RenderingStays
  <2>3. CASE ~UNCHANGED shown
    <3>1. /\ stage = "done"
          /\ \E lines \in render_inventory("table", TRUE) :
               shown' = [lines |-> lines, terminal |-> TRUE]
      BY <1>4, <2>3 DEF OfferInventory
    <3>2. Renders'
      BY <2>1, <3>1, RenderingShown DEF InventoryFormats
    <3>3. exit'.code # 0
      BY <2>1 DEF Rendering
    <3> QED  BY <2>1, <3>2, <3>3 DEF Rendering, Early
  <2> QED  BY <2>2, <2>3
<1>5. CASE ResolveIdentity \/ Discover
  <2>1. /\ phase \in Early \cup {"discover"} /\ UNCHANGED <<exit, shown>>
        /\ phase' \in {"target", "discover"}
    BY <1>5 DEF ResolveIdentity, Discover, Goes, Early
  <2>2. shown = NotShown /\ exit.code # 0
    BY <2>1 DEF Rendering, Early
  <2> QED  BY <2>1, <2>2 DEF Rendering
<1>6. CASE EnterShell
  <2>1. shown' = NotShown /\ phase' = "session" /\ UNCHANGED exit /\ phase # "ended"
    BY <1>6 DEF EnterShell, Goes
  <2> QED  BY <2>1 DEF Rendering
<1>7. CASE Begin \/ Configure \/ Asking
  <2>1. UNCHANGED <<stage, inventory, shown>> /\ phase # "ended"
    BY <1>7 DEF Begin, Configure, Asking, Ask, discovery
  <2>2. Continues
    <3>1. CASE Begin
      <4>1. request.command = "clusters" \/ request.command = "preview"
        BY DEF Requests
      <4>2. Fails("usage") \/ Goes("configure")
        BY <3>1, <4>1 DEF Begin
      <4> QED  BY <4>2, GoesOrFails
    <3>2. CASE Configure
      <4>1. config'.verdict \in {"usage", "ask", "resolved"}
        BY <3>2, Configured
      <4>2. \/ Fails("usage") \/ Goes("ask region") \/ Goes("target") \/ Goes("identity")
        BY <3>2, <4>1 DEF Configure
      <4> QED  BY <4>2, GoesOrFails
    <3>3. CASE Asking
      <4>1. \/ Fails("usage") \/ Fails("runtime") \/ Goes("identity") \/ Goes("chosen")
            \/ Goes("confirmed") \/ Goes("select") \/ Goes("target") \/ Goes("connect")
            \/ Goes("role name")
        BY <3>3 DEF Asking, Ask
      <4> QED  BY <4>1, GoesOrFails
    <3> QED  BY <1>7, <3>1, <3>2, <3>3
  <2>3. phase' \in Early \cup {"discover"} => phase \in Early \cup {"discover"}
    BY <1>7 DEF Begin, Configure, Asking, Ask, Fails, Exits, Goes, Early
  <2>4. KeepsShown
    BY <2>1, <2>2, <2>3 DEF KeepsShown, Continues
  <2> QED  BY <1>1, <2>1, <2>4, RenderingStays
<1>8. CASE SelectTarget \/ UseSelector \/ ChooseRole \/ Connect \/ ReadRoots \/ Dial
  <2>1. UNCHANGED <<stage, inventory, shown>> /\ phase # "ended"
    BY <1>8 DEF SelectTarget, SelectDiscovered, UseSelector, ChooseRole, Connect, ReadRoots,
      Dial, discovery
  <2>2. Continues
    <3>1. CASE SelectTarget
      <4>1. \/ Fails("usage") \/ Goes("choose role") \/ Goes("confirm") \/ Goes("select")
        BY <3>1 DEF SelectTarget, SelectDiscovered
      <4> QED  BY <4>1, GoesOrFails
    <3>2. CASE UseSelector
      <4>1. Fails("usage") \/ Goes("connect") \/ Goes("choose role")
        BY <3>2 DEF UseSelector
      <4> QED  BY <4>1, GoesOrFails
    <3>3. CASE ChooseRole
      <4>1. Fails("usage") \/ Goes("role") \/ Goes("connect")
        BY <3>3 DEF ChooseRole
      <4> QED  BY <4>1, GoesOrFails
    <3>4. CASE Connect \/ ReadRoots \/ Dial
      <4>1. \/ Fails("runtime") \/ Goes("read roots") \/ Goes("dial") \/ Goes("connected")
        BY <3>4 DEF Connect, ReadRoots, Dial
      <4> QED  BY <4>1, GoesOrFails
    <3> QED  BY <1>8, <3>1, <3>2, <3>3, <3>4
  <2>3. phase' \notin Early \cup {"discover"}
    BY <1>8 DEF SelectTarget, SelectDiscovered, UseSelector, ChooseRole, Connect, ReadRoots,
      Dial, Fails, Exits, Goes, Early
  <2>4. KeepsShown
    BY <2>1, <2>2, <2>3 DEF KeepsShown, Continues
  <2> QED  BY <1>1, <2>1, <2>4, RenderingStays
<1>9. CASE RunInput \/ EditLine \/ LeaveShell \/ ServerSays
  <2>1. UNCHANGED <<stage, inventory, shown>> /\ phase \in {"connected", "session"}
    BY <1>9 DEF RunInput, EditLine, LeaveShell, ServerSays, inSession, Shell, discovery
  <2>2. ~Listing
    BY <2>1 DEF ListingInv
  <2>3. /\ \/ exit' = exit /\ phase' # "ended"
           \/ phase' = "ended"
        /\ phase' \in {"connected", "session", "ended"}
    BY <1>9 DEF RunInput, EditLine, LeaveShell, ServerSays, inSession, Exits, Fails, Finishes
  <2>4. KeepsShown
    BY <2>1, <2>2, <2>3 DEF KeepsShown, Early
  <2> QED  BY <1>1, <2>1, <2>4, RenderingStays
<1>10. CASE OutputFails
  <2>1. UNCHANGED <<stage, inventory, shown>> /\ phase # "ended" /\ phase' = "ended"
    BY <1>10 DEF OutputFails, Exits, discovery
  <2>2. exit'.code # 0
    BY <1>10 DEF OutputFails, Exits, exit_code
  <2>3. KeepsShown
    BY <2>1, <2>2 DEF KeepsShown, Early
  <2> QED  BY <1>1, <2>1, <2>3, RenderingStays
<1> QED
  BY <1>2, <1>3, <1>4, <1>5, <1>6, <1>7, <1>8, <1>9, <1>10 DEF Next, Progress

\* Rows of a whole inventory in its order are what is promised of it.
LEMMA ShownIsWhole ==
  ASSUME Discovering, Picked, Rendering
  PROVE  InventoryIsWhole
<1> DEFINE lines == shown.lines
           rows == RowsOf(lines)
           n == Len(account)
<1>1. /\ account \in Seq(Identifiers) /\ IsInjective(account) /\ n \in Nat
      /\ DOMAIN account = 1 .. n
  BY DEF Discovering
<1>2. ASSUME stage = "done"
      PROVE  /\ config.region \in Words /\ DOMAIN inventory = 1 .. n
             /\ inventory = [k \in 1 .. n |-> inventory[k]]
             /\ \A k \in 1 .. n : \E detail \in Details :
                  inventory[k] = Cluster(account[k], config.region, detail)
             /\ \A k \in DOMAIN enriched :
                  inventory[enriched[k].index] =
                    Cluster(account[enriched[k].index], config.region, enriched[k].detail)
  BY <1>1, <1>2 DEF Picked, Whole, Words
<1>3. ASSUME stage = "done" PROVE Len(inventory) = Len(account)
  BY <1>1, <1>2, <1>3
<1>4. ASSUME Renders
      PROVE  /\ stage = "done" /\ Cardinality(rows) = n
             /\ \A i, j \in rows : i < j => Rank[IdOf(lines[i])[1]] < Rank[IdOf(lines[j])[1]]
             /\ \A k \in 1 .. n : \E i \in rows : Tells(lines[i], inventory[k])
             /\ shown.terminal => \A i \in rows : lines[i].kind = "cells" =>
                  \A k \in DOMAIN lines[i].cells : ~Unescaped(lines[i].cells[k])
  <2>1. PICK format \in InventoryFormats, terminal \in BOOLEAN :
          /\ stage = "done"
          /\ \E text \in render_inventory(format, terminal) :
               shown = [lines |-> text, terminal |-> terminal]
    BY <1>4 DEF Renders
  <2>2. PICK s \in Sorted(inventory) : shown = [lines |-> Rendered(s, format, terminal),
                                                terminal |-> terminal]
    BY <2>1 DEF render_inventory
  <2>3. lines = Rendered(s, format, terminal) /\ shown.terminal = terminal
    BY <2>2
  <2> HIDE DEF lines, n
  <2>4. PICK order : Arranged(s, n, order)
    BY <1>1, <1>2, <2>1, SortedArranged, Zenon
  <2>5. s = [k \in 1 .. n |-> s[k]]
    BY <1>1, <1>2, <2>1, SortedArranged, Zenon
  <2>6. \A k \in 1 .. n : \E id \in Identifiers, detail \in Details :
          s[k] = Cluster(id, config.region, detail)
    <3>1. ASSUME NEW k \in 1 .. n
          PROVE  \E id \in Identifiers, detail \in Details :
                   s[k] = Cluster(id, config.region, detail)
      <4>1. order[k] \in 1 .. n /\ s[k] = inventory[order[k]]
        BY <2>4 DEF Arranged
      <4>2. account[order[k]] \in Identifiers
        BY <1>1, <4>1
      <4> QED  BY <1>2, <2>1, <4>1, <4>2
    <3> QED  BY <3>1
  <2>7. Clusters(s, n, config.region)
    BY <2>5, <2>6, Zenon DEF Clusters
  <2>8. PICK top : Laid(lines, top, s, n, terminal)
    BY <1>1, <1>2, <2>1, <2>3, <2>7, RenderedLaid, Zenon
  <2>9. \A k \in 1 .. n : inventory[k].id = <<account[k]>>
    <3>1. ASSUME NEW k \in 1 .. n
          PROVE  inventory[k].id = <<account[k]>>
      <4>1. PICK detail \in Details : inventory[k] = Cluster(account[k], config.region, detail)
        BY <1>2, <2>1, <3>1
      <4> QED  BY <4>1 DEF Cluster
    <3> QED  BY <3>1
  <2>10. Len(account) = n
    BY DEF n
  <2>11. ShowsAll(lines, s, n, terminal)
    BY <1>1, <2>4, <2>8, <2>9, <2>10, LaidIsWhole, ZenonT(40)
  <2> QED  BY <2>1, <2>3, <2>11, Zenon DEF RowOf, ShowsAll
<1>5. CASE Renders
  <2>1. /\ stage = "done" /\ Cardinality(rows) = Len(account)
        /\ \A i, j \in rows : i < j => Rank[IdOf(lines[i])[1]] < Rank[IdOf(lines[j])[1]]
    BY <1>4, <1>5
  <2>2. \A k \in DOMAIN inventory : \E i \in rows : Tells(lines[i], inventory[k])
    BY <1>2, <1>4, <1>5, Zenon
  <2>3. shown.terminal => \A i \in rows : lines[i].kind = "cells" =>
          \A k \in DOMAIN lines[i].cells : ~Unescaped(lines[i].cells[k])
    BY <1>4, <1>5, Zenon
  <2> QED  BY <1>2, <1>3, <2>1, <2>2, <2>3, Zenon DEF InventoryIsWhole, Tells, Unescaped
<1>6. CASE ~Renders
  <2>1. shown = NotShown /\ ~(Listing /\ exit.code = 0)
    BY <1>6 DEF Rendering
  <2>2. rows = {}
    BY <2>1 DEF RowsOf, NotShown
  <2> HIDE DEF rows
  <2>3. shown.lines = lines
    OBVIOUS
  <2> QED  BY <1>2, <1>3, <2>1, <2>2 DEF InventoryIsWhole, Listing, rows
<1> QED  BY <1>5, <1>6

\* The inventory in memory is whole, and what is shown is made of it.
ShownInv == UnattendedInv /\ AimInv /\ Rendering

\* docs/cli.md:27: `clusters`, and the prompt, list an inventory of any size, from any
\* order of pages and details, as a whole and in the order of the identifiers, with no
\* status or endpoint that is not known, and with no control character on a terminal.
THEOREM InventoriesAreWhole == Spec => []InventoryIsWhole
<1>1. Init => ShownInv
  <2>1. Init => Rendering
    <3>1. Running.code # 0
      BY DEF Running
    <3>2. Init => shown = NotShown /\ exit = Running
      BY DEF Init
    <3> QED  BY <3>1, <3>2 DEF Rendering
  <2> QED  BY <2>1, InvInit, AimInit DEF ShownInv
<1>2. ShownInv /\ [Next]_vars => ShownInv'
  <2> SUFFICES ASSUME ShownInv, [Next]_vars PROVE ShownInv'
    OBVIOUS
  <2>1. UnattendedInv /\ AimInv /\ Rendering
    BY DEF ShownInv
  <2>2. Rendering'
    BY <2>1, RenderingNext DEF UnattendedInv, AimInv
  <2> QED  BY <2>1, <2>2, InvNext, AimNext DEF ShownInv
<1>3. ShownInv => InventoryIsWhole
  BY ShownIsWhole DEF ShownInv, AimInv
<1> QED  BY <1>1, <1>2, <1>3, PTL DEF Spec

-----------------------------------------------------------------------------
(***************************************************************************)
(* The names of secrets in a text, and what separates them from their values.*)
(***************************************************************************)
\* The first place from i on that is in S, or the one after the end.
IsFirst(j, i, n, S) ==
  j \in i .. n + 1 /\ (j <= n => j \in S) /\ \A k \in i .. j - 1 : k \notin S

\* There is such a place, and nothing in S before it.
LEMMA FirstIs ==
  ASSUME NEW n \in Nat, NEW i \in 1 .. n + 1, NEW S
  PROVE  \E j : IsFirst(j, i, n, S)
<1> DEFINE T == {j \in i .. n + 1 : j = n + 1 \/ j \in S}
<1>1. T \subseteq Nat /\ n + 1 \in T
  OBVIOUS
<1>2. PICK j \in T : \A m \in T : j <= m
  BY <1>1, Least
<1>3. ASSUME NEW k \in i .. j - 1, k \in S
      PROVE  FALSE
  <2>1. k \in T /\ k < j
    BY <1>1, <1>2, <1>3
  <2> QED  BY <1>1, <1>2, <2>1
<1>4. IsFirst(j, i, n, S)
  BY <1>2, <1>3 DEF IsFirst
<1> QED  BY <1>4

\* What Skip finds.
LEMMA SkipIs ==
  ASSUME NEW text, NEW n \in Nat, Len(text) = n, NEW i \in 1 .. n + 1, NEW M
  PROVE  LET j == Skip(text, i, M) IN
           /\ j \in i .. n + 1 /\ (j <= n => text[j] \notin M)
           /\ \A k \in i .. j - 1 : text[k] \in M
<1> DEFINE S == {k \in i .. n : text[k] \notin M}
           P(j) == /\ j <= Len(text) => text[j] \notin M
                   /\ \A k \in i .. j - 1 : text[k] \in M
<1>1. PICK j : IsFirst(j, i, n, S)
  BY FirstIs
<1>2. j \in i .. Len(text) + 1 /\ P(j)
  BY <1>1 DEF IsFirst
<1>3. Skip(text, i, M) = CHOOSE k \in i .. Len(text) + 1 : P(k)
  BY DEF Skip
<1> HIDE DEF P
<1>4. Skip(text, i, M) \in i .. Len(text) + 1 /\ P(Skip(text, i, M))
  BY <1>2, <1>3
<1> QED  BY <1>4 DEF P

\* Where a name begins and its separator is.
LEMMA SeparatorIs ==
  ASSUME NEW text, NEW n \in Nat, Len(text) = n, DOMAIN text = 1 .. n, NEW i \in 1 .. n,
         separatorOf(text, i) # 0
  PROVE  LET end == Skip(text, i, KeyBytes)
             separator == separatorOf(text, i)
         IN /\ separator \in i + 1 .. n /\ text[separator] \in {"=", ":"} /\ end <= separator
            /\ \/ separator = end
               \/ i > 1 /\ end < separator /\ text[end] \in Quotes
                  /\ \A k \in end + 1 .. separator - 1 : text[k] \in Blanks
<1> DEFINE end == Skip(text, i, KeyBytes)
           quoted == i > 1 /\ At(text, i - 1) \in Quotes /\ At(text, end) = At(text, i - 1)
           separator == IF quoted THEN Skip(text, end + 1, Blanks) ELSE end
<1>1. separatorOf(text, i) = separator /\ separator # i /\ At(text, separator) \in {"=", ":"}
  BY DEF separatorOf
<1>2. end \in i .. n + 1
  BY SkipIs
<1>3. "" \notin Quotes /\ "" \notin {"=", ":"}
  BY Zenon DEF Quotes
<1> HIDE DEF end
<1>4. \A k : At(text, k) # "" => k \in 1 .. n /\ At(text, k) = text[k]
  BY DEF At
<1>5. CASE quoted
  <2>1. end \in 1 .. n /\ text[end] \in Quotes /\ i > 1
    BY <1>3, <1>4, <1>5
  <2>2. separator = Skip(text, end + 1, Blanks)
    BY <1>5
  <2>3. /\ separator \in end + 1 .. n + 1
        /\ \A k \in end + 1 .. separator - 1 : text[k] \in Blanks
    BY <2>1, <2>2, SkipIs
  <2> HIDE DEF separator, quoted
  <2>4. separator \in 1 .. n /\ text[separator] \in {"=", ":"}
    BY <1>1, <1>3, <1>4
  <2> QED  BY <1>1, <1>2, <2>1, <2>3, <2>4 DEF end
<1>6. CASE ~quoted
  <2>1. separator = end
    BY <1>6
  <2> HIDE DEF separator, quoted
  <2>2. separator \in 1 .. n /\ text[separator] \in {"=", ":"}
    BY <1>1, <1>3, <1>4
  <2> QED  BY <1>1, <1>2, <2>1, <2>2 DEF end
<1> QED  BY <1>5, <1>6

-----------------------------------------------------------------------------
(***************************************************************************)
(* Where the value of a secret ends.                                       *)
(***************************************************************************)
\* Where a quoted value ends.
EndOf(text, quote, f, n) ==
  f = [j \in 1 .. n + 2 |->
         CASE j > n -> 0
           [] j <= n /\ text[j] = "\\" -> f[j + 2]
           [] j <= n /\ text[j] = quote -> j + 1
           [] OTHER -> f[j + 1]]

\* There is such a function of the places.
LEMMA EndSome ==
  ASSUME NEW text, NEW n \in Nat, NEW quote, quote # "\\"
  PROVE  \E f : EndOf(text, quote, f, n)
<1> DEFINE next == [j \in 1 .. n |-> IF text[j] = "\\" THEN j + 2 ELSE j + 1]
           step == [p \in (1 .. n) \X Nat |->
                      IF text[p[1]] # "\\" /\ text[p[1]] = quote THEN p[1] + 1 ELSE p[2]]
<1>1. next \in [1 .. n -> 1 .. n + 2] /\ \A j \in 1 .. n : next[j] > j
  OBVIOUS
<1>2. step \in [(1 .. n) \X Nat -> Nat]
  OBVIOUS
<1>3. /\ \A j \in 1 .. n : next[j] = IF text[j] = "\\" THEN j + 2 ELSE j + 1
      /\ \A j \in 1 .. n, x \in Nat :
           step[<<j, x>>] = IF text[j] # "\\" /\ text[j] = quote THEN j + 1 ELSE x
  OBVIOUS
<1> HIDE DEF next, step
<1>4. PICK f \in [1 .. n + 2 -> Nat] : Ahead(step, next, 0, f, n)
  <2> DEFINE m == n + 2
  <2>1. m \in Nat /\ n <= m /\ 0 \in Nat /\ next \in [1 .. n -> 1 .. m]
    BY <1>1
  <2> HIDE DEF m
  <2>2. \E f \in [1 .. m -> Nat] : Ahead(step, next, 0, f, n)
    BY <1>1, <1>2, <2>1, AheadSome
  <2> QED  BY <2>2 DEF m
<1>5. ASSUME NEW j \in 1 .. n + 2
      PROVE  f[j] = CASE j > n -> 0
                      [] j <= n /\ text[j] = "\\" -> f[j + 2]
                      [] j <= n /\ text[j] = quote -> j + 1
                      [] OTHER -> f[j + 1]
  <2>1. f[j] = IF j <= n THEN step[<<j, f[next[j]]>>] ELSE 0
    BY <1>4 DEF Ahead
  <2>2. CASE j > n
    BY <2>1, <2>2
  <2>3. CASE j <= n /\ text[j] = "\\"
    BY <1>1, <1>3, <1>4, <2>1, <2>3
  <2>4. CASE j <= n /\ text[j] # "\\"
    BY <1>1, <1>3, <1>4, <2>1, <2>4
  <2> QED  BY <2>2, <2>3, <2>4
<1>6. EndOf(text, quote, f, n)
  BY <1>4, <1>5 DEF EndOf
<1> QED  BY <1>6

\* A quotation ends after a closing quote, or has no end.
LEMMA EndIs ==
  ASSUME NEW text, NEW n \in Nat, NEW quote, NEW f, EndOf(text, quote, f, n)
  PROVE  \A j \in 1 .. n + 2 : f[j] = 0 \/ f[j] \in j + 1 .. n + 1
<1> DEFINE S == {j \in 1 .. n + 2 : f[j] = 0 \/ f[j] \in j + 1 .. n + 1}
<1>1. ASSUME NEW j \in 1 .. n + 2, \A k \in j + 1 .. n + 2 : k \in S
      PROVE  j \in S
  <2>1. f[j] = CASE j > n -> 0
                 [] j <= n /\ text[j] = "\\" -> f[j + 2]
                 [] j <= n /\ text[j] = quote -> j + 1
                 [] OTHER -> f[j + 1]
    BY DEF EndOf
  <2>2. CASE j > n
    BY <2>1, <2>2
  <2>3. CASE j <= n
    <3>1. j + 1 \in S /\ j + 2 \in S
      BY <1>1, <2>3
    <3> QED  BY <2>1, <2>3, <3>1
  <2> QED  BY <2>2, <2>3
<1> DEFINE m == n + 2
<1>2. m \in Nat /\ \A j \in 1 .. m : (\A k \in j + 1 .. m : k \in S) => j \in S
  BY <1>1
<1> HIDE DEF S, m
<1>3. 1 .. m \subseteq S
  BY <1>2, BackInduction
<1> QED  BY <1>3 DEF S, m

\* What is not quoted has no such end; a quotation ends two places on or later, and an
\* ordinary word within it is not its end.
LEMMA QuotedEnd ==
  ASSUME NEW text, NEW n \in Nat, Len(text) = n, DOMAIN text = 1 .. n, NEW i \in 1 .. n + 1
  PROVE  LET start == Skip(text, i, Blanks)
             end == quoted_secret_value_end(text, i)
         IN /\ At(text, start) \notin Quotes => end = 0
            /\ end = 0 \/ end \in start + 2 .. n + 1
            /\ start + 1 <= n /\ text[start + 1] \notin Quotes \cup {"\\"} =>
                 end = 0 \/ end > start + 2
<1> DEFINE start == Skip(text, i, Blanks)
           f == CHOOSE f : f = [j \in 1 .. Len(text) + 2 |->
                  CASE j > Len(text) -> 0
                    [] j <= Len(text) /\ text[j] = "\\" -> f[j + 2]
                    [] j <= Len(text) /\ text[j] = text[start] -> j + 1
                    [] OTHER -> f[j + 1]]
<1>1. quoted_secret_value_end(text, i) = IF At(text, start) \in Quotes THEN f[start + 1] ELSE 0
  BY DEF quoted_secret_value_end
<1>2. start \in i .. n + 1
  BY SkipIs
<1> HIDE DEF start
<1>3. CASE At(text, start) \notin Quotes
  BY <1>1, <1>3 DEF start
<1>4. CASE At(text, start) \in Quotes
  <2>1. start <= n /\ text[start] \in Quotes
    <3>1. "" \notin Quotes
      BY Zenon DEF Quotes
    <3>2. start \in DOMAIN text
      BY <1>4, <3>1, Zenon DEF At
    <3>3. At(text, start) = text[start]
      BY <3>2, Zenon DEF At
    <3> QED  BY <1>2, <1>4, <3>2, <3>3
  <2>2. text[start] # "\\"
    <3>1. "\\" \notin Quotes
      BY Zenon DEF Quotes
    <3> QED  BY <2>1, <3>1, Zenon
  <2>3. EndOf(text, text[start], f, n)
    <3> DEFINE P(g) == EndOf(text, text[start], g, Len(text))
    <3>1. f = CHOOSE g : P(g)
      BY DEF EndOf
    <3>2. \E g : P(g)
      BY <2>2, EndSome
    <3> HIDE DEF f, P
    <3>3. P(f)
      BY <3>1, <3>2, Zenon
    <3> QED  BY <3>3 DEF P
  <2> HIDE DEF f
  <2>4. \A j \in 1 .. n + 2 : f[j] = 0 \/ f[j] \in j + 1 .. n + 1
    BY <2>3, EndIs
  <2>5. start + 1 \in 1 .. n + 2 /\ start + 2 \in 1 .. n + 2
    BY <1>2, <2>1
  <2>6. ASSUME start + 1 <= n, text[start + 1] \notin Quotes \cup {"\\"}
        PROVE  f[start + 1] = f[start + 2]
    <3>1. f[start + 1] = CASE start + 1 > n -> 0
                 [] start + 1 <= n /\ text[start + 1] = "\\" -> f[start + 1 + 2]
                 [] start + 1 <= n /\ text[start + 1] = text[start] -> start + 1 + 1
                 [] OTHER -> f[start + 1 + 1]
      BY <2>3, <2>5 DEF EndOf
    <3>2. text[start + 1] # "\\" /\ text[start + 1] # text[start]
      BY <2>1, <2>6, Zenon
    <3>3. start + 1 + 1 = start + 2 /\ ~(start + 1 > n)
      BY <1>2, <2>6
    <3> QED  BY <3>1, <3>2, <3>3
  <2>7. quoted_secret_value_end(text, i) = f[start + 1]
    BY <1>1, <1>4
  <2> DEFINE first == start + 1
             second == start + 2
  <2>8. /\ f[first] = 0 \/ f[first] \in first + 1 .. n + 1
        /\ f[second] = 0 \/ f[second] \in second + 1 .. n + 1
    BY <2>4, <2>5, Zenon
  <2>9. /\ f[first] = 0 \/ f[first] \in start + 2 .. n + 1
        /\ f[second] = 0 \/ f[second] > start + 2
    <3>1. first + 1 = start + 2 /\ second + 1 > start + 2 /\ second \in Nat
      BY <1>2
    <3> HIDE DEF first, second
    <3> QED  BY <1>2, <2>8, <3>1
  <2> QED  BY <1>4, <2>6, <2>7, <2>9 DEF start
<1> QED  BY <1>3, <1>4

\* What ends a value that is not quoted.
Enders == Blanks \cup {"&", ";", ",", "\n"}

\* The first place of a mark from i on.
UpToMark(text, i, Stops) ==
  CHOOSE j \in i .. Len(text) + 1 :
    /\ j <= Len(text) => text[j] \in Stops
    /\ \A k \in i .. j - 1 : text[k] \notin Stops

\* There is such a place, and no mark before it.
LEMMA UpToIs ==
  ASSUME NEW text, NEW n \in Nat, Len(text) = n, NEW i \in 1 .. n + 1, NEW Stops
  PROVE  LET j == UpToMark(text, i, Stops) IN
           /\ j \in i .. n + 1 /\ (j <= n => text[j] \in Stops)
           /\ \A k \in i .. j - 1 : text[k] \notin Stops
<1> DEFINE S == {k \in i .. n : text[k] \in Stops}
           P(j) == /\ j <= Len(text) => text[j] \in Stops
                   /\ \A k \in i .. j - 1 : text[k] \notin Stops
<1>1. PICK j : IsFirst(j, i, n, S)
  BY FirstIs
<1>2. j \in i .. Len(text) + 1 /\ P(j)
  BY <1>1 DEF IsFirst
<1>3. UpToMark(text, i, Stops) = CHOOSE k \in i .. Len(text) + 1 : P(k)
  BY DEF UpToMark
<1> HIDE DEF P
<1>4. UpToMark(text, i, Stops) \in i .. Len(text) + 1 /\ P(UpToMark(text, i, Stops))
  BY <1>2, <1>3
<1> QED  BY <1>4 DEF P

\* Where a value ends.
LEMMA SecretEnd ==
  ASSUME NEW text, NEW n \in Nat, Len(text) = n, DOMAIN text = 1 .. n,
         NEW separator \in 1 .. n, text[separator] \in {"=", ":"}
  PROVE  LET i == separator + 1
             start == Skip(text, i, Blanks)
             quoted == quoted_secret_value_end(text, i)
             end == secret_value_end(text, separator)
         IN /\ end \in i .. n + 1
            /\ quoted # 0 => end = quoted
            /\ quoted = 0 /\ text[separator] = ":" => end = UpToMark(text, i, {"\n"})
            /\ quoted = 0 /\ text[separator] = "=" =>
                 end = IF At(text, start) \in Quotes THEN n + 1 ELSE UpToMark(text, i, Enders)
<1> DEFINE i == separator + 1
           start == Skip(text, i, Blanks)
           quoted == quoted_secret_value_end(text, i)
           end == secret_value_end(text, separator)
           line == UpToMark(text, i, {"\n"})
           mark == UpToMark(text, i, Enders)
<1>1. end = CASE quoted # 0 -> quoted
              [] quoted = 0 /\ text[separator] = ":" -> line
              [] quoted = 0 /\ text[separator] = "=" /\ At(text, start) \in Quotes ->
                     Len(text) + 1
              [] OTHER -> mark
  BY Zenon DEF secret_value_end, UpToMark, Enders
<1>2. i \in 1 .. n + 1
  OBVIOUS
<1>3. line \in i .. n + 1 /\ mark \in i .. n + 1
  BY <1>2, UpToIs
<1>4. quoted = 0 \/ quoted \in i .. n + 1
  <2>1. start \in i .. n + 1
    BY <1>2, SkipIs
  <2>2. quoted = 0 \/ quoted \in start + 2 .. n + 1
    BY <1>2, QuotedEnd
  <2> HIDE DEF quoted, start
  <2> QED  BY <1>2, <2>1, <2>2
<1> HIDE DEF start, quoted, end, line, mark
<1>5. CASE quoted # 0
  BY <1>1, <1>4, <1>5 DEF start, quoted, end, line, mark
<1>6. CASE quoted = 0 /\ text[separator] = ":"
  BY <1>1, <1>3, <1>6 DEF start, quoted, end, line, mark
<1>7. CASE quoted = 0 /\ text[separator] = "="
  BY <1>1, <1>2, <1>3, <1>7 DEF start, quoted, end, line, mark
<1> QED  BY <1>5, <1>6, <1>7

-----------------------------------------------------------------------------
(***************************************************************************)
(* redact looks ahead: what it writes at a place, and where it goes on.    *)
(***************************************************************************)
\* Whether a name is not the name of a secret, what is written in place of the text at i,
\* and where the text goes on.
Plain(text, i) ==
  LET name == SubSeq(text, i, Skip(text, i, KeyBytes) - 1)
  IN  name = <<>> \/ ~is_secret_key(name)

Rewritten(text, i) ==
  LET separator == separatorOf(text, i)
  IN  IF separator = 0 THEN <<text[i]>>
      ELSE IF Plain(text, i) THEN SubSeq(text, i, separator)
      ELSE SubSeq(text, i, separator) \o Redaction

NextOf(text, i) ==
  LET separator == separatorOf(text, i)
  IN  IF separator = 0 THEN i + 1
      ELSE IF Plain(text, i) THEN separator + 1
      ELSE secret_value_end(text, separator)

\* What is written is a text, and the text goes on further on, or is at its end.
LEMMA NextIs ==
  ASSUME NEW T, NEW text \in Seq(T), NEW n \in Nat, Len(text) = n, NEW i \in 1 .. n,
         Redaction \in Seq(T)
  PROVE  Rewritten(text, i) \in Seq(T) /\ NextOf(text, i) \in i + 1 .. n + 1
<1> DEFINE separator == separatorOf(text, i)
<1>1. DOMAIN text = 1 .. n
  OBVIOUS
<1>2. separator # 0 =>
        /\ separator \in i + 1 .. n /\ text[separator] \in {"=", ":"}
        /\ secret_value_end(text, separator) \in separator + 1 .. n + 1
  <2>1. separator # 0 => separator \in i + 1 .. n /\ text[separator] \in {"=", ":"}
    BY <1>1, SeparatorIs
  <2> HIDE DEF separator
  <2>2. separator # 0 => secret_value_end(text, separator) \in separator + 1 .. n + 1
    <3> SUFFICES ASSUME separator # 0
                 PROVE  secret_value_end(text, separator) \in separator + 1 .. n + 1
      OBVIOUS
    <3>1. separator \in 1 .. n
      BY <2>1
    <3> QED  BY <1>1, <2>1, <3>1, SecretEnd
  <2> QED  BY <2>1, <2>2
<1> HIDE DEF separator
<1>3. separator # 0 => SubSeq(text, i, separator) \in Seq(T)
  BY <1>2
<1>4. <<text[i]>> \in Seq(T)
  BY <1>1
<1>5. separator # 0 => SubSeq(text, i, separator) \o Redaction \in Seq(T)
  BY <1>3
<1>6. Rewritten(text, i) \in Seq(T)
  BY <1>3, <1>4, <1>5 DEF Rewritten, separator
<1>7. NextOf(text, i) \in i + 1 .. n + 1
  BY <1>2 DEF NextOf, separator
<1> QED  BY <1>6, <1>7

\* The text from each place on, as redact writes it.
RedactOf(text, f) ==
  f = [i \in 1 .. Len(text) + 1 |->
        LET separator == separatorOf(text, i)
            name == SubSeq(text, i, Skip(text, i, KeyBytes) - 1)
        IN  CASE i > Len(text) -> <<>>
              [] i <= Len(text) /\ separator = 0 -> <<text[i]>> \o f[i + 1]
              [] i <= Len(text) /\ separator # 0 /\ (name = <<>> \/ ~is_secret_key(name)) ->
                   SubSeq(text, i, separator) \o f[separator + 1]
              [] OTHER -> SubSeq(text, i, separator) \o Redaction
                            \o f[secret_value_end(text, separator)]]

Redacts(text, f, n) ==
  /\ f = [i \in 1 .. n + 1 |-> f[i]]
  /\ f[n + 1] = <<>>
  /\ \A i \in 1 .. n : f[i] = Rewritten(text, i) \o f[NextOf(text, i)]

\* One place.
LEMMA RedactAt ==
  ASSUME NEW T, NEW text \in Seq(T), NEW f, NEW i \in 1 .. Len(text), Redaction \in Seq(T),
         f[NextOf(text, i)] \in Seq(T)
  PROVE  LET separator == separatorOf(text, i)
             name == SubSeq(text, i, Skip(text, i, KeyBytes) - 1)
         IN (CASE i > Len(text) -> <<>>
               [] i <= Len(text) /\ separator = 0 -> <<text[i]>> \o f[i + 1]
               [] i <= Len(text) /\ separator # 0 /\ (name = <<>> \/ ~is_secret_key(name)) ->
                    SubSeq(text, i, separator) \o f[separator + 1]
               [] OTHER -> SubSeq(text, i, separator) \o Redaction
                             \o f[secret_value_end(text, separator)])
            = Rewritten(text, i) \o f[NextOf(text, i)]
<1> DEFINE separator == separatorOf(text, i)
           name == SubSeq(text, i, Skip(text, i, KeyBytes) - 1)
           plain == name = <<>> \/ ~is_secret_key(name)
           given == SubSeq(text, i, separator)
           end == secret_value_end(text, separator)
<1>1. i <= Len(text) /\ ~(i > Len(text))
  OBVIOUS
<1>2. Rewritten(text, i) = IF separator = 0 THEN <<text[i]>>
                         ELSE IF plain THEN given ELSE given \o Redaction
  BY DEF Rewritten, Plain
<1>3. NextOf(text, i) = IF separator = 0 THEN i + 1 ELSE IF plain THEN separator + 1 ELSE end
  BY DEF NextOf, Plain
<1> HIDE DEF separator, plain, end
<1> SUFFICES (CASE i > Len(text) -> <<>>
                [] i <= Len(text) /\ separator = 0 -> <<text[i]>> \o f[i + 1]
                [] i <= Len(text) /\ separator # 0 /\ plain -> given \o f[separator + 1]
                [] OTHER -> given \o Redaction \o f[end])
             = Rewritten(text, i) \o f[NextOf(text, i)]
  BY DEF plain, end, separator
<1> HIDE DEF given
<1>4. CASE separator = 0
  BY <1>1, <1>2, <1>3, <1>4
<1>5. CASE separator # 0 /\ plain
  BY <1>1, <1>2, <1>3, <1>5
<1>6. CASE separator # 0 /\ ~plain
  BY <1>1, <1>2, <1>3, <1>6
<1> QED  BY <1>4, <1>5, <1>6

\* There is such a function.
LEMMA RedactSome ==
  ASSUME NEW T, NEW text \in Seq(T), Redaction \in Seq(T)
  PROVE  \E f : RedactOf(text, f)
<1> DEFINE n == Len(text)
           X == Seq(T)
           next == [i \in 1 .. n |-> NextOf(text, i)]
           step == [p \in (1 .. n) \X X |-> Rewritten(text, p[1]) \o p[2]]
<1>1. n \in Nat
  OBVIOUS
<1>2. \A i \in 1 .. n : Rewritten(text, i) \in X /\ NextOf(text, i) \in i + 1 .. n + 1
  BY NextIs
<1>3. \A s, t \in X : s \o t \in X
  OBVIOUS
<1>4. <<>> \in X
  OBVIOUS
<1> DEFINE m == n + 1
<1>5. m \in Nat /\ n <= m
  OBVIOUS
<1> HIDE DEF X, n, m
<1>6. next \in [1 .. n -> 1 .. m] /\ \A i \in 1 .. n : next[i] > i
  BY <1>1, <1>2 DEF m
<1>7. step \in [(1 .. n) \X X -> X]
  BY <1>2, <1>3
<1>8. \A i \in 1 .. n, x \in X : step[<<i, x>>] = Rewritten(text, i) \o x
  OBVIOUS
<1>9. \A i \in 1 .. n : next[i] = NextOf(text, i)
  OBVIOUS
<1> HIDE DEF next, step
<1>10. PICK f \in [1 .. m -> X] : Ahead(step, next, <<>>, f, n)
  BY <1>1, <1>4, <1>5, <1>6, <1>7, AheadSome
<1>11. ASSUME NEW i \in 1 .. n + 1
       PROVE  f[i] = LET separator == separatorOf(text, i)
                         name == SubSeq(text, i, Skip(text, i, KeyBytes) - 1)
                     IN CASE i > n -> <<>>
               [] i <= n /\ separator = 0 -> <<text[i]>> \o f[i + 1]
               [] i <= n /\ separator # 0 /\ (name = <<>> \/ ~is_secret_key(name)) ->
                    SubSeq(text, i, separator) \o f[separator + 1]
               [] OTHER -> SubSeq(text, i, separator) \o Redaction
                             \o f[secret_value_end(text, separator)]
  <2>1. f[i] = IF i <= n THEN step[<<i, f[next[i]]>>] ELSE <<>>
    BY <1>10 DEF Ahead, m
  <2>2. CASE i > n
    BY <1>1, <2>1, <2>2
  <2>3. CASE i <= n
    <3>1. i \in 1 .. n
      BY <1>1, <2>3
    <3>2. f[next[i]] \in X
      BY <1>6, <1>10, <3>1
    <3>3. f[i] = Rewritten(text, i) \o f[NextOf(text, i)] /\ f[NextOf(text, i)] \in X
      BY <1>8, <1>9, <2>1, <2>3, <3>1, <3>2
    <3> QED  BY <3>1, <3>3, RedactAt DEF n, X
  <2> QED  BY <1>1, <2>2, <2>3
<1>12. f = [i \in 1 .. n + 1 |-> f[i]]
  BY <1>10 DEF m
<1>13. RedactOf(text, f)
  BY <1>11, <1>12 DEF RedactOf, n
<1> QED  BY <1>13

\* So redact writes what it writes at the first place.
LEMMA RedactIs ==
  ASSUME NEW T, NEW text \in Seq(T), NEW n \in Nat, Len(text) = n, Redaction \in Seq(T)
  PROVE  \E f \in [1 .. n + 1 -> Seq(T)] : Redacts(text, f, n) /\ redact(text) = f[1]
<1> DEFINE f == CHOOSE f : RedactOf(text, f)
           S == {i \in 1 .. n + 1 : f[i] \in Seq(T)}
<1>1. redact(text) = f[1]
  BY DEF redact, RedactOf
<1>2. RedactOf(text, f)
  BY RedactSome
<1> HIDE DEF f
<1>3. f = [i \in 1 .. n + 1 |-> f[i]]
  BY <1>2 DEF RedactOf
<1>4. f[n + 1] = <<>>
  BY <1>2 DEF RedactOf
<1>5. \A i \in 1 .. n : NextOf(text, i) \in i + 1 .. n + 1 /\ Rewritten(text, i) \in Seq(T)
  BY NextIs
<1>6. ASSUME NEW i \in 1 .. n, f[NextOf(text, i)] \in Seq(T)
      PROVE  f[i] = Rewritten(text, i) \o f[NextOf(text, i)]
  <2>1. f[i] =
        LET separator == separatorOf(text, i)
            name == SubSeq(text, i, Skip(text, i, KeyBytes) - 1)
        IN  CASE i > Len(text) -> <<>>
              [] i <= Len(text) /\ separator = 0 -> <<text[i]>> \o f[i + 1]
              [] i <= Len(text) /\ separator # 0 /\ (name = <<>> \/ ~is_secret_key(name)) ->
                   SubSeq(text, i, separator) \o f[separator + 1]
              [] OTHER -> SubSeq(text, i, separator) \o Redaction
                            \o f[secret_value_end(text, separator)]
    <3>1. i \in 1 .. Len(text) + 1
      OBVIOUS
    <3> QED  BY <1>2, <3>1 DEF RedactOf
  <2> QED  BY <1>6, <2>1, RedactAt
<1>7. ASSUME NEW i \in 1 .. n + 1, \A j \in i + 1 .. n + 1 : j \in S
      PROVE  i \in S
  <2> SUFFICES f[i] \in Seq(T)
    OBVIOUS
  <2>1. CASE i = n + 1
    <3>1. <<>> \in Seq(T)
      OBVIOUS
    <3> QED  BY <1>4, <2>1, <3>1
  <2>2. CASE i # n + 1
    <3>1. i \in 1 .. n
      BY <2>2
    <3>2. f[NextOf(text, i)] \in Seq(T)
      BY <1>5, <1>7, <3>1
    <3>3. f[i] = Rewritten(text, i) \o f[NextOf(text, i)]
      BY <1>6, <3>1, <3>2
    <3>4. \A s, t \in Seq(T) : s \o t \in Seq(T)
      OBVIOUS
    <3>5. Rewritten(text, i) \in Seq(T)
      BY <1>5, <3>1
    <3> QED  BY <3>2, <3>3, <3>4, <3>5, Zenon
  <2> QED  BY <2>1, <2>2
<1> HIDE DEF S
<1> DEFINE m == n + 1
<1>8. m \in Nat
  OBVIOUS
<1>9. \A i \in 1 .. m : (\A j \in i + 1 .. m : j \in S) => i \in S
  BY <1>7
<1> HIDE DEF m
<1>10. 1 .. m \subseteq S
  BY <1>8, <1>9, BackInduction
<1>11. \A i \in 1 .. n + 1 : f[i] \in Seq(T)
  BY <1>10 DEF m, S
<1>12. \A i \in 1 .. n : f[i] = Rewritten(text, i) \o f[NextOf(text, i)]
  BY <1>5, <1>6, <1>11
<1>13. Redacts(text, f, n)
  BY <1>3, <1>4, <1>12 DEF Redacts
<1>14. f \in [1 .. n + 1 -> Seq(T)]
  BY <1>3, <1>11
<1> QED  BY <1>1, <1>13, <1>14

-----------------------------------------------------------------------------
(***************************************************************************)
(* What is taken for the name of a secret, and how far its value reaches.  *)
(***************************************************************************)
\* The kinds of words and marks.
LEMMA KindsApart ==
  /\ Value \in KeyBytes /\ Key \in KeyBytes /\ EncodedKey \in KeyBytes
  /\ \A c \in KeyBytes : c \notin Quotes /\ c \notin Blanks /\ c \notin {"=", ":"}
                         /\ c \notin Enders /\ c # "\\" /\ c # "\n"
  /\ \A c \in Quotes : c \notin KeyBytes /\ c \notin Blanks /\ c # "\n"
  /\ \A c \in Blanks : c \notin KeyBytes /\ c \notin Quotes /\ c # "\n"
  /\ \A c \in {"=", ":"} : c \notin KeyBytes /\ c \notin Quotes /\ c \notin Blanks /\ c # "\n"
  /\ "\n" \in Enders
BY Zenon DEF KeyBytes, Key, EncodedKey, KeyStart, Value, Word, Quotes, Blanks, Enders

\* A name does not start within a name.
LEMMA StartsApart ==
  ASSUME NEW raw, NEW k, StartsName(raw, k), k # 1
  PROVE  raw[k - 1] \notin KeyBytes
BY Zenon DEF StartsName, KeyBytes, Key, EncodedKey, KeyStart, Value, Word, Quotes, Blanks

\* No other name starts between a name and its separator.
LEMMA NoneStarts ==
  ASSUME NEW text, NEW n \in Nat, Len(text) = n, DOMAIN text = 1 .. n, NEW j \in 1 .. n,
         separatorOf(text, j) # 0,
         NEW k \in j + 1 .. separatorOf(text, j), text[k] \in KeyBytes, StartsName(text, k)
  PROVE  FALSE
<1> DEFINE end == Skip(text, j, KeyBytes)
           separator == separatorOf(text, j)
<1>1. /\ separator \in j + 1 .. n /\ text[separator] \in {"=", ":"} /\ end <= separator
      /\ \/ separator = end
         \/ j > 1 /\ end < separator /\ text[end] \in Quotes
            /\ \A m \in end + 1 .. separator - 1 : text[m] \in Blanks
  BY SeparatorIs
<1>2. end \in j .. n + 1 /\ \A m \in j .. end - 1 : text[m] \in KeyBytes
  BY SkipIs
<1>3. text[k - 1] \notin KeyBytes
  BY StartsApart
<1> HIDE DEF end
<1>4. ~(k < end)
  <2> SUFFICES ASSUME k < end
               PROVE  FALSE
    OBVIOUS
  <2>1. k - 1 \in j .. end - 1
    BY <1>1, <1>2
  <2> QED  BY <1>2, <1>3, <2>1
<1>5. text[k] \notin Quotes /\ text[k] \notin Blanks /\ text[k] \notin {"=", ":"}
  BY KindsApart, Zenon
<1>6. k # separator
  BY <1>1, <1>5, Zenon
<1> HIDE DEF separator
<1>7. k \in end .. separator - 1
  <2>1. k \in j + 1 .. separator
    BY DEF separator
  <2> QED  BY <1>1, <1>2, <1>4, <1>6, <2>1
<1>8. /\ separator # end /\ text[end] \in Quotes
      /\ \A m \in end + 1 .. separator - 1 : text[m] \in Blanks
  BY <1>1, <1>2, <1>7
<1>9. CASE k = end
  BY <1>5, <1>8, <1>9, Zenon
<1>10. CASE k # end
  <2>1. k \in end + 1 .. separator - 1
    BY <1>2, <1>7, <1>10
  <2> QED  BY <1>5, <1>8, <2>1, Zenon
<1> QED  BY <1>9, <1>10

\* The name of a secret.
LEMMA SecretIs ==
  ASSUME NEW T, NEW text \in Seq(T), NEW j \in 1 .. Len(text), ~Plain(text, j)
  PROVE  text[j] \in {Key, EncodedKey, KeyStart}
<1> DEFINE end == Skip(text, j, KeyBytes)
           name == SubSeq(text, j, end - 1)
           decoded == [k \in DOMAIN name |-> IF name[k] = EncodedKey THEN Key ELSE name[k]]
<1>1. end \in j .. Len(text) + 1
  BY SkipIs
<1>2. name # <<>> /\ is_secret_key(name)
  BY DEF Plain
<1> HIDE DEF end
<1>3. name \in Seq(T) /\ name[1] = text[j] /\ 1 \in DOMAIN name
  <2>1. j <= end - 1
    BY <1>1, <1>2
  <2> QED  BY <1>1, <2>1
<1>4. decoded = <<Key>> \/ decoded[1] = KeyStart
  BY <1>2, Zenon DEF is_secret_key
<1> HIDE DEF name
<1>5. decoded[1] = IF text[j] = EncodedKey THEN Key ELSE text[j]
  BY <1>3
<1> HIDE DEF decoded
<1>6. decoded = <<Key>> => decoded[1] = Key
  OBVIOUS
<1> QED  BY <1>4, <1>5, <1>6 DEF Key, KeyStart

\* A name of one word that is the name of a secret.
LEMMA NameIsSecret ==
  ASSUME NEW T, NEW text \in Seq(T), NEW k \in 1 .. Len(text), text[k] \in {Key, EncodedKey},
         Skip(text, k, KeyBytes) = k + 1
  PROVE  ~Plain(text, k)
<1> DEFINE name == SubSeq(text, k, k)
           decoded == [m \in DOMAIN name |-> IF name[m] = EncodedKey THEN Key ELSE name[m]]
<1>1. SubSeq(text, k, Skip(text, k, KeyBytes) - 1) = name
  OBVIOUS
<1>2. name = <<text[k]>>
  <2>1. name \in Seq(T) /\ Len(name) = 1 /\ name[1] = text[k]
    OBVIOUS
  <2> HIDE DEF name
  <2> QED  BY <2>1
<1>3. name # <<>>
  BY <1>2
<1>4. decoded = <<Key>>
  <2>1. text[k] = Key \/ text[k] = EncodedKey
    OBVIOUS
  <2>2. decoded = <<IF text[k] = EncodedKey THEN Key ELSE text[k]>>
    BY <1>2
  <2> HIDE DEF decoded
  <2> QED  BY <2>1, <2>2
<1>5. is_secret_key(name)
  BY <1>4, Zenon DEF is_secret_key
<1> HIDE DEF name
<1> QED  BY <1>1, <1>3, <1>5, Zenon DEF Plain

\* A value ends with its line, unless it is quoted.
LEMMA EndsWithLine ==
  ASSUME NEW text, NEW n \in Nat, Len(text) = n, DOMAIN text = 1 .. n, NEW j \in 1 .. n,
         separatorOf(text, j) # 0,
         NEW line \in j + 1 .. n, text[line] = "\n", \A m \in j .. line : text[m] \notin Quotes
  PROVE  secret_value_end(text, separatorOf(text, j)) <= line
<1> DEFINE end == Skip(text, j, KeyBytes)
           separator == separatorOf(text, j)
           start == Skip(text, separator + 1, Blanks)
           quoted == quoted_secret_value_end(text, separator + 1)
           stop == secret_value_end(text, separator)
           marked == UpToMark(text, separator + 1, Enders)
           lined == UpToMark(text, separator + 1, {"\n"})
<1>1. /\ separator \in j + 1 .. n /\ text[separator] \in {"=", ":"} /\ end <= separator
      /\ \/ separator = end
         \/ text[end] \in Quotes
  BY SeparatorIs
<1>2. end \in j .. n + 1 /\ \A m \in j .. end - 1 : text[m] \in KeyBytes
  BY SkipIs
<1>3. "\n" \notin KeyBytes /\ "\n" \notin Blanks /\ "\n" \notin {"=", ":"} /\ "\n" \in Enders
  BY KindsApart, Zenon
<1> HIDE DEF end, separator
<1>4. end <= line
  <2> SUFFICES ASSUME ~(end <= line)
               PROVE  FALSE
    OBVIOUS
  <2>1. line \in j .. end - 1
    BY <1>2
  <2> QED  BY <1>2, <1>3, <2>1
<1>5. separator = end
  BY <1>1, <1>2, <1>4
<1>6. separator < line
  <2>1. separator # line
    BY <1>1, <1>3, Zenon
  <2> QED  BY <1>1, <1>4, <1>5, <2>1
<1>7. separator \in 1 .. n /\ separator + 1 \in 1 .. n + 1
  BY <1>1
<1>8. /\ start \in separator + 1 .. n + 1
      /\ \A m \in separator + 1 .. start - 1 : text[m] \in Blanks
  BY <1>7, SkipIs
<1>9. start <= line
  <2> SUFFICES ASSUME ~(start <= line)
               PROVE  FALSE
    OBVIOUS
  <2> HIDE DEF start
  <2>1. line \in separator + 1 .. start - 1
    BY <1>1, <1>6, <1>8
  <2> QED  BY <1>3, <1>8, <2>1
<1>10. quoted = 0
  <2>1. start \in DOMAIN text /\ start \in j .. line
    BY <1>1, <1>8, <1>9
  <2>2. At(text, start) \notin Quotes
    BY <2>1 DEF At
  <2> QED  BY <1>7, <2>2, QuotedEnd
<1>11. /\ text[separator] = ":" => stop = lined
       /\ text[separator] = "=" =>
            stop = IF At(text, start) \in Quotes THEN n + 1 ELSE marked
  BY <1>1, <1>7, <1>10, SecretEnd
<1>12. At(text, start) \notin Quotes
  <2>1. start \in DOMAIN text /\ start \in j .. line
    BY <1>1, <1>8, <1>9
  <2> QED  BY <2>1 DEF At
<1>13. /\ lined \in separator + 1 .. n + 1
       /\ \A m \in separator + 1 .. lined - 1 : text[m] \notin {"\n"}
       /\ marked \in separator + 1 .. n + 1
       /\ \A m \in separator + 1 .. marked - 1 : text[m] \notin Enders
  BY <1>7, UpToIs
<1> HIDE DEF start, quoted, stop, marked, lined
<1>14. lined <= line
  <2> SUFFICES ASSUME ~(lined <= line)
               PROVE  FALSE
    OBVIOUS
  <2>1. line \in separator + 1 .. lined - 1
    BY <1>1, <1>6, <1>13
  <2> QED  BY <1>13, <2>1
<1>15. marked <= line
  <2> SUFFICES ASSUME ~(marked <= line)
               PROVE  FALSE
    OBVIOUS
  <2>1. line \in separator + 1 .. marked - 1
    BY <1>1, <1>6, <1>13
  <2> QED  BY <1>3, <1>13, <2>1
<1>16. stop <= line
  BY <1>1, <1>11, <1>12, <1>14, <1>15
<1> QED  BY <1>16 DEF stop, separator

\* The words of a short part of a text.
ShortPart(text, a, b) ==
  LET part == SubSeq(text, a, b) IN
    /\ \A x : part = <<x>> => b = a /\ text[a] = x
    /\ \A x, y : part = <<x, y>> => b = a + 1 /\ text[a] = x /\ text[a + 1] = y
    /\ \A x, y, z : part = <<x, y, z>> =>
         b = a + 2 /\ text[a] = x /\ text[a + 1] = y /\ text[a + 2] = z

\* A part of one, two or three words tells what these are.
LEMMA ShortParts ==
  ASSUME NEW T, NEW text \in Seq(T), NEW a \in 1 .. Len(text), NEW b \in 0 .. Len(text)
  PROVE  ShortPart(text, a, b)
<1> DEFINE part == SubSeq(text, a, b)
<1>1. /\ part \in Seq(T) /\ (a <= b => Len(part) = b - a + 1) /\ (b < a => Len(part) = 0)
      /\ \A m \in 1 .. Len(part) : part[m] = text[a + m - 1]
  OBVIOUS
<1> HIDE DEF part
<1>2. ASSUME NEW x, part = <<x>>
      PROVE  b = a /\ text[a] = x
  <2>1. Len(part) = 1 /\ part[1] = x
    BY <1>2
  <2> QED  BY <1>1, <2>1
<1>3. ASSUME NEW x, NEW y, part = <<x, y>>
      PROVE  b = a + 1 /\ text[a] = x /\ text[a + 1] = y
  <2>1. Len(part) = 2 /\ part[1] = x /\ part[2] = y
    BY <1>3
  <2> QED  BY <1>1, <2>1
<1>4. ASSUME NEW x, NEW y, NEW z, part = <<x, y, z>>
      PROVE  b = a + 2 /\ text[a] = x /\ text[a + 1] = y /\ text[a + 2] = z
  <2>1. Len(part) = 3 /\ part[1] = x /\ part[2] = y /\ part[3] = z
    BY <1>4
  <2> QED  BY <1>1, <2>1
<1> QED  BY <1>2, <1>3, <1>4 DEF part, ShortPart

\* A value right after its separator, or after a blank or a quote, is taken for one.
LEMMA ValueCovered ==
  ASSUME NEW text, NEW n \in Nat, Len(text) = n, DOMAIN text = 1 .. n,
         NEW separator \in 1 .. n, text[separator] \in {"=", ":"},
         NEW i \in 1 .. n, text[i] = Value,
         \/ i = separator + 1
         \/ /\ i = separator + 2
            /\ \/ text[separator] = ":" /\ text[separator + 1] \in Blanks
               \/ text[separator + 1] \in Quotes
  PROVE  secret_value_end(text, separator) > i
<1> DEFINE start == Skip(text, separator + 1, Blanks)
           quoted == quoted_secret_value_end(text, separator + 1)
           stop == secret_value_end(text, separator)
           marked == UpToMark(text, separator + 1, Enders)
           lined == UpToMark(text, separator + 1, {"\n"})
<1>1. separator + 1 \in 1 .. n + 1 /\ separator + 1 <= n
  OBVIOUS
<1>2. /\ Value \notin Quotes /\ Value \notin Blanks /\ Value \notin Enders
      /\ Value # "\n" /\ Value # "\\"
  BY KindsApart, Zenon
<1>3. /\ start \in separator + 1 .. n + 1 /\ (start <= n => text[start] \notin Blanks)
      /\ \A m \in separator + 1 .. start - 1 : text[m] \in Blanks
  BY <1>1, SkipIs
<1>4. /\ lined \in separator + 1 .. n + 1 /\ (lined <= n => text[lined] \in {"\n"})
      /\ marked \in separator + 1 .. n + 1 /\ (marked <= n => text[marked] \in Enders)
  BY <1>1, UpToIs
<1>5. /\ quoted # 0 => stop = quoted
      /\ quoted = 0 /\ text[separator] = ":" => stop = lined
      /\ quoted = 0 /\ text[separator] = "=" =>
           stop = IF At(text, start) \in Quotes THEN n + 1 ELSE marked
  BY SecretEnd
<1>6. /\ At(text, start) \notin Quotes => quoted = 0
      /\ quoted = 0 \/ quoted \in start + 2 .. n + 1
      /\ start + 1 <= n /\ text[start + 1] \notin Quotes \cup {"\\"} =>
           quoted = 0 \/ quoted > start + 2
  BY <1>1, QuotedEnd
<1>7. \A m \in 1 .. n : At(text, m) = text[m]
  BY DEF At
<1> HIDE DEF start, quoted, stop, marked, lined
<1>8. start <= i
  <2> SUFFICES ASSUME ~(start <= i)
               PROVE  FALSE
    OBVIOUS
  <2>1. i \in separator + 1 .. start - 1
    BY <1>3
  <2> QED  BY <1>2, <1>3, <2>1
<1>9. text[i] \notin Enders /\ text[i] \notin {"\n"}
  BY <1>2
<1>10. CASE i = separator + 1
  <2>1. start = i
    BY <1>3, <1>8, <1>10
  <2>2. quoted = 0 /\ At(text, start) \notin Quotes
    BY <1>2, <1>6, <1>7, <2>1
  <2>3. lined # i /\ marked # i
    BY <1>4, <1>9
  <2>4. stop > i
    BY <1>4, <1>5, <1>10, <2>2, <2>3
  <2> QED  BY <2>4 DEF stop
<1>11. CASE i = separator + 2 /\ text[separator] = ":" /\ text[separator + 1] \in Blanks
  <2>1. start = i
    <3>1. start # separator + 1
      BY <1>1, <1>3, <1>11
    <3> QED  BY <1>3, <1>8, <1>11, <3>1
  <2>2. quoted = 0
    BY <1>2, <1>6, <1>7, <2>1
  <2>3. text[separator + 1] # "\n"
    BY <1>11, KindsApart, Zenon
  <2>4. lined # i /\ lined # separator + 1
    BY <1>1, <1>4, <1>9, <2>3
  <2>5. stop > i
    BY <1>4, <1>5, <1>11, <2>2, <2>4
  <2> QED  BY <2>5 DEF stop
<1>12. CASE i = separator + 2 /\ text[separator + 1] \in Quotes
  <2>1. text[separator + 1] \notin Blanks /\ text[separator + 1] # "\n"
    BY <1>12, KindsApart, Zenon
  <2>2. start = separator + 1
    <3> SUFFICES ASSUME start # separator + 1
                 PROVE  FALSE
      OBVIOUS
    <3>1. separator + 1 \in separator + 1 .. start - 1
      BY <1>3
    <3> QED  BY <1>3, <2>1, <3>1
  <2>3. quoted = 0 \/ quoted > i
    BY <1>2, <1>6, <1>12, <2>2
  <2>4. At(text, start) \in Quotes
    BY <1>1, <1>7, <1>12, <2>2
  <2>5. lined # i /\ lined # separator + 1
    BY <1>1, <1>4, <1>9, <2>1
  <2>6. stop > i
    BY <1>4, <1>5, <1>12, <2>3, <2>4, <2>5
  <2> QED  BY <2>6 DEF stop
<1> QED  BY <1>10, <1>11, <1>12

-----------------------------------------------------------------------------
(***************************************************************************)
(* Every value that follows the name of a secret is covered.               *)
(***************************************************************************)
\* What Skip finds next to where it starts.
LEMMA SkipShort ==
  ASSUME NEW text, NEW n \in Nat, Len(text) = n, NEW i \in 1 .. n, NEW M, text[i] \notin M
  PROVE  Skip(text, i, M) = i
<1> DEFINE j == Skip(text, i, M)
<1>1. j \in i .. n + 1 /\ \A k \in i .. j - 1 : text[k] \in M
  BY SkipIs
<1> HIDE DEF j
<1>2. j = i
  <2> SUFFICES ASSUME j # i
               PROVE  FALSE
    OBVIOUS
  <2>1. i \in i .. j - 1
    BY <1>1
  <2> QED  BY <1>1, <2>1
<1> QED  BY <1>2 DEF j

\* What it finds one place on.
LEMMA SkipOne ==
  ASSUME NEW text, NEW n \in Nat, Len(text) = n, NEW i \in 1 .. n - 1, NEW M,
         text[i] \in M, text[i + 1] \notin M
  PROVE  Skip(text, i, M) = i + 1
<1> DEFINE j == Skip(text, i, M)
<1>1. j \in i .. n + 1 /\ (j <= n => text[j] \notin M) /\ \A k \in i .. j - 1 : text[k] \in M
  BY SkipIs
<1> HIDE DEF j
<1>2. j = i + 1
  <2>1. j # i
    BY <1>1
  <2>2. SUFFICES ASSUME j # i + 1
                 PROVE  FALSE
    OBVIOUS
  <2>3. i + 1 \in i .. j - 1
    BY <1>1, <2>1, <2>2
  <2> QED  BY <1>1, <2>3
<1> QED  BY <1>2 DEF j

\* Between a name and its value there is a separator, and what may stand after it.
Separates(text, separator, i) ==
  /\ text[separator] \in {"=", ":"}
  /\ \/ i = separator + 1
     \/ /\ i = separator + 2
        /\ \/ text[separator] = ":" /\ text[separator + 1] \in Blanks
           \/ text[separator + 1] \in Quotes

\* The name of a secret is found at its place, and its value is covered.
LEMMA GuardCovers ==
  ASSUME NEW T, NEW text \in Seq(T), NEW n \in Nat, Len(text) = n,
         NEW k \in 1 .. n, NEW i \in k + 1 .. n, text[i] = Value, Guards(text, k, i)
  PROVE  /\ separatorOf(text, k) \in k + 1 .. i - 1 /\ ~Plain(text, k)
         /\ secret_value_end(text, separatorOf(text, k)) > i
<1> DEFINE quote == "\""
           blank == " "
           between == SubSeq(text, k + 1, i - 1)
<1>1. quote \in Quotes /\ blank \in Blanks
  BY Zenon DEF Quotes, Blanks
<1>2. /\ text[k] \in {Key, EncodedKey} /\ StartsName(text, k)
      /\ \/ between = <<"=">> \/ between = <<":">>
         \/ between = <<":", blank>> \/ between = <<"=", quote>>
         \/ k > 1 /\ text[k - 1] = quote /\ between = <<quote, ":">>
         \/ k > 1 /\ text[k - 1] = quote /\ between = <<quote, ":", quote>>
  BY Zenon DEF Guards
<1> HIDE DEF quote, blank
<1>3. k + 1 \in 1 .. Len(text) /\ i - 1 \in 0 .. Len(text)
  OBVIOUS
<1>4. /\ \A x : between = <<x>> => i - 1 = k + 1 /\ text[k + 1] = x
      /\ \A x, y : between = <<x, y>> =>
           i - 1 = k + 1 + 1 /\ text[k + 1] = x /\ text[k + 1 + 1] = y
      /\ \A x, y, z : between = <<x, y, z>> =>
           i - 1 = k + 1 + 2 /\ text[k + 1] = x /\ text[k + 1 + 1] = y /\ text[k + 1 + 2] = z
  <2>1. ShortPart(text, k + 1, i - 1)
    BY <1>3, ShortParts
  <2> QED  BY <2>1, Zenon DEF ShortPart
<1> HIDE DEF between
<1>5. \/ k + 1 < i /\ Separates(text, k + 1, i)
      \/ /\ k > 1 /\ k + 2 < i /\ text[k - 1] = quote /\ text[k + 1] = quote
         /\ text[k + 2] = ":" /\ Separates(text, k + 2, i)
  <2>1. CASE between = <<"=">>
    <3>1. i - 1 = k + 1 /\ text[k + 1] = "="
      BY <1>4, <2>1, Zenon
    <3> QED  BY <3>1 DEF Separates
  <2>2. CASE between = <<":">>
    <3>1. i - 1 = k + 1 /\ text[k + 1] = ":"
      BY <1>4, <2>2, Zenon
    <3> QED  BY <3>1 DEF Separates
  <2>3. CASE between = <<":", blank>>
    <3>1. i - 1 = k + 1 + 1 /\ text[k + 1] = ":" /\ text[k + 1 + 1] = blank
      BY <1>4, <2>3, Zenon
    <3> QED  BY <1>1, <3>1 DEF Separates
  <2>4. CASE between = <<"=", quote>>
    <3>1. i - 1 = k + 1 + 1 /\ text[k + 1] = "=" /\ text[k + 1 + 1] = quote
      BY <1>4, <2>4, Zenon
    <3> QED  BY <1>1, <3>1 DEF Separates
  <2>5. CASE k > 1 /\ text[k - 1] = quote /\ between = <<quote, ":">>
    <3>1. i - 1 = k + 1 + 1 /\ text[k + 1] = quote /\ text[k + 1 + 1] = ":"
      BY <1>4, <2>5, Zenon
    <3>2. k + 2 = k + 1 + 1 /\ i = k + 2 + 1
      BY <3>1
    <3> QED  BY <2>5, <3>1, <3>2 DEF Separates
  <2>6. CASE k > 1 /\ text[k - 1] = quote /\ between = <<quote, ":", quote>>
    <3>1. /\ i - 1 = k + 1 + 2 /\ text[k + 1] = quote /\ text[k + 1 + 1] = ":"
          /\ text[k + 1 + 2] = quote
      BY <1>4, <2>6, Zenon
    <3>2. k + 2 = k + 1 + 1 /\ i = k + 2 + 2 /\ k + 1 + 2 = k + 2 + 1
      BY <3>1
    <3> QED  BY <1>1, <2>6, <3>1, <3>2 DEF Separates
  <2> QED  BY <1>2, <2>1, <2>2, <2>3, <2>4, <2>5, <2>6
<1>6. text[k] \in KeyBytes
  BY <1>2, KindsApart
<1>7. text[k + 1] \notin KeyBytes
  <2>1. text[k + 1] \in {"=", ":"} \/ text[k + 1] \in Quotes
    BY <1>1, <1>5 DEF Separates
  <2> QED  BY <2>1, KindsApart, Zenon
<1>8. Skip(text, k, KeyBytes) = k + 1
  <2>1. k \in 1 .. n - 1
    OBVIOUS
  <2> QED  BY <1>6, <1>7, <2>1, SkipOne
<1>9. ~Plain(text, k)
  BY <1>2, <1>8, NameIsSecret
<1>10. is_key_boundary(text, k)
  BY <1>2, Zenon DEF StartsName, is_key_boundary
<1>11. \A m \in 1 .. n : At(text, m) = text[m]
  BY DEF At
<1>12. PICK separator \in k + 1 .. i - 1 :
         separatorOf(text, k) = separator /\ Separates(text, separator, i)
  <2> DEFINE quoted == k > 1 /\ At(text, k - 1) \in Quotes /\ At(text, k + 1) = At(text, k - 1)
             found == IF quoted THEN Skip(text, k + 1 + 1, Blanks) ELSE k + 1
  <2>1. separatorOf(text, k) = IF /\ is_key_boundary(text, k) /\ found # k
                                  /\ At(text, found) \in {"=", ":"} THEN found ELSE 0
    BY <1>8, Zenon DEF separatorOf
  <2>2. CASE k + 1 < i /\ Separates(text, k + 1, i)
    <3>1. text[k + 1] \in {"=", ":"}
      BY <2>2 DEF Separates
    <3>2. text[k + 1] \notin Quotes
      BY <3>1, KindsApart, Zenon
    <3>3. ~quoted
      BY <1>11, <3>2
    <3>4. found = k + 1
      BY <3>3
    <3> HIDE DEF found
    <3>5. separatorOf(text, k) = k + 1
      BY <1>10, <1>11, <2>1, <3>1, <3>4
    <3> QED  BY <2>2, <3>5
  <2>3. CASE /\ k > 1 /\ k + 2 < i /\ text[k - 1] = quote /\ text[k + 1] = quote
             /\ text[k + 2] = ":" /\ Separates(text, k + 2, i)
    <3>1. k - 1 \in 1 .. n /\ k + 1 \in 1 .. n /\ k + 1 + 1 \in 1 .. n /\ k + 1 + 1 = k + 2
      BY <2>3
    <3>2. quoted
      BY <1>1, <1>11, <2>3, <3>1
    <3>3. text[k + 1 + 1] \notin Blanks
      BY <2>3, <3>1, KindsApart
    <3>4. found = k + 2
      BY <3>1, <3>2, <3>3, SkipShort
    <3> HIDE DEF found
    <3>5. separatorOf(text, k) = k + 2
      BY <1>10, <1>11, <2>1, <2>3, <3>1, <3>4
    <3> QED  BY <2>3, <3>5
  <2> QED  BY <1>5, <2>2, <2>3
<1>13. secret_value_end(text, separator) > i
  <2>1. DOMAIN text = 1 .. n /\ separator \in 1 .. n /\ i \in 1 .. n
    OBVIOUS
  <2> QED  BY <1>12, <2>1, ValueCovered DEF Separates
<1> QED  BY <1>9, <1>12, <1>13

\* From j on, every value follows the name of a secret.
AllGuarded(text, j) ==
  \A i \in j .. Len(text) : text[i] = Value => \E k \in j .. i - 1 : Guards(text, k, i)

\* What is written at a place is no such value, and those further on stay guarded.
LEMMA StepHides ==
  ASSUME NEW T, NEW text \in Seq(T), NEW n \in Nat, Len(text) = n, NEW j \in 1 .. n,
         AllGuarded(text, j), Redaction \in Seq(T \ {Value})
  PROVE  Rewritten(text, j) \in Seq(T \ {Value}) /\ AllGuarded(text, NextOf(text, j))
<1> DEFINE separator == separatorOf(text, j)
           end == secret_value_end(text, separator)
<1>1. DOMAIN text = 1 .. n /\ \A i \in 1 .. n : text[i] \in T
  OBVIOUS
<1>2. \A i \in j .. n : text[i] = Value => \E k \in j .. i - 1 : Guards(text, k, i)
  BY DEF AllGuarded
<1>3. \A k \in j .. n : \A i \in k + 1 .. n :
        text[i] = Value /\ Guards(text, k, i) =>
          /\ separatorOf(text, k) \in k + 1 .. i - 1 /\ ~Plain(text, k)
          /\ secret_value_end(text, separatorOf(text, k)) > i
  BY GuardCovers
<1>4. CASE separator = 0
  <2>1. text[j] # Value
    BY <1>2
  <2>2. Rewritten(text, j) = <<text[j]>> /\ NextOf(text, j) = j + 1
    BY <1>4 DEF Rewritten, NextOf
  <2>3. ASSUME NEW i \in j + 1 .. n, text[i] = Value
        PROVE  \E k \in j + 1 .. i - 1 : Guards(text, k, i)
    <3>1. PICK k \in j .. i - 1 : Guards(text, k, i)
      BY <1>2, <2>3
    <3>2. separatorOf(text, k) \in k + 1 .. i - 1
      BY <1>3, <2>3, <3>1
    <3>3. k # j
      BY <1>4, <3>2
    <3> QED  BY <3>1, <3>3
  <2>4. <<text[j]>> \in Seq(T \ {Value})
    <3>1. text[j] \in T \ {Value}
      BY <1>1, <2>1
    <3> QED  BY <3>1
  <2> QED  BY <2>2, <2>3, <2>4 DEF AllGuarded
<1>5. CASE separator # 0
  <2>1. separator \in j + 1 .. n /\ text[separator] \in {"=", ":"}
    BY <1>1, <1>5, SeparatorIs
  <2>2. ASSUME NEW i \in j .. n, NEW k \in j + 1 .. separator, k < i, Guards(text, k, i)
        PROVE  FALSE
    <3>1. text[k] \in KeyBytes /\ StartsName(text, k)
      BY <2>2, KindsApart DEF Guards
    <3> QED  BY <1>1, <1>5, <3>1, NoneStarts
  <2> HIDE DEF separator
  <2>3. ASSUME NEW i \in j .. separator
        PROVE  text[i] # Value
    <3> SUFFICES ASSUME text[i] = Value
                 PROVE  FALSE
      OBVIOUS
    <3>1. i \in j .. n
      BY <2>1
    <3>2. PICK k \in j .. i - 1 : Guards(text, k, i)
      BY <1>2, <3>1
    <3>3. k = j
      BY <2>1, <2>2, <3>1, <3>2
    <3>4. separator \in j + 1 .. i - 1
      BY <1>3, <3>1, <3>2, <3>3 DEF separator
    <3> QED  BY <3>4
  <2>4. SubSeq(text, j, separator) \in Seq(T \ {Value})
    <3>1. /\ Len(SubSeq(text, j, separator)) = separator - j + 1
          /\ \A m \in 1 .. separator - j + 1 : SubSeq(text, j, separator)[m] = text[j + m - 1]
          /\ SubSeq(text, j, separator) \in Seq(T)
      BY <2>1
    <3>2. \A m \in 1 .. separator - j + 1 : text[j + m - 1] # Value
      BY <2>1, <2>3
    <3> DEFINE part == SubSeq(text, j, separator)
    <3>3. part \in Seq(T) /\ \A m \in 1 .. Len(part) : part[m] # Value
      BY <3>1, <3>2
    <3> HIDE DEF part
    <3>4. part \in Seq(T \ {Value})
      BY <3>3
    <3> QED  BY <3>4 DEF part
  <2>5. CASE Plain(text, j)
    <3>1. Rewritten(text, j) = SubSeq(text, j, separator) /\ NextOf(text, j) = separator + 1
      BY <1>5, <2>5 DEF Rewritten, NextOf, separator
    <3>2. ASSUME NEW i \in separator + 1 .. n, text[i] = Value
          PROVE  \E k \in separator + 1 .. i - 1 : Guards(text, k, i)
      <4>1. i \in j .. n
        BY <2>1
      <4>2. PICK k \in j .. i - 1 : Guards(text, k, i)
        BY <1>2, <3>2, <4>1
      <4>3. k # j
        BY <1>3, <2>5, <3>2, <4>1, <4>2
      <4>4. ~(k \in j + 1 .. separator)
        BY <2>2, <4>1, <4>2
      <4>5. k \in separator + 1 .. i - 1
        BY <2>1, <4>2, <4>3, <4>4
      <4> QED  BY <4>2, <4>5
    <3> QED  BY <2>4, <3>1, <3>2 DEF AllGuarded
  <2>6. CASE ~Plain(text, j)
    <3>1. /\ Rewritten(text, j) = SubSeq(text, j, separator) \o Redaction
          /\ NextOf(text, j) = end
      BY <1>5, <2>6 DEF Rewritten, NextOf, separator
    <3>2. end \in separator + 1 .. n + 1
      <4>1. separator \in 1 .. n
        BY <2>1
      <4> QED  BY <1>1, <2>1, <4>1, SecretEnd
    <3> HIDE DEF end
    <3>3. ASSUME NEW i \in end .. n, text[i] = Value
          PROVE  \E k \in end .. i - 1 : Guards(text, k, i)
      <4>1. i \in j .. n
        BY <2>1, <3>2
      <4>2. PICK k \in j .. i - 1 : Guards(text, k, i)
        BY <1>2, <3>3, <4>1
      <4>3. k # j
        <5> SUFFICES ASSUME k = j
                     PROVE  FALSE
          OBVIOUS
        <5>1. secret_value_end(text, separatorOf(text, j)) > i
          BY <1>3, <3>3, <4>1, <4>2
        <5> QED  BY <2>1, <3>2, <5>1 DEF end, separator
      <4>4. ~(k \in j + 1 .. separator)
        BY <2>2, <4>1, <4>2
      <4>5. text[j] \in {Key, EncodedKey, KeyStart}
        BY <2>6, SecretIs
      <4>6. PICK line \in j .. k - 1 :
              text[line] = "\n" /\ \A m \in j .. line : text[m] \notin Quotes
        <5>1. Apart(text, k)
          BY <4>2, Zenon DEF Guards
        <5>2. j \in 1 .. k - 1
          BY <4>2, <4>3
        <5> QED  BY <4>5, <5>1, <5>2, Zenon DEF Apart
      <4>7. text[j] # "\n"
        BY <4>5, Zenon DEF Key, EncodedKey, KeyStart
      <4>8. line \in j + 1 .. n
        BY <4>1, <4>2, <4>6, <4>7
      <4>9. end <= line
        BY <1>1, <1>5, <4>6, <4>8, EndsWithLine DEF end, separator
      <4>10. k \in end .. i - 1
        BY <3>2, <4>2, <4>6, <4>9
      <4> QED  BY <4>2, <4>10
    <3>4. SubSeq(text, j, separator) \o Redaction \in Seq(T \ {Value})
      <4>1. \A s, t \in Seq(T \ {Value}) : s \o t \in Seq(T \ {Value})
        OBVIOUS
      <4> QED  BY <2>4, <4>1, Zenon
    <3> QED  BY <3>1, <3>3, <3>4 DEF AllGuarded
  <2> QED  BY <2>5, <2>6
<1> QED  BY <1>4, <1>5

\* What is written of a guarded text holds no value.
LEMMA RedactHides ==
  ASSUME NEW T, NEW text \in Seq(T), Redaction \in Seq(T \ {Value}),
         \A i \in DOMAIN text : text[i] = Value => Guarded(text, i)
  PROVE  redact(text) \in Seq(T \ {Value})
<1> DEFINE n == Len(text)
<1>1. n \in Nat /\ DOMAIN text = 1 .. n
  OBVIOUS
<1>2. Redaction \in Seq(T)
  OBVIOUS
<1>3. PICK f \in [1 .. n + 1 -> Seq(T)] : Redacts(text, f, n) /\ redact(text) = f[1]
  BY <1>1, <1>2, RedactIs
<1> DEFINE S == {i \in 1 .. n + 1 : AllGuarded(text, i) => f[i] \in Seq(T \ {Value})}
           m == n + 1
<1>4. ASSUME NEW i \in 1 .. n + 1, \A j \in i + 1 .. n + 1 : j \in S
      PROVE  i \in S
  <2> SUFFICES ASSUME AllGuarded(text, i)
               PROVE  f[i] \in Seq(T \ {Value})
    OBVIOUS
  <2>1. CASE i = n + 1
    <3>1. f[i] = <<>>
      BY <1>3, <2>1 DEF Redacts
    <3> QED  BY <3>1
  <2>2. CASE i # n + 1
    <3>1. i \in 1 .. n
      BY <1>1, <2>2
    <3>2. f[i] = Rewritten(text, i) \o f[NextOf(text, i)]
      BY <1>3, <3>1 DEF Redacts
    <3>3. Rewritten(text, i) \in Seq(T \ {Value}) /\ AllGuarded(text, NextOf(text, i))
      BY <1>1, <3>1, StepHides
    <3>4. NextOf(text, i) \in i + 1 .. n + 1
      BY <1>1, <1>2, <3>1, NextIs
    <3>5. f[NextOf(text, i)] \in Seq(T \ {Value})
      BY <1>4, <3>3, <3>4
    <3>6. \A s, t \in Seq(T \ {Value}) : s \o t \in Seq(T \ {Value})
      OBVIOUS
    <3> QED  BY <3>2, <3>3, <3>5, <3>6, Zenon
  <2> QED  BY <2>1, <2>2
<1>5. m \in Nat /\ 1 \in 1 .. m
  BY <1>1
<1>6. \A i \in 1 .. m : (\A j \in i + 1 .. m : j \in S) => i \in S
  BY <1>4
<1> HIDE DEF m, S
<1>7. 1 .. m \subseteq S
  BY <1>5, <1>6, BackInduction
<1>8. AllGuarded(text, 1)
  BY <1>1 DEF AllGuarded, Guarded
<1>9. f[1] \in Seq(T \ {Value})
  BY <1>5, <1>7, <1>8 DEF S
<1> QED  BY <1>3, <1>9

\* A part of a text that was cut in two.
LEMMA Rejoined ==
  ASSUME NEW T, NEW text \in Seq(T), NEW n \in 0 .. Len(text), NEW i \in 1 .. n,
         NEW next \in i + 1 .. n + 1
  PROVE  SubSeq(text, i, next - 1) \o SubSeq(text, next, n) = SubSeq(text, i, n)
<1> DEFINE a == SubSeq(text, i, next - 1)
           b == SubSeq(text, next, n)
           c == SubSeq(text, i, n)
           s == a \o b
<1>1. \A k \in 1 .. n : text[k] \in T
  OBVIOUS
<1>2. a \in Seq(T) /\ Len(a) = next - i /\ \A k \in 1 .. next - i : a[k] = text[i + k - 1]
  <2>1. /\ i \in Int /\ next - 1 \in Int /\ \A k \in i .. next - 1 : text[k] \in T
        /\ i <= next - 1 /\ next - 1 - i + 1 = next - i
    BY <1>1
  <2> QED  BY <2>1, SubSeqProperties, SMTT(30)
<1>3. /\ b \in Seq(T) /\ Len(b) = n + 1 - next
      /\ \A k \in 1 .. n + 1 - next : b[k] = text[next + k - 1]
  <2>1. /\ next \in Int /\ n \in Int /\ \A k \in next .. n : text[k] \in T
        /\ n - next + 1 = n + 1 - next
    BY <1>1
  <2> QED  BY <2>1, SubSeqProperties, SMTT(30)
<1>4. /\ c \in Seq(T) /\ Len(c) = n + 1 - i
      /\ \A k \in 1 .. n + 1 - i : c[k] = text[i + k - 1]
  <2>1. /\ i \in Int /\ n \in Int /\ \A k \in i .. n : text[k] \in T
        /\ n - i + 1 = n + 1 - i /\ i <= n
    BY <1>1
  <2> QED  BY <2>1, SubSeqProperties, SMTT(30)
<1> HIDE DEF a, b, c
<1>5. /\ s \in Seq(T) /\ Len(s) = Len(a) + Len(b)
      /\ \A k \in 1 .. Len(a) + Len(b) : s[k] = IF k <= Len(a) THEN a[k] ELSE b[k - Len(a)]
  BY <1>2, <1>3, ConcatProperties
<1> HIDE DEF s
<1>6. Len(s) = n + 1 - i
  BY <1>2, <1>3, <1>5
<1>7. ASSUME NEW k \in 1 .. n + 1 - i
      PROVE  s[k] = c[k]
  <2>1. s[k] = IF k <= next - i THEN a[k] ELSE b[k - (next - i)]
    BY <1>2, <1>3, <1>5
  <2>2. CASE k <= next - i
    <3>1. k \in 1 .. next - i
      BY <2>2
    <3> QED  BY <1>2, <1>4, <2>1, <2>2, <3>1
  <2>3. CASE ~(k <= next - i)
    <3> DEFINE m == k - (next - i)
    <3>1. m \in 1 .. n + 1 - next /\ next + m - 1 = i + k - 1
      BY <2>3
    <3>2. s[k] = b[m]
      BY <2>1, <2>3
    <3> HIDE DEF m
    <3> QED  BY <1>3, <1>4, <3>1, <3>2
  <2> QED  BY <2>2, <2>3
<1>8. s = c
  BY <1>4, <1>5, <1>6, <1>7, SeqEqual
<1> QED  BY <1>8 DEF s, a, b, c

\* A part of one word.
LEMMA OnePart ==
  ASSUME NEW T, NEW text \in Seq(T), NEW i \in 1 .. Len(text)
  PROVE  SubSeq(text, i, i) = <<text[i]>>
<1> DEFINE part == SubSeq(text, i, i)
<1>1. part \in Seq(T) /\ Len(part) = 1 /\ part[1] = text[i]
  OBVIOUS
<1> HIDE DEF part
<1>2. part = <<text[i]>>
  BY <1>1
<1> QED  BY <1>2 DEF part

\* Without the name of a secret nothing is replaced.
LEMMA RedactKeeps ==
  ASSUME NEW T, NEW text \in Seq(T), Redaction \in Seq(T),
         \A i \in DOMAIN text : text[i] \notin {Key, EncodedKey, KeyStart}
  PROVE  redact(text) = text
<1> DEFINE n == Len(text)
<1>1. n \in Nat /\ DOMAIN text = 1 .. n
  OBVIOUS
<1>2. PICK f \in [1 .. n + 1 -> Seq(T)] : Redacts(text, f, n) /\ redact(text) = f[1]
  BY <1>1, RedactIs
<1> DEFINE S == {i \in 1 .. n + 1 : f[i] = SubSeq(text, i, n)}
           m == n + 1
<1>3. ASSUME NEW i \in 1 .. n
      PROVE  /\ NextOf(text, i) \in i + 1 .. n + 1
             /\ Rewritten(text, i) = SubSeq(text, i, NextOf(text, i) - 1)
  <2> DEFINE separator == separatorOf(text, i)
  <2>1. Plain(text, i)
    BY <1>1, SecretIs
  <2>2. CASE separator = 0
    <3>1. Rewritten(text, i) = <<text[i]>> /\ NextOf(text, i) = i + 1
      BY <2>2 DEF Rewritten, NextOf
    <3>2. SubSeq(text, i, i) = <<text[i]>>
      BY OnePart
    <3> QED  BY <1>1, <3>1, <3>2
  <2>3. CASE separator # 0
    <3>1. Rewritten(text, i) = SubSeq(text, i, separator) /\ NextOf(text, i) = separator + 1
      BY <2>1, <2>3 DEF Rewritten, NextOf
    <3>2. separator \in i + 1 .. n
      BY <1>1, <2>3, SeparatorIs
    <3> HIDE DEF separator
    <3> DEFINE next == separator + 1
    <3>3. next \in i + 1 .. n + 1 /\ next - 1 = separator
      BY <1>1, <3>2
    <3>4. NextOf(text, i) = next
      BY <3>1
    <3> HIDE DEF next
    <3> QED  BY <3>1, <3>3, <3>4
  <2> QED  BY <2>2, <2>3
<1>4. ASSUME NEW i \in 1 .. n + 1, \A j \in i + 1 .. n + 1 : j \in S
      PROVE  i \in S
  <2> SUFFICES f[i] = SubSeq(text, i, n)
    OBVIOUS
  <2>1. CASE i = n + 1
    <3>1. f[i] = <<>>
      BY <1>2, <2>1 DEF Redacts
    <3>2. SubSeq(text, n + 1, n) = <<>>
      OBVIOUS
    <3> QED  BY <2>1, <3>1, <3>2
  <2>2. CASE i # n + 1
    <3>1. i \in 1 .. n
      BY <1>1, <2>2
    <3> DEFINE next == NextOf(text, i)
    <3>2. f[i] = Rewritten(text, i) \o f[next]
      BY <1>2, <3>1 DEF Redacts
    <3>3. next \in i + 1 .. n + 1 /\ Rewritten(text, i) = SubSeq(text, i, next - 1)
      BY <1>3, <3>1
    <3> HIDE DEF next
    <3>4. f[next] = SubSeq(text, next, n)
      BY <1>4, <3>3
    <3>5. SubSeq(text, i, next - 1) \o SubSeq(text, next, n) = SubSeq(text, i, n)
      <4>1. n \in 0 .. Len(text)
        BY <1>1
      <4> QED  BY <3>1, <3>3, <4>1, Rejoined
    <3> QED  BY <3>2, <3>3, <3>4, <3>5
  <2> QED  BY <2>1, <2>2
<1>5. m \in Nat /\ 1 \in 1 .. m
  BY <1>1
<1>6. \A i \in 1 .. m : (\A j \in i + 1 .. m : j \in S) => i \in S
  BY <1>4
<1>7. SubSeq(text, 1, n) = text
  OBVIOUS
<1> HIDE DEF m, S, n
<1>8. 1 .. m \subseteq S
  BY <1>5, <1>6, BackInduction
<1>9. f[1] = SubSeq(text, 1, n)
  BY <1>5, <1>8 DEF S
<1> QED  BY <1>2, <1>7, <1>9

-----------------------------------------------------------------------------
(***************************************************************************)
(* Controls, and the bound on the length.                                  *)
(***************************************************************************)
\* The two modules flatten in the same way.
LEMMA SameFlatten == \A seqs : FlattenSeq(seqs) = Text!FlattenSeq(seqs)
BY DEF FlattenSeq, Text!FlattenSeq

\* What is made of the control characters.
LEMMA SanitizedIs ==
  ASSUME NEW T, NEW text \in Seq(T), {"\\", "u", "c"} \subseteq T
  PROVE  /\ sanitize_terminal_text(text) \in Seq(T \ {Control})
         /\ (\A i \in DOMAIN text : text[i] # Control) => sanitize_terminal_text(text) = text
<1> DEFINE seqs == [i \in DOMAIN text |-> IF text[i] = Control THEN <<"\\", "u", "c">>
                                          ELSE <<text[i]>>]
           n == Len(text)
           C == Seq(T \ {Control})
           mark == "\\"
<1>1. n \in Nat /\ DOMAIN text = 1 .. n /\ \A i \in 1 .. n : text[i] \in T
  OBVIOUS
<1>2. seqs \in Seq(Seq(T \cup {Control})) /\ Len(seqs) = n
  <2>1. mark \in T /\ "u" \in T /\ "c" \in T
    BY Zenon
  <2> HIDE DEF mark
  <2>2. <<mark, "u", "c">> \in Seq(T \cup {Control})
    BY <2>1
  <2>3. \A i \in 1 .. n : <<text[i]>> \in Seq(T \cup {Control})
    BY <1>1
  <2> DEFINE escaped == <<mark, "u", "c">>
             D == Seq(T \cup {Control})
             cut == [i \in DOMAIN text |-> IF text[i] = Control THEN escaped ELSE <<text[i]>>]
  <2>4. seqs = cut
    BY Zenon DEF mark
  <2> HIDE DEF escaped, D, seqs
  <2>5. cut \in Seq(D) /\ Len(cut) = n
    <3>1. \A i \in 1 .. n : cut[i] \in D
      BY <1>1, <2>2, <2>3 DEF escaped, D
    <3> QED  BY <1>1, <3>1
  <2> QED  BY <2>4, <2>5 DEF D
<1>3. sanitize_terminal_text(text) = FlattenSeq(seqs)
  BY DEF sanitize_terminal_text
<1>4. \A i \in 1 .. n : seqs[i] = IF text[i] = Control THEN <<mark, "u", "c">> ELSE <<text[i]>>
  BY <1>1, Zenon
<1>5. \A i \in 1 .. n : seqs[i] \in C
  <2>1. mark \in T \ {Control} /\ "u" \in T \ {Control} /\ "c" \in T \ {Control}
    BY Zenon DEF Control
  <2> HIDE DEF mark
  <2>2. <<mark, "u", "c">> \in C
    BY <2>1
  <2>3. ASSUME NEW i \in 1 .. n, text[i] # Control
        PROVE  <<text[i]>> \in C
    <3>1. text[i] \in T \ {Control}
      BY <1>1, <2>3
    <3> QED  BY <3>1
  <2> HIDE DEF C, seqs
  <2> QED  BY <1>4, <2>2, <2>3
<1> HIDE DEF seqs
<1>6. CASE n = 0
  <2>1. seqs = <<>> /\ text = <<>>
    BY <1>1, <1>2, <1>6
  <2>2. FlattenSeq(seqs) = seqs
    BY <2>1 DEF FlattenSeq
  <2>3. <<>> \in C
    OBVIOUS
  <2> HIDE DEF C
  <2>4. sanitize_terminal_text(text) \in C /\ sanitize_terminal_text(text) = text
    BY <1>3, <2>1, <2>2, <2>3
  <2> QED  BY <2>4 DEF C
<1>7. CASE n # 0
  <2> DEFINE f == CHOOSE f : f =
                    [i \in 1 .. n |-> IF i = 1 THEN seqs[i] ELSE f[i - 1] \o seqs[i]]
             S == {k \in Nat : k \in 1 .. n => f[k] = SubSeq(text, 1, k)}
  <2>1. FlattenSeq(seqs) \in C
    <3>1. \A s, t \in C : s \o t \in C
      OBVIOUS
    <3> HIDE DEF C
    <3> QED  BY <1>1, <1>2, <1>5, <1>7, <3>1, FlattenKeeps, SameFlatten
  <2>2. FlattenSeq(seqs) = f[n]
    BY <1>2, <1>7 DEF FlattenSeq
  <2>3. Flattens(seqs, f, n)
    BY <1>1, FlattensSome DEF Flattens
  <2> HIDE DEF f
  <2>4. ASSUME \A i \in DOMAIN text : text[i] # Control
        PROVE  f[n] = text
    <3>1. \A i \in 1 .. n : f[i] = IF i = 1 THEN seqs[i] ELSE f[i - 1] \o seqs[i]
      BY <2>3 DEF Flattens
    <3>2. \A i \in 1 .. n : seqs[i] = SubSeq(text, i, i)
      BY <1>1, <1>4, <2>4, OnePart
    <3>3. 0 \in S
      OBVIOUS
    <3>4. ASSUME NEW k \in Nat, k \in S
          PROVE  k + 1 \in S
      <4> SUFFICES ASSUME k + 1 \in 1 .. n
                   PROVE  f[k + 1] = SubSeq(text, 1, k + 1)
        OBVIOUS
      <4>1. CASE k = 0
        <5>1. f[1] = SubSeq(text, 1, 1)
          BY <1>1, <1>7, <3>1, <3>2
        <5> QED  BY <4>1, <5>1
      <4>2. CASE k # 0
        <5> DEFINE m == k + 1
        <5>1. m \in 1 .. n /\ m # 1 /\ m - 1 = k /\ k \in 1 .. n /\ m \in 1 + 1 .. m + 1
              /\ 1 \in 1 .. m /\ m \in 0 .. Len(text)
          BY <1>1, <4>2
        <5> HIDE DEF m
        <5>2. f[m] = f[k] \o seqs[m]
          <6>1. f[m] = IF m = 1 THEN seqs[m] ELSE f[m - 1] \o seqs[m]
            BY <3>1, <5>1
          <6> QED  BY <5>1, <6>1
        <5>3. f[k] = SubSeq(text, 1, k) /\ seqs[m] = SubSeq(text, m, m)
          BY <3>2, <3>4, <5>1
        <5>4. SubSeq(text, 1, m - 1) \o SubSeq(text, m, m) = SubSeq(text, 1, m)
          BY <5>1, Rejoined
        <5> QED  BY <5>1, <5>2, <5>3, <5>4 DEF m
      <4> QED  BY <4>1, <4>2
    <3> HIDE DEF S
    <3>5. Nat \subseteq S
      BY <3>3, <3>4, SetInduction
    <3>6. f[n] = SubSeq(text, 1, n)
      BY <1>1, <1>7, <3>5 DEF S
    <3>7. SubSeq(text, 1, n) = text
      OBVIOUS
    <3> QED  BY <3>6, <3>7
  <2> QED  BY <1>3, <2>1, <2>2, <2>4
<1> QED  BY <1>6, <1>7

\* What messages, and what is made of them, are texts of.
Symbols ==
  STRING \cup {"[", "R", "]", "t", "\\", "u", "c", Value, Control}

\* What is written in place of others is of these.
LEMMA SymbolsAre ==
  /\ {"\\", "u", "c"} \subseteq Symbols /\ {"\\", "u", "c"} \subseteq Symbols \ {Value}
  /\ Redaction \in Seq(Symbols \ {Value})
  /\ TruncationMarker \in Seq(Symbols \ {Value})
  /\ TruncationMarker \in Seq(Symbols \ {Control})
  /\ Len(TruncationMarker) = 3
<1>1. /\ {"\\", "u", "c"} \subseteq Symbols /\ {"\\", "u", "c"} \subseteq Symbols \ {Value}
      /\ {"[", "R", "]", "t"} \subseteq Symbols \ {Value}
      /\ {"[", "R", "]", "t"} \subseteq Symbols \ {Control}
  BY Zenon DEF Symbols, Value, Control
<1> DEFINE T == Symbols \ {Value}
           U == Symbols \ {Control}
<1>2. {"[", "R", "]", "t"} \subseteq T /\ {"[", "R", "]", "t"} \subseteq U
  BY <1>1
<1> HIDE DEF T, U
<1>3. Redaction \in Seq(T) /\ TruncationMarker \in Seq(T) /\ TruncationMarker \in Seq(U)
  BY <1>2 DEF Redaction, TruncationMarker
<1>4. Len(TruncationMarker) = 3
  BY DEF TruncationMarker
<1> QED  BY <1>1, <1>3, <1>4 DEF T, U

\* The beginning of a text.
Begins(whole, part, n) ==
  /\ Len(part) = IF Len(whole) <= n THEN Len(whole) ELSE n
  /\ \A i \in 1 .. Len(part) : part[i] = whole[i]

\* That is what Prefix takes.
LEMMA PrefixIs ==
  ASSUME NEW T, NEW text \in Seq(T), NEW n \in Nat
  PROVE  /\ Prefix(text, n) \in Seq(T) /\ Begins(text, Prefix(text, n), n)
         /\ Len(text) <= n => Prefix(text, n) = text
<1> DEFINE m == IF Len(text) <= n THEN Len(text) ELSE n
           part == SubSeq(text, 1, m)
<1>1. m \in 0 .. Len(text) /\ (Len(text) <= n => m = Len(text))
  OBVIOUS
<1> HIDE DEF m
<1>2. part \in Seq(T) /\ Len(part) = m /\ \A i \in 1 .. m : part[i] = text[i]
  BY <1>1
<1>3. SubSeq(text, 1, Len(text)) = text
  OBVIOUS
<1>4. Prefix(text, n) = part
  BY DEF Prefix, m
<1> HIDE DEF part
<1>5. Begins(text, part, n)
  BY <1>2 DEF Begins, m
<1>6. Len(text) <= n => part = text
  BY <1>1, <1>3 DEF part
<1> QED  BY <1>2, <1>4, <1>5, <1>6

\* A guard is within the beginning that its value is in.
LEMMA GuardedWithin ==
  ASSUME NEW T, NEW text \in Seq(T), NEW part \in Seq(T), NEW n \in Nat, Begins(text, part, n),
         NEW i \in 1 .. Len(part), Guarded(text, i)
  PROVE  Guarded(part, i)
<1>1. PICK k \in 1 .. i - 1 : Guards(text, k, i)
  BY DEF Guarded
<1>2. Len(part) <= Len(text) /\ \A m \in 1 .. Len(part) : part[m] = text[m]
  BY DEF Begins
<1>3. \A m \in 1 .. i : part[m] = text[m]
  BY <1>2
<1>4. SubSeq(part, k + 1, i - 1) = SubSeq(text, k + 1, i - 1)
  <2> DEFINE a == k + 1
             b == i - 1
             s == SubSeq(part, a, b)
             t == SubSeq(text, a, b)
  <2>1. /\ a \in Int /\ b \in Int
        /\ \A m \in a .. b : part[m] \in T /\ text[m] \in T /\ part[m] = text[m]
    BY <1>2
  <2> HIDE DEF a, b
  <2>2. /\ s \in Seq(T) /\ t \in Seq(T) /\ Len(s) = Len(t)
        /\ Len(s) = IF a <= b THEN b - a + 1 ELSE 0
        /\ \A m \in 1 .. b - a + 1 : s[m] = part[a + m - 1] /\ t[m] = text[a + m - 1]
    BY <2>1, SubSeqProperties, SMTT(30)
  <2> HIDE DEF s, t
  <2>3. ASSUME NEW m \in 1 .. Len(s)
        PROVE  s[m] = t[m]
    <3>1. m \in 1 .. b - a + 1 /\ a + m - 1 \in a .. b
      BY <2>1, <2>2
    <3> QED  BY <2>1, <2>2, <3>1
  <2>4. s = t
    BY <2>2, <2>3, SeqEqual
  <2> QED  BY <2>4 DEF s, t, a, b
<1>5. Guards(part, k, i)
  <2>1. part[k] = text[k] /\ (k > 1 => part[k - 1] = text[k - 1])
    BY <1>3
  <2>2. StartsName(text, k) => StartsName(part, k)
    <3>1. k = 1 \/ part[k - 1] = text[k - 1]
      BY <2>1
    <3> QED  BY <3>1, Zenon DEF StartsName
  <2>3. Apart(text, k) => Apart(part, k)
    <3> SUFFICES ASSUME Apart(text, k), NEW j \in 1 .. k - 1,
                        part[j] \in {Key, EncodedKey, KeyStart}
                 PROVE  \E m \in j .. k - 1 :
                          part[m] = "\n" /\ \A p \in j .. m : part[p] \notin Quotes
      BY Zenon DEF Apart
    <3>1. text[j] \in {Key, EncodedKey, KeyStart}
      BY <1>3
    <3>2. PICK m \in j .. k - 1 : text[m] = "\n" /\ \A p \in j .. m : text[p] \notin Quotes
      BY <3>1, Zenon DEF Apart
    <3>3. part[m] = text[m] /\ \A p \in j .. m : part[p] = text[p]
      BY <1>3
    <3> QED  BY <3>2, <3>3
  <2> QED  BY <1>1, <1>4, <2>1, <2>2, <2>3, Zenon DEF Guards
<1> QED  BY <1>1, <1>5 DEF Guarded

\* Two texts without a symbol.
LEMMA Without ==
  ASSUME NEW T, NEW x, NEW text \in Seq(T \ {x})
  PROVE  ~Contains(text, x)
BY DEF Contains

\* What is shown is bounded, its end is marked when it was cut, and it is of the symbols
\* that the text and the marker are of.
LEMMA BoundedIs ==
  ASSUME NEW T, NEW text \in Seq(T), TruncationMarker \in Seq(T), NEW truncated \in BOOLEAN,
         Len(TruncationMarker) = 3
  PROVE  /\ Bounded(text, truncated) \in Seq(T)
         /\ Len(Bounded(text, truncated)) <= MaxDiagnostic
         /\ ~truncated /\ Len(text) <= MaxDiagnostic => Bounded(text, truncated) = text
<1> DEFINE n == MaxDiagnostic - Len(TruncationMarker)
           part == Prefix(text, n)
           marker == TruncationMarker
<1>1. n \in Nat /\ n + 3 = MaxDiagnostic /\ MaxDiagnostic \in Nat
  BY ErrorAssumption
<1>2. part \in Seq(T) /\ Begins(text, part, n)
  BY <1>1, PrefixIs
<1>3. Bounded(text, truncated) = IF ~truncated /\ Len(text) <= MaxDiagnostic THEN text
                                 ELSE part \o marker
  BY DEF Bounded
<1> HIDE DEF n, part, marker
<1>4. Len(part) <= n
  BY <1>1, <1>2 DEF Begins
<1>5. marker \in Seq(T) /\ Len(marker) = 3
  BY DEF marker
<1>6. part \o marker \in Seq(T) /\ Len(part \o marker) <= MaxDiagnostic
  <2>1. part \o marker \in Seq(T) /\ Len(part \o marker) = Len(part) + Len(marker)
    BY <1>2, <1>5, ConcatProperties
  <2>2. Len(part) \in Nat
    BY <1>2
  <2> QED  BY <1>1, <1>4, <1>5, <2>1, <2>2
<1> QED  BY <1>3, <1>6

-----------------------------------------------------------------------------
(***************************************************************************)
(* What is given of a message.                                             *)
(***************************************************************************)
\* A text of some symbols is one of more.
LEMMA MoreSymbols ==
  ASSUME NEW S, NEW T, S \subseteq T
  PROVE  Seq(S) \subseteq Seq(T)
OBVIOUS

\* What is shown of a message.
LEMMA DiagnosticIs ==
  ASSUME NEW raw \in Seq(Symbols)
  PROVE  LET given == sanitize_diagnostic(raw) IN
           /\ Len(given) <= MaxDiagnostic
           /\ ~Contains(given, Control)
           /\ (\A i \in DOMAIN raw : raw[i] = Value => Guarded(raw, i))
                => ~Contains(given, Value)
           /\ Len(raw) <= MaxDiagnostic
              /\ ToSet(raw) \cap {Key, EncodedKey, KeyStart, Control} = {}
                => given = raw
<1> DEFINE part == Prefix(raw, MaxDiagnostic)
           redacted == redact(part)
           visible == sanitize_terminal_text(redacted)
           truncated == Len(raw) > MaxDiagnostic
           given == sanitize_diagnostic(raw)
           T == Symbols \ {Value}
<1>1. given = Bounded(visible, truncated)
  BY DEF sanitize_diagnostic
<1>2. MaxDiagnostic \in Nat
  BY ErrorAssumption
<1>3. /\ part \in Seq(Symbols) /\ Begins(raw, part, MaxDiagnostic)
      /\ Len(raw) <= MaxDiagnostic => part = raw
  BY <1>2, PrefixIs
<1>4. Redaction \in Seq(T) /\ Redaction \in Seq(Symbols) /\ T \subseteq Symbols
  <2>1. Redaction \in Seq(T)
    BY SymbolsAre
  <2>2. T \subseteq Symbols
    OBVIOUS
  <2> HIDE DEF T
  <2> QED  BY <2>1, <2>2, MoreSymbols
<1> HIDE DEF part
<1>5. redacted \in Seq(Symbols)
  <2> DEFINE n == Len(part)
  <2>1. n \in Nat
    BY <1>3
  <2>2. PICK f \in [1 .. n + 1 -> Seq(Symbols)] : Redacts(part, f, n) /\ redacted = f[1]
    BY <1>3, <1>4, <2>1, RedactIs
  <2> QED  BY <2>1, <2>2
<1>6. truncated \in BOOLEAN
  OBVIOUS
<1> HIDE DEF truncated
<1>7. visible \in Seq(Symbols \ {Control})
  BY <1>5, SanitizedIs, SymbolsAre
<1>8. Len(given) <= MaxDiagnostic /\ ~Contains(given, Control)
  <2>1. given \in Seq(Symbols \ {Control}) /\ Len(given) <= MaxDiagnostic
    BY <1>1, <1>6, <1>7, SymbolsAre, BoundedIs
  <2> QED  BY <2>1, Without
<1>9. ASSUME \A i \in DOMAIN raw : raw[i] = Value => Guarded(raw, i)
      PROVE  ~Contains(given, Value)
  <2>1. \A i \in DOMAIN part : part[i] = Value => Guarded(part, i)
    <3> SUFFICES ASSUME NEW i \in DOMAIN part, part[i] = Value
                 PROVE  Guarded(part, i)
      OBVIOUS
    <3>1. i \in 1 .. Len(part)
      BY <1>3
    <3>2. raw[i] = Value /\ i \in DOMAIN raw
      BY <1>2, <1>3, <3>1 DEF Begins
    <3>3. Guarded(raw, i)
      BY <1>9, <3>2
    <3> QED  BY <1>2, <1>3, <3>1, <3>3, GuardedWithin
  <2>2. redacted \in Seq(T)
    BY <1>3, <1>4, <2>1, RedactHides
  <2>3. visible \in Seq(T)
    <3>1. {"\\", "u", "c"} \subseteq T
      BY SymbolsAre, Zenon
    <3>2. T \ {Control} \subseteq T
      OBVIOUS
    <3> HIDE DEF T
    <3>3. visible \in Seq(T \ {Control})
      BY <2>2, <3>1, SanitizedIs
    <3> QED  BY <3>2, <3>3, MoreSymbols
  <2>4. given \in Seq(T)
    BY <1>1, <1>6, <2>3, SymbolsAre, BoundedIs
  <2> QED  BY <2>4, Without
<1>10. ASSUME Len(raw) <= MaxDiagnostic,
              ToSet(raw) \cap {Key, EncodedKey, KeyStart, Control} = {}
       PROVE  given = raw
  <2>1. part = raw /\ ~truncated
    BY <1>2, <1>3, <1>10 DEF truncated
  <2>2. \A i \in DOMAIN raw : raw[i] \notin {Key, EncodedKey, KeyStart} /\ raw[i] # Control
    <3>1. \A i \in DOMAIN raw : raw[i] \in ToSet(raw)
      BY DEF ToSet
    <3> QED  BY <1>10, <3>1
  <2>3. redacted = raw
    BY <1>3, <1>4, <2>1, <2>2, RedactKeeps
  <2>4. visible = raw
    BY <1>5, <2>2, <2>3, SanitizedIs, SymbolsAre
  <2> QED  BY <1>1, <1>6, <1>7, <1>10, <2>1, <2>4, SymbolsAre, BoundedIs
<1> HIDE DEF given
<1>11. /\ Len(given) <= MaxDiagnostic
       /\ ~Contains(given, Control)
       /\ (\A i \in DOMAIN raw : raw[i] = Value => Guarded(raw, i)) => ~Contains(given, Value)
       /\ Len(raw) <= MaxDiagnostic /\ ToSet(raw) \cap {Key, EncodedKey, KeyStart, Control} = {}
            => given = raw
  BY <1>8, <1>9, <1>10
<1> QED  BY <1>11 DEF given

\* Only the server's messages are shown as such.
LEMMA MessageStays ==
  ASSUME [Next]_vars, ~ServerSays
  PROVE  message' = message
BY DEF Next, vars, Progress, Asking, Begin, Configure, ResolveIdentity, Discover, ListInventory,
       OfferInventory, SelectTarget, UseSelector, ChooseRole, Connect, ReadRoots, Dial,
       RunInput,
       EnterShell, Ask, EditLine, LeaveShell, OutputFails, Same, Shell

\* Before the server says anything.
LEMMA DiagnosticInit == Init => DiagnosticIsSafe
<1> SUFFICES ASSUME Init
             PROVE  DiagnosticIsSafe
  OBVIOUS
<1>1. message.raw = <<>> /\ message.shown = <<>>
  BY DEF Init, NoMessage
<1>2. Len(<<>>) = 0 /\ MaxDiagnostic \in Nat
  BY ErrorAssumption
<1>3. \A x : ~Contains(<<>>, x)
  BY DEF Contains
<1> QED  BY <1>1, <1>2, <1>3 DEF DiagnosticIsSafe

\* Every step keeps it.
LEMMA DiagnosticNext == DiagnosticIsSafe /\ [Next]_vars => DiagnosticIsSafe'
<1> SUFFICES ASSUME DiagnosticIsSafe, [Next]_vars
             PROVE  DiagnosticIsSafe'
  OBVIOUS
<1>1. CASE ServerSays
  <2>1. PICK raw \in Messages :
          message'.raw = raw /\ message'.shown = sanitize_diagnostic(raw)
    <3>1. PICK raw \in Messages : \E failure :
            message' = [raw |-> raw, shown |-> sanitize_diagnostic(raw), failure |-> failure]
      BY <1>1, Zenon DEF ServerSays
    <3> QED  BY <3>1
  <2>2. raw \in Seq(Symbols)
    <3>1. STRING \subseteq Symbols
      BY DEF Symbols
    <3> QED  BY <3>1, StartupAssumption, MoreSymbols
  <2> HIDE DEF Symbols
  <2> QED  BY <2>1, <2>2, DiagnosticIs DEF DiagnosticIsSafe
<1>2. CASE ~ServerSays
  <2>1. message' = message
    BY <1>2, MessageStays
  <2> QED  BY <2>1 DEF DiagnosticIsSafe
<1> QED  BY <1>1, <1>2

\* docs/security.md: what is shown of a server's message is bounded, free of controls and
\* of the values of secrets, and the message itself where nothing is to be hidden: for
\* every text and every bound.
THEOREM DiagnosticsAreSafe == Spec => []DiagnosticIsSafe
BY DiagnosticInit, DiagnosticNext, PTL DEF Spec
=============================================================================
