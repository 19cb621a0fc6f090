------------------------------ MODULE Startup ------------------------------
(***************************************************************************)
(* From the command line to a session, or to the end of the process:       *)
(* src/cli.rs with the parts it calls, src/main.rs around it.  `clusters`  *)
(* lists the inventory; a script must name everything and is never asked;  *)
(* an interactive start asks for what is missing and ends in the shell.    *)
(* AWS, the network and the user may answer anything.                      *)
(***************************************************************************)
EXTENDS RegionResolution, InventoryOutput, ErrorText, LineHistory

CONSTANTS
  Selectors,     \* texts given for the cluster
  Regions,       \* texts given for a Region
  Usernames,     \* database roles given with -U
  Inputs,        \* -c and -f arguments, in the order of the command line
  RootFiles,     \* what the files of --ssl-root-cert hold when they are read
  MaxRootFiles,  \* MAX_ROOT_CERTIFICATE_FILES
  MaxRoots,      \* MAX_ADDITIONAL_ROOT_CERTIFICATES
  Failures,      \* chains of errors a connection fails with
  Messages       \* texts the server sends

\* Texts are words and marks; an identifier has letters and digits only.
ASSUME StartupAssumption ==
  /\ Selectors \subseteq Seq(STRING) /\ Regions \subseteq Seq(STRING)
  /\ Identifiers \cap Text!Controls = {}
  /\ \A detail \in Details :
       detail.display_name # <<>> => detail.display_name[1] \in Seq(STRING)
  /\ Messages \subseteq Seq(STRING)

VARIABLES
  request,     \* the parsed command line, and whether stdin is a terminal
  phase,       \* what the program is about to do
  config,      \* the Region decision and the configuration of the clients
  selector,    \* the parsed selector
  target, role,
  chosen,      \* the last answer to the selection prompt
  notice,      \* the last line on standard error
  shown,       \* the inventory on standard output: its lines, and whether those go
               \* to a terminal
  ran,         \* the script inputs that were executed
  message,     \* the last message of the server, as it came and as it is shown
  exit,        \* exit code and whether a diagnostic was printed
  called,      \* history: the services that were called
  asked        \* history: the questions that were put

decided == <<config, selector, target, role, chosen>>
history == <<called, asked>>
vars == <<request, phase, decided, notice, shown, ran, message, exit, history, discovery,
          historyVars>>

Running == [code |-> -1, printed |-> FALSE]
NoTarget == [id |-> <<>>, region |-> <<>>, endpoint |-> <<>>, status |-> <<>>, from |-> "none"]
NoRole == [kind |-> "none", name |-> ""]
NotShown == [lines |-> <<>>, terminal |-> FALSE]
NoMessage == [raw |-> <<>>, shown |-> <<>>, failure |-> "none"]

Options(values) == {<<>>} \cup {<<v>> : v \in values}

Requests ==
  [command : {"clusters", "preview"}, cluster : Options(Selectors), region : Options(Regions),
   username : Options(Usernames), inputs : Inputs, terminal : BOOLEAN]

Init ==
  /\ request \in Requests
  /\ phase = "begin"
  /\ config = Unresolved("none") /\ selector = <<>>
  /\ target = NoTarget /\ role = NoRole /\ chosen = <<>>
  /\ notice = "" /\ shown = NotShown /\ ran = 0 /\ message = NoMessage /\ exit = Running
  /\ called = {} /\ asked = {}
  /\ DiscoveryInit /\ HistoryInit
-----------------------------------------------------------------------------
\* The process ends with an error, or without one.  Standard output or error
\* that was closed is no news to the user.
Exits(category, quiet) ==
  /\ phase' = "ended"
  /\ exit' = [code |-> exit_code(category), printed |-> ~quiet]
Fails(category) == Exits(category, FALSE)
Finishes == phase' = "ended" /\ exit' = [code |-> 0, printed |-> FALSE]

Goes(next) == phase' = next /\ UNCHANGED exit

\* What each step leaves alone.
Same == UNCHANGED <<request, ran, message, historyVars>>

uses_stdin_script == request.inputs = <<>> /\ ~request.terminal
noninteractive == request.inputs # <<>> \/ uses_stdin_script

Admin == [kind |-> "admin", name |-> "admin"]
Custom(name) == [kind |-> "custom", name |-> name]
database_role_from_username(name) == IF name = "admin" THEN Admin ELSE Custom(name)

\* Mutant of scriptRefused: a script may leave its role out.
refusedWithoutTarget == request.cluster = <<>> \/ request.username = <<"">>

\* validate_noninteractive_preview, and the role: a script names everything.
scriptRefused ==
  request.cluster = <<>> \/ request.username = <<>> \/ request.username[1] = ""

Begin ==
  /\ phase = "begin"
  /\ CASE request.command = "clusters" ->
            /\ IF request.cluster # <<>> \/ request.inputs # <<>> THEN Fails("usage")
               ELSE Goes("configure")
            /\ UNCHANGED <<selector, role>>
       [] request.command = "preview" ->
            /\ selector' = IF request.cluster = <<>> THEN <<>>
                           ELSE parse_cluster_selector(request.cluster[1])
            /\ role' = IF noninteractive /\ request.username # <<>>
                       THEN database_role_from_username(request.username[1]) ELSE NoRole
            /\ IF \/ request.cluster # <<>> /\ selector' = Malformed
                  \/ noninteractive /\ scriptRefused
               THEN Fails("usage") ELSE Goes("configure")
  /\ Same /\ UNCHANGED <<config, target, chosen, notice, shown, history, discovery>>

interactive == request.command = "preview" /\ ~noninteractive

\* With --verbose the source of the Region is told.
emit_region_diagnostics(resolution) ==
  IF resolution.verdict = "resolved" THEN {notice, resolution.source} ELSE {notice}

\* The SDK's own chain may hold any Region, or none.
Configure ==
  /\ phase = "configure"
  /\ \E default \in Options(Regions) :
       config' = load_aws_configuration(request.region,
                   IF selector = <<>> THEN <<>> ELSE selector[1].region,
                   default, interactive)
  /\ CASE config'.verdict = "usage" -> Fails("usage")
       [] config'.verdict = "ask" -> Goes("ask region")
       [] config'.verdict = "resolved" ->
            Goes(IF noninteractive /\ request.command = "preview" THEN "target" ELSE "identity")
  /\ notice' \in emit_region_diagnostics(config')
  /\ Same /\ UNCHANGED <<selector, target, role, chosen, shown, history, discovery>>

\* TerminalPrompt::ask: a question on standard error and a line of input, which
\* may be blank, at an end, or fail.
Ask(question, Answers) ==
  /\ phase = question
  /\ asked' = asked \cup {question}
  /\ \E answer \in Options(Answers) \cup {<<"", "unreadable">>} :
       IF Len(answer) = 2 THEN Fails("runtime") /\ UNCHANGED decided
       ELSE CASE question = "ask region" ->
                   \E default \in Options(Regions) :
                     /\ config' = prompted_region(answer, default)
                     /\ IF config'.verdict = "usage" THEN Fails("usage") ELSE Goes("identity")
                     /\ UNCHANGED <<selector, target, role, chosen>>
              [] question = "select" -> chosen' = answer /\ Goes("chosen")
                                        /\ UNCHANGED <<config, selector, target, role>>
              [] question = "confirm" ->
                   /\ IF answer = <<"yes">> THEN Goes("confirmed") ELSE Goes("select")
                   /\ UNCHANGED decided
              [] question = "manual" ->
                   /\ selector' = IF answer = <<>> THEN <<>> ELSE parse_cluster_selector(answer[1])
                   /\ IF selector' = Malformed THEN Fails("usage") ELSE Goes("target")
                   /\ UNCHANGED <<config, target, role, chosen>>
              [] question = "role" ->
                   /\ role' = IF answer = <<"admin">> THEN Admin ELSE NoRole
                   /\ CASE answer = <<"admin">> -> Goes("connect")
                        [] answer = <<"custom">> -> Goes("role name")
                        [] OTHER -> Fails("usage")
                   /\ UNCHANGED <<config, selector, target, chosen>>
              [] question = "role name" ->
                   /\ role' = IF answer = <<>> THEN NoRole ELSE Custom(answer[1])
                   /\ IF answer = <<>> THEN Fails("usage") ELSE Goes("connect")
                   /\ UNCHANGED <<config, selector, target, chosen>>
  /\ Same /\ UNCHANGED <<notice, shown, called, discovery>>

Asking ==
  \/ Ask("ask region", Regions) \/ Ask("select", Identifiers)
  \/ Ask("confirm", {"yes", "no"}) \/ Ask("manual", Selectors)
  \/ Ask("role", {"admin", "custom", "both"}) \/ Ask("role name", Usernames \ {""})
-----------------------------------------------------------------------------
\* classify_sdk_error: what STS says, or why it could not be asked, is a line
\* for the user and no more.
classify_sdk_error(error) ==
  CASE error \in {"construction", "ExpiredToken", "InvalidClientTokenId"} -> "credentials unavailable"
    [] error \in {"dispatch", "response", "timeout"} -> "STS endpoint unavailable"
    [] error = "AccessDenied" -> "access denied"
    [] OTHER -> "not resolved"

emit_identity_context(answer) ==
  IF answer = "account" THEN answer ELSE classify_sdk_error(answer)

ResolveIdentity ==
  /\ phase = "identity"
  /\ \E answer \in {"account", "construction", "timeout", "AccessDenied", "Internal"} :
       notice' = emit_identity_context(answer)
  /\ called' = called \cup {"sts"}
  /\ IF selector # <<>> THEN Goes("target") /\ UNCHANGED discovery
     ELSE Goes("discover") /\ discover_clusters
  /\ Same /\ UNCHANGED <<decided, shown, asked>>

\* ClusterDiscovery, by clients made from the loaded configuration.
Discover ==
  /\ phase = "discover"
  /\ Discovers(config.sdk[1])
  /\ called' = called \cup {"dsql"}
  /\ notice' = ""
  /\ UNCHANGED <<request, phase, decided, shown, ran, message, exit, asked, historyVars>>

ListInventory ==
  /\ phase = "discover" /\ request.command = "clusters"
  /\ \/ stage = "failed" /\ Fails("runtime") /\ UNCHANGED shown
     \/ stage = "done" /\ Finishes
        /\ \E format \in InventoryFormats, terminal \in BOOLEAN :
             \E lines \in render_inventory(format, terminal) :
               shown' = [lines |-> lines, terminal |-> terminal]
  /\ Same /\ Returned /\ UNCHANGED <<decided, notice, history>>

\* select_inventory_target: without an inventory the user may still name a cluster.
OfferInventory ==
  /\ phase = "discover" /\ request.command = "preview"
  /\ \/ /\ stage = "failed" /\ Goes("manual")
        /\ notice' = "discovery was unavailable" /\ UNCHANGED shown
     \/ /\ stage = "done" /\ inventory = <<>> /\ Goes("manual")
        /\ notice' = "no discoverable clusters" /\ UNCHANGED shown
     \/ /\ stage = "done" /\ inventory # <<>> /\ Goes("select")
        /\ \E lines \in render_inventory("table", TRUE) :
             shown' = [lines |-> lines, terminal |-> TRUE]
        /\ UNCHANGED notice
  /\ Same /\ Returned /\ UNCHANGED <<decided, history>>

target_of(cluster) ==
  [id |-> cluster.id, region |-> cluster.region, endpoint |-> cluster.endpoint,
   status |-> cluster.status, from |-> "inventory"]

selectable(cluster) == cluster.status = <<"ACTIVE">>

\* The first row with the identifier typed.
Found == SelectInSeq(inventory, LAMBDA c : c.id = chosen)

SelectDiscovered ==
  \/ /\ phase = "chosen" /\ Found = 0
     /\ Fails("usage")
     /\ UNCHANGED <<target, notice>>
  \/ /\ phase = "chosen" /\ Found # 0
     /\ LET cluster == inventory[Found] IN
          CASE selectable(cluster) ->
                 target' = target_of(cluster) /\ Goes("choose role") /\ UNCHANGED notice
            [] ~selectable(cluster) /\ cluster.status \in {<<>>, <<"UNKNOWN">>} ->
                 Goes("confirm") /\ notice' = "unknown status" /\ UNCHANGED target
            [] OTHER -> Goes("select") /\ notice' = "not active" /\ UNCHANGED target
  \/ /\ phase = "confirmed"
     /\ target' = target_of(inventory[Found])
     /\ Goes("choose role") /\ UNCHANGED notice

SelectTarget ==
  /\ SelectDiscovered
  /\ Same /\ UNCHANGED <<config, selector, role, chosen, shown, history, discovery>>

\* target_from_selector: the endpoint given, or the canonical one of the Region
\* resolved.
UseSelector ==
  /\ phase = "target"
  /\ LET s == selector[1] IN
       IF check_region(s, config.region)
       THEN /\ target' = [id |-> s.identifier, region |-> config.region, status |-> <<>>,
                          endpoint |-> IF s.endpoint # <<>> THEN s.endpoint
                                       ELSE <<canonical_endpoint(s.identifier, config.region)>>,
                          from |-> "selector"]
            /\ Goes(IF noninteractive THEN "connect" ELSE "choose role")
       ELSE Fails("usage") /\ UNCHANGED target
  /\ Same /\ UNCHANGED <<config, selector, role, chosen, notice, shown, history, discovery>>

\* select_database_role
ChooseRole ==
  /\ phase = "choose role"
  /\ IF request.username = <<>> THEN Goes("role") /\ UNCHANGED role
     ELSE IF request.username[1] = "" THEN Fails("usage") /\ UNCHANGED role
     ELSE Goes("connect") /\ role' = database_role_from_username(request.username[1])
  /\ Same /\ UNCHANGED <<config, selector, target, chosen, notice, shown, history, discovery>>
-----------------------------------------------------------------------------
\* generate_auth_token, for the kind of role; then add_pem_roots; then TLS and
\* the PostgreSQL handshake.
add_pem_roots(roots) ==
  /\ Len(roots) <= MaxRootFiles
  /\ \A k \in DOMAIN roots :
       /\ roots[k].kind = "regular" /\ roots[k].certificates # <<>>
       /\ \A c \in DOMAIN roots[k].certificates : roots[k].certificates[c] = "valid"
  /\ FoldLeft(LAMBDA n, f : n + Len(f.certificates), 0, roots) <= MaxRoots

token_for(r) == IF r.kind = "admin" THEN "DbConnectAdmin" ELSE "DbConnect"

Connect ==
  /\ phase = "connect"
  /\ IF target.endpoint = <<>> THEN Fails("runtime") /\ UNCHANGED <<called, notice>>
     ELSE /\ called' = called \cup {token_for(role)}
          /\ \/ Fails("runtime") /\ UNCHANGED notice
             \/ Goes("read roots") /\ UNCHANGED notice
  /\ Same /\ UNCHANGED <<decided, shown, asked, discovery>>

ReadRoots ==
  /\ phase = "read roots"
  /\ \E roots \in RootFiles : IF add_pem_roots(roots) THEN Goes("dial") ELSE Fails("runtime")
  /\ Same /\ UNCHANGED <<decided, notice, shown, history, discovery>>

Dial ==
  /\ phase = "dial"
  /\ called' = called \cup {"database"}
  /\ \/ Goes("connected") /\ UNCHANGED notice
     \/ \E chain \in Failures :
          Fails("runtime") /\ notice' = dsql_connection_failure(bounded_error_chain_text(chain))
  /\ Same /\ UNCHANGED <<decided, shown, asked, discovery>>

\* The inputs of a script, in one session; one that fails ends the process.
RunInput ==
  /\ phase = "connected" /\ noninteractive
  /\ \/ ran < Len(request.inputs) /\ ran' = ran + 1 /\ UNCHANGED <<phase, exit>>
     \/ ran = Len(request.inputs) /\ Finishes /\ UNCHANGED ran
     \/ \E category \in {"usage", "runtime"} : Fails(category) /\ UNCHANGED ran
  /\ UNCHANGED <<request, decided, notice, shown, message, history, discovery, historyVars>>

\* The shell takes the session over; what the start has found out is its to keep.
EnterShell ==
  /\ phase = "connected" /\ ~noninteractive
  /\ Goes("session")
  /\ config' = Unresolved("none") /\ selector' = <<>> /\ target' = NoTarget /\ role' = NoRole
  /\ chosen' = <<>> /\ notice' = "" /\ shown' = NotShown /\ called' = {} /\ asked' = {}
  /\ account' = <<>> /\ stage' = "off" /\ inventory' = <<>>
  /\ UNCHANGED <<sent, listed, next_token, seen, pending, enriched>>
  /\ request' = [request EXCEPT !.cluster = <<>>, !.region = <<>>, !.username = <<>>]
  /\ \E no_history \in BOOLEAN, disk \in Disks : build_editor(no_history, disk)
  /\ UNCHANGED <<ran, message>>

\* The user edits lines, each written to the history before it runs, and leaves.
inSession == phase = "session" /\ message = NoMessage
Shell == UNCHANGED <<request, decided, notice, shown, ran, message, history, discovery>>

EditLine == inSession /\ (EditorSteps \/ Disk) /\ Shell /\ UNCHANGED <<phase, exit>>

LeaveShell == inSession /\ DropHistory /\ Finishes /\ Shell

\* A notice, or the error that rejects a statement.  The history has no part in
\* it: bound, messages come to a shell without one.
ServerSays ==
  /\ inSession /\ at = Nowhere /\ bound = <<>> /\ files = [f \in Files |-> Blank]
  /\ \E raw \in Messages :
       \/ message' = [raw |-> raw, shown |-> sanitize_diagnostic(raw), failure |-> "none"]
       \/ \E sqlstate \in {"40001", "53300", "42601"} :
            /\ Len(raw) = 1
            /\ message' = [raw |-> raw, shown |-> sanitize_diagnostic(raw),
                           failure |-> dsql_database_failure(sqlstate, sanitize_diagnostic(raw))]
  /\ UNCHANGED <<request, phase, decided, notice, shown, ran, exit, history, discovery,
                 historyVars>>

\* Where a line is written the stream may be closed, or broken.
OutputFails ==
  /\ phase \in {"identity", "discover", "select", "chosen", "manual", "role", "connected"}
  /\ phase = "discover" => stage = "done"
  /\ \E closed \in BOOLEAN : Exits("runtime", closed)
  /\ Same /\ UNCHANGED <<decided, notice, shown, history, discovery>>
-----------------------------------------------------------------------------
Progress ==
  \/ Begin \/ Configure \/ ResolveIdentity \/ Discover \/ ListInventory \/ OfferInventory
  \/ SelectTarget \/ UseSelector \/ ChooseRole \/ Connect \/ ReadRoots \/ Dial
  \/ RunInput \/ EnterShell

Next == Progress \/ Asking \/ EditLine \/ LeaveShell \/ ServerSays \/ OutputFails

Spec == Init /\ [][Next]_vars

\* The program is scheduled, and every call of the SDK and of the network ends,
\* with an answer or a failure.  The user need not answer.
FairSpec == Spec /\ WF_vars(Progress)
-----------------------------------------------------------------------------
(***************************************************************************)
(* Properties.                                                             *)
(***************************************************************************)
Targeted == phase \in {"choose role", "role", "role name", "connect", "read roots", "dial", "connected"}

\* docs/cli.md:41: the cluster connected to is the one that was named, typed or
\* picked from the inventory and, if it is not known to be active, confirmed; the
\* clients, the target and its endpoint are in one Region, the one asked for; and
\* the token is for the role.
TargetIsAsked ==
  Targeted =>
    /\ config.sdk = <<config.region>> /\ target.region = config.region
    /\ request.region # <<>> => target.region = request.region[1]
    /\ target.endpoint \in Options({canonical_endpoint(target.id, target.region)})
    /\ request.cluster # <<>> => LET s == parse_cluster_selector(request.cluster[1])[1] IN
         target.id = s.identifier /\ s.region \in Options({target.region})
    /\ target.from = "inventory" =>
         /\ target.id = chosen /\ \E k \in DOMAIN account : target.id = <<account[k]>>
         /\ target.status # <<"ACTIVE">> =>
              target.status \in {<<>>, <<"UNKNOWN">>} /\ "confirm" \in asked
    /\ request.username # <<>> /\ role # NoRole => role.name = request.username[1]
    /\ \A service \in called \ {"sts", "dsql", "database"} : service = token_for(role)

\* docs/cli.md:35: a script and `clusters` never ask, and what a script does not
\* name or names wrongly ends it before AWS is called at all.
UnattendedNeverAsks ==
  ~interactive =>
    /\ asked = {}
    /\ exit.code = 2 /\ called # {} => "database" \in called
    /\ called \notin SUBSET {"sts", "dsql"} => target # NoTarget /\ role.name # ""

\* An inventory is all the service holds, in its order, each row with its own
\* details or marked as unavailable.  In every format it is shown as a whole, a row
\* for each cluster by identifier; a cluster whose details are not known is shown
\* as that and with no status or endpoint, one with details never is; and a
\* terminal is given no control character of a name.
InventoryIsWhole ==
  LET lines == shown.lines
      rows == RowsOf(lines) IN
  /\ stage = "done" =>
       /\ Len(inventory) = Len(account)
       /\ \A k \in DOMAIN enriched :
            inventory[enriched[k].index] =
              Cluster(account[enriched[k].index], config.region, enriched[k].detail)
  /\ rows # {} \/ (request.command = "clusters" /\ exit.code = 0) =>
       /\ stage = "done" /\ Cardinality(rows) = Len(account)
       /\ \A i, j \in rows : i < j => Rank[IdOf(lines[i])[1]] < Rank[IdOf(lines[j])[1]]
       /\ \A k \in DOMAIN inventory : \E i \in rows :
            /\ IdOf(lines[i]) = inventory[k].id
            /\ EndpointOf(lines[i]) # <<>> <=> inventory[k].endpoint # <<>>
            /\ \/ inventory[k].status = <<>> /\ StatusOf(lines[i]) = <<>>
                                              /\ VerdictOf(lines[i]) # <<"complete">>
               \/ inventory[k].status # <<>> /\ StatusOf(lines[i]) # <<>>
                                              /\ VerdictOf(lines[i]) = <<"complete">>
  /\ shown.terminal => \A i \in rows : lines[i].kind = "cells" =>
       \A k \in DOMAIN lines[i].cells : ToSet(lines[i].cells[k]) \cap Text!Controls = {}

\* The last page named a token the service had never used.
NamesFresh ==
  stage = "listing" /\ next_token # <<>> /\ next_token[1] \in FreshTokens

\* The discovery ends though the service repeats its tokens, in any order, with rows
\* or without; clusters.rs:217 has no limit of pages, so only a service that names
\* a new token on every page, for ever, with no rows to exceed MaxClusters, keeps it.
DiscoveryEnds == []<>~NamesFresh => (stage = "listing" ~> stage # "listing")

\* Where a name may begin.
StartsName(raw, k) ==
  k = 1 \/ raw[k - 1] \in Blanks \cup Quotes \cup {"?", "&", ";", ",", "\n", "{", "[", "("}

\* Whatever was secret before has ended with its line, outside of quotations: it does
\* not reach to k.
Apart(raw, k) ==
  \A j \in 1 .. k - 1 : raw[j] \in {Key, EncodedKey, KeyStart} =>
    \E n \in j .. k - 1 : raw[n] = "\n" /\ \A m \in j .. n : raw[m] \notin Quotes

\* The name of a secret at k, and its value at i.
Guards(raw, k, i) ==
  /\ raw[k] \in {Key, EncodedKey} /\ StartsName(raw, k) /\ Apart(raw, k)
  /\ \/ SubSeq(raw, k + 1, i - 1) \in {<<"=">>, <<":">>, <<":", " ">>, <<"=", "\"">>}
     \/ /\ k > 1 /\ raw[k - 1] = "\""
        /\ SubSeq(raw, k + 1, i - 1) \in {<<"\"", ":">>, <<"\"", ":", "\"">>}

Guarded(raw, i) == \E k \in 1 .. i - 1 : Guards(raw, k, i)

\* docs/security.md: what is shown of a message is bounded and free of control
\* characters, does not hold the value of a secret, and is the message itself when
\* there is nothing to hide.
DiagnosticIsSafe ==
  LET raw == message.raw IN
    /\ Len(message.shown) <= MaxDiagnostic
    /\ ~Contains(message.shown, Control)
    /\ (\A i \in DOMAIN raw : raw[i] = Value => Guarded(raw, i))
         => ~Contains(message.shown, Value)
    /\ Len(raw) <= MaxDiagnostic /\ ToSet(raw) \cap {Key, EncodedKey, KeyStart, Control} = {}
         => message.shown = raw
=============================================================================
