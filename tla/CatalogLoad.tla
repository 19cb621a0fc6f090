----------------------------- MODULE CatalogLoad -----------------------------
(***************************************************************************)
(* The completion metadata of the interactive shell: load_snapshot_from    *)
(* and load_rows of src/sql/metadata.rs over the managed session, and the  *)
(* places of src/shell/mod.rs that install a snapshot or invalidate it.    *)
(*                                                                         *)
(* A load is a fixed number of queries under one deadline.  The query that *)
(* is running when it passes is asked to stop, awaited a little longer,    *)
(* and dropped; those after it are not submitted.  Time is two events: the *)
(* deadline of the load, and the end of a clean-up wait.                   *)
(***************************************************************************)
EXTENDS ManagedSession, SequencesExt

CONSTANTS
  CatalogQuery,     \* the queries of a load, each a SELECT
  CatalogQueries,   \* how many a load has
  Answers,          \* what the catalog may hold: rows of fields, each a length
  RowLimit,         \* SCHEMA_LIMIT, RELATION_LIMIT, COLUMN_LIMIT, ROLE_LIMIT, and
                    \* the LIMIT of each query
  FieldBytes,       \* METADATA_FIELD_BYTES_LIMIT
  TotalBytes,       \* METADATA_BYTES_LIMIT
  MaxSchema         \* bound: schema changes

ASSUME CatalogAssumption ==
  /\ CatalogQuery \in Statements /\ Is(CatalogQuery, 1, "SELECT")
  /\ CatalogQueries \in Nat \ {0} /\ MaxSchema \in Nat /\ RowLimit \in Nat
  /\ Answers \subseteq Seq(Seq(Nat))

VARIABLES
  stage,      \* where the shell is
  step,       \* the query of the load
  expired,    \* has LOAD_TIMEOUT passed?
  partial,    \* is what was loaded so far not all there is?
  loadHandle, \* the connection whose cancellation handle is held, if any
  loadCancels, \* cancel requests on their way, by connection
  snapshot,   \* the snapshot installed, as the schemas its names were read from
  \* history: the committed schema, whether the open transaction changes it, the
  \* schemas seen by the queries of the load, whether it kept every row each query
  \* returned, whether a schema change ran that the shell was not told of, and
  \* connections with an abandoned query
  schema, changing, seen, whole, untold, unsettled

loadVars == <<stage, step, expired, partial, loadHandle, loadCancels, snapshot>>
schemaVars == <<schema, changing, seen, whole, untold, unsettled>>
catalogVars == <<vars, loadVars, schemaVars>>

Stages == {"prompt", "statement", "next", "querying", "cancelling", "cleaning"}
Loading == Stages \ {"prompt", "statement"}

MetadataSnapshot(versions, isWhole, stale) ==
  [versions |-> versions, whole |-> isWhole, stale |-> stale]

\* MetadataSnapshot::invalidate
Invalidated == MetadataSnapshot({}, FALSE, TRUE)

\* The shell starts with a load, while the user may already type.
CatalogInit ==
  /\ Init
  /\ stage = "next" /\ step = 1 /\ expired = FALSE /\ partial = FALSE
  /\ loadHandle = 0 /\ loadCancels = {}
  /\ snapshot = MetadataSnapshot({}, FALSE, FALSE)
  /\ schema = 0 /\ changing = FALSE /\ seen = {} /\ whole = TRUE /\ untold = FALSE
  /\ unsettled = {}
-----------------------------------------------------------------------------
is_schema_changing(s) ==
  \/ \E word \in {"CREATE", "ALTER", "DROP", "TRUNCATE", "COMMENT", "GRANT", "REVOKE"} :
       Is(s, 1, word)
  \/ Is(s, 1, "SECURITY") /\ Is(s, 2, "LABEL")
  \/ Is(s, 1, "AWS") /\ Is(s, 2, "IAM") /\ (Is(s, 3, "GRANT") \/ Is(s, 3, "REVOKE"))

\* The queries of a load are cut by the server: what a larger catalog holds beyond
\* their LIMIT never comes.
Limited(held) == IF Len(held) <= RowLimit THEN held ELSE SubSeq(held, 1, RowLimit)

(***************************************************************************)
(* CatalogSink: a row beyond a limit is left out, and those after it that  *)
(* fit are kept.                                                           *)
(***************************************************************************)
Collected(sink, row) ==
  LET bytes == FoldLeft(+, 0, row)
  IN IF /\ Len(sink.rows) < RowLimit
        /\ \A i \in DOMAIN row : row[i] <= FieldBytes
        /\ sink.retained_bytes + bytes <= TotalBytes
     THEN [sink EXCEPT !.rows = Append(@, row), !.retained_bytes = @ + bytes]
     ELSE [sink EXCEPT !.truncated = TRUE]

EmptySink == [rows |-> <<>>, retained_bytes |-> 0, truncated |-> FALSE]

CatalogSink(answer) ==
  LET sink[n \in 0 .. Len(answer)] ==
        IF n = 0 THEN EmptySink ELSE Collected(sink[n - 1], answer[n])
  IN sink[Len(answer)]

\* The server (external): what the statement that succeeds does to the schema.
CatalogServerAnswers ==
  /\ ServerSucceeds \/ ServerRejects
  /\ LET ran == pc' = "succeeded"
         commits == ran /\ changing /\ Commits(stmt) /\ conn.txn = "open"
         changes == ran /\ is_schema_changing(stmt)
     IN /\ schema' = IF commits \/ (changes /\ conn.txn = "none")
                     THEN schema + 1 ELSE schema
        /\ changing' = (conn'.txn = "open" /\ (changing \/ changes))
        /\ seen' = IF ran /\ stage \in Loading THEN seen \cup {schema} ELSE seen
  /\ UNCHANGED <<loadVars, whole, untold, unsettled>>

Poll ==
  /\ stage \in {"statement", "querying", "cleaning"}
  /\ Polled
  /\ changing' = (changing /\ conn'.id = conn.id)
  /\ UNCHANGED <<loadVars, schema, seen, whole, untold, unsettled>>

CatalogWorld == Environment /\ UNCHANGED <<loadVars, schemaVars>>
-----------------------------------------------------------------------------
(***************************************************************************)
(* The shell.                                                              *)
(***************************************************************************)
UserSubmits ==
  /\ stage = "prompt"
  /\ \E s \in Statements \ {CatalogQuery} :
       /\ is_schema_changing(s) => schema < MaxSchema /\ ~changing
       /\ Submit(s)
  /\ stage' = "statement"
  /\ UNCHANGED <<step, expired, partial, loadHandle, loadCancels, snapshot, schemaVars>>

\* Mutant of StatementReturns: only a change outside a transaction counts.
invalidatesWhenIdle ==
  /\ stage = "statement" /\ pc = "ready"
  /\ stage' = "prompt"
  /\ LET changes == is_schema_changing(stmt) IN
     /\ snapshot' = IF changes /\ reported = "ok" /\ state = "Idle"
                     THEN Invalidated ELSE snapshot
     /\ untold' = (untold \/ (changes /\ reported = "lost"))
  /\ UNCHANGED <<vars, step, expired, partial, loadHandle, loadCancels, schema, changing,
                 seen, whole, unsettled>>

\* invalidate_after_schema_change
StatementReturns ==
  /\ stage = "statement" /\ pc = "ready"
  /\ stage' = "prompt"
  /\ LET changes == is_schema_changing(stmt) IN
     /\ snapshot' = IF changes /\ reported = "ok" THEN Invalidated ELSE snapshot
     /\ untold' = (untold \/ (changes /\ reported = "lost"))
  /\ UNCHANGED <<vars, step, expired, partial, loadHandle, loadCancels, schema, changing,
                 seen, whole, unsettled>>

\* \refresh, which is refused while a transaction is open or uncertain.
Refresh ==
  /\ stage = "prompt"
  /\ state = "Idle"
  /\ stage' = "next"
  /\ UNCHANGED <<vars, step, expired, partial, loadHandle, loadCancels, snapshot, schemaVars>>

AnnounceReconnect ==
  stage = "prompt" /\ take_reconnected /\ UNCHANGED <<loadVars, schemaVars>>
-----------------------------------------------------------------------------
(***************************************************************************)
(* The load.                                                               *)
(***************************************************************************)
LoadExpires ==
  /\ stage \in {"next", "querying"} /\ ~expired
  /\ stage = "querying" => pc # "ready"
  /\ expired' = TRUE
  /\ stage' = IF stage = "querying" THEN "cancelling" ELSE stage
  /\ UNCHANGED <<vars, step, partial, loadHandle, loadCancels, snapshot, schemaVars>>

BeginQuery ==
  /\ stage = "next" /\ step <= CatalogQueries /\ ~expired
  /\ Submit(CatalogQuery)
  /\ loadHandle' = conn.id
  /\ stage' = "querying"
  /\ UNCHANGED <<step, expired, partial, loadCancels, snapshot, schemaVars>>

SkipQuery ==
  /\ stage = "next" /\ step <= CatalogQueries /\ expired
  /\ step' = step + 1
  /\ partial' = TRUE /\ whole' = FALSE
  /\ UNCHANGED <<vars, stage, expired, loadHandle, loadCancels, snapshot,
                 schema, changing, seen, untold, unsettled>>

\* Rows left out make the answer partial, and so does any answer that came after
\* the deadline.
QueryReturns ==
  /\ stage \in {"querying", "cleaning"} /\ pc = "ready"
  /\ stage' = "next" /\ step' = step + 1
  /\ \E held \in Answers :
       LET answer == Limited(held)
           sink == CatalogSink(answer)
       IN /\ partial' = (partial \/ stage = "cleaning" \/ sink.truncated
                         \/ reported # "ok")
          /\ whole' = (whole /\ reported = "ok" /\ sink.rows = answer)
  /\ loadHandle' = 0
  /\ UNCHANGED <<vars, expired, loadCancels, snapshot, schema, changing, seen, untold,
                 unsettled>>

\* The request to cancel was sent, or failed, or was not answered in time; while
\* it is awaited the query is not polled.
CancelReturns ==
  /\ stage = "cancelling"
  /\ loadCancels' \in {loadCancels, loadCancels \cup {loadHandle}}
  /\ stage' = "cleaning"
  /\ UNCHANGED <<vars, step, expired, partial, loadHandle, snapshot, schemaVars>>

\* Mutant of DropQuery: the session is poisoned.
dropPoisons ==
  /\ stage = "cleaning" /\ GiveUp /\ pc # "ready"
  /\ stage' = "next" /\ step' = step + 1 /\ partial' = TRUE /\ whole' = FALSE
  /\ unsettled' = unsettled \cup {conn.id} /\ loadHandle' = 0
  /\ UNCHANGED <<expired, loadCancels, snapshot, schema, changing, seen, untold>>

\* Mutant of DropQuery: the connection is trusted to be free again.
dropTrusts ==
  /\ stage = "cleaning" /\ pc # "ready" /\ Return("lost")
  /\ stage' = "next" /\ step' = step + 1 /\ partial' = TRUE /\ whole' = FALSE
  /\ unsettled' = unsettled \cup {conn.id} /\ loadHandle' = 0
  /\ UNCHANGED <<fields, conn, stmt, asked, attempt, now, runs, toldOpen,
                 outputFailed, expired, loadCancels, snapshot, schema, changing, seen, untold>>

\* Mutant of DropQuery: the wait for the query has no limit.
dropNever == FALSE

DropQuery ==
  /\ stage = "cleaning" /\ DropCatalogQuery
  /\ stage' = "next" /\ step' = step + 1 /\ partial' = TRUE /\ whole' = FALSE
  /\ unsettled' = unsettled \cup {conn.id} /\ loadHandle' = 0
  /\ UNCHANGED <<expired, loadCancels, snapshot, schema, changing, seen, untold>>

Install ==
  /\ stage = "next" /\ step = CatalogQueries + 1
  /\ snapshot' = MetadataSnapshot(seen, whole, partial)
  /\ stage' = "prompt" /\ step' = 1 /\ expired' = FALSE /\ partial' = FALSE
  /\ seen' = {} /\ whole' = TRUE
  /\ UNCHANGED <<vars, loadHandle, loadCancels, schema, changing, untold, unsettled>>

\* The server (external) acts on a cancel request, or is too late.
LoadCancelArrives(c) ==
  /\ c \in loadCancels
  /\ loadCancels' = loadCancels \ {c}
  /\ \/ UNCHANGED <<vars, changing>>
     \/ /\ c = conn.id /\ (ServerRejects \/ CaptureRejected)
        /\ changing' = (changing /\ conn'.txn = "open")
  /\ UNCHANGED <<stage, step, expired, partial, loadHandle, snapshot, schema, seen, whole,
                 untold, unsettled>>
-----------------------------------------------------------------------------
Load == BeginQuery \/ SkipQuery \/ QueryReturns \/ CancelReturns \/ DropQuery \/ Install

CatalogNext ==
  \/ Poll \/ CatalogServerAnswers \/ CatalogWorld
  \/ UserSubmits \/ StatementReturns \/ Refresh \/ AnnounceReconnect
  \/ Load \/ LoadExpires
  \/ \E c \in loadCancels : LoadCancelArrives(c)

CatalogSpec == CatalogInit /\ [][CatalogNext]_catalogVars

\* The executor polls the load, and its timers fire.  Neither the server nor the
\* network owes anything.
FairCatalogSpec ==
  CatalogSpec /\ WF_catalogVars(Load) /\ WF_catalogVars(LoadExpires)
-----------------------------------------------------------------------------
\* The shell and its loads use the session only as ManagedSession allows.
LoadUsesSession == Init /\ [][Next]_vars

\* Once the shell was told of a change of the schema, whether its transaction has
\* committed or is still open, it completes no name read before the change, not
\* even from a load that was cut short; and a snapshot not marked stale holds every
\* row its queries returned: of each kind the first names, up to RowLimit.  Those are
\* all names only of a catalog within the limits: a larger one is cut by the LIMIT of
\* the query, and nothing in the snapshot tells of it.
FreshSnapshotIsCurrent ==
  stage \in {"prompt", "statement"} /\ ~untold
    /\ (stage = "prompt" \/ ~is_schema_changing(stmt)) =>
  /\ snapshot.versions # {} => snapshot.versions = {schema} /\ ~changing
  /\ ~snapshot.stale => snapshot.versions # {} /\ snapshot.whole

\* A connection on which a catalog query was abandoned runs nothing more, not
\* even the next query of the same load.
AbandonedConnectionRests ==
  pc \in {"execute", "succeeded", "rejected", "capture"} => conn.id \notin unsettled

\* A load, whatever becomes of its queries, leaves the transaction state alone.
LoadKeepsState == [][state' # state => stage \notin Loading]_catalogVars

\* A load ends, though neither the server nor the network may ever answer.
LoadEnds == stage \in Loading ~> stage = "prompt"
=============================================================================
