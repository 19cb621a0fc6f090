-------------------------- MODULE ClusterDiscovery --------------------------
(***************************************************************************)
(* src/aws/clusters.rs: the inventory.  ListClusters page by page, then one *)
(* GetCluster for each row, several at a time and answered in any order.   *)
(* The service may repeat a token, name a new one on every page for ever,  *)
(* go on after its last cluster and fail at any call; the calls end, since *)
(* the SDK gives up on them.                                               *)
(***************************************************************************)
EXTENDS ClusterSelector, Functions

CONSTANTS
  Inventories,   \* what the service may hold: sequences of identifiers
  Rank,          \* the byte order of identifiers
  PageSize,      \* rows of a page (100)
  Concurrency,   \* DETAIL_CONCURRENCY
  MaxClusters,   \* MAX_DISCOVERABLE_CLUSTERS
  Tokens,        \* page tokens the service may repeat
  FreshTokens,   \* stand for all the tokens it never repeats, one after another
  Details        \* the answers of GetCluster

ASSUME DiscoveryAssumption ==
  /\ Tokens \cap FreshTokens = {}
  /\ PageSize \in Nat /\ Concurrency \in Nat \ {0} /\ MaxClusters \in Nat
  /\ Rank \in [Identifiers -> Nat] /\ IsInjective(Rank)
  /\ \A held \in Inventories : held \in Seq(Identifiers) /\ IsInjective(held)

VARIABLES
  account,    \* what the service holds
  sent,       \* how much of it the pages so far have delivered
  stage,      \* "off", "listing", "details", "done", "failed"
  listed,     \* identifiers, in the order of the pages
  next_token, \* what the next page is asked for with
  seen,       \* seen_tokens
  pending,    \* the rows whose detail request is in flight
  enriched,   \* answered requests, in the order they were answered
  inventory   \* the result

discovery == <<account, sent, stage, listed, next_token, seen, pending, enriched, inventory>>

\* The fields that matter of an answer: an error category, or a lifecycle status,
\* whether there is an endpoint, and the tag with the name, if any.
Detailed(status, endpoint, name) ==
  [error |-> "none", status |-> status, endpoint |-> endpoint, display_name |-> name]
Refused(error) ==
  [error |-> error, status |-> "", endpoint |-> FALSE, display_name |-> <<>>]

\* Service errors by name; any other error of the SDK is "other".
map_error(error) == IF error \in {"access_denied", "throttled", "not_found"} THEN error ELSE "other"

Lifecycle ==
  {"ACTIVE", "CREATING", "IDLE", "INACTIVE", "UPDATING", "DELETING", "DELETED",
   "FAILED", "PENDING_SETUP", "PENDING_DELETE"}
map_status(status) == IF status \in Lifecycle THEN status ELSE "UNKNOWN"

Cluster(id, region, detail) ==
  [id |-> <<id>>, region |-> region,
   endpoint |-> IF detail.endpoint THEN <<canonical_endpoint(<<id>>, region)>> ELSE <<>>,
   display_name |-> detail.display_name,
   status |-> IF detail.error = "none" THEN <<map_status(detail.status)>> ELSE <<>>,
   enrichment |-> IF detail.error = "none" THEN "complete" ELSE map_error(detail.error)]

DiscoveryInit ==
  /\ account \in Inventories
  /\ sent = 0 /\ stage = "off" /\ listed = <<>> /\ next_token = <<>> /\ seen = {}
  /\ pending = {} /\ enriched = <<>> /\ inventory = <<>>

discover_clusters ==
  /\ stage = "off"
  /\ stage' = "listing"
  /\ UNCHANGED <<account, sent, listed, next_token, seen, pending, enriched, inventory>>

\* The first requests start at once, each next one as another is answered.
InFlight(started, rows) ==
  started .. (IF rows < Concurrency THEN rows ELSE Concurrency)

tooMany(page) == Len(listed) + Len(page) > MaxClusters

\* Mutant of repeats: tokens are not remembered.
repeatsNever(token) == FALSE

repeats(token) == token # <<>> /\ token[1] \in seen

\* A token that is not repeated need not be remembered.
PageArrives(page, token) ==
  /\ stage = "listing"
  /\ sent' = sent + Len(page)
  /\ next_token' = token
  /\ IF tooMany(page) THEN stage' = "failed" /\ UNCHANGED <<listed, seen, pending>>
     ELSE /\ listed' = listed \o page
          /\ CASE repeats(token) -> stage' = "failed" /\ UNCHANGED <<seen, pending>>
               [] token = <<>> -> /\ stage' = "details"
                                  /\ pending' = InFlight(1, Len(listed'))
                                  /\ UNCHANGED seen
               [] OTHER -> /\ seen' = seen \cup ({token[1]} \ FreshTokens)
                           /\ UNCHANGED <<stage, pending>>
  /\ UNCHANGED <<account, enriched, inventory>>

\* A page holds the next rows; a page without a token ends what there is.
ServiceLists ==
  \E n \in 0 .. PageSize, token \in {<<>>} \cup {<<t>> : t \in Tokens \cup FreshTokens} :
    /\ sent + n <= Len(account)
    /\ token = <<>> => sent + n = Len(account)
    /\ PageArrives(SubSeq(account, sent + 1, sent + n), token)

ListFails ==
  /\ stage = "listing" /\ stage' = "failed"
  /\ UNCHANGED <<account, sent, listed, next_token, seen, pending, enriched, inventory>>

DetailAnswered(i, detail) ==
  /\ stage = "details" /\ i \in pending
  /\ enriched' = Append(enriched, [index |-> i, detail |-> detail])
  /\ LET next == Len(enriched) + Cardinality(pending) + 1 IN
       pending' = (pending \ {i}) \cup (IF next <= Len(listed) THEN {next} ELSE {})
  /\ UNCHANGED <<account, sent, stage, listed, next_token, seen, inventory>>

\* Mutant of byIndex: the rows come in the order of the answers.
byArrival(rows) == rows

\* Every request has its answer: the k-th row is the one of index k.
byIndex(rows) ==
  [k \in DOMAIN rows |-> CHOOSE row \in ToSet(rows) : row.index = k]

Collect(region) ==
  /\ stage = "details" /\ pending = {}
  /\ stage' = "done"
  /\ LET rows == byIndex(enriched) IN
       inventory' = [k \in DOMAIN rows |->
                      Cluster(listed[rows[k].index], region, rows[k].detail)]
  /\ UNCHANGED <<account, sent, listed, next_token, seen, pending, enriched>>

\* The caller has the result, and the rest is gone.
Returned ==
  /\ sent' = 0 /\ listed' = <<>> /\ next_token' = <<>> /\ seen' = {}
  /\ pending' = {} /\ enriched' = <<>>
  /\ UNCHANGED <<account, stage, inventory>>

Discovers(region) ==
  \/ ServiceLists \/ ListFails \/ Collect(region)
  \/ \E i \in pending, detail \in Details : DetailAnswered(i, detail)
=============================================================================
