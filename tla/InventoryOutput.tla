-------------------------- MODULE InventoryOutput --------------------------
(***************************************************************************)
(* render_inventory of src/cli.rs: the inventory as a table, as delimited  *)
(* rows or as JSON objects.  A cell is a text, an absent value an empty    *)
(* one; an object holds options.  Names come from tags and may hold any    *)
(* character: OutputText tells them apart.  The padding of a table is left *)
(* out.                                                                    *)
(***************************************************************************)
EXTENDS ClusterDiscovery

Text == INSTANCE OutputText

StatusValues ==
  [ACTIVE |-> "active", CREATING |-> "creating", IDLE |-> "idle", INACTIVE |-> "inactive",
   UPDATING |-> "updating", DELETING |-> "deleting", DELETED |-> "deleted",
   FAILED |-> "failed", PENDING_SETUP |-> "pending_setup",
   PENDING_DELETE |-> "pending_delete", UNKNOWN |-> "unknown"]
status_value(status) == IF status = <<>> THEN <<>> ELSE <<StatusValues[status[1]]>>

EnrichmentValues ==
  [complete |-> "complete", access_denied |-> "unavailable_access_denied",
   throttled |-> "unavailable_throttled", not_found |-> "unavailable_not_found",
   other |-> "unavailable_other"]
enrichment_value(enrichment) == <<EnrichmentValues[enrichment]>>

OrEmpty(option) == IF option = <<>> THEN <<>> ELSE option[1]

\* escape_terminal_text, over the cells that may need it.
OnScreen(text, escaped) == IF escaped THEN Text!escape_terminal_text(text) ELSE text

inventory_cells(c, escaped) ==
  <<OnScreen(c.id, escaped), OnScreen(c.region, escaped), status_value(c.status),
    OnScreen(OrEmpty(c.endpoint), escaped), OnScreen(OrEmpty(c.display_name), escaped),
    enrichment_value(c.enrichment)>>

Header == [kind |-> "header"]
Separators == [kind |-> "separators"]
Cells(clusters, escaped) ==
  [k \in DOMAIN clusters |->
    [kind |-> "cells", cells |-> inventory_cells(clusters[k], escaped)]]

render_delimited(clusters, terminal) == <<Header>> \o Cells(clusters, terminal)

render_table(clusters) == <<Header, Separators>> \o Cells(clusters, TRUE)

\* JSON strings decode to the texts themselves.
JsonCluster(c) ==
  [kind |-> "object", id |-> c.id, region |-> c.region, status |-> status_value(c.status),
   endpoint |-> c.endpoint, name |-> c.display_name,
   enrichment |-> enrichment_value(c.enrichment)]
render_jsonl(clusters) == [k \in DOMAIN clusters |-> JsonCluster(clusters[k])]

\* CSV and TSV differ in their delimiter.
InventoryFormats == {"table", "delimited", "jsonl"}

\* Rows come by identifier; all are of one Region.
Sorted(clusters) ==
  LET rows == DOMAIN clusters IN
    {s \in {[k \in rows |-> clusters[order[k]]] : order \in Bijection(rows, rows)} :
       \A i, j \in rows : i < j => Rank[s[i].id[1]] <= Rank[s[j].id[1]]}

Rendered(clusters, format, terminal) ==
  CASE format = "table" -> render_table(clusters)
    [] format = "delimited" -> render_delimited(clusters, terminal)
    [] format = "jsonl" -> render_jsonl(clusters)

\* What may be written; there is one order but for equal identifiers.
render_inventory(format, terminal) ==
  {Rendered(clusters, format, terminal) : clusters \in Sorted(inventory)}
-----------------------------------------------------------------------------
\* What a reader of the lines finds: which are rows, and of each the identifier, the
\* status, the endpoint, the name and the details' verdict.
RowsOf(lines) == {i \in DOMAIN lines : lines[i].kind \in {"cells", "object"}}
IdOf(row) == IF row.kind = "cells" THEN row.cells[1] ELSE row.id
StatusOf(row) == IF row.kind = "cells" THEN row.cells[3] ELSE row.status
EndpointOf(row) == IF row.kind = "cells" THEN row.cells[4] ELSE OrEmpty(row.endpoint)
VerdictOf(row) == IF row.kind = "cells" THEN row.cells[6] ELSE row.enrichment
=============================================================================
