---------------------------- MODULE MCCatalogLoad ----------------------------
(***************************************************************************)
(* Instances of CatalogLoad.                                               *)
(***************************************************************************)
EXTENDS CatalogLoad

Query == <<"SELECT">>

\* Catalogs that fit, with a field too long, with too many bytes, and with a row
\* more than the LIMIT lets through; 2 rows of 3 bytes, 2 to a field.
LimitAnswers == {<<>>, <<<<1, 1>>, <<1>>>>, <<<<3>>, <<1>>>>, <<<<2>>, <<2>>, <<1>>>>,
                 <<<<1>>, <<1>>, <<1>>>>}

SchemaStatements == {<<"BEGIN">>, <<"COMMIT">>, <<"CREATE", "TABLE">>, Query}
=============================================================================
