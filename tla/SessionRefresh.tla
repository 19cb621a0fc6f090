--------------------------- MODULE SessionRefresh ---------------------------
(***************************************************************************)
(* What a session refresh promises, whoever performs it: one statement is  *)
(* in progress at a time; the connection is replaced only after it was     *)
(* asked for and before it ran, and never while the user has a transaction *)
(* open; and no statement runs twice, on one connection or on two.         *)
(***************************************************************************)
EXTENDS Naturals

VARIABLES
  connection,   \* the number of the connection in use
  open,         \* was the user told of a transaction that has not ended?
  call          \* the statement in progress

vars == <<connection, open, call>>

Init == connection = 1 /\ open = FALSE /\ call = "none"

Ask == call = "none" /\ call' = "asked" /\ UNCHANGED <<connection, open>>

Refresh ==
  /\ call = "asked" /\ ~open
  /\ connection' = connection + 1
  /\ UNCHANGED <<open, call>>

\* The server processes the statement; it may end the transaction.
Run ==
  /\ call = "asked" /\ call' = "ran"
  /\ open' \in {open, FALSE}
  /\ UNCHANGED connection

\* The user learns that the statement opened a transaction.
Report == call = "ran" /\ open' = TRUE /\ UNCHANGED <<connection, call>>

Return == call # "none" /\ call' = "none" /\ UNCHANGED <<connection, open>>

Next == Ask \/ Refresh \/ Run \/ Report \/ Return

Spec == Init /\ [][Next]_vars
=============================================================================
