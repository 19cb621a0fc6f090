------------------------- MODULE TransactionControl -------------------------
(***************************************************************************)
(* The client's view of transaction control, src/sql/scanner.rs and        *)
(* src/app.rs: a statement is classified by at most three leading keywords *)
(* and the classification moves the state shown in the prompt.  Beside it  *)
(* stands what PostgreSQL does with the same keywords, which the code can  *)
(* only guess: the two are compared by the modules that extend this one.   *)
(***************************************************************************)
EXTENDS Naturals, Sequences

(***************************************************************************)
(* A statement is the sequence of its leading keywords, in upper case: the *)
(* scanner compares them ignoring case, skips white space and comments     *)
(* before them, and looks at no more than three.                           *)
(***************************************************************************)
Is(s, i, word) == i <= Len(s) /\ s[i] = word

Control == {"Begin", "Commit", "Rollback", "Savepoint", "Release",
            "RollbackTo", "Other"}

TransactionState == {"Idle", "Active", "Failed", "Uncertain"}

Aborts(s) == Is(s, 1, "ROLLBACK") \/ Is(s, 1, "ABORT")

Commits(s) == Is(s, 1, "COMMIT") \/ Is(s, 1, "END")

classify(s) ==
  CASE Is(s, 1, "BEGIN") \/ (Is(s, 1, "START") /\ Is(s, 2, "TRANSACTION"))
                                   -> "Begin"
    [] Commits(s)                  -> "Commit"
    [] Aborts(s) /\ Is(s, 2, "TO") -> "RollbackTo"
    [] Aborts(s) /\ ~Is(s, 2, "TO") -> "Rollback"
    [] Is(s, 1, "SAVEPOINT")       -> "Savepoint"
    [] Is(s, 1, "RELEASE")         -> "Release"
    [] OTHER                       -> "Other"

\* The prompt state after a statement that succeeded.  Only a commit or a
\* rollback leaves a transaction, and nothing leaves Uncertain but a BEGIN,
\* which prepare() refuses in that state.
transition(state, control) ==
  CASE control = "Begin" -> "Active"
    [] control \in {"Commit", "Rollback"} /\ state # "Uncertain" -> "Idle"
    [] OTHER -> state

-----------------------------------------------------------------------------
(***************************************************************************)
(* The server (external).  `none' is no explicit transaction, `open' a     *)
(* transaction that accepts statements, `aborted' one that accepts only    *)
(* its end or a return to a savepoint.                                     *)
(***************************************************************************)
ServerTxn == {"none", "open", "aborted"}

Begins(s) == classify(s) = "Begin"

Chains(s) == /\ Commits(s) \/ Aborts(s)
             /\ Is(s, 2, "AND") /\ Is(s, 3, "CHAIN")

ToSavepoint(s) ==
  /\ Aborts(s)
  /\ \/ Is(s, 2, "TO")
     \/ (Is(s, 2, "WORK") \/ Is(s, 2, "TRANSACTION")) /\ Is(s, 3, "TO")

Ends(s) == (Commits(s) \/ Aborts(s)) /\ ~Chains(s) /\ ~ToSavepoint(s)

NeedsTransaction(s) ==
  ToSavepoint(s) \/ Chains(s) \/ Is(s, 1, "SAVEPOINT") \/ Is(s, 1, "RELEASE")

\* Can the server run s successfully with the transaction status t?
Accepts(s, t) ==
  CASE t = "none"    -> ~NeedsTransaction(s)
    [] t = "aborted" -> Commits(s) \/ Aborts(s)
    [] OTHER         -> TRUE

\* The status after s succeeded.
Succeeds(s, t) ==
  CASE Begins(s)                   -> "open"
    [] ToSavepoint(s) \/ Chains(s) -> "open"
    [] Ends(s)                     -> "none"
    [] OTHER                       -> t

\* The status after s failed with a database error: a failed COMMIT has ended
\* the transaction, as every optimistic conflict at commit does.
Fails(s, t) ==
  CASE t = "none"                -> "none"
    [] Commits(s) /\ t = "open"  -> "none"
    [] OTHER                     -> "aborted"

(***************************************************************************)
(* The statements the classifier reads as the server does: those whose end *)
(* of transaction is one, and whose return to a savepoint is seen as one.  *)
(***************************************************************************)
WellClassified(s) == ~Chains(s) /\ (ToSavepoint(s) => Is(s, 2, "TO"))
=============================================================================
