-------------------------- MODULE MCManagedSession --------------------------
(***************************************************************************)
(* Instances of ManagedSession.  A statement is written as its leading     *)
(* keywords; the sets hold one statement of each behaviour.                *)
(***************************************************************************)
EXTENDS ManagedSession

\* Statements the scanner classifies as the server treats them.
PlainStatements ==
  {<<"BEGIN">>, <<"START", "TRANSACTION">>, <<"COMMIT">>, <<"ROLLBACK">>,
   <<"SAVEPOINT", "S">>, <<"ROLLBACK", "TO", "S">>, <<"SELECT">>,
   <<"SET", "TIMEZONE">>}

\* Those between which a lost connection makes a difference.
FewStatements == {<<"BEGIN">>, <<"COMMIT">>, <<"SELECT">>}

ASSUME \A s \in PlainStatements : WellClassified(s)
=============================================================================
