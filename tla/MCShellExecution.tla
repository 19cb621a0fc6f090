-------------------------- MODULE MCShellExecution --------------------------
(***************************************************************************)
(* Instances of ShellExecution.                                            *)
(***************************************************************************)
EXTENDS ShellExecution

\* One statement of each kind that an interrupt treats differently.
FewStatements == {<<"BEGIN">>, <<"COMMIT">>, <<"SELECT">>}

\* The two between which a lost connection makes a difference.
TwoStatements == {<<"BEGIN">>, <<"SELECT">>}
=============================================================================
