--------------------------- MODULE MCScriptReader ---------------------------
(***************************************************************************)
(* Instances of ScriptReader: the scripts are what a few tokens of one     *)
(* lexical construct make in every order.                                  *)
(***************************************************************************)
EXTENDS ScriptReader

CONSTANTS MaxTokens

Quotes   == {<<"'">>, <<"dq">>, <<"bs">>, <<"e">>, <<"semi">>}
Dollars  == {<<"$">>, <<"a">>, <<"$", "a", "$">>, <<"semi">>, <<"1">>}
Comments == {<<"-", "-">>, <<"/", "*">>, <<"*", "/">>, <<"nl">>, <<"semi">>}
Marks    == {<<"-">>, <<"/">>, <<"*">>, <<"a">>, <<"semi">>}
Mixed    == {<<"hi", "lo">>, <<"hi">>, <<"$", "$">>, <<"'">>, <<"semi">>}

Joined(tokens) ==
  LET upTo[n \in Nat] == IF n = 0 THEN <<>> ELSE upTo[n - 1] \o tokens[n]
  IN upTo[Len(tokens)]

SomeScripts ==
  {Joined(tokens) : tokens \in
     UNION {[1 .. n -> family] :
              n \in 0 .. MaxTokens,
              family \in {Quotes, Dollars, Comments, Marks, Mixed}}}
=============================================================================
