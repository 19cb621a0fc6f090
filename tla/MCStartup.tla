----------------------------- MODULE MCStartup -----------------------------
(***************************************************************************)
(* An instance of Startup: two Regions and a malformed one, selectors of   *)
(* every form, an inventory that fits and one that does not.               *)
(***************************************************************************)
EXTENDS Startup

Virginia == <<"us", "-", "east", "-", "1">>
China == <<"cn", "-", "east", "-", "1">>
SomeRegions == {Virginia, China, <<"us", "-", "east">>}

Arn(partition, region) ==
  <<"arn", ":">> \o partition \o <<":", "dsql", ":">> \o region
    \o <<":", "acct", ":", "cluster/", "c1">>

SomeSelectors ==
  {<<"c1">>, canonical_endpoint(<<"c1">>, China), <<"c1", ".", "dsql">>,
   Arn(<<"aws">>, Virginia), Arn(<<"aws">>, China), Arn(<<"aws", "-", "cn">>, China)}

SomeInventories == {<<>>, <<"c2", "c1">>, <<"c3", "c2", "c1">>}
ByteOrder == [id \in Identifiers |-> CASE id = "c1" -> 1 [] id = "c2" -> 2 [] id = "c3" -> 3]

SomeDetails ==
  {Detailed("ACTIVE", TRUE, <<>>), Detailed("ACTIVE", FALSE, <<>>),
   Detailed("IDLE", TRUE, <<<<"n", Text!Control>>>>), Detailed("PAUSED", TRUE, <<>>),
   Refused("throttled")}

SomeInputs == {<<>>, <<"command", "file">>}

Pem(kind, certificates) == [kind |-> kind, certificates |-> certificates]
SomeRootFiles ==
  {<<>>, <<Pem("regular", <<"valid">>)>>, <<Pem("directory", <<>>)>>,
   <<Pem("regular", <<"valid", "malformed">>)>>, <<Pem("regular", <<"valid", "valid">>)>>,
   <<Pem("regular", <<"valid">>), Pem("regular", <<>>)>>}

SomeFailures ==
  {<<<<"wrong user to action mapping">>>>, <<<<"iam authentication failed">>>>,
   <<<<"role does not exist">>>>, <<<<"i/o">>, <<"certificate">>>>,
   <<<<"i/o">>, <<"i/o">>, <<"certificate">>>>}

\* Lines to keep, too long, and private; two files, one of which the path leads to,
\* full or not, or which is a link's target.
Line(name, spaced, length) == [name |-> name, spaced |-> spaced, length |-> length]
SomeLines == {Line("a", FALSE, 1), Line("b", FALSE, 1), Line("long", FALSE, 3),
              Line("private", TRUE, 1)}

Full == <<Other, Other, Other>>
SomeDisks ==
  {[at |-> To(kind, 1), files |-> [f \in 1 .. 2 |->
      [lines |-> IF f = 1 THEN lines ELSE <<Other>>, owner |-> FALSE]]] :
     kind \in {"regular", "symlink", "directory"}, lines \in {<<Other>>, Full}}
  \cup {[at |-> To("none", 1), files |-> [f \in 1 .. 2 |-> Blank]]}

Alphabet == {Key, Value, Word, "=", ":", " ", "\"", "\n", Control, "\\"}

\* Every short message, and a few that are longer than the bound.
SomeMessages ==
  BoundedSeq(Alphabet, 5)
    \cup {<<Word, " ">> \o <<"{", "\"", Key, "\"", ":", " ", "\"", Value, "\"", "}">>,
          <<EncodedKey, "=", Value, "&", KeyStart, Word, "=", Value, "&", Word, "=", Word>>,
          <<Key, "=", "\"", Word, "\\", "\"", Value, "\"">>,
          <<Key, ":", Word, "\n", Key, "=", Value>>,
          <<Key, "=", "\n", "\"", Key, "\"", ":", Value>>,
          <<"OC000">>, <<"OC001">>}
=============================================================================
