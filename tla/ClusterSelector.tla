-------------------------- MODULE ClusterSelector --------------------------
(***************************************************************************)
(* src/target.rs: what the text of a cluster selector names.  A text is a  *)
(* sequence of words and of the marks ":", ".", "-" that separate them; the *)
(* prefix "cluster/" is one word.  A value that may be absent is <<>>, or  *)
(* <<value>>.                                                              *)
(***************************************************************************)
EXTENDS Integers, SequencesExt

CONSTANTS
  Identifiers,   \* words of 26 lower case letters and digits
  Accounts       \* words of 12 digits

Digits == {"1", "2"}
LowerCase == {"us", "eu", "cn", "gov", "iso", "isob", "isoe", "isof", "east", "aws", "on"}

\* Characters of a word; any word that is not listed has a few.
Length(word) ==
  CASE word \in Identifiers -> 26
    [] word \in Accounts -> 12
    [] word \in Digits \cup {":", ".", "-"} -> 1
    [] OTHER -> 4

\* The k-th least of a set of numbers.
Nth(S, k) == CHOOSE i \in S : Cardinality({j \in S : j <= i}) = k

\* Where the k-th part ends: at a mark, or behind the text.
Cut(marks, end, k) ==
  IF k = 0 THEN 0 ELSE IF k <= Cardinality(marks) THEN Nth(marks, k) ELSE end

Split(text, mark) ==
  LET marks == {i \in DOMAIN text : text[i] = mark}
      end == Len(text) + 1
  IN  [k \in 1 .. Cardinality(marks) + 1 |->
        SubSeq(text, Cut(marks, end, k - 1) + 1, Cut(marks, end, k) - 1)]

is_region(value) ==
  LET parts == Split(value, "-") IN
    /\ FoldLeft(LAMBDA n, w : n + Length(w), 0, value) <= 20
    /\ Len(parts) >= 3
    /\ \A k \in DOMAIN parts :
         /\ Len(parts[k]) = 1
         /\ parts[k][1] \in Digits \cup (IF k = Len(parts) THEN {} ELSE LowerCase)

is_identifier(value) == Len(value) = 1 /\ value[1] \in Identifiers
is_account_id(value) == Len(value) = 1 /\ value[1] \in Accounts

\* The partitions whose Regions have a prefix of their own; all the others are
\* Regions of "aws".
Prefixed ==
  {[partition |-> <<"aws", "-", "cn">>, prefix |-> <<"cn", "-">>],
   [partition |-> <<"aws", "-", "us", "-", "gov">>, prefix |-> <<"us", "-", "gov", "-">>],
   [partition |-> <<"aws", "-", "iso">>, prefix |-> <<"us", "-", "iso", "-">>],
   [partition |-> <<"aws", "-", "iso", "-", "b">>, prefix |-> <<"us", "-", "isob", "-">>],
   [partition |-> <<"aws", "-", "iso", "-", "e">>, prefix |-> <<"eu", "-", "isoe", "-">>],
   [partition |-> <<"aws", "-", "iso", "-", "f">>, prefix |-> <<"us", "-", "isof", "-">>]}

is_partition(value) == value \in {<<"aws">>} \cup {p.partition : p \in Prefixed}

partition_matches_region(partition, region) ==
  IF partition = <<"aws">> THEN \A p \in Prefixed : ~IsPrefix(p.prefix, region)
  ELSE \E p \in Prefixed : p.partition = partition /\ IsPrefix(p.prefix, region)

ClusterSelectorOf(identifier, region, account, partition, arn, endpoint) ==
  [identifier |-> identifier, region |-> region, account_id |-> account,
   partition |-> partition, arn |-> arn, endpoint |-> endpoint]

\* Each parser: no answer when the text is not of its form.
Malformed == <<>>

parse_arn(text) ==
  LET parts == Split(text, ":")
      resource == parts[6]
  IN  IF /\ Len(parts) = 6 /\ parts[3] = <<"dsql">>
         /\ Len(resource) > 0 /\ resource[1] = "cluster/"
         /\ is_partition(parts[2]) /\ is_region(parts[4])
         /\ partition_matches_region(parts[2], parts[4])
         /\ is_account_id(parts[5]) /\ is_identifier(Tail(resource))
      THEN <<ClusterSelectorOf(Tail(resource), <<parts[4]>>, <<parts[5]>>,
                               <<parts[2]>>, <<text>>, <<>>)>>
      ELSE Malformed

parse_endpoint(text) ==
  LET labels == Split(text, ".") IN
    IF /\ Len(labels) = 5
       /\ labels[2] = <<"dsql">> /\ labels[4] = <<"on">> /\ labels[5] = <<"aws">>
       /\ is_identifier(labels[1]) /\ is_region(labels[3])
    THEN <<ClusterSelectorOf(labels[1], <<labels[3]>>, <<>>, <<>>, <<>>, <<text>>)>>
    ELSE Malformed

parse_cluster_selector(text) ==
  CASE IsPrefix(<<"arn", ":">>, text) -> parse_arn(text)
    [] ~IsPrefix(<<"arn", ":">>, text) /\ Contains(text, ".") -> parse_endpoint(text)
    [] OTHER -> IF is_identifier(text)
                THEN <<ClusterSelectorOf(text, <<>>, <<>>, <<>>, <<>>, <<>>)>>
                ELSE Malformed

check_region(selector, region) ==
  is_region(region) /\ (selector.region # <<>> => selector.region = <<region>>)

canonical_endpoint(identifier, region) ==
  identifier \o <<".", "dsql", ".">> \o region \o <<".", "on", ".", "aws">>

=============================================================================
