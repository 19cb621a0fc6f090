-------------------------- MODULE RegionResolution --------------------------
(***************************************************************************)
(* src/aws/config.rs: which Region a process works in.  The flag, then the *)
(* selector, then the AWS SDK, then the user.  The clients of the SDK take *)
(* the Region of the configuration they are made from, which is not the    *)
(* value the program resolved but the one the SDK was loaded with.         *)
(***************************************************************************)
EXTENDS ClusterSelector

\* An absent Region is fine, an empty or malformed one is an error.
required_region(region) == region # <<>> => is_region(region[1])

conflicts(explicit, selector) ==
  explicit # <<>> /\ selector # <<>> /\ explicit # selector

\* The loaded configuration: a preferred Region comes before the SDK's chain.
load_sdk_config(preferred, default) == IF preferred # <<>> THEN preferred ELSE default

\* The source is ExplicitFlag, Selector, SdkProvider or InteractivePrompt.
Resolved(sdk, region, source) ==
  [verdict |-> "resolved", sdk |-> sdk, region |-> region[1], source |-> source]
Unresolved(verdict) ==
  [verdict |-> verdict, sdk |-> <<>>, region |-> <<>>, source |-> "none"]

resolve_region(explicit, selector, sdk, interactive) ==
  CASE ~required_region(sdk) -> Unresolved("usage")
    [] required_region(sdk) /\ explicit # <<>> -> Resolved(sdk, explicit, "ExplicitFlag")
    [] required_region(sdk) /\ explicit = <<>> /\ selector # <<>> ->
         Resolved(sdk, selector, "Selector")
    [] required_region(sdk) /\ explicit = <<>> /\ selector = <<>> /\ sdk # <<>> ->
         Resolved(sdk, sdk, "SdkProvider")
    [] OTHER -> Unresolved(IF interactive THEN "ask" ELSE "usage")

load_aws_configuration(explicit, selector, default, interactive) ==
  IF ~required_region(explicit) \/ ~required_region(selector) \/ conflicts(explicit, selector)
  THEN Unresolved("usage")
  ELSE LET preferred == IF explicit # <<>> THEN explicit ELSE selector IN
         resolve_region(explicit, selector, load_sdk_config(preferred, default), interactive)

\* Mutant of prompted_region: the clients keep the configuration loaded first.
promptedForContext(answer, default) ==
  IF answer # <<>> /\ required_region(answer)
  THEN Resolved(load_sdk_config(<<>>, default), answer, "InteractivePrompt")
  ELSE Unresolved("usage")

\* The answer to the prompt; the SDK is loaded again with it.
prompted_region(answer, default) ==
  IF answer # <<>> /\ required_region(answer)
  THEN Resolved(load_sdk_config(answer, default), answer, "InteractivePrompt")
  ELSE Unresolved("usage")
=============================================================================
