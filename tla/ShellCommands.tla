--------------------------- MODULE ShellCommands ---------------------------
(***************************************************************************)
(* The meta-commands of the shell (src/shell/commands.rs): how an input    *)
(* line is parsed, and what a command does to the settings or asks of the  *)
(* shell.  An input is SQL or a command name with its words.  Words are    *)
(* abstracted to the arguments that commands know, any other plain word, a *)
(* well-formed quoted pattern and one with a stray quote.                  *)
(***************************************************************************)
EXTENDS Sequences

Names == {"q", "?", "conninfo", "x", "timing", "pager", "refresh", "metrics",
          "d", "dt", "dn", "du", "unknown"}
Words == {"on", "off", "auto", "word", "quoted", "stray"}

\* No command takes two words: the second may be any.
ArgumentLists == {<<>>} \cup {<<w>> : w \in Words} \cup {<<w, "word">> : w \in Words}

DefaultSettings == [expanded |-> "off", timing |-> FALSE, pager |-> FALSE]

\* One argument of a toggle, none, or a mistake.
parse_toggle(args) ==
  CASE args = <<>> -> "toggle"
    [] args \in {<<"on">>, <<"off">>} -> args[1]
    [] OTHER -> "usage"

parse_expanded(args) ==
  CASE args = <<>> -> "toggle"
    [] args \in {<<"on">>, <<"off">>, <<"auto">>} -> args[1]
    [] OTHER -> "usage"

\* A pattern is one word without quotes, or one quoted text.
parse_pattern(args) ==
  CASE args = <<>> -> "none"
    [] Len(args) = 1 /\ args[1] # "stray" -> "pattern"
    [] OTHER -> "usage"

no_arguments(args) == IF args = <<>> THEN "none" ELSE "usage"

Argument(name, args) ==
  CASE name \in {"timing", "pager"} -> parse_toggle(args)
    [] name = "x" -> parse_expanded(args)
    [] name \in {"d", "dt", "dn"} -> parse_pattern(args)
    [] name = "unknown" -> "usage"
    [] OTHER -> no_arguments(args)

Accepted(name, args) == Argument(name, args) # "usage"

\* What the shell does after the command.
Action(name) ==
  CASE name = "q" -> "exit"
    [] name = "metrics" -> "dashboard"
    [] name = "refresh" -> "refresh"
    [] name \in {"d", "dt", "dn", "du"} -> "query"
    [] OTHER -> "message"

update_toggle(value, argument) ==
  CASE argument = "on" -> TRUE [] argument = "off" -> FALSE [] OTHER -> ~value

\* Toggling expanded output leaves auto for off.
updateExpanded(mode, argument) ==
  IF argument # "toggle" THEN argument ELSE IF mode = "off" THEN "on" ELSE "off"

SettingsAfter(settings, name, args) ==
  CASE name = "x" ->
         [settings EXCEPT !.expanded = updateExpanded(@, Argument(name, args))]
    [] name = "timing" ->
         [settings EXCEPT !.timing = update_toggle(@, Argument(name, args))]
    [] name = "pager" ->
         [settings EXCEPT !.pager = update_toggle(@, Argument(name, args))]
    [] OTHER -> settings
=============================================================================
