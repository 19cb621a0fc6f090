-------------------------- MODULE MCCommandOutput --------------------------
(***************************************************************************)
(* Instances of CommandOutput.  Names and cells are chosen for what        *)
(* rendering tells apart: nulls, texts that look like them, controls, wide *)
(* characters, an emoji with its variation selector in a name and in a     *)
(* value, and names that are wider than their share of the line.           *)
(***************************************************************************)
EXTENDS CommandOutput

SomeHeaders == {<<<<<<Wide, "d">>>>, <<<<Emoji, Selector, "a", Control>>>>>>}

\* NULL beside the text that looks like it; a control, wide letters and an emoji
SomeRows == {<<<<>>, <<<<"\\", "N">>>>>>,
             <<<<<<Wide, "\n">>>>, <<<<Emoji, Selector, Combining, Wide, Wide>>>>>>}
=============================================================================
