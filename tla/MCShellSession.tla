---------------------------- MODULE MCShellSession ----------------------------
(* Commands with the same first word but for the first one ("terminal      *)
(* length 0"), and bodies that hold every kind of piece.                   *)
EXTENDS ShellSession

MCWord(i) == IF i = 1 THEN "terminal" ELSE "show"

MCBodies == {<<>>, <<"text", "mention">>, <<"soft", "ansi", "text">>, <<"hash", "mention">>,
             <<"mark">>}

\* Whole outputs with escapes in them.
MCEscapes == {<<>>, <<"ansi", "text">>, <<"mark">>}
===============================================================================
