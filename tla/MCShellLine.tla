---------------------------- MODULE MCShellLine ----------------------------
(***************************************************************************)
(* The current directory holds a directory y, a file yz and a hidden file; *)
(* y holds two names that agree in two letters but for the case of one;    *)
(* the root holds z.                                                       *)
(***************************************************************************)
EXTENDS ShellLine

MCLower(ch) == IF ch = "Y" THEN "y" ELSE ch
Slashes(from) == {[i \in 1..n |-> "/"] : n \in from..InputMax}
MCInside ==
  [dir \in {<<>>} \cup Slashes(1) \cup {<<"y">> \o s : s \in Slashes(0)} |->
     CASE dir = <<>> -> {<<"y">>, <<"y", "z">>, <<".", "z">>}
       [] dir # <<>> /\ dir[1] = "/" -> {<<"z">>}
       [] OTHER -> {<<"y", "z", "z">>, <<"Y", "z", "x">>}]

MCCommands == {<<"y">>, <<"y", " ", "y">>}
MCQuestions == {<<"y", " ", "y">>}
MCGotoTexts == {<<"y", "/">>, <<"y", "/", "Y">>, <<"/">>, <<" ", "y">>}
============================================================================
