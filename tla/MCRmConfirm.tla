---------------------------- MODULE MCRmConfirm ----------------------------
(***************************************************************************)
(* Two directories with different files, so that index 1 and the name 2    *)
(* mean something else after a change of directory.  Where an entry is     *)
(* spelled sel it is 2.  The name 3 has a blank in it.                     *)
(***************************************************************************)
EXTENDS RmConfirm

MCDirs == {"home", "work"}
MCNames == 1..3
MCBlanks == {3}
MCDisk == [d \in MCDirs |-> IF d = "home" THEN [n \in {1, 2} |-> IF n = 2 THEN "DIR" ELSE "FILE"]
                            ELSE [n \in {2, 3} |-> "FILE"]]
Index(i) == <<"index", i>>
Named(n) == <<"names", {n}>>
Pattern(names) == <<"pattern", names>>
Sel == <<"sel">>
Rm(verb, words) == [verb |-> verb, words |-> words]

MCCommands == {Rm("r", <<Index(1)>>), Rm("rm", <<Index(2), Named(2)>>), Rm("rm -r", <<Named(3)>>),
               Rm("r", <<Sel, Index(1)>>), Rm("rm", <<Named(2), Pattern({1, 2})>>)}

\* A selected name with a blank, or a glob
MCPatterns == {Rm("r", <<Sel>>), Rm("rm", <<Sel>>)}
============================================================================
