------------------------------ MODULE MCPanes ------------------------------
(***************************************************************************)
(* The root holds a directory 1, a link 2 to it and the files 3 to 5; the  *)
(* directory holds the files 6 and 7.  8 is "/." and 9 a path that is      *)
(* never there.                                                            *)
(***************************************************************************)
EXTENDS Panes

MCPaths == 0..9
MCDirs == {0, 1}
MCParent == [p \in MCPaths |-> IF p \in {6, 7} THEN 1 ELSE 0]
MCReal == [p \in MCPaths |-> CASE p = 2 -> 1 [] p = 8 -> 0 [] OTHER -> p]
MCHidden == {8, 9}
MCSorted(S) == SelectSeq([i \in 1..10 |-> i - 1], LAMBDA p : p \in S)
MCDisks == {{0, 1, 3, 4, 5, 6, 7}, {0, 3, 4}}
MCLines == [p \in MCPaths |-> CASE p = 3 -> 3 [] p = 6 -> 4 [] p = 7 -> 1 [] OTHER -> 0]
MCMedia == {4}
MCSizes == {<<4, 7>>, <<6, 9>>, <<3, 7>>}
============================================================================
