---------------------------- MODULE MCNavigation ----------------------------
(***************************************************************************)
(* The directories 0 (the root), 1 in it and 2 in 1; 3 is a link in the    *)
(* root to 2, 4 a file in the root, 5 another spelling of 1, "/1/.", and 6 *)
(* a path in 1 that is never there.                                        *)
(***************************************************************************)
EXTENDS Navigation

MCPaths == 0..6
MCDirs == 0..2
MCParent == [p \in MCPaths |-> IF p \in {2, 5, 6} THEN 1 ELSE 0]
MCReal == [p \in MCPaths |-> CASE p = 3 -> 2 [] p = 5 -> 1 [] OTHER -> p]
MCHidden == {5, 6}
MCSorted(S) == SelectSeq([i \in 1..7 |-> i - 1], LAMBDA p : p \in S)
MCDisks == {{0, 1, 2, 4}, {0, 1, 4}, {0, 4}, {0}}
=============================================================================
