--------------------------- MODULE MCFilesBuffer ---------------------------
(***************************************************************************)
(* The root with one directory, 1, and files 2 and 3; 2 is in both, so     *)
(* that a paste of 2 finds its target taken.                               *)
(***************************************************************************)
EXTENDS FilesBuffer

MCNames == 1..3
MCDirNames == {1}
MCDisk == [d \in Dirs |-> IF d = Top THEN {1, 2, 3} ELSE {2}]
============================================================================
