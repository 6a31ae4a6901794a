----------------------------- MODULE MCFileOps -----------------------------
(***************************************************************************)
(* Two directories d and e below the root.  Both hold a file named a, so   *)
(* that a paste from one to the other and the second trash find their      *)
(* target taken; d also holds b, and e the empty directory d.              *)
(***************************************************************************)
EXTENDS FileOps

CONSTANTS a, b, c, d, e, dot

MCLetters == <<a, b, c, d, e>>
MCHidden == {dot}
MCTrashDir == << <<dot>> >>
MCPlaces == {<< <<d>> >>, << <<e>> >>}
MCTakenNames == {<<b>>}
MCNewNames == {<<b>>, <<c>>}
MCPlacesRoot == {Root, << <<d>> >>}

Files(pairs) ==
  [p \in {x[1] : x \in pairs} |-> (CHOOSE x \in pairs : x[1] = p)[2]]

\* The files for the runs with other processes.
MCFiles == Files({<< Root, Dir >>,
                  << << <<dot>> >>, Dir >>,
                  << << <<d>> >>, Dir >>,
                  << << <<e>> >>, Dir >>,
                  << << <<d>>, <<a>> >>, 1 >>,
                  << << <<d>>, <<b>> >>, 2 >>,
                  << << <<e>>, <<a>> >>, 3 >>,
                  << << <<e>>, <<d>> >>, Dir >>})

\* Files in the root too, and the trash already there.
MCRootFiles == Files({<< Root, Dir >>,
                      << << <<dot>> >>, Dir >>,
                      << << <<a>> >>, 1 >>,
                      << << <<d>> >>, Dir >>,
                      << << <<d>>, <<a>> >>, 2 >>})
============================================================================
