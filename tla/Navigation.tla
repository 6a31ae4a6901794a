----------------------------- MODULE Navigation -----------------------------
(***************************************************************************)
(* Where the user is and the way back: `cwd', the listing, and the         *)
(* jumplist that `..' walks.  Three pieces of code move and push, each     *)
(* with its own idea of when: the tracked loads of goto, the tracked       *)
(* changes of h and l, and the shell's cd and numbers.                     *)
(*                                                                         *)
(* A path is one spelling: `Real' is where it leads when it leads          *)
(* anywhere, through links and dots.  Links stay as they are; what exists  *)
(* changes between any two keys.                                           *)
(***************************************************************************)
EXTENDS Integers, Sequences, FiniteSets, SequencesExt

CONSTANTS Paths,   \* spellings of absolute paths
          Root,    \* "/"
          Dirs,    \* the paths without links and dots that are directories
          Parent,  \* the path without its last component; the root's is itself
          Real,    \* what realpath makes of a path
          Hidden,  \* no readdir shows them: dotted or never there
          Sorted(_), \* a set of names in the order qsort leaves them
          Disks,   \* the sets of real paths that may exist together
          Starts,  \* the arguments and homes the program is started with
          JumpMax  \* DIR_JUMPLIST_MAX

ASSUME NavigationAssumption ==
  /\ Root \in Paths /\ Dirs \subseteq Paths
  /\ Parent \in [Paths -> Paths] /\ Parent[Root] = Root
  /\ Real \in [Paths -> Paths] /\ \A p \in Paths : Real[Real[p]] = Real[p]
  /\ \A S \in SUBSET Paths : Sorted(S) \in Seq(Paths)
  /\ Disks \subseteq SUBSET Paths
  /\ Starts \subseteq Paths
  /\ JumpMax \in Nat \ {0}

VARIABLES present,  \* the real paths that exist
          cwd, entries,
          jumplist, \* dir_jumplist, the newest last
          start     \* where the program was started; no action changes it

navVars == <<present, cwd, entries, jumplist, start>>

----------------------------------------------------------------------------
(* Paths and listings.                                                     *)

Exists(p) == Real[p] \in present /\ Parent[p] \in present

\* realpath, or the path as it is when that fails
Resolve(p) == IF Exists(p) THEN Real[p] ELSE p

IsDirectory(p) == Real[p] \in Dirs

Children(d) == {p \in Paths \ (Hidden \cup {Root}) : Parent[p] = d /\ Exists(p)}

\* What files_load_directory reads; nothing when opendir fails.
Listing(d) ==
  IF d \in present \cap Dirs THEN Sorted(Children(d)) ELSE <<>>

ListedDirs == {p \in ToSet(entries) : IsDirectory(p)}

Same(p, q) == Real[p] = Real[q]

----------------------------------------------------------------------------
(* Moving: a place is a directory with the way back from it.               *)

Here == [at |-> cwd, back |-> jumplist]

\* A full list that makes room by forgetting its oldest directory.
PushedEvicting(back, p) ==
  Append(IF Len(back) < JumpMax THEN back ELSE Tail(back), p)

\* jumplist_push: a full list stays as it is.
Pushed(back, p) == IF Len(back) < JumpMax THEN Append(back, p) ELSE back

\* files_load_directory_tracked
Tracked(w, p) ==
  IF p = w.at THEN w ELSE [at |-> Resolve(p), back |-> Pushed(w.back, w.at)]

\* files_change_dir_tracked pushing where it arrives.
ChangedPushingNew(w, p) ==
  [at |-> Resolve(p),
   back |-> IF Resolve(p) = w.at THEN w.back ELSE Pushed(w.back, Resolve(p))]

\* files_change_dir_tracked: what counts is whether the directory changed.
Changed(w, p) ==
  [at |-> Resolve(p),
   back |-> IF Resolve(p) = w.at THEN w.back ELSE Pushed(w.back, w.at)]

Arrive(w) ==
  /\ cwd' = w.at
  /\ jumplist' = w.back
  /\ entries' = Listing(w.at)
  /\ UNCHANGED <<present, start>>

NavInit ==
  /\ present \in Disks
  /\ start \in {Resolve(p) : p \in Starts}
  /\ cwd = start
  /\ entries = Listing(start)
  /\ jumplist = <<>>

\* h
GoUp == Arrive(Changed(Here, Parent[cwd]))

\* l and Enter on a directory, and goto with an index
GoInto(p) == p \in ListedDirs /\ Arrive(Changed(Here, p))

\* goto_confirm with a path that exists; a file is not gone to.
GotoPath(p) ==
  /\ Exists(p) /\ IsDirectory(p) /\ p # cwd
  /\ Arrive(Tracked(Here, p))

\* goto_confirm with the beginning of a name p in a directory dir: first
\* there, then on into p if it is listed as a directory.  Nothing is looked
\* for in the root from elsewhere.
GotoPrefix(dir, p) ==
  /\ Exists(dir) /\ IsDirectory(dir)
  /\ dir = Root => cwd = Root
  /\ p \in Children(Real[dir])
  /\ LET there == Real[dir]
         w     == IF there = cwd THEN Here ELSE Tracked(Here, there)
         shown == IF there = cwd THEN entries ELSE Listing(w.at)
     IN  IF p \in ToSet(shown) /\ IsDirectory(p) THEN Arrive(Changed(w, p))
         ELSE there # cwd /\ Arrive(w)

\* <num>, cd <num>, cd <path> and cd in the shell or the quickshell: the
\* target need not be there, nor another directory.
ShellGo(p) == Arrive([at |-> Resolve(p), back |-> Pushed(jumplist, cwd)])

\* `..', shell_jump_prev_dir
JumpBack ==
  /\ jumplist # <<>>
  /\ Arrive([at |-> Resolve(Last(jumplist)), back |-> Front(jumplist)])

\* refresh_files_buffer and the load of rename_commit
Reload == Arrive([at |-> Resolve(cwd), back |-> jumplist])

\* Files appear and vanish, by a command of the user or of others.
DiskChange(disk) ==
  /\ present' = disk
  /\ UNCHANGED <<cwd, entries, jumplist, start>>

NavNext ==
  \/ GoUp
  \/ \E p \in ListedDirs : GoInto(p)
  \/ \E p \in Paths : GotoPath(p)
  \/ \E dir \in Paths, p \in Paths : GotoPrefix(dir, p)
  \/ \E p \in Paths : ShellGo(p)
  \/ JumpBack
  \/ Reload
  \/ \E disk \in Disks : DiskChange(disk)

NavSpec == NavInit /\ [][NavNext]_navVars

----------------------------------------------------------------------------
(* Properties.                                                             *)

TypeOK ==
  /\ entries \in Seq(Paths)
  /\ present \subseteq Paths
  /\ cwd \in Paths /\ start \in Paths
  /\ jumplist \in Seq(Paths) /\ Len(jumplist) <= JumpMax

\* Pressing `..' until nothing is left always ends where the program was
\* started, whatever was pushed, dropped from a full list, or gone in
\* between (jumplist_push drops the newest, never the oldest).
WayBackToStart ==
  Same(IF jumplist = <<>> THEN cwd ELSE Head(jumplist), start)

\* Whatever key leaves a directory, except `..', that directory is the next
\* on the list, below what was there, as long as there is room: no move is
\* forgotten and none pushes where it leads instead of where it began.
MoveRecorded ==
  [][~Same(cwd, cwd') /\ Len(jumplist') >= Len(jumplist) /\ Len(jumplist) < JumpMax
       => IsPrefix(Append(jumplist, cwd), jumplist')]_navVars

=============================================================================
