---------------------------- MODULE FilesBuffer ----------------------------
(***************************************************************************)
(* The listing of the files buffer with everything that points into it by  *)
(* index: the cursor `selected', the multi-selection `multi_sel', the      *)
(* flags `in_move_reg' and the visual mode that sweeps a selection.  The   *)
(* listing is replaced as a whole by files_load_directory, and each of the *)
(* callers puts back, drops or recomputes the indices in its own way.      *)
(*                                                                         *)
(* One directory Top (the root) and one directory in it, which has the     *)
(* name it has in Top.  An entry is its name: names are numbers in listing *)
(* order.  What undo, redo and the shell do to the files is FilesChange.   *)
(*                                                                         *)
(* Indices are those of the code, from 0.  selected may be -1, and then    *)
(* multi_sel[selected] is the word before the array, which no memset of    *)
(* the array clears: the index -1 of multi_sel stands for that word.       *)
(***************************************************************************)
EXTENDS Integers, Sequences, FiniteSets

CONSTANTS Names,       \* the names of entries, numbers
          DirNames,    \* those that are directories
          Top,         \* the root, where the directories are
          NoDir,       \* no directory there, or not readable
          InitDisk,    \* what each directory holds at the start
          HalfPage,    \* files_height / 2
          RegisterMax, \* MOVE_REGISTER_MAX
          MaxChanges   \* bound on changes of the files, for TLC

Dirs == {Top} \cup DirNames

ASSUME FilesBufferAssumption ==
  /\ Names \subseteq Nat /\ IsFiniteSet(Names) /\ DirNames \subseteq Names
  /\ Cardinality(DirNames) = 1
  /\ Top \notin Names
  /\ InitDisk \in [Dirs -> (SUBSET Names) \cup {NoDir}]
  /\ HalfPage \in Nat \ {0} /\ RegisterMax \in Nat
  /\ MaxChanges \in Nat

VARIABLES disk,        \* what each directory holds: a set of names or NoDir
          cwd, entries, selected, multi_sel, sel_count, in_move_reg,
          move_reg,    \* paths <<directory, name>>
          visual_mode, \* of the TUI
          changes

listing == <<cwd, entries, multi_sel, sel_count, in_move_reg>>
vars == <<disk, listing, selected, move_reg, visual_mode, changes>>

entry_count == Len(entries)
Indices == 0..(entry_count - 1)
NameAt(i) == entries[i + 1]

----------------------------------------------------------------------------
(* Loading.                                                                *)

\* files_sort_entries: the names in listing order.  That strcasecmp takes two
\* names of a directory for the same is left out.
Sorted(names) ==
  CHOOSE s \in [1..Cardinality(names) -> names] :
    \A i, j \in DOMAIN s : i < j => s[i] < s[j]

Held(dk, dir) == IF dk[dir] = NoDir THEN {} ELSE dk[dir]

\* A directory that is no longer in Top is gone with what it held.
Settled(dk) == [d \in Dirs |-> IF d = Top \/ d \in Held(dk, Top) THEN dk[d] ELSE NoDir]

\* files_move_reindex
Flags(dir, list, reg) == {i \in 0..(Len(list) - 1) : <<dir, list[i + 1]>> \in reg}

\* A load that keeps the marks and only empties their count.
LoadKeepingSelection(dir) ==
  /\ cwd' = dir
  /\ entries' = Sorted(Held(disk', dir))
  /\ in_move_reg' = IF disk'[dir] = NoDir THEN in_move_reg
                    ELSE Flags(dir, entries', move_reg')
  /\ UNCHANGED multi_sel
  /\ sel_count' = 0

\* files_load_directory: when opendir fails the listing is empty and the
\* flags are left alone.  The caller sets selected.
Load(dir) ==
  /\ cwd' = dir
  /\ entries' = Sorted(Held(disk', dir))
  /\ in_move_reg' = IF disk'[dir] = NoDir THEN in_move_reg
                    ELSE Flags(dir, entries', move_reg')
  /\ multi_sel' = multi_sel \cap {-1}
  /\ sel_count' = 0

\* A refresh that keeps the cursor where it was.
ReloadUnchecked == Load(cwd) /\ UNCHANGED selected

\* refresh_files_buffer
Reload ==
  /\ Load(cwd)
  /\ selected' = IF selected < Len(entries') THEN selected ELSE 0

Init ==
  /\ disk = InitDisk
  /\ cwd \in {d \in Dirs : InitDisk[d] # NoDir}
  /\ entries = Sorted(InitDisk[cwd])
  /\ selected = 0
  /\ multi_sel = {} /\ sel_count = 0
  /\ in_move_reg = {} /\ move_reg = {}
  /\ visual_mode = FALSE
  /\ changes = 0

----------------------------------------------------------------------------
(* The cursor.                                                             *)

\* One more entry marked, without a look at whether it was.
SweepTwice(i) ==
  IF visual_mode /\ entry_count > 0
  THEN multi_sel' = multi_sel \cup {i} /\ sel_count' = sel_count + 1
  ELSE UNCHANGED <<multi_sel, sel_count>>

\* What j, k, Ctrl+D and Ctrl+U do in visual mode where they arrive.
Sweep(i) ==
  IF visual_mode /\ entry_count > 0 /\ i \notin multi_sel
  THEN multi_sel' = multi_sel \cup {i} /\ sel_count' = sel_count + 1
  ELSE UNCHANGED <<multi_sel, sel_count>>

MoveTo(i) ==
  /\ selected' = i
  /\ Sweep(i)
  /\ UNCHANGED <<disk, cwd, entries, in_move_reg, move_reg, visual_mode, changes>>

SelectNext == MoveTo(IF selected < entry_count - 1 THEN selected + 1 ELSE selected)

\* A step up from the first entry.
SelectPrevUnchecked == MoveTo(selected - 1)

SelectPrev == MoveTo(IF selected > 0 THEN selected - 1 ELSE selected)

\* In an empty directory the last entry is entry -1.
SelectNextN(n) ==
  MoveTo(IF selected + n >= entry_count THEN entry_count - 1 ELSE selected + n)

SelectPrevN(n) == MoveTo(IF selected - n < 0 THEN 0 ELSE selected - n)

PageDown == SelectNextN(HalfPage)

PageUp == SelectPrevN(HalfPage)

\* <num>g
JumpTo(i) ==
  /\ i \in Indices
  /\ selected' = i
  /\ UNCHANGED <<disk, listing, move_reg, visual_mode, changes>>

----------------------------------------------------------------------------
(* The selection.                                                          *)

\* s, files_toggle_select
ToggleSelect ==
  /\ selected \in Indices
  /\ IF selected \in multi_sel
     THEN multi_sel' = multi_sel \ {selected} /\ sel_count' = sel_count - 1
     ELSE multi_sel' = multi_sel \cup {selected} /\ sel_count' = sel_count + 1
  /\ UNCHANGED <<disk, cwd, entries, selected, in_move_reg, move_reg, visual_mode, changes>>

\* v
ToggleVisual ==
  /\ entry_count > 0
  /\ visual_mode' = ~visual_mode
  /\ IF ~visual_mode /\ selected \notin multi_sel
     THEN multi_sel' = multi_sel \cup {selected} /\ sel_count' = sel_count + 1
     ELSE UNCHANGED <<multi_sel, sel_count>>
  /\ UNCHANGED <<disk, cwd, entries, selected, in_move_reg, move_reg, changes>>

\* Escape, or J to the shell
LeaveVisual ==
  /\ visual_mode
  /\ visual_mode' = FALSE
  /\ UNCHANGED <<disk, listing, selected, move_reg, changes>>

----------------------------------------------------------------------------
(* Other directories.                                                      *)

Unmoved == UNCHANGED <<disk, move_reg, visual_mode, changes>>

\* h, files_change_dir(".."): the directory left is selected if it is there.
GoUp ==
  /\ Unmoved
  /\ Load(Top)
  /\ LET at == {i \in DOMAIN entries' : entries'[i] = cwd}
     IN  selected' \in IF at = {} THEN {0} ELSE {i - 1 : i \in at}

\* l and Enter on a directory
GoInto ==
  /\ selected \in Indices
  /\ NameAt(selected) \in DirNames
  /\ Unmoved
  /\ Load(NameAt(selected))
  /\ selected' = 0

\* goto, cd, <num> and the jumplist: the target may be gone.
Visit(dir) ==
  /\ dir # cwd
  /\ Unmoved
  /\ Load(dir)
  /\ selected' = 0

\* u, U, p and every command of the shell end with a refresh.
Refresh ==
  /\ Unmoved
  /\ Reload

----------------------------------------------------------------------------
(* Operations on the entries.                                              *)

Change == changes < MaxChanges /\ changes' = changes + 1

\* Undo and redo, a command of the shell or another process: a directory
\* holds something else.
FilesChange(dir, names) ==
  /\ Change
  /\ dir \in {Top} \cup Held(disk, Top)
  /\ disk' = Settled([disk EXCEPT ![dir] = names])
  /\ UNCHANGED <<listing, selected, move_reg, visual_mode>>

\* rename_commit on a file; the new name may be that of another file, which
\* is gone.  With the cursor on no entry rename(2) fails.  A load, not a
\* refresh.
RenameEntry(name) ==
  /\ entry_count > 0
  /\ Change
  /\ LET old == IF selected \in Indices THEN {NameAt(selected)} \cap Held(disk, cwd) ELSE {}
     IN  /\ old \cap (DirNames \cup {name}) = {}
         /\ disk' = IF old = {} THEN disk
                    ELSE [disk EXCEPT ![cwd] = (@ \ old) \cup {name}]
  /\ UNCHANGED <<move_reg, visual_mode>>
  /\ Load(cwd)
  /\ selected' = 0

\* The entries d and D work on.
Targets ==
  IF sel_count > 0 THEN {NameAt(i) : i \in multi_sel \cap Indices}
  ELSE {NameAt(i) : i \in {selected} \cap Indices}

\* A dialog that counts from the third entry selected on.
AnnouncedLate ==
  IF sel_count > 2 THEN [count |-> sel_count, named |-> {}]
  ELSE [count |-> 1, named |-> {NameAt(i) : i \in {selected} \cap Indices}]

\* What render_delete_confirm asks about: a number of items, or one entry by
\* its name, which is that of the entry under the cursor.
Announced ==
  IF sel_count > 1 THEN [count |-> sel_count, named |-> {}]
  ELSE [count |-> 1, named |-> {NameAt(i) : i \in {selected} \cap Indices}]

\* d and D confirmed: each target is removed or not.  The selection is
\* cleared, then the refresh clears it again.
DeleteTargets(gone) ==
  /\ entry_count > 0
  /\ Change
  /\ gone \subseteq Targets
  /\ disk' = IF disk[cwd] = NoDir THEN disk
             ELSE Settled([disk EXCEPT ![cwd] = @ \ gone])
  /\ UNCHANGED <<move_reg, visual_mode>>
  /\ Reload

----------------------------------------------------------------------------
(* The move register.                                                      *)

\* A mark that does not look whether there is room.
MarkUnbounded ==
  /\ selected \in Indices
  /\ LET p == <<cwd, NameAt(selected)>>
     IN  move_reg' = IF p \in move_reg THEN move_reg \ {p} ELSE move_reg \cup {p}
  /\ in_move_reg' = Flags(cwd, entries, move_reg')
  /\ UNCHANGED <<disk, cwd, entries, selected, multi_sel, sel_count, visual_mode, changes>>

\* files_move_mark on the entry under the cursor
Mark ==
  /\ selected \in Indices
  /\ LET p == <<cwd, NameAt(selected)>>
     IN  move_reg' = IF p \in move_reg THEN move_reg \ {p}
                     ELSE IF Cardinality(move_reg) < RegisterMax THEN move_reg \cup {p}
                     ELSE move_reg
  /\ in_move_reg' = IF move_reg' = move_reg THEN in_move_reg
                    ELSE Flags(cwd, entries, move_reg')
  /\ UNCHANGED <<disk, cwd, entries, selected, multi_sel, sel_count, visual_mode, changes>>

\* files_move_mark_all: the selection or everything, in listing order, as
\* many as there is room for.
MarkAll ==
  /\ entry_count > 0
  /\ LET wanted == IF sel_count > 0 THEN multi_sel \cap Indices ELSE Indices
         new == {i \in wanted : <<cwd, NameAt(i)>> \notin move_reg}
         room == RegisterMax - Cardinality(move_reg)
         taken == {i \in new : Cardinality({j \in new : j < i}) < room}
     IN  move_reg' = move_reg \cup {<<cwd, NameAt(i)>> : i \in taken}
  /\ in_move_reg' = Flags(cwd, entries, move_reg')
  /\ UNCHANGED <<disk, cwd, entries, selected, multi_sel, sel_count, visual_mode, changes>>

\* A clear that forgets the flags.
MoveClearOnly ==
  /\ move_reg # {}
  /\ move_reg' = {}
  /\ UNCHANGED <<disk, listing, selected, visual_mode, changes>>

\* Ctrl+C, files_move_clear
MoveClear ==
  /\ move_reg # {}
  /\ move_reg' = {}
  /\ in_move_reg' = {}
  /\ UNCHANGED <<disk, cwd, entries, selected, multi_sel, sel_count, visual_mode, changes>>

\* The paths a paste into dest leaves in the register: a directory, which
\* has only itself to go to, a source that is gone, a name that is taken.
\* A path that is in dest already leaves the register when both strings are
\* spelled alike, which they are not at the root or for P.
Kept(dest) ==
  {p \in move_reg :
     IF p[1] = dest THEN dest = Top \/ dest # cwd
     ELSE \/ p[2] \in DirNames
          \/ p[2] \notin Held(disk, p[1])
          \/ disk[dest] = NoDir
          \/ p[2] \in Held(disk, dest)}

\* p and P confirmed: files_move_paste, then the refresh.
Paste(dest) ==
  /\ move_reg # {}
  /\ Change
  /\ LET moved == {p \in move_reg \ Kept(dest) : p[1] # dest}
     IN  disk' = [d \in Dirs |->
                    IF disk[d] = NoDir THEN NoDir
                    ELSE IF d = dest THEN disk[d] \cup {p[2] : p \in moved}
                    ELSE disk[d] \ {p[2] : p \in {q \in moved : q[1] = d}}]
  /\ move_reg' = Kept(dest)
  /\ UNCHANGED visual_mode
  /\ Reload

PasteTargets ==
  {cwd} \cup {NameAt(i) : i \in {j \in {selected} \cap Indices : NameAt(j) \in DirNames}}

Next ==
  \/ SelectNext \/ SelectPrev \/ PageDown \/ PageUp
  \/ \E i \in Indices : JumpTo(i)
  \/ ToggleSelect \/ ToggleVisual \/ LeaveVisual
  \/ GoUp \/ GoInto
  \/ \E dir \in Dirs : Visit(dir)
  \/ Refresh
  \/ \E names \in SUBSET Names : FilesChange(Top, names)
  \/ \E dir \in DirNames, names \in (SUBSET (Names \ DirNames)) \cup {NoDir} :
       FilesChange(dir, names)
  \/ \E name \in Names \ DirNames : RenameEntry(name)
  \/ \E gone \in SUBSET Targets : DeleteTargets(gone)
  \/ Mark \/ MarkAll \/ MoveClear
  \/ \E dest \in PasteTargets : Paste(dest)

Spec == Init /\ [][Next]_vars

----------------------------------------------------------------------------
(* Properties.                                                             *)

TypeOK ==
  /\ disk \in [Dirs -> (SUBSET Names) \cup {NoDir}]
  /\ cwd \in Dirs
  /\ entries \in Seq(Names)
  /\ selected \in Int
  /\ multi_sel \subseteq Int
  /\ sel_count \in Int
  /\ move_reg \subseteq Dirs \X Names /\ Cardinality(move_reg) <= RegisterMax

\* Whatever is removed, undone or changed under it, the cursor is on an
\* entry, or at 0 or -1: no key takes it past the end of the listing.
CursorInRange == selected \in {-1, 0} \cup Indices

\* The one way off the listing: a half page down where nothing is listed.
CursorLostOnlyByPaging ==
  [][selected # -1 /\ selected' = -1 => PageDown /\ entry_count = 0]_vars

\* The count in the title, which decides whether d, D, M and `sel' work on
\* the selection or on the cursor, is the number of marked entries; the word
\* before the array, once set, may be one off it.
SelectionCounted ==
  /\ multi_sel \ {-1} \subseteq Indices
  /\ LET marked == Cardinality(multi_sel \cap Indices)
     IN  IF -1 \in multi_sel THEN sel_count \in {marked, marked + 1}
         ELSE sel_count = marked

\* The dialog before a delete asks about as many entries as will go, and one
\* it names will go; except with one entry selected and the cursor on another,
\* where it names the wrong one (tui.c:1506 looks at the cursor, file.c:976 at
\* the selection).  The word before the array is left out.
DialogTellsTargets ==
  selected \in Indices /\ -1 \notin multi_sel
    => /\ Announced.count = Cardinality(Targets)
       /\ \/ Announced.named \subseteq Targets
          \/ sel_count = 1 /\ selected \notin multi_sel

\* A selection made in one listing is never applied to another: no entry is
\* marked, and none counted, in a listing that replaces a different one.
SelectionDiesWithListing ==
  [][entries' # entries \/ cwd' # cwd
       => multi_sel' \cap Nat = {} /\ sel_count' = 0]_vars

\* The mv flag is on exactly the entries whose path is in the register,
\* through loads, renames, pastes that keep some, and directories that fail
\* to open (in_move_reg is indexed by entry, move_reg holds paths).
FlagsMatchRegister ==
  in_move_reg \cap Indices = Flags(cwd, entries, move_reg)

============================================================================
