------------------------------ MODULE FileOps ------------------------------
(***************************************************************************)
(* The operations of the files buffer on the file system, with the undo    *)
(* history they record: rename, trash, permanent delete, the move register *)
(* with mark and paste, undo and redo.                                     *)
(*                                                                         *)
(* The listing `entries' is a snapshot taken at the last load: between a   *)
(* load and a key press another process may change the files, and a modal  *)
(* confirmation only lengthens that gap.  One action is one confirmed      *)
(* command with the reload its caller ends with.  Which entry is under the *)
(* cursor and which are selected is the subject of FilesBuffer; here it    *)
(* may be any.                                                             *)
(***************************************************************************)
EXTENDS FileSystem, FiniteSets, Functions

CONSTANTS InitFs,      \* the files at the start
          Letters,     \* the names in strcasecmp order, a sequence
          Hidden,      \* first letters of the names that begin with a dot
          Places,      \* directories the user visits
          NewNames,    \* names the user types
          TrashDir,    \* $HOME/.local/share/Trash/files
          UndoMax, RegisterMax, MaxFiles, \* UNDO_MAX, MOVE_REGISTER_MAX, MAX_FILES
          Kinds,       \* the kinds of operation the user performs
          Careful,     \* the user only types names that are free
          MaxCommands, \* bound on recorded operations, for TLC
          MaxForeign,  \* bound on changes by other processes
          MaxTime      \* bound on the clock

VARIABLES fs, cwd, entries, move_reg,
          undo_stack, redo_stack, move_batch_id,
          time, commands, foreign

vars == <<fs, cwd, entries, move_reg, undo_stack, redo_stack, move_batch_id,
          time, commands, foreign>>

history == <<undo_stack, redo_stack, move_batch_id>>

(***************************************************************************)
(* The payload of an operation: the fields of UndoOp that are not type and *)
(* batch_id.                                                               *)
(***************************************************************************)
Item(dir, old, new, trash) ==
  [cwd |-> dir, old_name |-> old, new_name |-> new, trash_path |-> trash]

\* A name, with the times it was stamped with in the trash; a dot in front
\* hides it.
Name ==
  {n \in Seq(ToSet(Letters) \cup Hidden \cup Nat) :
     /\ n # NoName
     /\ n[1] \in ToSet(Letters) \cup Hidden
     /\ \A i \in 2..Len(n) : n[i] \in Nat}

Path == Seq(Name)

\* A path as it is spelled: path_join may have doubled the slash in front.
Written == {p \in Seq(Name \cup {NoName}) : p # <<NoName>> /\ Resolve(p) \in Path}

Content == {Dir} \cup {InitFs[p] : p \in DOMAIN InitFs} \cup Nat

Entry == [name : Name, dir : BOOLEAN]

Items == [cwd : Written, old_name : Name, new_name : Name \cup {NoName}, trash_path : Written]

ASSUME FileOpsAssumption ==
  /\ UndoMax \in Nat \ {0} /\ RegisterMax \in Nat \ {0} /\ MaxFiles \in Nat \ {0}
  /\ RegisterMax <= MaxFiles
  /\ MaxCommands \in Nat /\ MaxForeign \in Nat /\ MaxTime \in Nat
  /\ Kinds \subseteq {"RENAME", "TRASH", "DELETE_PERM", "MOVE"}
  /\ Careful \in BOOLEAN
  /\ Letters \in Seq(ToSet(Letters)) /\ IsInjective(Letters)
  /\ IsFiniteSet(DOMAIN InitFs) /\ InitFs \in [DOMAIN InitFs -> Content]
  /\ DOMAIN InitFs \subseteq Path /\ IsTree(InitFs)
  /\ Places \subseteq Path /\ NewNames \subseteq Name
  /\ TrashDir \in Path \ {Root}

H == INSTANCE UndoHistory WITH MaxItems <- MaxFiles, MaxBatch <- MaxCommands

----------------------------------------------------------------------------
(* The listing of a directory.                                             *)

\* A trashed name that was taken carries the second: a becomes a.<time>.
Stamped(name) == Append(name, time)

Weight(name, i) ==
  IF i = 1 THEN CHOOSE k \in DOMAIN Letters : Letters[k] = name[1] ELSE name[i]

\* strcasecmp: where they first differ, or where m ends.
NameBefore(m, n) ==
  \E i \in 1..Len(n) :
    /\ \A j \in 1..(i - 1) : j <= Len(m) /\ m[j] = n[j]
    /\ i > Len(m) \/ Weight(m, i) < Weight(n, i)

\* entry_cmp: directories first, then by name.
EntryBefore(a, b) ==
  \/ a.dir /\ ~b.dir
  \/ a.dir = b.dir /\ NameBefore(a.name, b.name)

\* The members of S, each after those that come before it.
InOrder(S, Before(_, _)) ==
  [i \in 1..Cardinality(S) |->
     CHOOSE e \in S : Cardinality({d \in S : Before(d, e)}) = i - 1]

\* files_load_directory: what it reads, sorted; nothing when opendir fails.
Listing(f, p) ==
  LET shown == {q \in Children(f, p) : Last(q)[1] \notin Hidden}
      read  == {[name |-> Last(q), dir |-> IsDir(f, q)] : q \in shown}
  IN  IF IsDir(f, p) THEN InOrder(read, EntryBefore) ELSE <<>>

\* path_join: at the root it doubles the slash.
Join(dir, name) == IF dir = Root THEN <<NoName, name>> ELSE Append(dir, name)

Init ==
  /\ fs = InitFs
  /\ cwd \in Places
  /\ entries = Listing(InitFs, cwd)
  /\ move_reg = <<>>
  /\ H!Init
  /\ time = 0 /\ commands = 0 /\ foreign = 0

Command(kind) ==
  /\ kind \in Kinds
  /\ commands < MaxCommands
  /\ commands' = commands + 1
  /\ UNCHANGED <<time, foreign>>

\* refresh_files_buffer, and the load rename_commit ends with.
Reload == cwd' = cwd /\ entries' = Listing(fs', cwd)

\* A reload with nothing else: u and U with nothing to do, p declined or
\* with an empty register.
Refresh ==
  /\ entries # Listing(fs, cwd)
  /\ entries' = Listing(fs, cwd)
  /\ UNCHANGED <<fs, cwd, move_reg, history, time, commands, foreign>>

\* files_change_dir, the jumps and cd: cwd moves to another directory.
Visit(p) ==
  /\ IsDir(fs, p) /\ p # cwd
  /\ cwd' = p
  /\ entries' = Listing(fs, p)
  /\ UNCHANGED <<fs, move_reg, history, time, commands, foreign>>

----------------------------------------------------------------------------
(* Rename, trash and delete.                                               *)

\* rename_commit: the result of rename(2) is not looked at.
RenameEntry(e, name) ==
  /\ Command("RENAME")
  /\ name # e.name
  /\ Careful => ~Exists(fs, Append(cwd, name))
  /\ fs' = Rename(fs, Append(cwd, e.name), Append(cwd, name))
  /\ H!Record("RENAME", <<Item(cwd, e.name, name, <<>>)>>)
  /\ Reload
  /\ UNCHANGED move_reg

\* do_trash_entry without the look at what is in the trash already.
TrashOneOver(w, e) ==
  LET src  == Append(cwd, e.name)
      f    == MkdirP(w.fs, TrashDir)
      dest == Append(TrashDir, e.name)
  IN  [fs |-> Mv(f, src, dest),
       items |-> Append(w.items, Item(cwd, e.name, <<>>, dest))]

\* do_trash_entry on the files and operations so far.
TrashOne(w, e) ==
  LET src  == Append(cwd, e.name)
      f    == MkdirP(w.fs, TrashDir)
      free == Append(TrashDir, e.name)
      dest == IF Exists(f, free) THEN Append(TrashDir, Stamped(e.name)) ELSE free
  IN  [fs |-> Mv(f, src, dest),
       items |-> Append(w.items, Item(cwd, e.name, <<>>, dest))]

\* do_delete_entry, by the type the listing gave.
DeleteOne(w, e) ==
  LET p == Append(cwd, e.name)
  IN  [fs |-> IF e.dir THEN RemoveTree(w.fs, p) ELSE RemoveFile(w.fs, p),
       items |-> Append(w.items, Item(cwd, e.name, <<>>, <<>>))]

\* The line of i is above that of j.
Above(i, j) == i < j

\* The entry under the cursor, or the selected ones in listing order.
Selections ==
  {LET at == InOrder(I, Above) IN [i \in DOMAIN at |-> entries[at[i]]] :
     I \in {J \in SUBSET DOMAIN entries : Cardinality(J) \in 1..MaxFiles}}

\* files_delete_to_trash
Trash(sel) ==
  /\ Command("TRASH")
  /\ LET w == FoldLeft(TrashOne, [fs |-> fs, items |-> <<>>], sel)
     IN  fs' = w.fs /\ H!Record("TRASH", w.items)
  /\ Reload
  /\ UNCHANGED move_reg

\* files_delete_permanent
Delete(sel) ==
  /\ Command("DELETE_PERM")
  /\ LET w == FoldLeft(DeleteOne, [fs |-> fs, items |-> <<>>], sel)
     IN  fs' = w.fs /\ H!Record("DELETE_PERM", w.items)
  /\ Reload
  /\ UNCHANGED move_reg

----------------------------------------------------------------------------
(* The move register.                                                      *)

\* files_move_mark: a second mark takes the path out again; a full register
\* takes no more.
Mark(e) ==
  LET full == Join(cwd, e.name)
  IN  /\ "MOVE" \in Kinds
      /\ move_reg' = IF full \in ToSet(move_reg) THEN RemoveFirst(move_reg, full)
                     ELSE IF Len(move_reg) < RegisterMax THEN Append(move_reg, full)
                     ELSE move_reg
      /\ UNCHANGED <<fs, cwd, entries, history, time, commands, foreign>>

\* One round of files_move_mark_all without the search for the path.
MarkMoreTwice(reg, e) ==
  IF Len(reg) < RegisterMax THEN Append(reg, Join(cwd, e.name)) ELSE reg

\* One round that does not look whether there is room.
MarkMoreUnbounded(reg, e) ==
  LET full == Join(cwd, e.name)
  IN  IF full \in ToSet(reg) THEN reg ELSE Append(reg, full)

\* One round of files_move_mark_all.
MarkMore(reg, e) ==
  LET full == Join(cwd, e.name)
  IN  IF full \in ToSet(reg) \/ Len(reg) >= RegisterMax THEN reg
      ELSE Append(reg, full)

\* files_move_mark_all: the selection, or with none everything listed.
MarkAll(sel) ==
  /\ "MOVE" \in Kinds
  /\ move_reg' = FoldLeft(MarkMore, move_reg, sel)
  /\ UNCHANGED <<fs, cwd, entries, history, time, commands, foreign>>

\* files_move_clear
ClearRegister ==
  /\ move_reg # <<>>
  /\ move_reg' = <<>>
  /\ UNCHANGED <<fs, cwd, entries, history, time, commands, foreign>>

\* A round of files_move_paste without the stat of the target.
PasteOneOver(w, src) ==
  LET dst == Append(w.dest, Last(src))
  IN  IF src = dst THEN w
      ELSE IF \/ IsPrefix(src, w.dest)
              \/ ~CanRename(w.fs, Resolve(src), Resolve(dst))
      THEN [w EXCEPT !.kept = Append(@, src)]
      ELSE [w EXCEPT !.fs = Renamed(@, Resolve(src), Resolve(dst)),
                     !.items = Append(@, Item(w.dest, Last(src), <<>>, src))]

\* A round that drops a path from the register although its move failed.
PasteOneDropping(w, src) ==
  LET dst == Append(w.dest, Last(src))
  IN  IF src = dst \/ ~CanRename(w.fs, Resolve(src), Resolve(dst)) THEN w
      ELSE IF IsPrefix(src, w.dest) \/ Exists(w.fs, Resolve(dst))
      THEN [w EXCEPT !.kept = Append(@, src)]
      ELSE [w EXCEPT !.fs = Renamed(@, Resolve(src), Resolve(dst)),
                     !.items = Append(@, Item(w.dest, Last(src), <<>>, src))]

\* One round of the loop of files_move_paste.  The comparisons are of the
\* strings: a path with a doubled slash is another string.
PasteOne(w, src) ==
  LET dst == Append(w.dest, Last(src))
  IN  IF src = dst THEN w
      ELSE IF \/ IsPrefix(src, w.dest)
              \/ Exists(w.fs, Resolve(dst))
              \/ ~CanRename(w.fs, Resolve(src), Resolve(dst))
      THEN [w EXCEPT !.kept = Append(@, src)]
      ELSE [w EXCEPT !.fs = Renamed(@, Resolve(src), Resolve(dst)),
                     !.items = Append(@, Item(w.dest, Last(src), <<>>, src))]

Pasted(dest) ==
  FoldLeft(PasteOne, [dest |-> dest, fs |-> fs, kept |-> <<>>, items |-> <<>>], move_reg)

\* files_move_paste and the refresh after it, into the directory shown (p)
\* or the one under the cursor (P).
Paste(dest) ==
  LET w == Pasted(dest)
  IN  /\ Command("MOVE")
      /\ move_reg # <<>>
      /\ fs' = w.fs
      /\ move_reg' = w.kept
      /\ IF w.items = <<>> THEN UNCHANGED history ELSE H!Paste(w.items)
      /\ Reload

PasteTargets == {cwd} \cup {Join(cwd, e.name) : e \in {d \in ToSet(entries) : d.dir}}

----------------------------------------------------------------------------
(* Undo and redo.                                                          *)

\* The switch of files_undo, with the names of a rename the wrong way round.
RevertSwapped(f, op) ==
  LET i == op.item
  IN  CASE op.type = "RENAME" ->
             Rename(f, Append(i.cwd, i.old_name), Append(i.cwd, i.new_name))
        [] op.type = "TRASH" -> Mv(f, i.trash_path, Append(i.cwd, i.old_name))
        [] op.type = "DELETE_PERM" -> f
        [] op.type = "MOVE" ->
             Rename(f, Resolve(Append(i.cwd, i.old_name)), Resolve(i.trash_path))

\* The switch of files_undo.  Results are only reported, never acted on.
Revert(f, op) ==
  LET i == op.item
  IN  CASE op.type = "RENAME" ->
             Rename(f, Append(i.cwd, i.new_name), Append(i.cwd, i.old_name))
        [] op.type = "TRASH" -> Mv(f, i.trash_path, Append(i.cwd, i.old_name))
        [] op.type = "DELETE_PERM" -> f
        [] op.type = "MOVE" ->
             Rename(f, Resolve(Append(i.cwd, i.old_name)), Resolve(i.trash_path))

\* The switch of files_redo: trash and delete are not supported.
Reapply(f, op) ==
  LET i == op.item
  IN  CASE op.type = "RENAME" ->
             Rename(f, Append(i.cwd, i.old_name), Append(i.cwd, i.new_name))
        [] op.type \in {"TRASH", "DELETE_PERM"} -> f
        [] op.type = "MOVE" ->
             Rename(f, Resolve(i.trash_path), Resolve(Append(i.cwd, i.old_name)))

\* The loop of files_undo: the k newest operations of a stack reverted, the
\* newest first.
Undone(f, stack, k) == FoldLeft(Revert, f, Reverse(H!Top(stack, k)))

\* files_undo and the refresh of its caller.
Undo(k) ==
  /\ H!Undo(k)
  /\ fs' = Undone(fs, undo_stack, k)
  /\ Reload
  /\ UNCHANGED <<move_reg, time, commands, foreign>>

\* files_redo and the refresh of its caller.
Redo(k) ==
  /\ H!Redo(k)
  /\ fs' = FoldLeft(Reapply, fs, Reverse(H!Top(redo_stack, k)))
  /\ Reload
  /\ UNCHANGED <<move_reg, time, commands, foreign>>

----------------------------------------------------------------------------
(* The world around.                                                       *)

\* Another process removes a file or a directory.
ForeignRemove(p) ==
  /\ foreign < MaxForeign
  /\ foreign' = foreign + 1
  /\ fs' = RemoveTree(fs, p)
  /\ UNCHANGED <<cwd, entries, move_reg, history, time, commands>>

\* Another process creates a file, with a content of its own (the contents
\* of InitFs are below 1000).
ForeignCreate(p) ==
  /\ foreign < MaxForeign
  /\ foreign' = foreign + 1
  /\ fs' = Create(fs, p, 1000 + foreign)
  /\ UNCHANGED <<cwd, entries, move_reg, history, time, commands>>

FreePaths ==
  {p \in {Append(d, n) : d \in Places, n \in NewNames} :
     ~Exists(fs, p) /\ IsDir(fs, Front(p))}

Tick ==
  /\ time < MaxTime
  /\ time' = time + 1
  /\ UNCHANGED <<fs, cwd, entries, move_reg, history, commands, foreign>>

Next ==
  \/ \E p \in Places : Visit(p)
  \/ Refresh
  \/ \E e \in ToSet(entries), name \in NewNames : RenameEntry(e, name)
  \/ \E sel \in Selections : Trash(sel)
  \/ \E sel \in Selections : Delete(sel)
  \/ \E e \in ToSet(entries) : Mark(e)
  \/ \E sel \in Selections : MarkAll(sel)
  \/ ClearRegister
  \/ \E dest \in PasteTargets : Paste(dest)
  \/ \E k \in 1..Len(undo_stack) : Undo(k)
  \/ \E k \in 1..Len(redo_stack) : Redo(k)
  \/ \E p \in DOMAIN fs \ {Root} : ForeignRemove(p)
  \/ \E p \in FreePaths : ForeignCreate(p)
  \/ Tick

Spec == Init /\ [][Next]_vars

----------------------------------------------------------------------------
(* Properties.                                                             *)

\* The files are a tree, the register holds no more than its paths, and the
\* snapshot and both stacks what they should.
TypeOK ==
  /\ IsFiniteSet(DOMAIN fs) /\ fs \in [DOMAIN fs -> Content]
  /\ DOMAIN fs \subseteq Path /\ IsTree(fs)
  /\ cwd \in Path /\ entries \in Seq(Entry)
  /\ move_reg \in Seq(Written \ {Root}) /\ Len(move_reg) <= RegisterMax
  /\ time \in Nat /\ commands \in Nat /\ foreign \in Nat
  /\ H!TypeOK

\* No path is in the move register twice, whatever was marked, marked again,
\* left over from a paste that failed and marked as part of a selection
\* (the search loops of files_move_mark and files_move_mark_all).
RegisterHasNoDuplicates == IsInjective(move_reg)

\* A paste loses no file: whatever is in the way, every file content and
\* every directory there before is there after (the stat of file.c:1463).
PasteLosesNothing ==
  [][\A dest \in PasteTargets :
       Paste(dest) => /\ Contents(fs') = Contents(fs)
                      /\ Cardinality(DOMAIN fs') = Cardinality(DOMAIN fs)]_vars

\* A path leaves the register in a paste only because the entry is in the
\* directory already, or because it was moved there and one undo operation
\* of the new batch knows where it came from, unless the operations of that
\* batch alone fill the stack.
PasteAccountsForAll ==
  [][\A dest \in PasteTargets :
       Paste(dest) =>
         \A p \in ToSet(move_reg) \ ToSet(move_reg') :
           \/ p = Append(dest, Last(p))
           \/ /\ Exists(fs', Resolve(Append(dest, Last(p))))
              /\ LET batch == {op \in ToSet(undo_stack') :
                                op.type = "MOVE" /\ op.batch_id = move_batch_id'}
                 IN  \/ \E op \in batch : op.item.trash_path = p /\ op.item.cwd = dest
                     \/ Len(undo_stack') = UndoMax /\ ToSet(undo_stack') = batch]_vars

\* What u takes back right after a rename to a name that was free, or after a
\* paste whose operations fit the stack, leaves the files exactly as they were,
\* whatever other processes had done to them before.
UndoRestores ==
  [][\A k \in 1..Len(undo_stack') :
       /\ \/ \E e \in ToSet(entries), name \in NewNames :
               RenameEntry(e, name) /\ ~Exists(fs, Append(cwd, name))
          \/ \E dest \in PasteTargets :
               Paste(dest) /\ Len(Pasted(dest).items) \in 1..UndoMax
       /\ H!IsGroup(undo_stack', k)
       => Undone(fs', undo_stack', k) = fs]_vars

\* The states of the files at the ends of the groups of a stack, walked from
\* its top with Step: the nearest last.
Walked(f, stack, Step(_, _)) ==
  LET n == Len(stack)
      state[j \in 0..n] ==
        IF j = 0 THEN f
        ELSE CHOOSE g \in {Step(h, stack[n - j + 1]) : h \in {state[j - 1]}} : TRUE
      ends == {j \in 1..n : j = n \/ ~H!SameBatch(stack[n - j], stack[n - j + 1])}
      order == SetToSortSeq(ends, >)
  IN  [i \in 1..Len(order) |-> state[order[i]]]

\* Where u leads from here, pressed again and again, and where U leads.
Behind == Walked(fs, undo_stack, Revert)
Ahead == Walked(fs, redo_stack, Reapply)

\* With the files to himself the user can undo what any command recorded,
\* back to exactly the state it started from, and everything recorded before
\* still leads where it led: a paste is one step back, of a selection trashed
\* every entry is a step of its own, and what has the name of something in the
\* trash gets another one there.  Not so once a file was deleted for good,
\* replaced by a rename, or changed by another process.
UndoableWhenAlone ==
  [][(/\ commands' # commands /\ undo_stack' # undo_stack /\ foreign = 0
      /\ Contents(fs) = Contents(InitFs)
      /\ Contents(fs') = Contents(fs) \/ Last(undo_stack').type # "RENAME"
      /\ \A op \in ToSet(undo_stack') : op.type # "DELETE_PERM")
     => IsPrefix(Append(Behind, fs), Behind')]_vars

\* The same without exceptions, as docs/keybinds.md:23 has it.  Does not hold:
\* a rename replaces the file that has the new name.
OperationsUndoable ==
  [][commands' # commands /\ undo_stack' # undo_stack
       => IsPrefix(Append(Behind, fs), Behind')]_vars

\* Rename, paste, undo and redo implement the line of states with a cursor.
Line == INSTANCE Timeline WITH now <- fs, behind <- Behind, ahead <- Ahead

FollowsTimeline == Line!Spec

============================================================================
