---------------------------- MODULE UndoHistory ----------------------------
(***************************************************************************)
(* The undo and redo stacks of the files buffer (file.c: push_undo,        *)
(* files_undo, files_redo; the pushes of do_trash_entry, do_delete_entry,  *)
(* rename_commit and files_move_paste).  Only the stack discipline is      *)
(* here; what an operation does to the file system is the payload `item',  *)
(* interpreted by FileOps.                                                 *)
(*                                                                         *)
(* undo_top and redo_top are the lengths of the two sequences.  The pops   *)
(* and pushes of one key press run in one call with nothing in between,    *)
(* so one action is one call.                                              *)
(***************************************************************************)
EXTENDS Naturals, Sequences, SequencesExt

CONSTANTS Items,     \* what an operation carries: names and paths
          UndoMax,   \* UNDO_MAX, file.h:11
          MaxItems,  \* most entries one call can touch: MAX_FILES, file.h:10
          MaxBatch   \* bound on move_batch_id, for TLC

ASSUME BoundsAssumption ==
  /\ UndoMax \in Nat \ {0}
  /\ MaxItems \in Nat \ {0}
  /\ MaxBatch \in Nat

VARIABLES undo_stack, redo_stack, move_batch_id

vars == <<undo_stack, redo_stack, move_batch_id>>

OpTypes == {"RENAME", "TRASH", "DELETE_PERM", "MOVE"}

Op == [type : OpTypes, batch_id : Nat, item : Items]

(***************************************************************************)
(* Only a MOVE sets batch_id (file.c:1473).  The other three leave it      *)
(* uninitialised, and files_undo and files_redo test the type before they  *)
(* read it, so any value stands for it: 0.                                 *)
(***************************************************************************)
OpOf(type, batch, item) == [type |-> type, batch_id |-> batch, item |-> item]

Ops(type, batch, items) == [i \in 1..Len(items) |-> OpOf(type, batch, items[i])]

----------------------------------------------------------------------------
(* The operators on stacks.                                                *)

\* How many of n operations are more than the stack holds.
Overflow(n) == IF n <= UndoMax THEN 0 ELSE n - UndoMax

\* A push that evicts the newest operation instead of the oldest.
PushedKeepingOldest(stack, ops) ==
  LET n == Len(stack) + Len(ops)
  IN  SubSeq(stack \o ops, 1, n - Overflow(n))

\* push_undo for each of ops in turn: append, the oldest entry evicted by
\* the memmove when the stack is full.
Pushed(stack, ops) ==
  LET n == Len(stack) + Len(ops)
  IN  SubSeq(stack \o ops, Overflow(n) + 1, n)

\* A stack with one slot fewer, as with redo_top < UNDO_MAX - 1.
CappedShort(stack) ==
  IF Len(stack) < UndoMax THEN stack ELSE SubSeq(stack, 1, UndoMax - 1)

\* What is left of a sequence of pushes each made only while there is room
\* (if (files->redo_top < UNDO_MAX), file.c:1034, 1112).
Capped(stack) == SubSeq(stack, 1, Len(stack) - Overflow(Len(stack)))

\* A loop that goes round once whatever the batch.
IsGroupSingle(stack, k) == k = 1

\* The top k operations are what one do-while of files_undo or files_redo
\* takes from stack: the top one and, when it belongs to a move batch, every
\* operation below it down to the first that does not.
IsGroup(stack, k) ==
  LET n == Len(stack)
      top == stack[n]
      alike(i) == /\ stack[i].type = "MOVE" /\ top.type = "MOVE"
                  /\ top.batch_id > 0 /\ stack[i].batch_id = top.batch_id
  IN  /\ \A i \in (n - k + 1)..(n - 1) : alike(i)
      /\ k < n => ~alike(n - k)

Without(stack, k) == SubSeq(stack, 1, Len(stack) - k)

Top(stack, k) == SubSeq(stack, Len(stack) - k + 1, Len(stack))

----------------------------------------------------------------------------
Init ==
  /\ undo_stack = <<>>
  /\ redo_stack = <<>>
  /\ move_batch_id = 0

\* A push that forgets the redo_top = 0 of push_undo.
PushKeepingRedo(ops) ==
  /\ undo_stack' = Pushed(undo_stack, ops)
  /\ UNCHANGED redo_stack

\* push_undo for each operation of a call; the first one empties redo.
Push(ops) ==
  /\ undo_stack' = Pushed(undo_stack, ops)
  /\ redo_stack' = <<>>

\* rename_commit, and one or several entries trashed or deleted.
Record(type, items) ==
  /\ Push(Ops(type, 0, items))
  /\ UNCHANGED move_batch_id

\* A paste that gives the id back although something was moved.
PasteReusingId(items) ==
  /\ move_batch_id < MaxBatch
  /\ Push(Ops("MOVE", move_batch_id + 1, items))
  /\ move_batch_id' = IF Len(items) > 1 THEN move_batch_id + 1 ELSE move_batch_id

\* files_move_paste: items are the entries it did move.  The id is taken
\* before the loop and given back when nothing moved, so a paste that moves
\* nothing changes none of this state.
Paste(items) ==
  /\ move_batch_id < MaxBatch
  /\ Push(Ops("MOVE", move_batch_id + 1, items))
  /\ move_batch_id' = move_batch_id + 1

\* files_undo: pops a group of k and pushes it on redo, the newest first.
Undo(k) ==
  /\ IsGroup(undo_stack, k)
  /\ undo_stack' = Without(undo_stack, k)
  /\ redo_stack' = Capped(redo_stack \o Reverse(Top(undo_stack, k)))
  /\ UNCHANGED move_batch_id

\* files_redo, which mirrors it.
Redo(k) ==
  /\ IsGroup(redo_stack, k)
  /\ redo_stack' = Without(redo_stack, k)
  /\ undo_stack' = Capped(undo_stack \o Reverse(Top(redo_stack, k)))
  /\ UNCHANGED move_batch_id

SomeItems == BoundedSeq(Items, MaxItems) \ {<<>>}

Next ==
  \/ \E item \in Items : Record("RENAME", <<item>>)
  \/ \E type \in {"TRASH", "DELETE_PERM"}, items \in SomeItems : Record(type, items)
  \/ \E items \in SomeItems : Paste(items)
  \/ \E k \in 1..Len(undo_stack) : Undo(k)
  \/ \E k \in 1..Len(redo_stack) : Redo(k)

Spec == Init /\ [][Next]_vars

----------------------------------------------------------------------------
(* Properties.                                                             *)

\* Both stacks are sequences of operations and the batch counter a number.
TypeOK ==
  /\ undo_stack \in Seq(Op)
  /\ redo_stack \in Seq(Op)
  /\ move_batch_id \in Nat

\* The two stacks together never hold more than UNDO_MAX operations.  This
\* is why the two guards redo_top < UNDO_MAX and undo_top < UNDO_MAX never
\* drop an operation and why neither array is ever overrun.
StacksFit == Len(undo_stack) + Len(redo_stack) <= UndoMax

\* The history as one line: what undo would take, oldest first, then what
\* redo would take, next first.
Timeline == undo_stack \o Reverse(redo_stack)

\* Walking up and down the history with u and U never loses, duplicates or
\* reorders an operation: files_undo and files_redo only move the cursor.
HistoryKept ==
  [][( \/ \E k \in 1..Len(undo_stack) : Undo(k)
       \/ \E k \in 1..Len(redo_stack) : Redo(k) )
     => Timeline' = Timeline]_vars

SameBatch(a, b) ==
  a.type = "MOVE" /\ b.type = "MOVE" /\ a.batch_id = b.batch_id

\* The cursor between the stacks never stands inside a batch: the next undo
\* and the next redo never work on two parts of one paste.
BatchNotSplit ==
  undo_stack # <<>> /\ redo_stack # <<>>
    => ~SameBatch(Last(undo_stack), Last(redo_stack))

\* Along the history the ids of the batches grow and never exceed the
\* counter, so a later paste can never be taken for part of an earlier one.
BatchesOrdered ==
  \A i, j \in 1..Len(Timeline) :
    /\ i <= j
    /\ Timeline[i].type = "MOVE"
    /\ Timeline[j].type = "MOVE"
    => /\ 0 < Timeline[i].batch_id
       /\ Timeline[i].batch_id <= Timeline[j].batch_id
       /\ Timeline[j].batch_id <= move_batch_id

\* Right after a paste one undo takes back all of its operations still on
\* the stack and no operation of anything done before.
PasteIsOneGroup ==
  [][\A items \in SomeItems :
       Paste(items) =>
         \E k \in 1..Len(undo_stack') :
           /\ IsGroup(undo_stack', k)
           /\ k = IF Len(items) <= UndoMax THEN Len(items) ELSE UndoMax]_vars

============================================================================
