----------------------------- MODULE Timeline -----------------------------
(***************************************************************************)
(* What undo and redo promise the user: the states of the files form a     *)
(* line with a cursor.  An operation drops what is ahead of the cursor and *)
(* puts the present behind it, the oldest states forgotten when there are  *)
(* too many; undo and redo move the cursor.                                *)
(***************************************************************************)
EXTENDS Naturals, Sequences, SequencesExt

VARIABLES now,     \* the state of the files
          behind,  \* where undo leads, the nearest last
          ahead    \* where redo leads, the nearest last

vars == <<now, behind, ahead>>

Init == behind = <<>> /\ ahead = <<>>

Operate ==
  /\ IsSuffix(behind', Append(behind, now))
  /\ behind' # <<>>
  /\ ahead' = <<>>

Undo ==
  /\ behind # <<>>
  /\ now' = Last(behind)
  /\ behind' = Front(behind)
  /\ ahead' = Append(ahead, now)

Redo ==
  /\ ahead # <<>>
  /\ now' = Last(ahead)
  /\ ahead' = Front(ahead)
  /\ behind' = Append(behind, now)

Next == Operate \/ Undo \/ Redo

Spec == Init /\ [][Next]_vars
===========================================================================
