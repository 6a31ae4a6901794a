--------------------------- MODULE MCUndoHistory ---------------------------
(***************************************************************************)
(* UndoHistory on a stack of three slots, with calls of up to two entries  *)
(* and up to three pastes, so that evictions, batches larger than what is  *)
(* left and walks up and down the whole history all happen.                *)
(***************************************************************************)
EXTENDS UndoHistory
============================================================================
