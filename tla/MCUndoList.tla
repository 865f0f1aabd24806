----------------------------- MODULE MCUndoList -----------------------------
(* Small instances of UndoList. *)
EXTENDS UndoList, TLC

==============================================================================
