------------------------------- MODULE UndoOps -------------------------------
(***************************************************************************)
(* What one call of src/common/undo_redo.c does to a drawing history, as   *)
(* operators on values.  A history is a record                             *)
(*    log : the strokes kept, oldest first (head .. tail of the list)      *)
(*    cur : how many of them are on screen (the position of `current')     *)
(*    max : max_steps                                                      *)
(* UndoList.tla is the pointer-level code; it is shown to implement these. *)
(***************************************************************************)
EXTENDS Integers, Sequences

\* undo_redo_init: whatever was there is freed.
Fresh(m) == [log |-> <<>>, cur |-> 0, max |-> m]

\* The strokes from head to current: what undo_redo_iterate visits.
Visible(h) == SubSeq(h.log, 1, h.cur)

\* Mutant: the count is compared before the new stroke is counted.
LimitedLate(s, m) == IF Len(s) - 1 > m THEN Tail(s) ELSE s

\* The step limit drops at most the oldest stroke of one push.
Limited(s, m) == IF Len(s) > m THEN Tail(s) ELSE s

\* undo_redo_push: the undone strokes go, the new one is last and current.
Push(h, e) ==
  LET s == Limited(Append(Visible(h), e), h.max)
  IN  [log |-> s, cur |-> Len(s), max |-> h.max]

Undo(h) == IF h.cur > 0 THEN [h EXCEPT !.cur = @ - 1] ELSE h

Redo(h) == IF h.cur < Len(h.log) THEN [h EXCEPT !.cur = @ + 1] ELSE h

\* The last n elements of s.
Newest(s, n) == IF Len(s) > n THEN SubSeq(s, Len(s) - n + 1, Len(s)) ELSE s

\* undo_redo_deserialize keeps the limit in force, or takes the default.
LoadLimit(m, default) == IF m > 0 THEN m ELSE default

\* undo_redo_deserialize of an array of well-formed commands s.
Load(h, s, default) ==
  LET m == LoadLimit(h.max, default)
      kept == Newest(s, m)
  IN  [log |-> kept, cur |-> Len(kept), max |-> m]
===============================================================================
