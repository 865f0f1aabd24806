------------------------------- MODULE UndoLog -------------------------------
(***************************************************************************)
(* What undo_redo.c promises its caller (gui_main.c): a bounded log of     *)
(* strokes with a cursor.  A push forgets the undone strokes, undo and     *)
(* redo move the cursor by one, and nothing else changes the log.          *)
(***************************************************************************)
EXTENDS UndoOps

CONSTANTS
  Entries,   \* strokes that can be in the history
  Limits     \* arguments undo_redo_init is called with

VARIABLE hist

TypeOK ==
  /\ hist \in [log : Seq(Entries), cur : Nat, max : Nat]
  /\ hist.cur <= Len(hist.log)

\* `static history_t g_history = {0}'
Init == hist = Fresh(0)

ResetTo(m) == hist' = Fresh(m)
PushOf(e)  == hist' = Push(hist, e)
UndoStep   == hist' = Undo(hist)
RedoStep   == hist' = Redo(hist)

Next ==
  \/ \E m \in Limits  : ResetTo(m)
  \/ \E e \in Entries : PushOf(e)
  \/ UndoStep
  \/ RedoStep

Spec == Init /\ [][Next]_hist

\* The log never outgrows max_steps, however calls are interleaved.
WithinLimit == Len(hist.log) <= hist.max
===============================================================================
