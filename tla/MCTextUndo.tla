----------------------------- MODULE MCTextUndo -----------------------------
(***************************************************************************)
(* Small instances of TextUndo: of the actions that do not undo or redo,   *)
(* typing and deleting, and those that select and bring the cursor away    *)
(* from the last edit.                                                     *)
(***************************************************************************)
EXTENDS MCTextBuffer, TextUndo

SmallUndoNext ==
  \/ TrackedUndo
  \/ TrackedRedo
  \/ /\ EditNext \/ Nav_move_left(TRUE) \/ Nav_move_right(FALSE)
     /\ UNCHANGED restored

SmallUndoSpec == UndoInit /\ [][SmallUndoNext]_<<vars, restored>>

\* No action reads the column, nor the anchor of no selection, and none but the
\* property of restored histories the text that was opened.
UndoView ==
  <<restored, IF restored THEN opened ELSE <<>>,
    [buf EXCEPT !.dirty = FALSE, !.x = 0, !.anchor = IF buf.select THEN @ ELSE 0]>>
=============================================================================
