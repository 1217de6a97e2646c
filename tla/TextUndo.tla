------------------------------ MODULE TextUndo ------------------------------
(***************************************************************************)
(* TextBuffer with a history variable: did every undo and redo so far      *)
(* restore what its action recorded?  Undoing an insertion and redoing a   *)
(* deletion delete one character, whatever the action's text; the text is  *)
(* then no longer the one that the history explains.                       *)
(***************************************************************************)
EXTENDS TextBuffer

VARIABLE restored   \* nothing was undone or redone in part

\* An action that is replayed by deleting its text, of which one character goes.
ReplayedInPart(a, deleting) == a.type = deleting /\ Len(a.text) > 1

UndoInit == Init /\ restored = TRUE

TrackedUndo ==
  /\ Nav_undo
  /\ restored' = (restored /\ ~ReplayedInPart(UndoneAction(buf.undo), UNDO_INSERT))

TrackedRedo ==
  /\ Nav_redo
  /\ restored' = (restored /\ ~ReplayedInPart(RedoneAction(buf.undo), UNDO_DELETE))

UndoNext ==
  \/ TrackedUndo
  \/ TrackedRedo
  \/ /\ EditNext \/ CopyNext \/ PasteNext \/ MoveNext \/ MouseNext \/ DiskNext
     /\ UNCHANGED restored

UndoSpec == UndoInit /\ [][UndoNext]_<<vars, restored>>

-----------------------------------------------------------------------------
\* The actions of the history, done from the first to the current one on the
\* text that was opened, make the text of the buffer (Undo_push, Undo_perform,
\* Redo_perform), where no action was undone or redone in part.
UndoneHistoryExplainsText == restored => HistoryExplainsText
=============================================================================
