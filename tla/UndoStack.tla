------------------------------ MODULE UndoStack ------------------------------
(***************************************************************************)
(* The undo history of a buffer (undo.c).  A stack is a record of the      *)
(* recorded actions, of how many of them are applied (current; the ones    *)
(* behind it are what redo can replay), and of the flag is_undoing, which  *)
(* keeps the edits that undo and redo make out of the history.             *)
(*                                                                         *)
(* The clock is abstracted to one Boolean: "recent" says that the last     *)
(* action was recorded less than UNDO_TIMEOUT (500 ms) ago.                *)
(***************************************************************************)
EXTENDS Integers, Sequences

UNDO_INSERT == "insert"
UNDO_DELETE == "delete"

Undo_init == [actions |-> <<>>, current |-> 0, is_undoing |-> FALSE]

UndoAction(type, offset, text) == [type |-> type, offset |-> offset, text |-> text]

\* Undo_discard_redo: what was undone can no longer be redone.
Undo_discard_redo(us) == SubSeq(us.actions, 1, us.current)

-----------------------------------------------------------------------------
(* Merging an edit into the action recorded just before it. *)

ContinuesTyping(last, type, offset) ==
  /\ type = UNDO_INSERT
  /\ last.type = UNDO_INSERT
  /\ last.offset + Len(last.text) = offset

ContinuesBackspace(last, type, offset, text) ==
  /\ type = UNDO_DELETE
  /\ last.type = UNDO_DELETE
  /\ offset + Len(text) = last.offset

ContinuesDeleteKey(last, type, offset) ==
  /\ type = UNDO_DELETE
  /\ last.type = UNDO_DELETE
  /\ offset = last.offset

CanMerge(last, type, offset, text) ==
  \/ ContinuesTyping(last, type, offset)
  \/ ContinuesBackspace(last, type, offset, text)
  \/ ContinuesDeleteKey(last, type, offset)

\* A merge that always appends, also what a backspace deleted in front.
MergedAtEnd(last, type, offset, text) == [last EXCEPT !.text = @ \o text]

\* A merged backspace that leaves the offset at the last character deleted.
MergedInPlace(last, type, offset, text) ==
  IF ContinuesBackspace(last, type, offset, text)
  THEN [last EXCEPT !.text = text \o @]
  ELSE [last EXCEPT !.text = @ \o text]

\* A backspace deletes in front of what the last one deleted; the two others
\* continue at its end.
Merged(last, type, offset, text) ==
  IF ContinuesBackspace(last, type, offset, text)
  THEN [last EXCEPT !.offset = offset, !.text = text \o @]
  ELSE [last EXCEPT !.text = @ \o text]

-----------------------------------------------------------------------------
\* A push that keeps the undone actions instead of discarding them.
PushKeepingRedo(us, type, offset, text, recent) ==
  IF text = <<>> \/ us.is_undoing THEN us
  ELSE [us EXCEPT !.actions = Append(@, UndoAction(type, offset, text)),
                  !.current = Len(us.actions) + 1]

Undo_push(us, type, offset, text, recent) ==
  LET kept == Undo_discard_redo(us)
      n    == Len(kept)
  IN  IF text = <<>> \/ us.is_undoing THEN us
      ELSE IF recent /\ n > 0 /\ CanMerge(kept[n], type, offset, text)
      THEN [us EXCEPT !.actions = [kept EXCEPT ![n] = Merged(@, type, offset, text)]]
      ELSE [us EXCEPT !.actions = Append(kept, UndoAction(type, offset, text)),
                      !.current = n + 1]

\* Undo_pop and Redo_pop: the action they hand out, and the stack they leave.
CanUndo(us) == us.current > 0
CanRedo(us) == us.current < Len(us.actions)
UndoneAction(us) == us.actions[us.current]
RedoneAction(us) == us.actions[us.current + 1]
Undo_pop(us) == [us EXCEPT !.current = @ - 1]
Redo_pop(us) == [us EXCEPT !.current = @ + 1]
=============================================================================
