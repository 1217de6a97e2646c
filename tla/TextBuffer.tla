----------------------------- MODULE TextBuffer -----------------------------
(***************************************************************************)
(* One buffer of a plain file (no language server) under the keyboard,     *)
(* the mouse, the clipboard and the disk: buffer.c, navigation.c,          *)
(* nav_utils.c, clipboard.c, Fs_savefile and Fs_create of fs.c.            *)
(*                                                                         *)
(* The UI is one thread, so a handler is one action.  The variable buf is  *)
(* the Buffer struct.  Its cursor keeps the column x, the offset pos, and  *)
(* the row; the row is named by the offset its line starts at, which the   *)
(* line index maps one to one to the code's row number y.                  *)
(***************************************************************************)
EXTENDS LineIndex, UndoStack

CONSTANTS
  Keys,            \* characters typed one at a time
  Blank,           \* white space: what indentation is made of
  Open, Close,     \* an opening character and the one auto-pairing adds
  IndentWidth,     \* blanks added behind an opening character (the code: 4)
  MaxIndent,       \* the longest indentation (the code: 200)
  JumpRows,        \* rows of a jump (the code: 5)
  Files,           \* texts a buffer may be opened with
  ForeignClips,    \* texts another application may put on the clipboard
  Pacing,          \* values of "recent": FALSE in it for slow, TRUE for fast typing
  SaveOutcomes,    \* of writing an existing path: "ok", "fail", "short"
  SaveAsOutcomes,  \* of writing a path just created
  MaxLen,          \* bound: the longest text, and the longest one recorded for undo
  MaxActs          \* bound: the longest undo history

ASSUME CharsAreChars ==
  /\ Keys \subseteq Char
  /\ {Blank, Open, Close} \subseteq Char
  /\ Cardinality({NL, Blank, Open, Close}) = 4
  /\ {NL, Open} \cap Keys = {}
ASSUME TextsAreTexts == Files \subseteq Seq(Char) /\ ForeignClips \subseteq Seq(Char)
ASSUME NumbersAreNumbers ==
  IndentWidth \in Nat /\ MaxIndent \in Nat /\ JumpRows \in Nat
ASSUME PacingIsBoolean == Pacing \subseteq BOOLEAN

VARIABLES
  buf,     \* the Buffer: text, lines, row, x, pos, anchor, select, dirty, undo
  clip,    \* the clipboard, shared with the operating system
  named,   \* buf->path is set
  disk,    \* the content of the file at buf->path (empty when there is none)
  opened   \* history variable: the text the buffer was opened with

vars == <<buf, clip, named, disk, opened>>

-----------------------------------------------------------------------------
(* Cursor and selection. *)

\* A cursor that is not clamped to the text.
SyncUnclamped(b) ==
  LET r == LineOf(b.lines, b.pos) IN [b EXCEPT !.row = r, !.x = b.pos - r]

\* sync_cursor_line_from_pos: pos is clamped to the text, row and x follow it.
Sync(b) ==
  LET p == IF b.pos > Len(b.text) THEN Len(b.text) ELSE b.pos
      r == LineOf(b.lines, p)
  IN  [b EXCEPT !.pos = p, !.row = r, !.x = p - r]

\* Get_selected_position
SelStart(b) == IF b.anchor < b.pos THEN b.anchor ELSE b.pos
SelLen(b) == IF b.anchor < b.pos THEN b.pos - b.anchor ELSE b.anchor - b.pos

\* CHECK_SELECTION: an arrow with shift starts or extends a selection, one
\* without it drops the selection.
CHECK_SELECTION(b, shift) ==
  IF ~shift THEN [b EXCEPT !.select = FALSE]
  ELSE IF b.select THEN b ELSE [b EXCEPT !.anchor = b.pos, !.select = TRUE]

-----------------------------------------------------------------------------
(* The two edits everything else is made of. *)

\* The range is the selection or the character before p, cut at the end of the
\* text; an empty selection and the start of the text delete nothing.
Buffer_delete(b, p, recent) ==
  LET start == IF b.select THEN SelStart(b) ELSE p - 1
      want  == IF b.select THEN SelLen(b) ELSE 1
      n     == IF start + want > Len(b.text) THEN Len(b.text) - start ELSE want
      d     == [b EXCEPT !.dirty = TRUE, !.select = FALSE]
  IN  IF want = 0 \/ start < 0 THEN d
      ELSE Sync([d EXCEPT
             !.undo  = Undo_push(@, UNDO_DELETE, start, String_get(b.text, start, n), recent),
             !.text  = String_delete(@, start, n),
             !.lines = line_index_delete_range(@, start, n),
             !.pos   = start])

\* A selection is deleted first, and the text then goes where it was.
Buffer_insert(b, p, s, recent) ==
  LET d  == [b EXCEPT !.dirty = TRUE]
      c  == IF b.select THEN Buffer_delete(d, d.pos, recent) ELSE d
      at == IF b.select THEN c.pos ELSE p
  IN  IF s = <<>> THEN d
      ELSE Sync([c EXCEPT
             !.undo  = Undo_push(@, UNDO_INSERT, at, s, recent),
             !.text  = String_insert(@, at, s),
             !.lines = line_index_insert_newlines(@, at, s),
             !.pos   = @ + Len(s)])

-----------------------------------------------------------------------------
(* Undo and redo. *)

\* The stack while undo or redo edits, with the cursor sent to p first.
Replaying(b, us, p) ==
  Sync([b EXCEPT !.undo = [us EXCEPT !.is_undoing = TRUE], !.select = FALSE, !.pos = p])

Replayed(b) == [b EXCEPT !.undo.is_undoing = FALSE]

Buffer_undo(b) ==
  LET a == UndoneAction(b.undo)
      behind == Replaying(b, Undo_pop(b.undo), a.offset + Len(a.text))
      before == Replaying(b, Undo_pop(b.undo), a.offset)
  IN  Replayed(IF a.type = UNDO_INSERT
               THEN Sync([Buffer_delete(behind, behind.pos, FALSE) EXCEPT !.pos = a.offset])
               ELSE Buffer_insert(before, a.offset, a.text, FALSE))

Buffer_redo(b) ==
  LET a == RedoneAction(b.undo)
      behind == Replaying(b, Redo_pop(b.undo), a.offset + Len(a.text))
      before == Replaying(b, Redo_pop(b.undo), a.offset)
  IN  Replayed(IF a.type = UNDO_INSERT
               THEN Buffer_insert(before, a.offset, a.text, FALSE)
               ELSE Buffer_delete(behind, behind.pos, FALSE))

-----------------------------------------------------------------------------
(* Keyboard: editing. *)

\* An edit within the bounds of the model, which leaves the rest alone.
Edit(b) ==
  /\ Len(b.text) <= MaxLen
  /\ Len(b.undo.actions) <= MaxActs
  /\ \A k \in 1 .. Len(b.undo.actions) : Len(b.undo.actions[k].text) <= MaxLen
  /\ buf' = b
  /\ UNCHANGED <<named, disk, opened>>

Type(c, recent) ==
  /\ Edit(Buffer_insert(buf, buf.pos, <<c>>, recent))
  /\ UNCHANGED clip

\* Auto-pairing: both characters are inserted and the cursor steps between them.
TypePair(recent) ==
  /\ Edit(Sync([Buffer_insert(buf, buf.pos, <<Open, Close>>, recent) EXCEPT !.pos = @ - 1]))
  /\ UNCHANGED clip

\* get_current_line_indent
get_current_line_indent(b) ==
  Cardinality({i \in 1 .. LineEnd(b.text, b.lines, b.row) - b.row :
                 \A j \in 1 .. i : b.text[b.row + j] = Blank})

\* Buffer_get_char_at(line, col) is c
CharAtIs(b, r, col, c) ==
  /\ r + col < LineEnd(b.text, b.lines, r)
  /\ b.text[r + col + 1] = c

\* Syntax_auto_indent: the offset before the cursor is passed as a column.
Indentation(b) ==
  LET base  == get_current_line_indent(b)
      extra == IF b.pos > 0 /\ CharAtIs(b, b.row, b.pos - 1, Open) THEN IndentWidth ELSE 0
  IN  IF base + extra > MaxIndent THEN MaxIndent ELSE base + extra

\* The cursor is set from where it was before the insertion.
PressEnter(recent) ==
  LET s == <<NL>> \o [i \in 1 .. Indentation(buf) |-> Blank]
  IN  /\ Edit(Sync([Buffer_insert(buf, buf.pos, s, recent) EXCEPT !.pos = buf.pos + Len(s)]))
      /\ UNCHANGED clip

PressBackspace(recent) ==
  /\ buf.select \/ buf.pos > 0
  /\ Edit(Buffer_delete(buf, buf.pos, recent))
  /\ UNCHANGED clip

Nav_undo ==
  /\ CanUndo(buf.undo)
  /\ Edit(Buffer_undo(buf))
  /\ UNCHANGED clip

Nav_redo ==
  /\ CanRedo(buf.undo)
  /\ Edit(Buffer_redo(buf))
  /\ UNCHANGED clip

PressEscape ==
  /\ buf.select
  /\ buf' = [buf EXCEPT !.select = FALSE]
  /\ UNCHANGED <<clip, named, disk, opened>>

-----------------------------------------------------------------------------
(* Clipboard. *)

\* Clipboard_set ignores an empty text.
Clipboard_set(s) == clip' = IF s = <<>> THEN clip ELSE s

\* Buffer_copy: computing the selection also drops an empty one.
Copied(b) == String_get(b.text, SelStart(b), SelLen(b))
Buffer_copy(b) == [b EXCEPT !.select = @ /\ SelLen(b) > 0]

Nav_copy ==
  /\ buf.select
  /\ Clipboard_set(Copied(buf))
  /\ buf' = [Buffer_copy(buf) EXCEPT !.select = FALSE]
  /\ UNCHANGED <<named, disk, opened>>

Nav_cut(recent) ==
  /\ buf.select
  /\ Clipboard_set(Copied(buf))
  /\ Edit([Buffer_delete(Buffer_copy(buf), buf.pos, recent) EXCEPT !.select = FALSE])

Nav_paste(recent) ==
  LET b == IF buf.select THEN Buffer_delete(buf, buf.pos, recent) ELSE buf
  IN  /\ clip # <<>>
      /\ Edit(Buffer_insert(b, b.pos, clip, recent))
      /\ UNCHANGED clip

\* Another application copies; Clipboard_get_text prefers the system's text.
ForeignCopy(s) ==
  /\ clip' = s
  /\ UNCHANGED <<buf, named, disk, opened>>

-----------------------------------------------------------------------------
(* Keyboard: moving. Only the buffer changes, and in it only the cursor and *)
(* the selection.                                                           *)

Move(b) == buf' = b /\ UNCHANGED <<clip, named, disk, opened>>

Nav_move_left(shift) ==
  LET b == CHECK_SELECTION(buf, shift)
  IN  Move(IF b.pos > 0 THEN Sync([b EXCEPT !.pos = @ - 1]) ELSE b)

Nav_move_right(shift) ==
  LET b == CHECK_SELECTION(buf, shift)
  IN  Move(IF b.pos < Len(b.text) THEN Sync([b EXCEPT !.pos = @ + 1]) ELSE b)

\* sync_cursor_pos_from_coords on row r: the column is clamped to the line's
\* length, which counts its newline, and pos follows.
OnRow(b, r) ==
  LET len == LineEnd(b.text, b.lines, r) - r
      col == IF b.x > len THEN len ELSE b.x
  IN  [b EXCEPT !.row = r, !.x = col, !.pos = r + col]

IsLastRow(b, r) == \A o \in b.lines : o <= r

\* A line that is taken to end with a newline also when it is the last one.
LineStopAtNewline(b, r) == LineEnd(b.text, b.lines, r) - 1

\* The offset of row r's newline, or the end of the text on the last row.
LineStop(b, r) ==
  IF IsLastRow(b, r) THEN Len(b.text) ELSE LineEnd(b.text, b.lines, r) - 1

\* Row r is at most n rows below (above) row q, and less only at the last (first).
RowsBelow(b, q, r, n) ==
  /\ q <= r
  /\ RowsBetween(b.lines, q, r) <= n
  /\ RowsBetween(b.lines, q, r) < n => IsLastRow(b, r)

RowsAbove(b, q, r, n) ==
  /\ r <= q
  /\ RowsBetween(b.lines, r, q) <= n
  /\ RowsBetween(b.lines, r, q) < n => r = 0

Nav_move_up(shift) ==
  LET b == CHECK_SELECTION(buf, shift)
  IN  \/ b.row = 0 /\ Move(b)
      \/ b.row > 0 /\ \E r \in b.lines : RowsAbove(b, b.row, r, 1) /\ Move(OnRow(b, r))

Nav_move_down(shift) ==
  LET b == CHECK_SELECTION(buf, shift)
  IN  \/ IsLastRow(b, b.row) /\ Move(b)
      \/ ~IsLastRow(b, b.row) /\ \E r \in b.lines : RowsBelow(b, b.row, r, 1) /\ Move(OnRow(b, r))

Nav_jump_up ==
  \E r \in buf.lines : RowsAbove(buf, buf.row, r, JumpRows) /\ Move(OnRow(buf, r))

Nav_jump_down ==
  \E r \in buf.lines : RowsBelow(buf, buf.row, r, JumpRows) /\ Move(OnRow(buf, r))

\* Ctrl+H
GotoStartOfLine == Move([buf EXCEPT !.x = 0, !.pos = buf.row])

\* Ctrl+L: before the newline of the row, or at the end of the text.
Nav_goto_end_of_line ==
  LET end == LineStop(buf, buf.row)
  IN  Move([buf EXCEPT !.pos = end, !.x = end - buf.row])

-----------------------------------------------------------------------------
(* Mouse and search. *)

\* set_cursor_from_mouse: any column of any row up to its end, before the newline;
\* outside the text area the cursor stays.
FromMouse(b) ==
  {b} \cup UNION {{[b EXCEPT !.row = r, !.x = p - r, !.pos = p] :
                    p \in r .. LineStop(b, r)} : r \in b.lines}

MousePress ==
  \E b \in FromMouse(buf) : Move([b EXCEPT !.anchor = b.pos, !.select = FALSE])

\* A drag may also have begun outside the editor: the anchor is then an old one.
\* While the scroll bar is dragged nothing is selected.
MouseDrag ==
  \E b \in FromMouse(buf), scrollbar \in BOOLEAN :
    Move([b EXCEPT !.select = ~scrollbar /\ b.pos # b.anchor])

\* Nav_mouse_scroll keeps the row inside the window. Window and scroll offset are
\* not modelled: the row may end on any line. x and pos stay.
Nav_mouse_scroll ==
  \E r \in buf.lines : Move([buf EXCEPT !.row = r])

\* Buffer_goto_search_hit: a hit is a non-empty match inside a line.
Buffer_goto_search_hit ==
  \E r \in buf.lines : \E col \in 0 .. Len(buf.text) :
    /\ r + col < LineEnd(buf.text, buf.lines, r)
    /\ Move([buf EXCEPT !.row = r, !.x = col, !.pos = r + col, !.select = FALSE])

-----------------------------------------------------------------------------
(* Disk. *)

\* String_get of an empty text yields no data: nothing is written then, and the
\* dirty flag stays. "fail": the file cannot be opened. "short": fwrite stores
\* only a part, which Fs_savefile does not notice.
NothingWritten(b, outcome) == b.text = <<>> \/ outcome = "fail"

Fs_savefile(b, outcome, before) ==
  IF NothingWritten(b, outcome) THEN {before}
  ELSE IF outcome = "ok" THEN {b.text}
  ELSE {SubSeq(b.text, 1, k) : k \in 0 .. Len(b.text) - 1}

\* A save that always drops the dirty flag.
SaveAlwaysClears(b, outcome) == [b EXCEPT !.dirty = FALSE]

Saved(b, outcome) == [b EXCEPT !.dirty = @ /\ NothingWritten(b, outcome)]

Buffer_save(outcome) ==
  /\ named
  /\ disk' \in Fs_savefile(buf, outcome, disk)
  /\ buf' = Saved(buf, outcome)
  /\ UNCHANGED <<clip, named, opened>>

\* Fs_create truncates the new file before it is written.
Nav_save_as(outcome) ==
  /\ named' = TRUE
  /\ disk' \in Fs_savefile(buf, outcome, <<>>)
  /\ buf' = Saved(buf, outcome)
  /\ UNCHANGED <<clip, opened>>

-----------------------------------------------------------------------------
\* Buffer_new, and Buffer_open of a file with text t.
FreshBuffer(t) ==
  [text |-> t, lines |-> LineIndex_insert(t), row |-> 0, x |-> 0, pos |-> 0,
   anchor |-> 0, select |-> FALSE, dirty |-> FALSE, undo |-> Undo_init]

Init ==
  /\ named \in BOOLEAN
  /\ opened \in (IF named THEN Files ELSE {<<>>})
  /\ buf = FreshBuffer(opened)
  /\ disk = opened
  /\ clip = <<>>

EditNext ==
  \E recent \in Pacing :
    \/ \E c \in Keys : Type(c, recent)
    \/ TypePair(recent)
    \/ PressEnter(recent)
    \/ PressBackspace(recent)

HistoryNext == Nav_undo \/ Nav_redo

CopyNext ==
  \/ Nav_copy
  \/ \E recent \in Pacing : Nav_cut(recent)

PasteNext ==
  \/ \E s \in ForeignClips : ForeignCopy(s)
  \/ \E recent \in Pacing : Nav_paste(recent)

MoveNext ==
  \/ \E shift \in BOOLEAN :
       \/ Nav_move_left(shift)
       \/ Nav_move_right(shift)
       \/ Nav_move_up(shift)
       \/ Nav_move_down(shift)
  \/ Nav_jump_up
  \/ Nav_jump_down
  \/ GotoStartOfLine
  \/ Nav_goto_end_of_line
  \/ PressEscape

MouseNext ==
  \/ MousePress
  \/ MouseDrag
  \/ Nav_mouse_scroll
  \/ Buffer_goto_search_hit

DiskNext ==
  \/ \E o \in SaveOutcomes : Buffer_save(o)
  \/ \E o \in SaveAsOutcomes : Nav_save_as(o)

Next ==
  \/ EditNext
  \/ HistoryNext
  \/ CopyNext
  \/ PasteNext
  \/ MoveNext
  \/ MouseNext
  \/ DiskNext

Spec == Init /\ [][Next]_vars

-----------------------------------------------------------------------------
(* Properties. *)

\* The type invariant; a recorded action always has a text.
ActionType ==
  [type : {UNDO_INSERT, UNDO_DELETE}, offset : Nat, text : Seq(Char) \ {<<>>}]

StackType == [actions : Seq(ActionType), current : Nat, is_undoing : BOOLEAN]

BufferType ==
  [text : Seq(Char), lines : SUBSET Nat, row : Nat, x : Nat, pos : Nat, anchor : Nat,
   select : BOOLEAN, dirty : BOOLEAN, undo : StackType]

TypeOK ==
  /\ buf \in BufferType
  /\ clip \in Seq(Char)
  /\ named \in BOOLEAN
  /\ disk \in Seq(Char)
  /\ opened \in Seq(Char)

\* The line index, which every edit updates in place from the edit's offset and
\* length, is at all times what a full scan of the text would build
\* (line_index_insert_newlines and line_index_delete_range against
\* LineIndex_insert), also when undo and redo replay edits at old offsets.
LineIndexMirrorsText == buf.lines = LineIndex_insert(buf.text)

\* The cursor never leaves the text and its row is a row of the index, so that
\* no handler reads lines.offset or the rope out of bounds, whatever order of
\* edits, undos, clicks and wheel turns leads there.
CursorInText == buf.pos <= Len(buf.text) /\ buf.row \in buf.lines

\* The offset that the next undo or redo inserts at lies in the text, although undo
\* and redo do not always bring back the text the action was recorded in.
StoredOffsetsStayInText ==
  /\ CanUndo(buf.undo) /\ UndoneAction(buf.undo).type = UNDO_DELETE
       => UndoneAction(buf.undo).offset <= Len(buf.text)
  /\ CanRedo(buf.undo) /\ RedoneAction(buf.undo).type = UNDO_INSERT
       => RedoneAction(buf.undo).offset <= Len(buf.text)

\* The reason.  Let size[k] be the size of the text when the first k actions of
\* the history us are applied, going by the sizes the actions recorded: every
\* action finds the place it is about in a text of that size, and the text is not
\* shorter than that (it is longer once an undo or redo has deleted too little).
ActionFits(act, before, after) ==
  IF act.type = UNDO_INSERT
  THEN act.offset <= before /\ after = before + Len(act.text)
  ELSE act.offset <= after /\ before = after + Len(act.text)

SizesFit(us, len, size) ==
  /\ size[us.current] <= len
  /\ \A k \in 1 .. Len(us.actions) : ActionFits(us.actions[k], size[k - 1], size[k])

\* SizesFit for the sizes counted from the size of the text. net[k] is what the
\* first k actions add to the text.
Grown(act) == IF act.type = UNDO_INSERT THEN Len(act.text) ELSE 0 - Len(act.text)

HistoryFitsText ==
  LET us == buf.undo
      net[k \in 0 .. Len(us.actions)] ==
        IF k = 0 THEN 0 ELSE net[k - 1] + Grown(us.actions[k])
      size == [k \in 0 .. Len(us.actions) |-> Len(buf.text) - net[us.current] + net[k]]
  IN  /\ \A k \in DOMAIN size : size[k] >= 0
      /\ SizesFit(us, Len(buf.text), size)

\* Replaying the applied actions of the undo history on the text that was opened
\* gives the text: no edit escapes the history, and merging two edits into one
\* action (Undo_push) loses none of their characters and none of their places.
Replayable(a, t) ==
  IF a.type = UNDO_INSERT THEN String_insert(t, a.offset, a.text)
  ELSE String_delete(t, a.offset, Len(a.text))
HistoryExplainsText ==
  LET after[k \in 0 .. buf.undo.current] ==
        IF k = 0 THEN opened ELSE Replayable(buf.undo.actions[k], after[k - 1])
  IN  buf.text = after[buf.undo.current]

\* A buffer whose file holds something else than its text is marked dirty, so
\* that closing the tab or the window warns (Nav_close_tab, Nav_exit).
UnsavedIsDirty == named /\ disk # buf.text => buf.dirty

\* Undoing an insertion deletes the inserted text: the comment on Buffer_undo.
UndoDeletesInsertedText ==
  [][Nav_undo /\ UndoneAction(buf.undo).type = UNDO_INSERT
     => LET a == UndoneAction(buf.undo)
        IN  buf'.text = String_delete(buf.text, a.offset, Len(a.text))]_vars
=============================================================================
