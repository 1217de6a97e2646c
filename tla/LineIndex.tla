------------------------------ MODULE LineIndex ------------------------------
(***************************************************************************)
(* The text of a buffer and its line index (buffer.c, rope.c).             *)
(*                                                                         *)
(* A text is the sequence of characters the rope holds.  Offsets are the   *)
(* code's: 0-based, so the character at offset o is text[o + 1].           *)
(*                                                                         *)
(* The code keeps the offsets at which lines start in a sorted array.      *)
(* Here that array is the set of its entries: row y is its y-th smallest   *)
(* element, and offset[0] is always 0.                                     *)
(***************************************************************************)
EXTENDS Integers, Sequences, FiniteSetsExt

CONSTANTS
  Char,   \* the characters a text is made of
  NL      \* the newline character

ASSUME NLIsChar == NL \in Char

-----------------------------------------------------------------------------
(* The rope, as a sequence. *)

\* String_insert: the rope is split at p, and a p behind the end splits at the end.
String_insert(t, p, s) ==
  LET at == IF p > Len(t) THEN Len(t) ELSE p
  IN  SubSeq(t, 1, at) \o s \o SubSeq(t, at + 1, Len(t))

\* String_delete: nothing behind the end is deleted.
String_delete(t, p, n) ==
  LET to == IF p + n > Len(t) THEN Len(t) ELSE p + n
  IN  IF p >= Len(t) THEN t ELSE SubSeq(t, 1, p) \o SubSeq(t, to + 1, Len(t))

\* String_get: at most n characters from offset p, none from behind the end.
String_get(t, p, n) ==
  LET to == IF p + n > Len(t) THEN Len(t) ELSE p + n
  IN  SubSeq(t, p + 1, to)

-----------------------------------------------------------------------------
(* The line index. *)

\* LineIndex_insert: the full scan. Offset 0 starts a line, and so does the
\* offset behind every newline.
LineIndex_insert(t) == {0} \cup {i \in 1 .. Len(t) : t[i] = NL}

\* A missing shift: the starts behind the insertion stay where they were.
insert_newlines_unshifted(starts, p, s) ==
  starts \cup {p + i : i \in {j \in 1 .. Len(s) : s[j] = NL}}

\* line_index_insert_newlines: starts behind p move by the inserted length, and
\* every newline of the inserted text s starts a line.
line_index_insert_newlines(starts, p, s) ==
  {o \in starts : o <= p}
    \cup {o + Len(s) : o \in {q \in starts : q > p}}
    \cup {p + i : i \in {j \in 1 .. Len(s) : s[j] = NL}}

\* line_index_delete_range: starts inside (p, p + n] go, starts behind it move.
line_index_delete_range(starts, p, n) ==
  {o \in starts : o <= p} \cup {o - n : o \in {q \in starts : q > p + n}}

\* The start of the line that holds offset p (the binary search of
\* sync_cursor_line_from_pos, the linear scan of sync_cursor_coords_from_pos).
LineOf(starts, p) == Max({o \in starts : o <= p})

\* One past the last character of the line that starts at r, newline included
\* (Buffer_get_line_text: the next entry of the index, or the rope's length).
LineEnd(t, starts, r) ==
  LET below == {o \in starts : o > r}
  IN  IF below = {} THEN Len(t) ELSE Min(below)

\* How many lines b lies below a: the difference of their row numbers.
RowsBetween(starts, a, b) == Cardinality({o \in starts : a < o /\ o <= b})
=============================================================================
