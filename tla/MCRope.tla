------------------------------- MODULE MCRope -------------------------------
(***************************************************************************)
(* Small instances of Rope.  It never looks at a character, so the pieces  *)
(* that are inserted are of characters that the text does not have: no two *)
(* of the text are the same.                                               *)
(***************************************************************************)
EXTENDS Rope, SequencesExt

CONSTANTS
  MaxLen,     \* bound: the longest text
  MaxPiece,   \* bound: the longest piece inserted at once
  Dense       \* bound: a longer text than this is typed, and deleted, at its end only

Piece(n) == SetToSeq(CHOOSE C \in kSubset(n, Char \ ToSet(Flat(heap)[root])) : TRUE)

SmallInsert ==
  \E p \in 0 .. heap[root].len, n \in 1 .. MaxPiece :
    /\ \/ heap[root].len + n <= Dense
       \/ heap[root].len < MaxLen /\ n = 1 /\ p = heap[root].len
    /\ String_insert(p, Piece(n))

SmallDelete ==
  \E p \in 0 .. heap[root].len :
    \E n \in 1 .. heap[root].len - p + 1 :
      /\ heap[root].len <= Dense \/ (n = 1 /\ p + n = heap[root].len)
      /\ String_delete(p, n)

SmallSpec == Init /\ [][SmallInsert \/ SmallDelete]_vars

\* The tree without its addresses and its characters. A count above 1 is a leak
\* that is never taken back, and how many there are of it makes no difference.
RopeView ==
  LET shape[n \in 0 .. Len(heap)] ==
        IF n = Null THEN <<>> ELSE IF heap[n] = Freed THEN <<>>
        ELSE <<heap[n].leaf, heap[n].len, heap[n].weight, Min({heap[n].ref_count, 2}),
               shape[heap[n].left], shape[heap[n].right]>>
  IN  shape[root]
=============================================================================
