-------------------------------- MODULE Text --------------------------------
(***************************************************************************)
(* What the rope promises the buffer: a sequence of characters of which    *)
(* pieces are inserted and deleted.  Rope.tla shows how the tree of shared *)
(* nodes keeps this promise.                                               *)
(***************************************************************************)
EXTENDS LineIndex

VARIABLE text   \* the characters

Init == text = <<>>

\* A piece is put anywhere into the text, which grows by it.
Insert ==
  \E p \in 0 .. Len(text) :
    LET n == Len(text') - Len(text)
    IN  n > 0 /\ text' = String_insert(text, p, SubSeq(text', p + 1, p + n))

\* A piece is taken out of the text.
Delete == \E p \in 0 .. Len(text) - 1, n \in 1 .. Len(text) : text' = String_delete(text, p, n)

Next == Insert \/ Delete

Spec == Init /\ [][Next]_text
=============================================================================
