------------------------------- MODULE TabBar -------------------------------
(***************************************************************************)
(* What the row of tabs promises the user: an order of open documents that *)
(* no action changes, one of them in front.  Tabs.tla shows how the array  *)
(* of the buffer manager keeps this promise.                               *)
(***************************************************************************)
EXTENDS SequencesExt

CONSTANTS
  Doc,      \* documents
  MaxDocs   \* how many fit

VARIABLES
  docs,    \* the documents, in the order of their tabs
  front,   \* the one in front, by its place in docs; 0 before the first tab
  closed   \* the editor has exited

vars == <<docs, front, closed>>

Init ==
  /\ \E d \in Doc : docs = <<d>>
  /\ front = 1
  /\ closed = FALSE

\* A new tab comes last and in front.
OpenTab ==
  /\ Len(docs) < MaxDocs
  /\ \E d \in Doc \ ToSet(docs) : docs' = Append(docs, d)
  /\ front' = Len(docs) + 1

\* Another document takes the place of the one in front; also when the last
\* tab is closed.
Replace ==
  /\ \E d \in Doc \ (ToSet(docs) \ {docs[front]}) : docs' = [docs EXCEPT ![front] = d]
  /\ UNCHANGED front

\* Closing brings the next document to the front, or the last one. A click on a
\* tab's button closes that tab, whether or not it was in front.
CloseTab ==
  /\ Len(docs) > 1
  /\ \E i \in 1 .. Len(docs) :
       /\ docs' = RemoveAt(docs, i)
       /\ front' = IF i < Len(docs) THEN i ELSE i - 1

ReplaceOnly ==
  /\ Len(docs) = 1
  /\ \E d \in Doc : docs' = <<d>>
  /\ UNCHANGED front

ShowTab ==
  /\ front' \in 1 .. Len(docs)
  /\ UNCHANGED docs

Exit == closed' = TRUE /\ docs' = <<>> /\ front' = 0

Next ==
  /\ ~closed
  /\ \/ (OpenTab \/ Replace \/ CloseTab \/ ReplaceOnly \/ ShowTab) /\ UNCHANGED closed
     \/ Exit

Spec == Init /\ [][Next]_vars
=============================================================================
