------------------------------ MODULE LspCall ------------------------------
(***************************************************************************)
(* What a request to the language server promises its caller in the UI     *)
(* thread: it returns, once, with the server's answer to this very request *)
(* or with none.  LspRequests.tla shows how the code keeps this promise.   *)
(***************************************************************************)
EXTENDS Integers

NoId == -1

VARIABLES
  alive,    \* the editor runs
  calling,  \* the id of the request that is waited for, or NoId
  answer    \* the last request that returned, and the request its answer is to

vars == <<alive, calling, answer>>

Init ==
  /\ alive = TRUE
  /\ calling = NoId
  /\ answer = [id |-> NoId, of |-> NoId]

Call ==
  /\ alive /\ calling = NoId
  /\ calling' \in Nat
  /\ UNCHANGED <<alive, answer>>

Return ==
  /\ alive /\ calling # NoId
  /\ answer' \in [id : {calling}, of : {calling, NoId}]
  /\ calling' = NoId
  /\ UNCHANGED alive

Die ==
  /\ alive /\ alive' = FALSE
  /\ UNCHANGED <<calling, answer>>

Next == Call \/ Return \/ Die

Spec == Init /\ [][Next]_vars /\ WF_vars(Return)
=============================================================================
