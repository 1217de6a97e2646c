------------------------- MODULE LspRequestsProofs -------------------------
(***************************************************************************)
(* What holds of LspRequests for every number of requests and every size   *)
(* of pipe: a request never gets another one's answer, and nothing is      *)
(* left behind between requests.                                           *)
(***************************************************************************)
EXTENDS LspRequests, SequenceTheorems, TLAPS

\* What travels in each direction. Whatever the reader matches has a number,
\* and NoId is none.
FromClient == {Note, Exit} \cup [kind : {"request"}, id : Nat]

FromServer ==
  {Note} \cup [kind : {"request"}, id : ServerIds] \cup [kind : {"reply", "error"}, id : Nat]

Traffic ==
  /\ inbox \in Seq(FromClient) /\ Len(inbox) <= InPipe
  /\ outbox \in Seq(FromServer) /\ Len(outbox) <= OutPipe
  /\ todo \in Seq(FromServer)
  /\ held \in FromServer
  /\ reader = "deliver" => held.kind # "note"
  /\ unanswered \subseteq Nat

\* The UI thread is about to write a request of this id.
Unsent == ui \in {"init", "send", "shutdown"}

\* The pending request is the one the UI thread is in, and has its own result
\* or none.
Pending ==
  /\ InRequest => pending_id = id /\ pending_result \in {id, NoId}
  /\ ~InRequest /\ ui # "killed" => pending_id = NoId /\ pending_result = NoId
  /\ InRequest \/ Unsent => id \in Nat

\* A result handed to the caller: of which request, and which answer.
Answers == [id : Nat \cup {NoId}, of : Nat \cup {NoId}]

\* The values of everything that holds no message.
Values ==
  /\ ui \in {"off", "init", "relock", "idle", "send", "check", "wait", "note", "shutdown",
             "exit", "reap", "join", "close", "stopped", "killed"}
  /\ id \in Nat \cup {NoId} /\ next_id \in Nat
  /\ locked \in BOOLEAN /\ expired \in BOOLEAN
  /\ answer \in Answers
  /\ pending_id \in Nat \cup {NoId} /\ pending_result \in Nat \cup {NoId}
  /\ response_received \in BOOLEAN /\ running \in BOOLEAN
  /\ fd \in {"open", "closed"}
  /\ reader \in {"top", "read", "deliver", "exited"}
  /\ server \in {"none", "up", "dead"}

\* The inductive invariant.
IInv == Values /\ Traffic /\ Pending

-----------------------------------------------------------------------------
(* Messages and pipes. *)

LEMMA ClientMessages ==
  /\ FromClient \subseteq Message
  /\ Note \in FromClient /\ Exit \in FromClient
  /\ \A i \in Nat : Ask(i) \in FromClient
BY DEF FromClient, Message, Note, Exit, Ask

LEMMA ServerMessages ==
  /\ FromServer \subseteq Message
  /\ Note \in FromServer
  /\ \A i \in ServerIds : Ask(i) \in FromServer
  /\ \A i \in Nat, ok \in BOOLEAN : Reply(i, ok) \in FromServer
  /\ \A m \in FromServer : m.kind # "note" => m.id \in Nat
<1>1. FromServer \subseteq Message
  <2>1. Note \in Message
    BY DEF Note, Message
  <2>2. [kind : {"request"}, id : ServerIds] \subseteq Message
    BY IdsAreNumbers DEF Message
  <2>3. [kind : {"reply", "error"}, id : Nat] \subseteq Message
    BY DEF Message
  <2>4. QED
    BY <2>1, <2>2, <2>3 DEF FromServer
<1>2. Note \in FromServer /\ \A i \in ServerIds : Ask(i) \in FromServer
  BY DEF FromServer, Ask
<1>3. \A i \in Nat, ok \in BOOLEAN : Reply(i, ok) \in FromServer
  <2>1. \A i \in Nat : Reply(i, TRUE) \in FromServer /\ Reply(i, FALSE) \in FromServer
    BY DEF FromServer, Reply
  <2>2. QED
    BY <2>1
<1>4. \A m \in FromServer : m.kind # "note" => m.id \in Nat
  <2>1. \A m \in [kind : {"request"}, id : ServerIds] : m.id \in Nat
    BY IdsAreNumbers
  <2>2. \A m \in [kind : {"reply", "error"}, id : Nat] : m.id \in Nat
    OBVIOUS
  <2>3. Note.kind = "note"
    BY DEF Note
  <2>4. QED
    BY <2>1, <2>2, <2>3 DEF FromServer
<1>5. QED
  BY <1>1, <1>2, <1>3, <1>4

\* Traffic is of the types of TypeOK.
LEMMA IInvType == IInv => TypeOK
<1> SUFFICES ASSUME IInv PROVE TypeOK
  OBVIOUS
<1>1. /\ inbox \in Seq(Message) /\ outbox \in Seq(Message) /\ todo \in Seq(Message)
      /\ held \in Message
  BY ClientMessages, ServerMessages, SeqMonotonic DEF IInv, Traffic
<1>2. QED
  BY <1>1 DEF IInv, Values, Answers, Traffic, TypeOK

\* A write leaves the pipe well filled, and goes on or ends the editor.
LEMMA SendTraffic ==
  ASSUME Traffic, NEW m \in FromClient, NEW then, lsp_send_raw(m, then)
  PROVE  inbox' \in Seq(FromClient) /\ Len(inbox') <= InPipe /\ ui' \in {then, "killed"}
<1>1. CASE Len(inbox) < InPipe /\ inbox' = Append(inbox, m) /\ ui' = then
  BY <1>1, AppendProperties, LenProperties, Bounds DEF Traffic
<1>2. CASE UNCHANGED inbox /\ ui' \in {then, "killed"}
  BY <1>2 DEF Traffic
<1>3. QED
  BY <1>1, <1>2 DEF lsp_send_raw

-----------------------------------------------------------------------------
(* The invariant holds. *)

LEMMA InitIInv == Init => IInv
<1> SUFFICES ASSUME Init PROVE IInv
  OBVIOUS
<1>1. Traffic
  BY ServerMessages, EmptySeq, Bounds DEF Init, Traffic
<1>2. Pending
  BY DEF Init, Pending, InRequest, Unsent
<1>3. Values
  BY DEF Init, Values, Answers, InitId
<1>4. QED
  BY <1>1, <1>2, <1>3 DEF IInv

LEMMA StutterKeeps ==
  ASSUME IInv, UNCHANGED vars
  PROVE  IInv'
BY DEF IInv, Values, Traffic, Pending, InRequest, Unsent,
       vars, uiVars, pendingVars, readerVars, serverVars

\* A request has a number of its own, and nothing is left of the one before.
LEMMA NewRequestKeeps ==
  ASSUME Values, NewRequest, ui' \in {"init", "send"},
         locked' \in BOOLEAN, UNCHANGED <<expired, answer>>,
         running' \in BOOLEAN, fd' \in {"open", "closed"},
         reader' \in {"top", "read", "deliver", "exited"}, server' \in {"none", "up", "dead"}
  PROVE  Values' /\ Pending'
<1>1. /\ id' \in Nat /\ next_id' \in Nat /\ pending_id' = id'
      /\ pending_result' = NoId /\ response_received' = FALSE
  BY DEF Values, NewRequest
<1>2. Values'
  BY <1>1 DEF Values
<1>3. Pending'
  BY <1>1 DEF Pending, InRequest, Unsent
<1>4. QED
  BY <1>2, <1>3

\* The UI thread without a write. It leaves the pipes alone.
LEMMA UiKeeps ==
  ASSUME IInv,
         \/ lsp_start \/ SpawnFails \/ Request \/ Notify \/ lsp_stop
         \/ AwaitInitialize \/ Wait \/ Wake \/ Expire \/ Return \/ Reap \/ Join
  PROVE  IInv'
<1> USE DEF IInv, uiVars, pendingVars, readerVars, serverVars
<1>1. CASE lsp_start
  <2>1. Traffic'
    BY <1>1 DEF Traffic, lsp_start
  <2>2. Values' /\ Pending'
    BY <1>1, NewRequestKeeps DEF Values, lsp_start
  <2>3. QED
    BY <2>1, <2>2
<1>2. CASE Request
  <2>1. Traffic'
    BY <1>2 DEF Traffic, Request
  <2>2. Values' /\ Pending'
    BY <1>2, NewRequestKeeps DEF Values, Request
  <2>3. QED
    BY <2>1, <2>2
<1>3. CASE lsp_stop
  <2>1. Traffic'
    BY <1>3 DEF Traffic, lsp_stop
  <2>2. /\ id' \in Nat \cup {NoId} /\ next_id' \in Nat /\ running' \in BOOLEAN
        /\ ui' \in {"shutdown", "close"}
        /\ ui' = "shutdown" => id' \in Nat
    <3>1. CASE running
      <4>1. id' = next_id /\ next_id' = next_id + 1 /\ running' = FALSE /\ ui' = "shutdown"
        BY <1>3, <3>1 DEF lsp_stop
      <4>2. next_id \in Nat
        BY DEF Values
      <4>3. id' \in Nat /\ next_id' \in Nat
        BY <4>1, <4>2
      <4>4. running' \in BOOLEAN
        BY <4>1, Zenon
      <4>5. QED
        BY <4>1, <4>3, <4>4, Zenon
    <3>2. CASE ~running
      BY <1>3, <3>2 DEF Values, lsp_stop
    <3>3. QED
      BY <3>1, <3>2
  <2>3. /\ ui = "idle"
        /\ UNCHANGED <<locked, expired, answer, pending_id, pending_result, response_received,
                       fd, reader, server>>
    BY <1>3 DEF lsp_stop
  <2>4. Values'
    BY <2>2, <2>3 DEF Values
  <2>5. Pending'
    BY <2>2, <2>3 DEF Pending, InRequest, Unsent
  <2>6. QED
    BY <2>1, <2>4, <2>5
<1>4. CASE SpawnFails
  <2>1. Traffic'
    BY <1>4 DEF Traffic, SpawnFails
  <2>2. Pending'
    BY <1>4 DEF Values, Pending, InRequest, Unsent, SpawnFails
  <2>3. Values'
    BY <1>4 DEF Values, SpawnFails
  <2>4. QED
    BY <2>1, <2>2, <2>3
<1>5. CASE Notify
  <2>1. Traffic'
    BY <1>5 DEF Traffic, Notify
  <2>2. Pending'
    BY <1>5 DEF Values, Pending, InRequest, Unsent, Notify
  <2>3. Values'
    BY <1>5 DEF Values, Notify
  <2>4. QED
    BY <2>1, <2>2, <2>3
<1>6. CASE AwaitInitialize
  <2>1. Traffic'
    BY <1>6 DEF Traffic, AwaitInitialize
  <2>2. Pending'
    BY <1>6 DEF Values, Pending, InRequest, Unsent, AwaitInitialize
  <2>3. Values'
    BY <1>6 DEF Values, AwaitInitialize
  <2>4. QED
    BY <2>1, <2>2, <2>3
<1>7. CASE Wait
  <2>1. Traffic'
    BY <1>7 DEF Traffic, Wait
  <2>2. Pending'
    BY <1>7 DEF Values, Pending, InRequest, Unsent, Wait
  <2>3. Values'
    BY <1>7 DEF Values, Wait
  <2>4. QED
    BY <2>1, <2>2, <2>3
<1>8. CASE Wake
  <2>1. Traffic'
    BY <1>8 DEF Traffic, Wake
  <2>2. Pending'
    BY <1>8 DEF Values, Pending, InRequest, Unsent, Wake
  <2>3. Values'
    BY <1>8 DEF Values, Wake
  <2>4. QED
    BY <2>1, <2>2, <2>3
<1>9. CASE Expire
  <2>1. Traffic'
    BY <1>9 DEF Traffic, Expire
  <2>2. Pending'
    BY <1>9 DEF Values, Pending, InRequest, Unsent, Expire
  <2>3. Values'
    BY <1>9 DEF Values, Expire
  <2>4. QED
    BY <2>1, <2>2, <2>3
<1>10. CASE Return
  <2>1. Traffic'
    BY <1>10 DEF Traffic, Return
  <2>2. Pending'
    BY <1>10 DEF Values, Pending, InRequest, Unsent, Return, TakeResult, NoId
  <2>3. Values'
    BY <1>10 DEF Values, Answers, Return, Pending, TakeResult, NoId
  <2>4. QED
    BY <2>1, <2>2, <2>3
<1>11. CASE Reap
  <2>1. Traffic'
    BY <1>11 DEF Traffic, Reap
  <2>2. Pending'
    BY <1>11 DEF Values, Pending, InRequest, Unsent, Reap
  <2>3. Values'
    BY <1>11 DEF Values, Reap
  <2>4. QED
    BY <2>1, <2>2, <2>3
<1>12. CASE Join
  <2>1. Traffic'
    BY <1>12 DEF Traffic, Join
  <2>2. Pending'
    BY <1>12 DEF Values, Pending, InRequest, Unsent, Join
  <2>3. Values'
    BY <1>12 DEF Values, Join
  <2>4. QED
    BY <2>1, <2>2, <2>3
<1>13. QED
  BY <1>1, <1>2, <1>3, <1>4, <1>5, <1>6, <1>7, <1>8, <1>9, <1>10, <1>11, <1>12

\* The UI thread in a write of message m, from which it goes on to then.
LEMMA WriteKeeps ==
  ASSUME IInv, NEW m \in FromClient, NEW then,
         lsp_send_raw(m, then),
         \/ ui \in {"init", "send"} /\ then \in {"relock", "check"}
         \/ ui \in {"note", "shutdown", "exit", "close"}
             /\ then \in {"idle", "exit", "reap", "stopped"},
         expired' \in BOOLEAN, fd' \in {"open", "closed"},
         UNCHANGED <<id, locked, answer, next_id, pendingVars, running, readerVars, serverVars>>
  PROVE  IInv'
<1> USE DEF IInv
<1>1. inbox' \in Seq(FromClient) /\ Len(inbox') <= InPipe /\ ui' \in {then, "killed"}
  BY SendTraffic
<1>2. Traffic'
  BY <1>1 DEF Traffic, readerVars, serverVars
<1>3. UNCHANGED <<id, pending_id, pending_result>>
  BY DEF pendingVars
<1>4. Pending'
  BY <1>1, <1>3 DEF Pending, InRequest, Unsent
<1>5. UNCHANGED <<id, locked, answer, next_id, pending_id, pending_result, response_received,
                  running, reader, server>>
  BY DEF pendingVars, readerVars, serverVars
<1>6. Values'
  BY <1>1, <1>5 DEF Values
<1>7. QED
  BY <1>2, <1>4, <1>6

LEMMA WritesKeep ==
  ASSUME IInv,
         \/ SendInitialize \/ SendRequest \/ SendNote
         \/ SendShutdown \/ SendExit \/ CloseDocuments
  PROVE  IInv'
<1>1. expired \in BOOLEAN /\ fd \in {"open", "closed"}
  BY DEF IInv, Values
<1>2. Unsent => Ask(id) \in FromClient
  BY ClientMessages DEF IInv, Pending
<1>3. Note \in FromClient /\ Exit \in FromClient
  BY ClientMessages
<1>4. CASE SendInitialize
  BY <1>1, <1>2, <1>3, <1>4, WriteKeeps DEF SendInitialize, Unsent, uiVars
<1>5. CASE SendRequest
  BY <1>1, <1>2, <1>3, <1>5, WriteKeeps DEF SendRequest, Unsent, uiVars
<1>6. CASE SendNote
  BY <1>1, <1>2, <1>3, <1>6, WriteKeeps DEF SendNote, Unsent, uiVars
<1>7. CASE SendShutdown
  BY <1>1, <1>2, <1>3, <1>7, WriteKeeps DEF SendShutdown, Unsent, uiVars
<1>8. CASE SendExit
  BY <1>1, <1>2, <1>3, <1>8, WriteKeeps DEF SendExit, Unsent, uiVars
<1>9. CASE CloseDocuments
  BY <1>1, <1>2, <1>3, <1>9, WriteKeeps DEF CloseDocuments, Unsent, uiVars
<1>10. QED
  BY <1>4, <1>5, <1>6, <1>7, <1>8, <1>9

\* A step of the reader or of the server that leaves the pending request alone.
LEMMA OtherSide ==
  ASSUME Values, Pending,
         UNCHANGED <<ui, uiVars, pendingVars, fd>>, running' \in BOOLEAN,
         reader' \in {"top", "read", "deliver", "exited"}, server' \in {"none", "up", "dead"}
  PROVE  Values' /\ Pending'
<1>1. UNCHANGED <<ui, id, locked, expired, answer, next_id, pending_id, pending_result,
                  response_received, fd>>
  BY DEF uiVars, pendingVars
<1>2. Values'
  BY <1>1 DEF Values
<1>3. Pending'
  BY <1>1 DEF Pending, InRequest, Unsent
<1>4. QED
  BY <1>2, <1>3

LEMMA ReaderKeeps ==
  ASSUME IInv, ReaderNext
  PROVE  IInv'
<1> USE DEF IInv
<1>1. CASE ReaderLoop
  <2>1. Traffic'
    BY <1>1 DEF Traffic, ReaderLoop, serverVars
  <2>2. Values' /\ Pending'
    BY <1>1, OtherSide DEF Values, ReaderLoop, serverVars
  <2>3. QED
    BY <2>1, <2>2
<1>2. CASE ReadMessage
  <2>1. /\ Head(outbox) \in FromServer /\ Tail(outbox) \in Seq(FromServer)
        /\ Len(Tail(outbox)) <= OutPipe
    <3>1. outbox \in Seq(FromServer) /\ outbox # <<>> /\ Len(outbox) <= OutPipe
      BY <1>2 DEF Traffic, ReadMessage
    <3>2. /\ Head(outbox) \in FromServer /\ Tail(outbox) \in Seq(FromServer)
          /\ Len(Tail(outbox)) = Len(outbox) - 1 /\ Len(outbox) \in Nat
      BY <3>1, HeadTailProperties, LenProperties
    <3>3. QED
      BY <3>1, <3>2, Bounds
  <2>2. /\ outbox' \in {outbox, Tail(outbox)} /\ held' \in {held, Head(outbox)}
        /\ reader' \in {"top", "deliver", "exited"}
        /\ reader' = "deliver" => held'.kind # "note"
        /\ UNCHANGED <<ui, uiVars, pendingVars, running, fd, inbox, server, todo, unanswered>>
    BY <1>2 DEF ReadMessage
  <2>3. Traffic'
    BY <2>1, <2>2 DEF Traffic
  <2>4. Values' /\ Pending'
    BY <2>2, OtherSide DEF Values
  <2>5. QED
    BY <2>3, <2>4
<1>3. CASE Deliver
  <2>1. /\ ui # "killed" /\ reader = "deliver" /\ held.id \in Nat
        /\ held.kind = "reply" => held.id # NoId
    BY <1>3, ServerMessages DEF Deliver, EditorRuns, Traffic, NoId
  <2>2. /\ pending_result' \in {pending_result, held.id}
        /\ pending_result' # pending_result => held.id = pending_id
        /\ reader' = "top" /\ held' = Note
        /\ UNCHANGED <<ui, id, locked, expired, answer, next_id, pending_id, running, fd,
                       inbox, outbox, server, todo, unanswered>>
    BY <1>3 DEF Deliver, Matches, uiVars, serverVars
  <2>3. Traffic'
    BY <2>2, ServerMessages DEF Traffic
  <2>4. Pending'
    <3>1. CASE InRequest
      BY <2>2, <3>1 DEF Pending, InRequest, Unsent
    <3>2. CASE ~InRequest
      <4>1. pending_id # held.id
        BY <2>1, <3>2 DEF Pending, NoId
      <4>2. QED
        BY <2>1, <2>2, <3>2, <4>1 DEF Pending, InRequest, Unsent
    <3>3. QED
      BY <3>1, <3>2
  <2>5. response_received' \in BOOLEAN /\ pending_result' \in Nat \cup {NoId}
    <3>1. CASE Matches(held)
      BY <1>3, <2>1, <3>1 DEF Values, Deliver
    <3>2. CASE ~Matches(held)
      BY <1>3, <3>2 DEF Values, Deliver
    <3>3. QED
      BY <3>1, <3>2
  <2>6. Values'
    BY <2>2, <2>5 DEF Values
  <2>7. QED
    BY <2>3, <2>4, <2>6
<1>4. CASE EndOfOutput
  <2>1. Traffic'
    BY <1>4 DEF Traffic, EndOfOutput, serverVars
  <2>2. Values' /\ Pending'
    BY <1>4, OtherSide DEF Values, EndOfOutput, serverVars
  <2>3. QED
    BY <2>1, <2>2
<1>5. QED
  BY <1>1, <1>2, <1>3, <1>4 DEF ReaderNext

\* What was in the server's output before its end stays.
LEMMA DieKeeps ==
  ASSUME IInv, Die(outbox)
  PROVE  IInv'
<1> USE DEF IInv
<1>1. Traffic'
  BY EmptySeq, Bounds DEF Traffic, Die, readerVars
<1>2. Values' /\ Pending'
  BY OtherSide DEF Values, Die, readerVars
<1>3. QED
  BY <1>1, <1>2

LEMMA ServerKeeps ==
  ASSUME IInv, ServerNext
  PROVE  IInv'
<1> USE DEF IInv
<1>1. CASE ServerRead
  <2>1. CASE Head(inbox).kind # "exit" /\ ~Die(outbox)
    <3>1. inbox \in Seq(FromClient) /\ inbox # <<>> /\ Len(inbox) <= InPipe
      BY <1>1 DEF ServerRead, Traffic
    <3>2. /\ Head(inbox) \in FromClient /\ Tail(inbox) \in Seq(FromClient)
          /\ Len(Tail(inbox)) = Len(inbox) - 1 /\ Len(inbox) \in Nat
      BY <3>1, HeadTailProperties, LenProperties
    <3>3. Len(Tail(inbox)) <= InPipe
      BY <3>1, <3>2, Bounds
    <3>4. Head(inbox).kind = "request" => Head(inbox).id \in Nat
      BY <3>2 DEF FromClient, Note, Exit
    <3>5. /\ inbox' = Tail(inbox)
          /\ \/ Head(inbox).kind = "request" /\ unanswered' = unanswered \cup {Head(inbox).id}
             \/ UNCHANGED unanswered
          /\ UNCHANGED <<ui, uiVars, pendingVars, running, fd, readerVars, outbox, server, todo>>
      BY <1>1, <2>1 DEF ServerRead
    <3>6. Traffic'
      BY <3>2, <3>3, <3>4, <3>5 DEF Traffic, readerVars
    <3>7. Values' /\ Pending'
      BY <3>5, OtherSide DEF Values, readerVars
    <3>8. QED
      BY <3>6, <3>7
  <2>2. CASE Die(outbox)
    BY <2>2, DieKeeps
  <2>3. QED
    BY <1>1, <2>1, <2>2 DEF ServerRead
<1>2. CASE ServerAnswer
  <2>1. /\ \E m \in FromServer : todo' = <<m>>
        /\ unanswered' \subseteq unanswered
        /\ UNCHANGED <<ui, uiVars, pendingVars, running, fd, readerVars, inbox, outbox, server>>
    BY <1>2, ServerMessages DEF ServerAnswer, Traffic
  <2>2. Traffic'
    BY <2>1 DEF Traffic, readerVars
  <2>3. Values' /\ Pending'
    BY <2>1, OtherSide DEF Values, readerVars
  <2>4. QED
    BY <2>2, <2>3
<1>3. CASE ServerNotify
  <2>1. /\ \E m \in FromServer : todo' = <<m>>
        /\ UNCHANGED <<ui, uiVars, pendingVars, running, fd, readerVars, inbox, outbox, server,
                       unanswered>>
    BY <1>3, ServerMessages DEF ServerNotify
  <2>2. Traffic'
    BY <2>1 DEF Traffic, readerVars
  <2>3. Values' /\ Pending'
    BY <2>1, OtherSide DEF Values, readerVars
  <2>4. QED
    BY <2>2, <2>3
<1>4. CASE ServerWrite
  <2>1. /\ todo \in Seq(FromServer) /\ todo # <<>>
        /\ outbox \in Seq(FromServer) /\ Len(outbox) < OutPipe
        /\ outbox' = Append(outbox, Head(todo)) /\ todo' = <<>>
        /\ UNCHANGED <<ui, uiVars, pendingVars, running, fd, readerVars, inbox, server,
                       unanswered>>
    BY <1>4 DEF ServerWrite, Traffic
  <2>2. Head(todo) \in FromServer
    BY <2>1, HeadTailProperties
  <2>3. /\ outbox' \in Seq(FromServer) /\ Len(outbox') = Len(outbox) + 1
        /\ Len(outbox) \in Nat
    BY <2>1, <2>2, AppendProperties, LenProperties
  <2>4. Len(outbox') <= OutPipe
    BY <2>1, <2>3, Bounds
  <2>5. Traffic'
    BY <2>1, <2>3, <2>4, EmptySeq DEF Traffic, readerVars
  <2>6. Values' /\ Pending'
    BY <2>1, OtherSide DEF Values, readerVars
  <2>7. QED
    BY <2>5, <2>6
<1>5. CASE ServerCrash
  BY <1>5, DieKeeps DEF ServerCrash
<1>6. QED
  BY <1>1, <1>2, <1>3, <1>4, <1>5 DEF ServerNext

LEMMA NextIInv == IInv /\ [Next]_vars => IInv'
<1> SUFFICES ASSUME IInv, [Next]_vars PROVE IInv'
  OBVIOUS
<1>1. CASE UNCHANGED vars
  BY <1>1, StutterKeeps
<1>2. CASE Choose \/ Proceed \/ Expire
  BY <1>2, UiKeeps, WritesKeep DEF Choose, Proceed
<1>3. CASE ReaderNext
  BY <1>3, ReaderKeeps
<1>4. CASE ServerNext
  BY <1>4, ServerKeeps
<1>5. QED
  BY <1>1, <1>2, <1>3, <1>4 DEF Next, Ended

LEMMA SpecIInv == Spec => []IInv
BY InitIInv, NextIInv, PTL DEF Spec

\* Every variable of the connection has its type, and no pipe overflows, for all
\* sizes of pipes and any number of requests (lsp_server.c).
THEOREM TypeCorrect == Spec => []TypeOK
BY SpecIInv, IInvType, PTL

\* Nothing is pending between requests: a late answer finds no id to match and
\* leaves no result to the next request (pending_id and pending_result of
\* lsp_server.c, set by each request and read by reader_func).
THEOREM NothingPending == Spec => []NothingPendingBetweenRequests
<1>1. IInv => NothingPendingBetweenRequests
  BY DEF IInv, Pending, NothingPendingBetweenRequests
<1>2. QED
  BY <1>1, SpecIInv, PTL

-----------------------------------------------------------------------------
(* The connection keeps the promise of LspCall, as far as safety goes. *)

\* Whether a request is waited for, and which: the mapping to LspCall.
LEMMA CallingIs ==
  /\ InRequest => Call!vars = <<TRUE, id, answer>>
  /\ ~InRequest /\ ui # "killed" => Call!vars = <<TRUE, NoId, answer>>
  /\ ui = "killed" => Call!vars = <<FALSE, IF pending_id # NoId THEN id ELSE NoId, answer>>
BY DEF Call!vars, InRequest

LEMMA CallUnseen ==
  ASSUME UNCHANGED <<ui, id, pending_id, answer>>
  PROVE  UNCHANGED Call!vars
BY DEF Call!vars, InRequest

LEMMA StaysInRequest ==
  ASSUME InRequest, InRequest', UNCHANGED <<id, answer>>
  PROVE  UNCHANGED Call!vars
BY DEF Call!vars, InRequest

LEMMA StaysOutside ==
  ASSUME ~InRequest, ui # "killed", ~InRequest', ui' # "killed", UNCHANGED answer
  PROVE  UNCHANGED Call!vars
BY DEF Call!vars, InRequest

LEMMA CallBegins ==
  ASSUME ~InRequest, ui # "killed", InRequest', id' \in Nat, UNCHANGED answer
  PROVE  Call!Call
BY DEF Call!Call, InRequest, NoId, Call!NoId

LEMMA CallReturns ==
  ASSUME Pending, InRequest, ~InRequest', ui' # "killed",
         answer' = [id |-> id, of |-> pending_result]
  PROVE  Call!Return
<1>1. id \in Nat /\ pending_result \in {id, NoId}
  BY DEF Pending
<1>2. answer' \in [id : {id}, of : {id, NoId}]
  BY <1>1
<1>3. ui # "killed"
  BY DEF InRequest
<1>4. QED
  BY <1>1, <1>2, <1>3 DEF Call!Return, NoId, Call!NoId

\* The editor is killed: an unfinished request stays unfinished.
LEMMA CallDies ==
  ASSUME Pending, ui # "killed", ui' = "killed", UNCHANGED <<id, pending_id, answer>>
  PROVE  Call!Die
<1>1. CASE InRequest
  BY <1>1 DEF Call!Die, Pending, InRequest, NoId
<1>2. CASE ~InRequest
  BY <1>2 DEF Call!Die, Pending, InRequest
<1>3. QED
  BY <1>1, <1>2

\* A write goes on where it was, or kills the editor.
LEMMA WriteCalls ==
  ASSUME Pending, NEW m, NEW then, lsp_send_raw(m, then), ui # "killed", then # "killed",
         InRequest <=> then \in {"init", "relock", "send", "check", "wait"},
         UNCHANGED <<id, pending_id, answer>>
  PROVE  Call!Next \/ UNCHANGED Call!vars
<1>1. ui' \in {then, "killed"}
  BY DEF lsp_send_raw
<1>2. CASE ui' = "killed"
  BY <1>2, CallDies DEF Call!Next
<1>3. CASE ui' = then /\ InRequest
  BY <1>3, StaysInRequest DEF InRequest
<1>4. CASE ui' = then /\ ~InRequest
  BY <1>4, StaysOutside DEF InRequest
<1>5. QED
  BY <1>1, <1>2, <1>3, <1>4

LEMMA InitCalls == Init => Call!Init
BY DEF Init, Call!Init, InRequest, NoId, Call!NoId

LEMMA NextCalls == IInv /\ [Next]_vars => [Call!Next]_(Call!vars)
<1> SUFFICES ASSUME IInv, [Next]_vars PROVE Call!Next \/ UNCHANGED Call!vars
  OBVIOUS
<1>1. Pending /\ next_id \in Nat
  BY DEF IInv, Values
<1>2. CASE UNCHANGED vars
  BY <1>2, CallUnseen DEF vars, uiVars, pendingVars
<1>3. CASE lsp_start \/ Request
  <2>1. ~InRequest /\ ui # "killed" /\ InRequest' /\ id' = next_id /\ UNCHANGED answer
    BY <1>3 DEF lsp_start, Request, NewRequest, InRequest
  <2>2. QED
    BY <1>1, <2>1, CallBegins DEF Call!Next
<1>4. CASE SpawnFails \/ Notify \/ lsp_stop \/ Reap \/ Join
  <2>1. ui \in {"off", "idle", "reap", "join"} /\ UNCHANGED answer
    BY <1>4 DEF SpawnFails, Notify, lsp_stop, Reap, Join, uiVars
  <2>2. ui' \in {"idle", "note", "shutdown", "close", "join"}
    BY <1>4 DEF SpawnFails, Notify, lsp_stop, Reap, Join
  <2>3. QED
    BY <2>1, <2>2, StaysOutside DEF InRequest
<1>5. CASE AwaitInitialize \/ Wait \/ Wake \/ Expire
  <2>1. ui \in {"relock", "check", "wait"} /\ UNCHANGED <<id, answer>>
    BY <1>5 DEF AwaitInitialize, Wait, Wake, Expire
  <2>2. ui' \in {"check", "wait"}
    BY <1>5 DEF AwaitInitialize, Wait, Wake, Expire
  <2>3. QED
    BY <2>1, <2>2, StaysInRequest DEF InRequest
<1>6. CASE Return
  <2>1. ui \in {"check", "wait"} /\ answer' = [id |-> id, of |-> pending_result]
    BY <1>6 DEF Return, TakeResult
  <2>2. ui' \in {"note", "idle"}
    BY <1>6 DEF Return
  <2>3. QED
    BY <1>1, <2>1, <2>2, CallReturns DEF Call!Next, InRequest
<1>7. CASE SendInitialize
  BY <1>1, <1>7, WriteCalls DEF SendInitialize, uiVars, pendingVars, InRequest
<1>8. CASE SendRequest
  BY <1>1, <1>8, WriteCalls DEF SendRequest, uiVars, pendingVars, InRequest
<1>9. CASE SendNote
  BY <1>1, <1>9, WriteCalls DEF SendNote, uiVars, pendingVars, InRequest
<1>10. CASE SendShutdown
  BY <1>1, <1>10, WriteCalls DEF SendShutdown, uiVars, pendingVars, InRequest
<1>11. CASE SendExit
  BY <1>1, <1>11, WriteCalls DEF SendExit, uiVars, pendingVars, InRequest
<1>12. CASE CloseDocuments
  BY <1>1, <1>12, WriteCalls DEF CloseDocuments, uiVars, pendingVars, InRequest
<1>13. CASE ReaderNext
  <2>1. UNCHANGED <<ui, id, pending_id, answer>>
    BY <1>13 DEF ReaderNext, ReaderLoop, ReadMessage, Deliver, EndOfOutput, uiVars, pendingVars
  <2>2. QED
    BY <2>1, CallUnseen
<1>14. CASE ServerNext
  <2>1. UNCHANGED <<ui, uiVars, pendingVars>>
    BY <1>14 DEF ServerNext, ServerRead, ServerAnswer, ServerNotify, ServerWrite, ServerCrash, Die
  <2>2. QED
    BY <2>1, CallUnseen DEF uiVars, pendingVars
<1>15. QED
  BY <1>2, <1>3, <1>4, <1>5, <1>6, <1>7, <1>8, <1>9, <1>10, <1>11, <1>12, <1>13, <1>14
     DEF Next, Choose, Proceed, Ended

\* Every request returns at most once and with its own answer or none, however late
\* or out of order the server answers, and nothing returns that was not
\* called: lsp_start, lsp_completion, lsp_signature_help, lsp_hover and lsp_format
\* against reader_func. (That it returns at all is liveness, and checked by TLC.)
THEOREM CallsAreAnswered == Spec => Call!Init /\ [][Call!Next]_(Call!vars)
BY InitIInv, NextIInv, InitCalls, NextCalls, PTL DEF Spec

-----------------------------------------------------------------------------
(* Where a request can be: in the server's input, read and not answered, or *)
(* answered.  No request is in two of these places.                         *)

Holds(s, m) == \E k \in 1 .. Len(s) : s[k] = m

\* No request is in s twice.
Once(s) ==
  \A k, l \in 1 .. Len(s) : s[k] = s[l] /\ s[k].kind = "request" => k = l

LEMMA AppendHolds ==
  ASSUME NEW S, NEW s \in Seq(S), NEW m \in S
  PROVE  \A x : Holds(Append(s, m), x) <=> Holds(s, x) \/ x = m
<1>1. /\ Len(Append(s, m)) = Len(s) + 1 /\ Len(s) \in Nat
      /\ \A k \in 1 .. Len(s) : Append(s, m)[k] = s[k]
      /\ Append(s, m)[Len(s) + 1] = m
  BY AppendProperties, LenProperties
<1>2. TAKE x
<1>3. ASSUME Holds(Append(s, m), x) PROVE Holds(s, x) \/ x = m
  <2>1. PICK k \in 1 .. Len(s) + 1 : Append(s, m)[k] = x
    BY <1>1, <1>3 DEF Holds
  <2>2. CASE k \in 1 .. Len(s)
    BY <1>1, <2>1, <2>2 DEF Holds
  <2>3. CASE k = Len(s) + 1
    BY <1>1, <2>1, <2>3
  <2>4. QED
    BY <1>1, <2>2, <2>3
<1>4. ASSUME Holds(s, x) PROVE Holds(Append(s, m), x)
  <2>1. PICK k \in 1 .. Len(s) : s[k] = x
    BY <1>4 DEF Holds
  <2>2. k \in 1 .. Len(Append(s, m)) /\ Append(s, m)[k] = x
    BY <1>1, <2>1
  <2>3. QED
    BY <2>2 DEF Holds
<1>5. Holds(Append(s, m), m)
  <2>1. Len(s) + 1 \in 1 .. Len(Append(s, m))
    BY <1>1
  <2>2. QED
    BY <1>1, <2>1 DEF Holds
<1>6. QED
  BY <1>3, <1>4, <1>5

LEMMA AppendOnce ==
  ASSUME NEW S, NEW s \in Seq(S), NEW m \in S, Once(s),
         m.kind = "request" => ~Holds(s, m)
  PROVE  Once(Append(s, m))
<1>1. /\ Len(Append(s, m)) = Len(s) + 1 /\ Len(s) \in Nat
      /\ \A k \in 1 .. Len(s) : Append(s, m)[k] = s[k]
      /\ Append(s, m)[Len(s) + 1] = m
  BY AppendProperties, LenProperties
<1> DEFINE t == Append(s, m)
<1> HIDE DEF t
<1>2. SUFFICES ASSUME NEW k \in 1 .. Len(s) + 1, NEW l \in 1 .. Len(s) + 1,
                      t[k] = t[l], t[k].kind = "request"
               PROVE  k = l
  BY <1>1 DEF Once, t
<1>3. CASE k \in 1 .. Len(s) /\ l \in 1 .. Len(s)
  BY <1>1, <1>2, <1>3 DEF Once, t
<1>4. CASE k = Len(s) + 1 /\ l \in 1 .. Len(s)
  BY <1>1, <1>2, <1>4 DEF Holds, t
<1>5. CASE k \in 1 .. Len(s) /\ l = Len(s) + 1
  BY <1>1, <1>2, <1>5 DEF Holds, t
<1>6. CASE k = Len(s) + 1 /\ l = Len(s) + 1
  BY <1>6
<1>7. QED
  BY <1>1, <1>3, <1>4, <1>5, <1>6

LEMMA TailHolds ==
  ASSUME NEW S, NEW s \in Seq(S), s # <<>>
  PROVE  /\ Holds(s, Head(s))
         /\ \A x : Holds(Tail(s), x) => Holds(s, x)
         /\ Once(s) => Once(Tail(s))
         /\ Once(s) /\ Head(s).kind = "request" => ~Holds(Tail(s), Head(s))
<1>1. /\ Len(s) \in Nat \ {0} /\ Len(Tail(s)) = Len(s) - 1 /\ Head(s) = s[1]
      /\ \A k \in 1 .. Len(Tail(s)) : Tail(s)[k] = s[k + 1]
  BY HeadTailProperties, LenProperties, EmptySeq
<1>2. 1 \in 1 .. Len(s) /\ \A k \in 1 .. Len(Tail(s)) : k + 1 \in 1 .. Len(s) /\ k + 1 # 1
  BY <1>1
<1> DEFINE t == Tail(s)
<1> HIDE DEF t
<1>3. Holds(s, Head(s))
  BY <1>1, <1>2 DEF Holds
<1>4. \A x : Holds(t, x) => Holds(s, x)
  BY <1>1, <1>2 DEF Holds, t
<1>5. ASSUME Once(s) PROVE Once(t)
  <2>1. SUFFICES ASSUME NEW k \in 1 .. Len(t), NEW l \in 1 .. Len(t),
                        t[k] = t[l], t[k].kind = "request"
                 PROVE  k = l
    BY DEF Once
  <2>2. k + 1 = l + 1
    BY <1>1, <1>2, <1>5, <2>1 DEF Once, t
  <2>3. QED
    BY <2>2
<1>6. ASSUME Once(s), Head(s).kind = "request", Holds(t, Head(s)) PROVE FALSE
  <2>1. PICK k \in 1 .. Len(t) : t[k] = s[1]
    BY <1>1, <1>6 DEF Holds
  <2>2. s[k + 1] = s[1] /\ s[1].kind = "request"
    BY <1>1, <1>6, <2>1 DEF t
  <2>3. k + 1 = 1
    BY <1>2, <1>6, <2>1, <2>2 DEF Once, t
  <2>4. QED
    BY <1>2, <2>1, <2>3 DEF t
<1>7. QED
  BY <1>3, <1>4, <1>5, <1>6 DEF t

Awaiting == {i \in Nat : Holds(inbox, Ask(i))}

Replied ==
  {i \in Nat : \E ok \in BOOLEAN :
     held = Reply(i, ok) \/ Holds(todo, Reply(i, ok)) \/ Holds(outbox, Reply(i, ok))}

Stages ==
  /\ Once(inbox)
  /\ Awaiting \cap unanswered = {}
  /\ Awaiting \cap Replied = {}
  /\ unanswered \cap Replied = {}

\* Every request has an id below next_id, and one that is not written yet is
\* nowhere. The response flag is set by an answer only.
Asked == Awaiting \cup unanswered \cup Replied

Counted ==
  /\ \A i \in Asked : i < next_id
  /\ InRequest \/ Unsent => id < next_id
  /\ Unsent => id \notin Asked
  /\ InRequest /\ response_received => ~Unsent /\ id \notin Awaiting \cup unanswered

AnswerInv == Stages /\ Counted

LEMMA NumbersOfMessages ==
  /\ \A i, j : Ask(i) = Ask(j) => i = j
  /\ \A i, j : \A ok, yes \in BOOLEAN : Reply(i, ok) = Reply(j, yes) => i = j
  /\ \A i : Ask(i) # Note /\ Ask(i) # Exit
  /\ \A i : \A ok \in BOOLEAN : Reply(i, ok) # Note
<1>1. \A i, j : Ask(i) = Ask(j) => i = j
  BY DEF Ask
<1>2. \A i, j : \A ok, yes \in BOOLEAN : Reply(i, ok) = Reply(j, yes) => i = j
  <2>1. \A i : \A ok \in BOOLEAN : Reply(i, ok).id = i
    BY DEF Reply
  <2>2. QED
    BY <2>1
<1>3. \A i : Ask(i) # Note /\ Ask(i) # Exit
  <2>1. \A i : Ask(i).kind = "request"
    BY DEF Ask
  <2>2. Note.kind # "request" /\ Exit.kind # "request"
    BY DEF Note, Exit
  <2>3. QED
    BY <2>1, <2>2
<1>4. \A i : \A ok \in BOOLEAN : Reply(i, ok) # Note
  <2>1. \A i : \A ok \in BOOLEAN : Reply(i, ok).kind # "note"
    BY DEF Reply
  <2>2. Note.kind = "note"
    BY DEF Note
  <2>3. QED
    BY <2>1, <2>2
<1>5. QED
  BY <1>1, <1>2, <1>3, <1>4

\* A server that sends no requests sends replies and notifications.
LEMMA RepliesOnly ==
  ASSUME ServerIds = {}, NEW m \in FromServer, m.kind # "note"
  PROVE  m.id \in Nat /\ \E ok \in BOOLEAN : m = Reply(m.id, ok)
<1>1. Note.kind = "note"
  BY DEF Note
<1>2. m \in [kind : {"reply", "error"}, id : Nat]
  <2>1. [kind : {"request"}, id : ServerIds] = {}
    OBVIOUS
  <2>2. QED
    BY <1>1, <2>1 DEF FromServer
<1>3. m.id \in Nat /\ m = [kind |-> m.kind, id |-> m.id] /\ m.kind \in {"reply", "error"}
  BY <1>2
<1>4. CASE m.kind = "reply"
  <2>1. m = Reply(m.id, TRUE)
    BY <1>3, <1>4 DEF Reply
  <2>2. QED
    BY <1>3, <2>1
<1>5. CASE m.kind = "error"
  <2>1. m = Reply(m.id, FALSE)
    BY <1>3, <1>5 DEF Reply
  <2>2. QED
    BY <1>3, <2>1
<1>6. QED
  BY <1>3, <1>4, <1>5

\* A client's message with a kind of request is a request.
LEMMA RequestsOnly ==
  ASSUME NEW m \in FromClient, m.kind = "request"
  PROVE  m.id \in Nat /\ m = Ask(m.id)
<1>1. Note.kind # "request" /\ Exit.kind # "request"
  BY DEF Note, Exit
<1>2. m \in [kind : {"request"}, id : Nat]
  BY <1>1 DEF FromClient
<1>3. QED
  BY <1>2 DEF Ask

LEMMA StagesUnseen ==
  ASSUME UNCHANGED <<inbox, outbox, todo, held, unanswered>>
  PROVE  /\ Stages => Stages'
         /\ Awaiting' = Awaiting /\ Replied' = Replied /\ Asked' = Asked
BY DEF Stages, Asked, Awaiting, Replied

\* The reader and the server take a request from one place to the next at most.
LEMMA CountedOtherSide ==
  ASSUME Counted, UNCHANGED <<ui, id, next_id, response_received>>,
         Asked' \subseteq Asked,
         Awaiting' \cup unanswered' \subseteq Awaiting \cup unanswered
  PROVE  Counted'
BY DEF Counted, InRequest, Unsent

\* The UI thread begins no request.
LEMMA CountedQuiet ==
  ASSUME AnswerInv, UNCHANGED <<inbox, outbox, todo, held, unanswered, id, next_id>>,
         ~Unsent', InRequest' => InRequest /\ UNCHANGED response_received
  PROVE  AnswerInv'
<1>1. Stages' /\ Awaiting' = Awaiting /\ Asked' = Asked
  BY StagesUnseen DEF AnswerInv
<1>2. Counted'
  BY <1>1 DEF AnswerInv, Counted
<1>3. QED
  BY <1>1, <1>2 DEF AnswerInv

\* It begins one, or the request "shutdown".
LEMMA CountedNew ==
  ASSUME AnswerInv, UNCHANGED <<inbox, outbox, todo, held, unanswered>>,
         next_id \in Nat, unanswered \subseteq Nat, id' = next_id, next_id' = next_id + 1,
         InRequest' => ~response_received'
  PROVE  AnswerInv'
<1>1. Stages' /\ Awaiting' = Awaiting /\ Asked' = Asked
  BY StagesUnseen DEF AnswerInv
<1>2. Asked \subseteq Int /\ \A i \in Asked : i < next_id
  <2>1. Awaiting \subseteq Nat /\ Replied \subseteq Nat
    BY DEF Awaiting, Replied
  <2>2. QED
    BY <2>1 DEF AnswerInv, Counted, Asked
<1>3. Counted'
  BY <1>1, <1>2 DEF Counted
<1>4. QED
  BY <1>1, <1>3 DEF AnswerInv

\* The UI thread writes a request: it is in the server's input, or the editor is
\* killed, or nothing can be written any more.
LEMMA AskAnswers ==
  ASSUME AnswerInv, Traffic, Unsent, id \in Nat, NEW then, lsp_send_raw(Ask(id), then),
         then \in {"relock", "check", "exit"}, then # "exit" => InRequest,
         UNCHANGED <<outbox, todo, held, unanswered, id, next_id, response_received>>
  PROVE  AnswerInv'
<1>1. ui' \in {then, "killed"}
  BY DEF lsp_send_raw
<1>2. ~Unsent' /\ (InRequest' => InRequest)
  BY <1>1 DEF Unsent, InRequest
<1>3. inbox \in Seq(FromClient) /\ Ask(id) \in FromClient
  BY ClientMessages DEF Traffic
<1>4. id \notin Asked /\ ~Holds(inbox, Ask(id))
  BY DEF AnswerInv, Counted, Asked, Awaiting
<1>5. id < next_id /\ \A i \in Asked : i < next_id
  BY DEF AnswerInv, Counted
<1>6. Replied' = Replied
  BY DEF Replied
<1>7. InRequest /\ response_received => FALSE
  BY DEF AnswerInv, Counted
<1>8. CASE UNCHANGED inbox
  <2>1. Stages' /\ Awaiting' = Awaiting /\ Asked' = Asked
    BY <1>8, StagesUnseen DEF AnswerInv
  <2>2. Counted'
    BY <1>2, <1>5, <1>7, <2>1 DEF Counted
  <2>3. QED
    BY <2>1, <2>2 DEF AnswerInv
<1>9. CASE inbox' = Append(inbox, Ask(id))
  <2>1. Awaiting' = Awaiting \cup {id}
    BY <1>3, <1>9, AppendHolds, NumbersOfMessages DEF Awaiting
  <2>2. Once(inbox)'
    BY <1>3, <1>4, <1>9, AppendOnce DEF AnswerInv, Stages
  <2>3. Asked' = Asked \cup {id}
    BY <1>6, <2>1 DEF Asked
  <2>4. Stages'
    BY <1>4, <1>6, <2>1, <2>2 DEF AnswerInv, Stages, Asked
  <2>5. Counted'
    BY <1>2, <1>5, <1>7, <2>3 DEF Counted
  <2>6. QED
    BY <2>4, <2>5 DEF AnswerInv
<1>10. QED
  BY <1>8, <1>9 DEF lsp_send_raw

\* The UI thread writes a notification, or "exit".
LEMMA NoteAnswers ==
  ASSUME AnswerInv, Traffic, NEW m \in {Note, Exit}, NEW then, lsp_send_raw(m, then),
         then \in {"idle", "reap", "stopped"},
         UNCHANGED <<outbox, todo, held, unanswered, id, next_id, response_received>>
  PROVE  AnswerInv'
<1>1. ui' \in {then, "killed"}
  BY DEF lsp_send_raw
<1>2. ~Unsent' /\ ~InRequest'
  BY <1>1 DEF Unsent, InRequest
<1>3. CASE UNCHANGED inbox
  BY <1>2, <1>3, CountedQuiet
<1>4. CASE inbox' = Append(inbox, m)
  <2>1. inbox \in Seq(FromClient) /\ m \in FromClient
    BY ClientMessages DEF Traffic
  <2>2. \A i \in Nat : Ask(i) # m
    BY NumbersOfMessages
  <2>3. Awaiting' = Awaiting
    BY <1>4, <2>1, <2>2, AppendHolds DEF Awaiting
  <2>4. m.kind # "request"
    BY DEF Note, Exit
  <2>5. Once(inbox)'
    BY <1>4, <2>1, <2>4, AppendOnce DEF AnswerInv, Stages
  <2>6. Replied' = Replied
    BY DEF Replied
  <2>7. Asked' = Asked
    BY <2>3, <2>6 DEF Asked
  <2>8. Stages'
    BY <2>3, <2>5, <2>6 DEF AnswerInv, Stages
  <2>9. Counted'
    BY <1>2, <2>7 DEF AnswerInv, Counted
  <2>10. QED
    BY <2>8, <2>9 DEF AnswerInv
<1>5. QED
  BY <1>3, <1>4 DEF lsp_send_raw

\* The reader takes an answer out of the pipe, and delivers it to the request it
\* answers.
LEMMA ReaderAnswers ==
  ASSUME ServerIds = {}, IInv, AnswerInv, ReaderNext
  PROVE  AnswerInv'
<1>1. CASE ReaderLoop \/ EndOfOutput
  <2>1. UNCHANGED <<ui, id, next_id, response_received, inbox, outbox, todo, held, unanswered>>
    BY <1>1 DEF ReaderLoop, EndOfOutput, uiVars, pendingVars, serverVars
  <2>2. Stages' /\ Awaiting' = Awaiting /\ Asked' = Asked
    BY <2>1, StagesUnseen DEF AnswerInv
  <2>3. Counted'
    BY <2>1, <2>2, CountedOtherSide DEF AnswerInv
  <2>4. QED
    BY <2>2, <2>3 DEF AnswerInv
<1>2. CASE ReadMessage
  <2>1. outbox \in Seq(FromServer) /\ outbox # <<>>
    BY <1>2 DEF ReadMessage, IInv, Traffic
  <2>2. UNCHANGED <<ui, id, next_id, response_received, inbox, todo, unanswered>>
    BY <1>2 DEF ReadMessage, uiVars, pendingVars
  <2>3. outbox' \in {outbox, Tail(outbox)} /\ held' \in {held, Head(outbox)}
    BY <1>2 DEF ReadMessage
  <2>4. Holds(outbox, Head(outbox)) /\ \A x : Holds(outbox', x) => Holds(outbox, x)
    BY <2>1, <2>3, TailHolds
  <2>5. Replied' \subseteq Replied
    BY <2>2, <2>3, <2>4 DEF Replied
  <2>6. Awaiting' = Awaiting /\ Once(inbox)'= Once(inbox)
    BY <2>2 DEF Awaiting
  <2>7. Stages'
    BY <2>2, <2>5, <2>6 DEF AnswerInv, Stages
  <2>8. Asked' \subseteq Asked
    BY <2>2, <2>5, <2>6 DEF Asked
  <2>9. Counted'
    BY <2>2, <2>6, <2>8, CountedOtherSide DEF AnswerInv
  <2>10. QED
    BY <2>7, <2>9 DEF AnswerInv
<1>3. CASE Deliver
  <2>1. UNCHANGED <<ui, id, next_id, inbox, outbox, todo, unanswered>> /\ held' = Note
    BY <1>3 DEF Deliver, uiVars, serverVars
  <2>2. held \in FromServer /\ held.kind # "note"
    BY <1>3 DEF Deliver, IInv, Traffic
  <2>3. held.id \in Replied
    BY <2>2, RepliesOnly DEF Replied
  <2>4. Replied' \subseteq Replied
    BY <2>1, NumbersOfMessages DEF Replied
  <2>5. Awaiting' = Awaiting /\ Once(inbox)'= Once(inbox)
    BY <2>1 DEF Awaiting
  <2>6. Stages'
    BY <2>1, <2>4, <2>5 DEF AnswerInv, Stages
  <2>7. Asked' \subseteq Asked
    BY <2>1, <2>4, <2>5 DEF Asked
  <2>8. CASE UNCHANGED response_received \/ ~InRequest
    <3>1. Counted'
      BY <2>1, <2>5, <2>7, <2>8 DEF AnswerInv, Counted, InRequest, Unsent
    <3>2. QED
      BY <2>6, <3>1 DEF AnswerInv
  <2>9. CASE pending_id = held.id /\ InRequest
    <3>1. id \in Replied
      BY <2>3, <2>9 DEF IInv, Pending
    <3>2. id \notin Awaiting \cup unanswered /\ id \in Asked
      BY <3>1 DEF AnswerInv, Stages, Asked
    <3>3. ~Unsent
      BY <3>2 DEF AnswerInv, Counted
    <3>4. Counted'
      BY <2>1, <2>5, <2>7, <3>2, <3>3 DEF AnswerInv, Counted, InRequest, Unsent
    <3>5. QED
      BY <2>6, <3>4 DEF AnswerInv
  <2>10. QED
    BY <1>3, <2>6, <2>8, <2>9 DEF AnswerInv, Deliver, Matches
<1>4. QED
  BY <1>1, <1>2, <1>3 DEF ReaderNext

\* The server moves a request on, or ends with all it had not answered.
LEMMA ServerAnswers ==
  ASSUME ServerIds = {}, IInv, AnswerInv, ServerNext
  PROVE  AnswerInv'
<1>1. UNCHANGED <<ui, id, next_id, response_received, held>>
  BY DEF ServerNext, ServerRead, ServerAnswer, ServerNotify, ServerWrite, ServerCrash, Die,
         uiVars, pendingVars, readerVars
<1>2. SUFFICES /\ Stages' /\ Asked' \subseteq Asked
               /\ Awaiting' \cup unanswered' \subseteq Awaiting \cup unanswered
  BY <1>1, CountedOtherSide DEF AnswerInv
<1>3. CASE Die(outbox)
  <2>1. inbox' = <<>> /\ todo' = <<>> /\ unanswered' = {} /\ outbox' = outbox
    BY <1>3 DEF Die
  <2>2. Awaiting' = {} /\ Once(inbox)'
    BY <2>1 DEF Awaiting, Holds, Once
  <2>3. Replied' \subseteq Replied
    BY <1>1, <2>1 DEF Replied, Holds
  <2>4. QED
    BY <2>1, <2>2, <2>3 DEF Stages, Asked
<1>4. CASE ServerRead /\ ~Die(outbox)
  <2>1. /\ inbox # <<>> /\ inbox' = Tail(inbox)
        /\ unanswered' = IF Head(inbox).kind = "request" THEN unanswered \cup {Head(inbox).id}
                         ELSE unanswered
        /\ UNCHANGED <<outbox, todo>>
    BY <1>4 DEF ServerRead
  <2>2. inbox \in Seq(FromClient) /\ Head(inbox) \in FromClient
    BY <2>1, HeadTailProperties DEF IInv, Traffic
  <2>3. /\ Holds(inbox, Head(inbox)) /\ \A x : Holds(inbox', x) => Holds(inbox, x)
        /\ Once(inbox')
        /\ Head(inbox).kind = "request" => ~Holds(inbox', Head(inbox))
    BY <2>1, <2>2, TailHolds DEF AnswerInv, Stages
  <2>4. Awaiting' \subseteq Awaiting
    BY <2>3 DEF Awaiting
  <2>5. Replied' = Replied
    BY <1>1, <2>1 DEF Replied
  <2>6. CASE Head(inbox).kind = "request"
    <3> DEFINE i == Head(inbox).id
    <3>1. i \in Nat /\ Head(inbox) = Ask(i)
      BY <2>2, <2>6, RequestsOnly
    <3>2. i \in Awaiting /\ i \notin Awaiting'
      BY <2>3, <2>6, <3>1 DEF Awaiting
    <3>3. unanswered' = unanswered \cup {i}
      BY <2>1, <2>6
    <3> HIDE DEF i
    <3>4. Stages'
      BY <2>3, <2>4, <2>5, <3>2, <3>3 DEF AnswerInv, Stages
    <3>5. QED
      BY <2>4, <2>5, <3>2, <3>3, <3>4 DEF Asked
  <2>7. CASE Head(inbox).kind # "request"
    <3>1. unanswered' = unanswered
      BY <2>1, <2>7
    <3>2. Stages'
      BY <2>3, <2>4, <2>5, <3>1 DEF AnswerInv, Stages
    <3>3. QED
      BY <2>4, <2>5, <3>1, <3>2 DEF Asked
  <2>8. QED
    BY <2>6, <2>7
<1>5. CASE ServerAnswer
  <2>1. PICK i \in unanswered, ok \in BOOLEAN :
          /\ todo' = <<Reply(i, ok)>> /\ unanswered' = unanswered \ {i}
          /\ UNCHANGED <<inbox, outbox>>
    BY <1>5 DEF ServerAnswer
  <2>2. \A x : Holds(todo', x) => x = Reply(i, ok)
    BY <2>1 DEF Holds
  <2>3. \A j, yes : yes \in BOOLEAN /\ Reply(j, yes) = Reply(i, ok) => j = i
    BY NumbersOfMessages
  <2>4. Replied' \subseteq Replied \cup {i}
    BY <1>1, <2>1, <2>2, <2>3 DEF Replied
  <2>5. Awaiting' = Awaiting /\ Once(inbox)' = Once(inbox)
    BY <2>1 DEF Awaiting
  <2>6. Stages'
    BY <2>1, <2>4, <2>5 DEF AnswerInv, Stages
  <2>7. QED
    BY <2>1, <2>4, <2>5, <2>6 DEF Asked
<1>6. CASE ServerNotify
  <2>1. todo' = <<Note>> /\ UNCHANGED <<inbox, outbox, unanswered>>
    BY <1>6 DEF ServerNotify
  <2>2. \A x : Holds(todo', x) => x = Note
    BY <2>1 DEF Holds
  <2>3. Replied' \subseteq Replied
    BY <1>1, <2>1, <2>2, NumbersOfMessages DEF Replied
  <2>4. Awaiting' = Awaiting /\ Once(inbox)' = Once(inbox)
    BY <2>1 DEF Awaiting
  <2>5. Stages'
    BY <2>1, <2>3, <2>4 DEF AnswerInv, Stages
  <2>6. QED
    BY <2>1, <2>3, <2>4, <2>5 DEF Asked
<1>7. CASE ServerWrite
  <2>1. /\ todo \in Seq(FromServer) /\ todo # <<>> /\ outbox \in Seq(FromServer)
        /\ outbox' = Append(outbox, Head(todo)) /\ todo' = <<>>
        /\ UNCHANGED <<inbox, unanswered>>
    BY <1>7 DEF ServerWrite, IInv, Traffic
  <2>2. Head(todo) \in FromServer /\ Holds(todo, Head(todo))
    BY <2>1, HeadTailProperties, TailHolds
  <2>3. \A x : Holds(outbox', x) => Holds(outbox, x) \/ Holds(todo, x)
    BY <2>1, <2>2, AppendHolds
  <2>4. \A x : ~Holds(todo', x)
    BY <2>1 DEF Holds
  <2>5. Replied' \subseteq Replied
    BY <1>1, <2>3, <2>4 DEF Replied
  <2>6. Awaiting' = Awaiting /\ Once(inbox)' = Once(inbox)
    BY <2>1 DEF Awaiting
  <2>7. Stages'
    BY <2>1, <2>5, <2>6 DEF AnswerInv, Stages
  <2>8. QED
    BY <2>1, <2>5, <2>6, <2>7 DEF Asked
<1>8. QED
  BY <1>3, <1>4, <1>5, <1>6, <1>7 DEF ServerNext, ServerCrash

LEMMA InitAnswers == Init => AnswerInv
<1> SUFFICES ASSUME Init PROVE AnswerInv
  OBVIOUS
<1>1. /\ inbox = <<>> /\ outbox = <<>> /\ todo = <<>> /\ held = Note /\ unanswered = {}
      /\ ~InRequest /\ ~Unsent
  BY DEF Init, InRequest, Unsent
<1>2. Awaiting = {} /\ Once(inbox)
  BY <1>1 DEF Awaiting, Holds, Once
<1>3. Replied = {}
  BY <1>1, NumbersOfMessages DEF Replied, Holds
<1>4. QED
  BY <1>1, <1>2, <1>3 DEF AnswerInv, Stages, Counted, Asked

LEMMA NextAnswers == ServerIds = {} /\ IInv /\ AnswerInv /\ [Next]_vars => AnswerInv'
<1> SUFFICES ASSUME ServerIds = {}, IInv, AnswerInv, [Next]_vars PROVE AnswerInv'
  OBVIOUS
<1>1. next_id \in Nat /\ unanswered \subseteq Nat /\ Traffic /\ (InRequest \/ Unsent => id \in Nat)
  BY DEF IInv, Values, Traffic, Pending
<1>2. CASE UNCHANGED vars
  <2>1. UNCHANGED <<ui, id, next_id, response_received, inbox, outbox, todo, held, unanswered>>
    BY <1>2 DEF vars, uiVars, pendingVars, readerVars, serverVars
  <2>2. Stages' /\ Awaiting' = Awaiting /\ Asked' = Asked
    BY <2>1, StagesUnseen DEF AnswerInv
  <2>3. QED
    BY <2>1, <2>2, CountedOtherSide DEF AnswerInv
<1>3. CASE lsp_start \/ Request
  <2>1. /\ UNCHANGED <<inbox, outbox, todo, held, unanswered>>
        /\ id' = next_id /\ next_id' = next_id + 1 /\ ~response_received'
    BY <1>3 DEF lsp_start, Request, NewRequest, uiVars, pendingVars, readerVars, serverVars
  <2>2. QED
    BY <1>1, <2>1, CountedNew
<1>4. CASE SpawnFails \/ Notify \/ Reap \/ Join
  <2>1. UNCHANGED <<inbox, outbox, todo, held, unanswered, id, next_id>>
    BY <1>4 DEF SpawnFails, Notify, Reap, Join, uiVars, pendingVars, readerVars, serverVars
  <2>2. ui' \in {"idle", "note", "close", "join"}
    BY <1>4 DEF SpawnFails, Notify, Reap, Join
  <2>3. QED
    BY <2>1, <2>2, CountedQuiet DEF Unsent, InRequest
<1>5. CASE lsp_stop
  <2>1. UNCHANGED <<inbox, outbox, todo, held, unanswered>>
    BY <1>5 DEF lsp_stop, uiVars, pendingVars, readerVars, serverVars
  <2>2. CASE running
    <3>1. id' = next_id /\ next_id' = next_id + 1 /\ ~InRequest'
      BY <1>5, <2>2 DEF lsp_stop, InRequest
    <3>2. QED
      BY <1>1, <2>1, <3>1, CountedNew
  <2>3. CASE ~running
    <3>1. UNCHANGED <<id, next_id>> /\ ui' = "close"
      BY <1>5, <2>3 DEF lsp_stop
    <3>2. QED
      BY <2>1, <3>1, CountedQuiet DEF Unsent, InRequest
  <2>4. QED
    BY <2>2, <2>3
<1>6. CASE AwaitInitialize \/ Wait \/ Wake \/ Expire
  <2>1. UNCHANGED <<inbox, outbox, todo, held, unanswered, id, next_id, response_received>>
    BY <1>6 DEF AwaitInitialize, Wait, Wake, Expire, uiVars, pendingVars, readerVars, serverVars
  <2>2. InRequest /\ ui' \in {"check", "wait"}
    BY <1>6 DEF AwaitInitialize, Wait, Wake, Expire, InRequest
  <2>3. QED
    BY <2>1, <2>2, CountedQuiet DEF Unsent
<1>7. CASE Return
  <2>1. UNCHANGED <<inbox, outbox, todo, held, unanswered, id, next_id>>
    BY <1>7 DEF Return, uiVars, pendingVars, readerVars, serverVars
  <2>2. ui' \in {"note", "idle"}
    BY <1>7 DEF Return
  <2>3. QED
    BY <2>1, <2>2, CountedQuiet DEF Unsent, InRequest
<1>8. CASE SendInitialize \/ SendRequest \/ SendShutdown
  <2>1. UNCHANGED <<outbox, todo, held, unanswered, id, next_id, response_received>>
    BY <1>8 DEF SendInitialize, SendRequest, SendShutdown,
                uiVars, pendingVars, readerVars, serverVars
  <2>2. CASE SendInitialize
    <3>1. lsp_send_raw(Ask(id), "relock") /\ Unsent /\ InRequest
      BY <2>2 DEF SendInitialize, Unsent, InRequest
    <3>2. QED
      BY <1>1, <2>1, <3>1, AskAnswers
  <2>3. CASE SendRequest
    <3>1. lsp_send_raw(Ask(id), "check") /\ Unsent /\ InRequest
      BY <2>3 DEF SendRequest, Unsent, InRequest
    <3>2. QED
      BY <1>1, <2>1, <3>1, AskAnswers
  <2>4. CASE SendShutdown
    <3>1. lsp_send_raw(Ask(id), "exit") /\ Unsent
      BY <2>4 DEF SendShutdown, Unsent
    <3>2. QED
      BY <1>1, <2>1, <3>1, AskAnswers
  <2>5. QED
    BY <1>8, <2>2, <2>3, <2>4
<1>9. CASE SendNote \/ SendExit \/ CloseDocuments
  <2>1. UNCHANGED <<outbox, todo, held, unanswered, id, next_id, response_received>>
    BY <1>9 DEF SendNote, SendExit, CloseDocuments, uiVars, pendingVars, readerVars, serverVars
  <2>2. PICK m \in {Note, Exit}, then \in {"idle", "reap", "stopped"} : lsp_send_raw(m, then)
    BY <1>9 DEF SendNote, SendExit, CloseDocuments
  <2>3. QED
    BY <1>1, <2>1, <2>2, NoteAnswers
<1>10. CASE ReaderNext
  BY <1>10, ReaderAnswers
<1>11. CASE ServerNext
  BY <1>11, ServerAnswers
<1>12. CASE Choose
  BY <1>3, <1>4, <1>5, <1>12 DEF Choose
<1>13. CASE Proceed
  BY <1>3, <1>4, <1>6, <1>7, <1>8, <1>9, <1>13 DEF Proceed
<1>14. QED
  BY <1>2, <1>6, <1>10, <1>11, <1>12, <1>13 DEF Next, Ended

\* With a server that sends no requests of its own, the flag that ends a request is
\* set only by the answer to it: the request has been read and answered by then
\* (response_received, set by reader_func, tested by the waiting requests).  The
\* assumption is needed: the reader takes a request of the server with the awaited
\* id for the answer.
THEOREM ResponsesAreAnswers ==
  ASSUME ServerIds = {}
  PROVE  Spec => []ResponseIsAnswer
<1>1. AnswerInv /\ IInv => ResponseIsAnswer
  <2> SUFFICES ASSUME AnswerInv, IInv, InRequest, response_received
               PROVE  id \notin unanswered /\ \A k \in DOMAIN inbox : inbox[k] # Ask(id)
    BY DEF ResponseIsAnswer
  <2>1. id \in Nat /\ id \notin unanswered /\ ~Holds(inbox, Ask(id))
    BY DEF AnswerInv, Counted, Awaiting, IInv, Pending
  <2>2. DOMAIN inbox = 1 .. Len(inbox)
    BY LenProperties DEF IInv, Traffic
  <2>3. QED
    BY <2>1, <2>2 DEF Holds
<1>2. IInv /\ AnswerInv /\ [Next]_vars => AnswerInv'
  BY NextAnswers
<1>3. QED
  BY <1>1, <1>2, SpecIInv, InitAnswers, PTL DEF Spec
=============================================================================
