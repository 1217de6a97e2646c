---------------------------- MODULE LspRequests ----------------------------
(***************************************************************************)
(* The connection to the language server (lsp_server.c): the UI thread     *)
(* that sends requests and waits for their answers, the reader thread that *)
(* receives them, and the server process behind two pipes.                 *)
(*                                                                         *)
(* The UI thread holds pending_mutex while it writes a request; the        *)
(* reader's critical section has no blocking call in it and is one step.   *)
(* A pipe holds a bounded number of messages: a write to a full one        *)
(* blocks, and a write to a dead server kills the editor (SIGPIPE).        *)
(***************************************************************************)
EXTENDS Integers, Sequences, FiniteSets

CONSTANTS
  MaxId,       \* bound: ids of requests
  InPipe,      \* capacity of the server's stdin, in messages
  OutPipe,     \* capacity of its stdout, in messages
  MaxNotes,    \* bound: notifications and server's requests in its stdout
  ServerIds,   \* ids the server uses for requests of its own
  MayDie       \* whether the server may crash

ASSUME Bounds == MaxId \in Nat /\ InPipe \in Nat \ {0} /\ OutPipe \in Nat \ {0}
ASSUME IdsAreNumbers == ServerIds \subseteq Nat

NoId == -1
InitId == 1   \* next_id counts from 1, and lsp_start sends the first request

VARIABLES
  ui,                 \* where the UI thread is
  id,                 \* its local variable id
  locked,             \* it holds pending_mutex
  expired,            \* the deadline ts of its wait has passed
  answer,             \* the last request that returned, and what its answer is to
  next_id,
  pending_id,
  pending_result,     \* the id of the request it answers, or NoId for nullptr
  response_received,
  running,
  fd,                 \* stdin_fd: "open" or "closed"
  reader,             \* where the reader thread is
  held,               \* the message the reader has parsed
  inbox, outbox,      \* the two pipes: the server's stdin and stdout
  server,             \* "none", "up" or "dead"
  todo,               \* the message the server is writing, if any
  unanswered          \* requests the server has read and not answered

uiVars == <<id, locked, expired, answer, next_id>>
pendingVars == <<pending_id, pending_result, response_received>>
readerVars == <<reader, held>>
serverVars == <<outbox, server, todo, unanswered>>
vars == <<ui, uiVars, pendingVars, running, fd, readerVars, inbox, serverVars>>

\* Messages. A reply may lack a result: it then reports an error.
Ask(i)      == [kind |-> "request", id |-> i]
Note        == [kind |-> "note", id |-> NoId]
Exit        == [kind |-> "exit", id |-> NoId]
Reply(i, r) == [kind |-> IF r THEN "reply" ELSE "error", id |-> i]

-----------------------------------------------------------------------------
(* The UI thread. *)

\* A write that takes no notice of a full pipe.
WriteAtOnce(m, then) ==
  \/ fd = "open" /\ server = "up" /\ inbox' = Append(inbox, m) /\ ui' = then
  \/ fd = "open" /\ server = "dead" /\ ui' = "killed" /\ UNCHANGED inbox
  \/ fd = "closed" /\ ui' = then /\ UNCHANGED inbox

\* lsp_send_raw; writing to a closed descriptor fails without notice.
lsp_send_raw(m, then) ==
  \/ /\ fd = "open" /\ server = "up" /\ Len(inbox) < InPipe
     /\ inbox' = Append(inbox, m)
     /\ ui' = then
  \/ fd = "open" /\ server = "dead" /\ ui' = "killed" /\ UNCHANGED inbox
  \/ fd = "closed" /\ ui' = then /\ UNCHANGED inbox

\* A request that trusts the flag of the one before.
NewRequestOnly ==
  /\ id' = next_id /\ next_id' = next_id + 1
  /\ pending_id' = next_id
  /\ pending_result' = NoId
  /\ UNCHANGED response_received

\* A request takes the next id and drops what is left of the one before.
NewRequest ==
  /\ id' = next_id /\ next_id' = next_id + 1
  /\ pending_id' = next_id
  /\ pending_result' = NoId
  /\ response_received' = FALSE

\* lsp_start, up to the request "initialize", which is announced before it is
\* written and without holding the mutex any longer.
lsp_start ==
  /\ ui = "off"
  /\ NewRequest
  /\ fd' = "open" /\ running' = TRUE /\ reader' = "top" /\ server' = "up"
  /\ ui' = "init"
  /\ UNCHANGED <<locked, expired, answer, held, inbox, outbox, todo, unanswered>>

\* posix_spawn fails. The LSP_ENABLE flag stays set, and requests are made.
SpawnFails ==
  /\ ui = "off"
  /\ ui' = "idle"
  /\ UNCHANGED <<uiVars, pendingVars, running, fd, readerVars, inbox, serverVars>>

SendInitialize ==
  /\ ui = "init"
  /\ lsp_send_raw(Ask(id), "relock")
  /\ UNCHANGED <<uiVars, pendingVars, running, fd, readerVars, serverVars>>

AwaitInitialize ==
  /\ ui = "relock"
  /\ locked' = TRUE /\ expired' = FALSE
  /\ ui' = "check"
  /\ UNCHANGED <<id, answer, next_id, pendingVars, running, fd, readerVars, inbox, serverVars>>

\* lsp_completion, lsp_signature_help, lsp_hover and lsp_format up to the write.
Request ==
  /\ ui = "idle" /\ next_id <= MaxId
  /\ NewRequest
  /\ locked' = TRUE
  /\ ui' = "send"
  /\ UNCHANGED <<expired, answer, running, fd, readerVars, inbox, serverVars>>

SendRequest ==
  /\ ui = "send"
  /\ lsp_send_raw(Ask(id), "check")
  /\ expired' = FALSE
  /\ UNCHANGED <<id, locked, answer, next_id, pendingVars, running, fd, readerVars, serverVars>>

\* while (!response_received && running): waiting releases the mutex.
Wait ==
  /\ ui = "check" /\ ~response_received /\ running
  /\ locked' = FALSE
  /\ ui' = "wait"
  /\ UNCHANGED <<id, expired, answer, next_id, pendingVars, running, fd, readerVars, inbox,
                 serverVars>>

\* A signal or a spurious wake-up ends the wait for another look.
Wake ==
  /\ ui = "wait" /\ ~expired
  /\ locked' = TRUE
  /\ ui' = "check"
  /\ UNCHANGED <<id, expired, answer, next_id, pendingVars, running, fd, readerVars, inbox,
                 serverVars>>

Expire ==
  /\ ui \in {"check", "wait"} /\ ~expired
  /\ expired' = TRUE
  /\ UNCHANGED <<ui, id, locked, answer, next_id, pendingVars, running, fd, readerVars, inbox,
                 serverVars>>

\* A return that leaves the id behind: late answers still match it.
KeepPending ==
  /\ answer' = [id |-> id, of |-> pending_result]
  /\ pending_result' = NoId
  /\ UNCHANGED pending_id

TakeResult ==
  /\ answer' = [id |-> id, of |-> pending_result]
  /\ pending_result' = NoId
  /\ pending_id' = NoId

\* The wait is over, by an answer, a stop of the reader, or the timeout. After
\* "initialize" a result is acknowledged; without one lsp_start fails.
Return ==
  /\ \/ ui = "check" /\ (response_received \/ ~running)
     \/ ui = "wait" /\ expired
  /\ TakeResult
  /\ locked' = FALSE
  /\ response_received' = (response_received /\ id # InitId)
  /\ ui' = IF id = InitId /\ pending_result # NoId THEN "note" ELSE "idle"
  /\ UNCHANGED <<id, expired, next_id, running, fd, readerVars, inbox, serverVars>>

\* lsp_did_open, lsp_did_change, lsp_did_close.
Notify ==
  /\ ui = "idle"
  /\ ui' = "note"
  /\ UNCHANGED <<uiVars, pendingVars, running, fd, readerVars, inbox, serverVars>>

SendNote ==
  /\ ui = "note"
  /\ lsp_send_raw(Note, "idle")
  /\ UNCHANGED <<uiVars, pendingVars, running, fd, readerVars, serverVars>>

\* lsp_stop does nothing when the reader has seen the end of the server's output.
lsp_stop ==
  /\ ui = "idle"
  /\ IF running
     THEN id' = next_id /\ next_id' = next_id + 1 /\ running' = FALSE /\ ui' = "shutdown"
     ELSE UNCHANGED <<id, next_id, running>> /\ ui' = "close"
  /\ UNCHANGED <<locked, expired, answer, pendingVars, fd, readerVars, inbox, serverVars>>

\* A stop that waits for the reader before it tells the server to exit.
JoinFirst ==
  /\ ui = "shutdown" /\ reader = "exited"
  /\ lsp_send_raw(Ask(id), "exit")
  /\ UNCHANGED <<uiVars, pendingVars, running, fd, readerVars, serverVars>>

SendShutdown ==
  /\ ui = "shutdown"
  /\ lsp_send_raw(Ask(id), "exit")
  /\ UNCHANGED <<uiVars, pendingVars, running, fd, readerVars, serverVars>>

SendExit ==
  /\ ui = "exit"
  /\ lsp_send_raw(Exit, "reap")
  /\ fd' = IF ui' = "reap" THEN "closed" ELSE fd
  /\ UNCHANGED <<uiVars, pendingVars, running, readerVars, serverVars>>

\* waitpid and pthread_join: the server's end, and then the reader's.
Reap ==
  /\ ui = "reap" /\ server = "dead"
  /\ ui' = "join"
  /\ UNCHANGED <<uiVars, pendingVars, running, fd, readerVars, inbox, serverVars>>

Join ==
  /\ ui = "join" /\ reader = "exited"
  /\ ui' = "close"
  /\ UNCHANGED <<uiVars, pendingVars, running, fd, readerVars, inbox, serverVars>>

\* Buffer_free of the open buffers comes after lsp_stop.
CloseDocuments ==
  /\ ui = "close"
  /\ lsp_send_raw(Note, "stopped")
  /\ UNCHANGED <<uiVars, pendingVars, running, fd, readerVars, serverVars>>

-----------------------------------------------------------------------------
(* The reader thread (reader_func). *)

EditorRuns == ui # "killed"

ReaderLoop ==
  /\ EditorRuns /\ reader = "top"
  /\ reader' = IF running THEN "read" ELSE "exited"
  /\ UNCHANGED <<ui, uiVars, pendingVars, running, fd, held, inbox, serverVars>>

\* A message with an id is held until the mutex is free; diagnostics and the
\* like do not need it. A message that comes after lsp_stop only ends the loop.
ReadMessage ==
  /\ EditorRuns /\ reader = "read" /\ outbox # <<>>
  /\ IF ~running THEN reader' = "exited" /\ UNCHANGED <<held, outbox>>
     ELSE /\ outbox' = Tail(outbox)
          /\ IF Head(outbox).kind = "note" THEN reader' = "top" /\ UNCHANGED held
             ELSE reader' = "deliver" /\ held' = Head(outbox)
  /\ UNCHANGED <<ui, uiVars, pendingVars, running, fd, inbox, server, todo, unanswered>>

\* Delivering whatever comes, late answers included.
MatchAny(m) == pending_id # NoId

Matches(m) == pending_id = m.id

\* Any message with the pending id counts as the response, also a request that
\* the server sends; only a reply has a result.
Deliver ==
  /\ EditorRuns /\ reader = "deliver" /\ ~locked
  /\ IF Matches(held)
     THEN /\ pending_result' = IF held.kind = "reply" THEN held.id ELSE pending_result
          /\ response_received' = TRUE
     ELSE UNCHANGED <<pending_result, response_received>>
  /\ reader' = "top"
  /\ held' = Note
  /\ UNCHANGED <<ui, uiVars, pending_id, running, fd, inbox, serverVars>>

\* read returns 0; a waiting UI thread is not signalled.
EndOfOutput ==
  /\ EditorRuns /\ reader = "read" /\ outbox = <<>> /\ server = "dead"
  /\ running' = FALSE
  /\ reader' = "exited"
  /\ UNCHANGED <<ui, uiVars, pendingVars, fd, held, inbox, serverVars>>

-----------------------------------------------------------------------------
(* The server, an external process with one thread: it writes before it reads *)
(* on, answers in any order, late or never, and exits when told to.          *)

Die(rest) ==
  /\ server' = "dead"
  /\ todo' = <<>> /\ unanswered' = {} /\ inbox' = <<>>
  /\ outbox' = rest
  /\ UNCHANGED <<ui, uiVars, pendingVars, running, fd, readerVars>>

ServerRead ==
  /\ server = "up" /\ todo = <<>> /\ inbox # <<>>
  /\ \/ /\ Head(inbox).kind # "exit"
        /\ inbox' = Tail(inbox)
        /\ unanswered' = IF Head(inbox).kind = "request" THEN unanswered \cup {Head(inbox).id}
                         ELSE unanswered
        /\ UNCHANGED <<ui, uiVars, pendingVars, running, fd, readerVars, outbox, server, todo>>
     \/ Head(inbox).kind = "exit" /\ Die(outbox)

ServerAnswer ==
  /\ server = "up" /\ todo = <<>>
  /\ \E i \in unanswered, ok \in BOOLEAN :
       todo' = <<Reply(i, ok)>> /\ unanswered' = unanswered \ {i}
  /\ UNCHANGED <<ui, uiVars, pendingVars, running, fd, readerVars, inbox, outbox, server>>

IsUnasked(m) == m.kind \in {"note", "request"}
UnaskedFits == Len(SelectSeq(outbox, IsUnasked)) < MaxNotes

\* Diagnostics, or a request of the server's own.
ServerNotify ==
  /\ server = "up" /\ todo = <<>> /\ UnaskedFits
  /\ \E m \in {Note} \cup {Ask(i) : i \in ServerIds} : todo' = <<m>>
  /\ UNCHANGED <<ui, uiVars, pendingVars, running, fd, readerVars, inbox, outbox, server,
                 unanswered>>

ServerWrite ==
  /\ server = "up" /\ todo # <<>> /\ Len(outbox) < OutPipe
  /\ outbox' = Append(outbox, Head(todo))
  /\ todo' = <<>>
  /\ UNCHANGED <<ui, uiVars, pendingVars, running, fd, readerVars, inbox, server, unanswered>>

\* What the server has written can still be read.
ServerCrash == MayDie /\ server = "up" /\ Die(outbox)

-----------------------------------------------------------------------------
Init ==
  /\ ui = "off" /\ id = NoId /\ locked = FALSE /\ expired = FALSE
  /\ answer = [id |-> NoId, of |-> NoId]
  /\ next_id = InitId
  /\ pending_id = NoId /\ pending_result = NoId /\ response_received = FALSE
  /\ running = FALSE /\ fd = "closed"
  /\ reader = "exited" /\ held = Note
  /\ inbox = <<>> /\ outbox = <<>>
  /\ server = "none" /\ todo = <<>> /\ unanswered = {}

\* What the UI thread does when the user or a timer asks for it.
Choose == lsp_start \/ SpawnFails \/ Request \/ Notify \/ lsp_stop

\* What it does then by itself.
Proceed ==
  \/ SendInitialize \/ AwaitInitialize \/ SendRequest
  \/ Wait \/ Wake \/ Return
  \/ SendNote
  \/ SendShutdown \/ SendExit \/ Reap \/ Join \/ CloseDocuments

ReaderNext == ReaderLoop \/ ReadMessage \/ Deliver \/ EndOfOutput

ServerNext == ServerRead \/ ServerAnswer \/ ServerNotify \/ ServerWrite \/ ServerCrash

\* The editor has exited, or was killed.
Ended == ui \in {"stopped", "killed"} /\ UNCHANGED vars

Next == Choose \/ Proceed \/ Expire \/ ReaderNext \/ ServerNext \/ Ended

\* Both threads run, time passes, and the server goes on reading and writing;
\* it need not answer.
Fairness ==
  /\ WF_vars(Proceed)
  /\ WF_vars(Expire)
  /\ WF_vars(ReaderNext)
  /\ SF_vars(ServerRead)
  /\ WF_vars(ServerWrite)

Spec == Init /\ [][Next]_vars /\ Fairness

-----------------------------------------------------------------------------
(* Properties. *)

InRequest == ui \in {"init", "relock", "send", "check", "wait"}

Message == [kind : {"request", "note", "exit", "reply", "error"}, id : Nat \cup {NoId}]

TypeOK ==
  /\ ui \in {"off", "init", "relock", "idle", "send", "check", "wait", "note", "shutdown",
             "exit", "reap", "join", "close", "stopped", "killed"}
  /\ id \in Nat \cup {NoId} /\ next_id \in Nat
  /\ locked \in BOOLEAN /\ expired \in BOOLEAN
  /\ answer \in [id : Nat \cup {NoId}, of : Nat \cup {NoId}]
  /\ pending_id \in Nat \cup {NoId} /\ pending_result \in Nat \cup {NoId}
  /\ response_received \in BOOLEAN /\ running \in BOOLEAN
  /\ fd \in {"open", "closed"}
  /\ reader \in {"top", "read", "deliver", "exited"} /\ held \in Message
  /\ inbox \in Seq(Message) /\ Len(inbox) <= InPipe
  /\ outbox \in Seq(Message) /\ Len(outbox) <= OutPipe
  /\ server \in {"none", "up", "dead"}
  /\ todo \in Seq(Message) /\ unanswered \subseteq Nat

\* Between requests nothing is pending, so that a late answer finds no id to match
\* and leaves no result for the next request (pending_id and pending_result).
NothingPendingBetweenRequests ==
  ~InRequest /\ ui # "killed" => pending_id = NoId /\ pending_result = NoId

\* Every request returns, with the answer to this request or with none, although
\* answers come late, never, or after the request gave up.
Call == INSTANCE LspCall WITH
  alive   <- ui # "killed",
  calling <- IF InRequest \/ (ui = "killed" /\ pending_id # NoId) THEN id ELSE NoId
ImplementsCall == Call!Spec

\* lsp_stop comes to an end: the server exits, and the reader is not left waiting.
\* The exception does happen: a server that the stop finds writing into a full pipe,
\* which the reader leaves as it is, never reads "exit", and waitpid
\* (lsp_server.c:1199) waits for it as long as it lives.
OutputJammed ==
  reader = "exited" /\ server = "up" /\ todo # <<>> /\ Len(outbox) = OutPipe

StopReturns == ui = "shutdown" ~> (ui \in {"stopped", "killed"} \/ []OutputJammed)

\* The response flag that ends a request is set only once the server has read the
\* request and answered it, with a result or an error.
ResponseIsAnswer ==
  InRequest /\ response_received
    => id \notin unanswered /\ \A k \in DOMAIN inbox : inbox[k] # Ask(id)

\* The timeout bounds the request: it returns whatever the server does.
RequestReturns == InRequest ~> ~InRequest
=============================================================================
