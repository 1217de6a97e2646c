------------------------------ MODULE LspClient ------------------------------
(***************************************************************************)
(* The client side of the language server: the popup with completions and  *)
(* the documents the server is told about (lsp_client.c, with what         *)
(* buffer.c, navigation.c and main.c do to them).                          *)
(*                                                                         *)
(* A frame of the main loop updates the popup, handles the input and draws *)
(* (main.c:78).  The input is handled from top to bottom, and what it reads*)
(* of the popup at the top it uses further down, after keys that open and  *)
(* close tabs; so does the buffer it takes at the top.  What it does to a  *)
(* buffer that it has closed itself is not modelled.  The server is        *)
(* external: what it answers is any list.  The array of pointers into the  *)
(* list is doubled at most once (lsp_client.c:302): of a list that needs   *)
(* more, the code writes past the end, which is not modelled.              *)
(***************************************************************************)
EXTENDS Integers, SequencesExt

CONSTANTS
  MAX_TABS,        \* bound: tabs (7 in the code)
  Path, NoPath,    \* files, and what a new buffer has instead
  Lang,            \* the files whose language has a server
  Text, Empty,     \* texts, and the one without characters
  NotOpen,         \* a document the server does not hold
  MaxItems         \* bound: the longest completion list

ASSUME Lists == MaxItems \in Nat
ASSUME Names == Lang \subseteq Path /\ NoPath \notin Path /\ Empty \in Text /\ NotOpen \notin Text

VARIABLES
  tabs,      \* BufManager.buf: the buffers, from left to right
  front,     \* active_idx, counted from 1
  ui,        \* g_lsp_ui, with lsp_debounce_timer
  running,   \* the server runs
  docs,      \* the documents the server holds, by path
  frame,     \* where the main loop is
  had,       \* has_comp of handle_input, FALSE outside
  held       \* its buf: the tab it took at the top; 0 outside, or when it closed it

vars == <<tabs, front, ui, running, docs, frame, had, held>>

Flag == {"ENABLE", "VISIBLE", "REQUEST_PENDING", "HAS_COMP",
         "HAS_SIG", "SIG_PENDING", "HAS_HOVE", "HOV_PENDING"}

\* What the pointers in filtered point into: there is no such array, the
\* completions, or completions that have been freed.
Pointees == {"nothing", "completion", "freed"}

NoUi ==
  [flags |-> {}, root |-> FALSE, uri |-> NoPath, timer |-> FALSE, count |-> 0,
   filtered |-> "nothing", item_count |-> 0, signature |-> FALSE]

Buffer_new == [path |-> NoPath, lang |-> FALSE, text |-> Empty]

buf == tabs[front]

-----------------------------------------------------------------------------
(* The popup. *)

SetFlags(u, S) == [u EXCEPT !.flags = @ \cup S]

ClearFlags(u, S) == [u EXCEPT !.flags = @ \ S]

lsp_ui_clear_completion(u) ==
  IF "HAS_COMP" \notin u.flags THEN u
  ELSE [u EXCEPT !.count = 0, !.flags = @ \ {"HAS_COMP"},
                 !.filtered = IF @ = "completion" THEN "freed" ELSE @]

\* Hiding that frees the list, and keeps the array and the flag.
HideKeepsItems(u) ==
  [ClearFlags(u, {"VISIBLE", "REQUEST_PENDING"})
     EXCEPT !.count = 0, !.filtered = IF @ = "completion" THEN "freed" ELSE @]

lsp_ui_hide(u) ==
  [lsp_ui_clear_completion(ClearFlags(u, {"VISIBLE", "REQUEST_PENDING"}))
     EXCEPT !.filtered = "nothing", !.item_count = 0]

\* An empty list that leaves the popup open.
ShowKeepsVisible(u, n, kept) ==
  IF n = 0 THEN u
  ELSE [SetFlags(u, {"HAS_COMP", "VISIBLE"})
          EXCEPT !.count = n, !.filtered = "completion", !.item_count = kept]

\* A list of n completions has come, of which kept match the word.
ShowCompletion(u, n, kept) ==
  IF n = 0 THEN ClearFlags(u, {"HAS_COMP", "VISIBLE"})
  ELSE [SetFlags(u, {"HAS_COMP", "VISIBLE"})
          EXCEPT !.count = n, !.filtered = "completion", !.item_count = kept]

\* The answers to a pending request for a signature and for a hover text.
WithSignature(u, some) ==
  IF "SIG_PENDING" \notin u.flags THEN u
  ELSE IF buf.path = NoPath THEN ClearFlags(u, {"SIG_PENDING"})
  ELSE [u EXCEPT !.signature = some,
                 !.flags = (@ \ {"SIG_PENDING", "HAS_SIG"})
                             \cup (IF some THEN {"HAS_SIG"} ELSE {})]

WithHover(u, some) ==
  IF "HOV_PENDING" \notin u.flags THEN u
  ELSE IF buf.path = NoPath THEN ClearFlags(u, {"HOV_PENDING"})
  ELSE [u EXCEPT !.flags = (@ \ {"HOV_PENDING", "HAS_HOVE"})
                             \cup (IF some THEN {"HAS_HOVE"} ELSE {})]

-----------------------------------------------------------------------------
(* What the server is told. Without a server the messages go nowhere. *)

lsp_did_open(d, u, t) == IF running THEN [d EXCEPT ![u] = t] ELSE d

\* The text of an empty rope is no string, and the message then has no text. A
\* server ignores that, as it does a change of a document it does not hold.
lsp_did_change(d, u, t) ==
  IF running /\ t # Empty /\ d[u] # NotOpen THEN [d EXCEPT ![u] = t] ELSE d

lsp_did_close(d, u) == IF u # NoPath THEN [d EXCEPT ![u] = NotOpen] ELSE d

\* An edit of the buffer tells the server its new text.
Told(d, b) == IF b.lang /\ b.path # NoPath THEN lsp_did_change(d, b.path, b.text) ELSE d

-----------------------------------------------------------------------------
(* lsp_ui_update. *)

\* The timer runs down in this frame, or it does not.
Ticked(u, out) ==
  IF u.timer /\ out THEN [SetFlags(u, {"REQUEST_PENDING"}) EXCEPT !.timer = FALSE] ELSE u

Idle(u) == u.flags \cap {"HAS_HOVE", "REQUEST_PENDING", "VISIBLE", "HAS_SIG"} = {}

\* A pending request takes the buffer in front for its document, and opens it
\* for the server unless it was the last one. lsp_ui_set_document makes another
\* request pending.
Retargets(u) == "REQUEST_PENDING" \in u.flags /\ buf.path # NoPath

Reopens(u) == Retargets(u) /\ u.uri # buf.path /\ buf.lang

WithDocument(u) ==
  IF ~Retargets(u) THEN ClearFlags(u, {"REQUEST_PENDING"})
  ELSE IF Reopens(u) THEN [SetFlags(u, {"REQUEST_PENDING"}) EXCEPT !.uri = buf.path]
  ELSE [ClearFlags(u, {"REQUEST_PENDING"}) EXCEPT !.uri = buf.path]

\* The update without its didChange.
ResyncForgets(u, d) == IF Reopens(u) THEN lsp_did_open(d, buf.path, buf.text) ELSE d

\* The text in front is sent under the uri, whosever it is.
Resync(u, d) ==
  LET opened == IF Reopens(u) THEN lsp_did_open(d, buf.path, buf.text) ELSE d
      v == WithDocument(u)
  IN  IF v.uri = NoPath THEN opened ELSE lsp_did_change(opened, v.uri, buf.text)

UpdateOff ==
  /\ "ENABLE" \notin ui.flags
  /\ UNCHANGED <<ui, docs>>

UpdateIdle ==
  \E out \in BOOLEAN :
    /\ "ENABLE" \in ui.flags /\ Idle(Ticked(ui, out))
    /\ ui' = Ticked(ui, out)
    /\ UNCHANGED docs

UpdateEscape ==
  \E out \in BOOLEAN :
    /\ "ENABLE" \in ui.flags /\ ~Idle(Ticked(ui, out))
    /\ ui' = lsp_ui_hide(Ticked(ui, out))
    /\ UNCHANGED docs

\* Without a word before the cursor, and no character that triggers, the popup
\* is hidden and nothing else is asked. There is none in an empty text.
UpdateNoWord ==
  \E out \in BOOLEAN :
    LET u == lsp_ui_clear_completion(WithDocument(Ticked(ui, out)))
    IN  /\ "ENABLE" \in ui.flags /\ ~Idle(Ticked(ui, out))
        /\ u.uri # NoPath
        /\ ui' = lsp_ui_hide(u)
        /\ docs' = Resync(Ticked(ui, out), docs)

\* The list of the server, and of it those that match.
UpdateAsk ==
  \E out, sig, hov \in BOOLEAN, n \in 0 .. MaxItems : \E kept \in 0 .. n :
    LET u == lsp_ui_clear_completion(WithDocument(Ticked(ui, out)))
        shown == IF u.uri = NoPath THEN u ELSE ShowCompletion(u, n, kept)
    IN  /\ "ENABLE" \in ui.flags /\ ~Idle(Ticked(ui, out))
        /\ u.uri # NoPath => buf.text # Empty
        /\ ~running => n = 0 /\ ~sig /\ ~hov
        /\ ui' = WithHover(WithSignature(shown, sig), hov)
        /\ docs' = Resync(Ticked(ui, out), docs)

lsp_ui_update ==
  /\ frame = "update"
  /\ UpdateOff \/ UpdateIdle \/ UpdateEscape \/ UpdateNoWord \/ UpdateAsk
  /\ frame' = "input"
  /\ UNCHANGED <<tabs, front, running, had, held>>

\* While the exit dialog asks, the popup is hidden and there is no other input.
ConfirmExit ==
  /\ frame = "update"
  /\ ui' = lsp_ui_hide(ui)
  /\ frame' = "draw"
  /\ UNCHANGED <<tabs, front, running, docs, had, held>>

\* Ctrl+Space. The condition is the wrong way round: it is for no server.
lsp_ui_toggle ==
  /\ frame = "input"
  /\ "ENABLE" \notin ui.flags
  /\ ui' = SetFlags(ui, {"VISIBLE", "REQUEST_PENDING"})
  /\ UNCHANGED <<tabs, front, running, docs, frame, had, held>>

-----------------------------------------------------------------------------
(* Tabs: by hotkeys, and in "draw" by the prompts and the file manager, whose *)
(* frames have no other input, and by clicks while the bar is drawn.          *)

Reached == frame \in {"hotkeys", "draw"}

\* Ensure_lsp_init for a file of a language with a server: the server is
\* started once, if a project root is found. It may fail to start, and is then
\* not tried again.
Started(p, finds) ==
  IF p \in Lang /\ finds /\ ~ui.root
  THEN [lsp_ui_clear_completion(ui) EXCEPT !.flags = {"ENABLE"}, !.root = TRUE]
  ELSE ui

\* Buffer_open: the document is opened, and changed to the same text. An empty
\* file is not told of.
Opened(u, d, p, t, up) ==
  IF p \notin Lang THEN [ui |-> u, docs |-> d]
  ELSE IF t = Empty THEN [ui |-> lsp_ui_hide(u), docs |-> d]
  ELSE [ui |-> lsp_ui_hide(SetFlags([u EXCEPT !.uri = p], {"REQUEST_PENDING"})),
        docs |-> IF up THEN [d EXCEPT ![p] = t] ELSE d]

\* BufManager_newtab and BufManager_open with a file: behind the other tabs, or
\* instead of the buffer in front, which is freed first.
OpenAt(i, p, t, d) ==
  \E finds, starts \in BOOLEAN :
    LET u == Started(p, finds)
        up == running \/ (u.root # ui.root /\ starts)
        new == Opened(u, d, p, t, up)
    IN  /\ tabs' = IF i > Len(tabs) THEN Append(tabs, [path |-> p, lang |-> p \in Lang, text |-> t])
                   ELSE [tabs EXCEPT ![i] = [path |-> p, lang |-> p \in Lang, text |-> t]]
        /\ front' = i
        /\ running' = up
        /\ ui' = new.ui
        /\ docs' = new.docs

NewTab ==
  /\ Reached /\ Len(tabs) < MAX_TABS
  /\ \/ /\ frame = "draw"
        /\ \E p \in Path, t \in Text : OpenAt(Len(tabs) + 1, p, t, docs)
     \/ /\ tabs' = Append(tabs, Buffer_new)
        /\ front' = Len(tabs) + 1
        /\ UNCHANGED <<ui, running, docs>>
  /\ UNCHANGED <<frame, had, held>>

Open ==
  /\ frame = "draw"
  /\ \E p \in Path, t \in Text : OpenAt(front, p, t, lsp_did_close(docs, buf.path))
  /\ UNCHANGED <<frame, had, held>>

\* Where the buffer that the input holds is once tab i has gone.
HeldWithout(i) == IF held = i THEN 0 ELSE IF held > i THEN held - 1 ELSE held

\* A closed tab that keeps its document open.
CloseKeepsDocument ==
  /\ Reached
  /\ tabs' = IF Len(tabs) = 1 THEN <<Buffer_new>> ELSE RemoveAt(tabs, front)
  /\ front' = IF front > Len(tabs') THEN Len(tabs') ELSE front
  /\ held' = HeldWithout(front)
  /\ UNCHANGED <<ui, running, docs, frame, had>>

\* A tab in front that stays the same number when the last one goes.
CloseKeepsFront ==
  /\ Reached
  /\ tabs' = IF Len(tabs) = 1 THEN <<Buffer_new>> ELSE RemoveAt(tabs, front)
  /\ docs' = lsp_did_close(docs, buf.path)
  /\ held' = HeldWithout(front)
  /\ UNCHANGED <<front, ui, running, frame, had>>

BufManager_closetab ==
  /\ Reached
  /\ tabs' = IF Len(tabs) = 1 THEN <<Buffer_new>> ELSE RemoveAt(tabs, front)
  /\ front' = IF front > Len(tabs') THEN Len(tabs') ELSE front
  /\ docs' = lsp_did_close(docs, buf.path)
  /\ held' = HeldWithout(front)
  /\ UNCHANGED <<ui, running, frame, had>>

BufManager_switchtab ==
  /\ Reached
  /\ front' \in DOMAIN tabs \ {front}
  /\ UNCHANGED <<tabs, ui, running, docs, frame, had, held>>

-----------------------------------------------------------------------------
(* Keys. *)

\* handle_input looks at the popup once. In another mode than WRITE it does not
\* come that far.
BeginInput ==
  /\ frame = "input"
  /\ \/ frame' = "hotkeys" /\ had' = ("HAS_COMP" \in ui.flags) /\ held' = front
     \/ frame' = "draw" /\ UNCHANGED <<had, held>>
  /\ UNCHANGED <<tabs, front, ui, running, docs>>

\* The buffer of tab i has another text, which the server is told.
Edit(i, t) ==
  /\ i \in DOMAIN tabs /\ t # tabs[i].text
  /\ tabs' = [tabs EXCEPT ![i].text = t]
  /\ docs' = Told(docs, [tabs[i] EXCEPT !.text = t])

\* Undo, redo, paste, cut: the popup is left alone. These take the tab in front.
EditHotkey ==
  /\ frame = "hotkeys"
  /\ \E t \in Text : Edit(front, t)
  /\ UNCHANGED <<front, ui, running, frame, had, held>>

\* Ctrl+K.
HoverKey ==
  /\ frame = "hotkeys"
  /\ ui.flags \cap {"VISIBLE", "ENABLE"} # {}
  /\ ui' = SetFlags(ui, {"HOV_PENDING", "HAS_HOVE"})
  /\ UNCHANGED <<tabs, front, running, docs, frame, had, held>>

\* Buffer_save, under the same path or another one. The server formats the
\* document that it holds under that path.
Saved(i, p) ==
  \/ UNCHANGED docs /\ tabs' = [tabs EXCEPT ![i].path = p]
  \/ \E t \in Text :
       /\ tabs[i].lang /\ running /\ docs[p] # NotOpen
       /\ tabs' = [tabs EXCEPT ![i].path = p, ![i].text = t]
       /\ docs' = lsp_did_change(docs, p, t)

\* Ctrl+S, or the menu.
Buffer_save ==
  /\ Reached
  /\ \E i \in DOMAIN tabs :
       /\ i = IF frame = "hotkeys" THEN held ELSE front
       /\ tabs[i].path # NoPath
       /\ Saved(i, tabs[i].path)
  /\ UNCHANGED <<front, ui, running, frame, had, held>>

Buffer_save_as ==
  /\ frame = "draw"
  /\ \E p \in Path : Saved(front, p)
  /\ UNCHANGED <<front, ui, running, frame, had, held>>

\* The popup takes the key if it was there when the input began: Enter applies
\* an item, Enter and Escape hide the popup, the arrows choose.
PopupHandles ==
  /\ frame = "hotkeys" /\ had /\ ui.flags \cap {"VISIBLE", "ENABLE"} # {}
  /\ (IF ui.item_count > 0 THEN ui.item_count ELSE ui.count) > 0
  /\ \/ UNCHANGED <<tabs, ui, docs>>
     \/ UNCHANGED <<tabs, docs>> /\ ui' = lsp_ui_hide(ui)
     \/ /\ ui.filtered # "nothing" /\ ui.item_count > 0
        /\ \E t \in Text : Edit(held, t)
        /\ ui' = lsp_ui_hide(ui)
  /\ frame' = "draw" /\ had' = FALSE /\ held' = 0
  /\ UNCHANGED <<front, running>>

PopupIgnores ==
  /\ frame = "hotkeys"
  /\ frame' = "typing" /\ had' = FALSE
  /\ UNCHANGED <<tabs, front, ui, running, docs, held>>

\* A typed character changes the text, and after a letter the timer starts, a
\* space hides the popup, "(" and "," ask for the signature, ")" and ";" end it.
Type ==
  /\ frame = "typing"
  /\ \E t \in Text \ {Empty} : Edit(held, t)
  /\ \/ UNCHANGED ui
     \/ ui' = [ui EXCEPT !.timer = TRUE]
     \/ ui' = lsp_ui_hide(ui)
     \/ ui' = SetFlags(ui, {"SIG_PENDING"})
     \/ ui' = [ClearFlags(ui, {"SIG_PENDING", "HAS_SIG"}) EXCEPT !.signature = FALSE]
  /\ UNCHANGED <<front, running, frame, had, held>>

Backspace ==
  /\ frame = "typing" /\ held # 0 /\ tabs[held].text # Empty
  /\ \E t \in Text : Edit(held, t)
  /\ ui' = lsp_ui_hide(ui)
  /\ UNCHANGED <<front, running, frame, had, held>>

\* Escape ends hover text and signature. So does a move to another row, or any
\* move while a hover text is shown (SIGNATURE_HIDE).
EscapeKey ==
  /\ frame = "typing"
  /\ ui' = LET h == IF ui.flags \cap {"HAS_HOVE", "HOV_PENDING"} = {} THEN ui
                    ELSE ClearFlags(ui, {"HAS_HOVE", "HOV_PENDING"})
           IN  IF h.flags \cap {"HAS_SIG", "SIG_PENDING"} = {} THEN h
               ELSE [ClearFlags(h, {"HAS_SIG", "SIG_PENDING"}) EXCEPT !.signature = FALSE]
  /\ UNCHANGED <<tabs, front, running, docs, frame, had, held>>

\* A move that hides the signature and keeps its flag.
MoveKeepsFlag ==
  /\ frame = "typing"
  /\ ui' = [ClearFlags(ui, {"HAS_HOVE"}) EXCEPT !.signature = FALSE]
  /\ UNCHANGED <<tabs, front, running, docs, frame, had, held>>

Move ==
  /\ frame = "typing"
  /\ ui' = [ClearFlags(ui, {"HAS_SIG", "HAS_HOVE"}) EXCEPT !.signature = FALSE]
  /\ UNCHANGED <<tabs, front, running, docs, frame, had, held>>

EndInput ==
  /\ frame = "typing"
  /\ frame' = "draw" /\ held' = 0
  /\ UNCHANGED <<tabs, front, ui, running, docs, had>>

EndFrame ==
  /\ frame = "draw"
  /\ frame' = "update"
  /\ UNCHANGED <<tabs, front, ui, running, docs, had, held>>

\* The loop ends behind the drawing of a frame.
lsp_ui_shutdown ==
  /\ frame = "draw"
  /\ frame' = "exited"
  /\ ui' = IF "ENABLE" \in ui.flags THEN NoUi ELSE ui
  /\ running' = (running /\ "ENABLE" \notin ui.flags)
  /\ UNCHANGED <<tabs, front, docs, had, held>>

-----------------------------------------------------------------------------

Init ==
  /\ tabs = <<Buffer_new>> /\ front = 1
  /\ ui = NoUi
  /\ running = FALSE
  /\ docs = [p \in Path |-> NotOpen]
  /\ frame = "update" /\ had = FALSE /\ held = 0

Keys ==
  \/ EditHotkey \/ HoverKey \/ Buffer_save \/ Buffer_save_as
  \/ PopupHandles \/ PopupIgnores
  \/ Type \/ Backspace \/ EscapeKey \/ Move

Next ==
  \/ lsp_ui_update \/ ConfirmExit \/ lsp_ui_toggle
  \/ NewTab \/ Open \/ BufManager_closetab \/ BufManager_switchtab
  \/ BeginInput \/ Keys \/ EndInput \/ EndFrame \/ lsp_ui_shutdown

Spec == Init /\ [][Next]_vars

-----------------------------------------------------------------------------
(* Properties. *)

TypeOK ==
  /\ tabs \in Seq([path : Path \cup {NoPath}, lang : BOOLEAN, text : Text])
  /\ front \in DOMAIN tabs
  /\ ui \in [flags : SUBSET Flag, root : BOOLEAN, uri : Path \cup {NoPath}, timer : BOOLEAN,
             count : 0 .. MaxItems, filtered : Pointees, item_count : 0 .. MaxItems,
             signature : BOOLEAN]
  /\ running \in BOOLEAN
  /\ docs \in [Path -> Text \cup {NotOpen}]
  /\ frame \in {"update", "input", "hotkeys", "typing", "draw", "exited"}
  /\ had \in BOOLEAN
  /\ held \in 0 .. Len(tabs)

\* No freed completion is ever drawn or applied: not by the drawing
\* (render_lsp_ui.c:117), and not by Enter, which goes by what was seen of the
\* popup before all the hotkeys (navigation.c:366, :546), whatever updates, files
\* opened and keys have hidden the popup and freed the list since it was made.
Drawn == {"ENABLE", "VISIBLE", "HAS_COMP"} \subseteq ui.flags /\ ui.item_count > 0

Applicable == frame = "hotkeys" /\ had /\ ui.item_count > 0

CompletionIsLive ==
  Drawn \/ Applicable => ui.filtered = "completion" /\ ui.item_count <= ui.count

\* The popup is open only while there is a list in it: a popup without one would
\* take the arrows and Enter from the editor for nothing.
VisibleHasItems == {"ENABLE", "VISIBLE"} \subseteq ui.flags => "HAS_COMP" \in ui.flags /\ ui.count > 0

\* A signature is drawn only while there is one (render_lsp_ui.c:225 reads
\* items[active_signature] of it).
SignatureIsLive == "HAS_SIG" \in ui.flags => ui.signature

\* A list is shown only if the server computed it on the text in front, or holds
\* no such document at all: edits it was not told of are made good first.
ShownForText ==
  [][frame = "update" /\ "HAS_COMP" \in ui'.flags
       => docs'[ui'.uri] \in {NotOpen, tabs'[front'].text}]_vars

\* A step that leaves a document without a buffer closes it. Save As is the
\* exception: the old document then stays open.
HasBuffer(p) == \E i \in DOMAIN tabs : tabs[i].path = p

DocumentsFollowTabs ==
  [][Buffer_save_as \/ \A p \in Path : HasBuffer(p) /\ ~HasBuffer(p)' => docs'[p] = NotOpen]_vars

\* What the server is told of a file is the text of a buffer of that file: "only set
\* when buf->path is not empty" (lsp_client.c:219).
SentUnderOwnPath ==
  [][\A p \in Path : docs'[p] \notin {NotOpen, docs[p]}
       => \E i \in DOMAIN tabs' : tabs'[i].path = p /\ tabs'[i].text = docs'[p]]_vars
=============================================================================
