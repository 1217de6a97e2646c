-------------------------------- MODULE Tabs --------------------------------
(***************************************************************************)
(* The buffer manager (buffer_manager.c) and what opens, saves and closes  *)
(* its tabs: the keys of navigation.c, the prompts and menus of            *)
(* nav_utils.c and tab.c, the file manager (fs_ui.c), and the end of the   *)
(* main loop (main.c).                                                     *)
(*                                                                         *)
(* buf, num_tabs and active_idx are the fields of BufManager, 0-based as   *)
(* in the code; heap says which Buffer structs are allocated, and what     *)
(* they hold.  A text is a value; what is inside one is TextBuffer's       *)
(* matter, and files are read and written here without failures.  One      *)
(* frame takes one key or click.                                           *)
(***************************************************************************)
EXTENDS Integers, FiniteSets

CONSTANTS
  MAX_TABS,   \* capacity of the array (the code: 7)
  BufId,      \* addresses of Buffer structs
  NULL,       \* the null pointer; in heap, memory that is not allocated
  File,       \* full paths
  NoFile,     \* no path: an untitled buffer, a file that does not exist
  Text, Empty

ASSUME TabsFit == MAX_TABS \in Nat \ {0}
ASSUME NotNull == NULL \notin BufId /\ NULL \notin [file : File \cup {NoFile},
                                                    text : Text, dirty : BOOLEAN]
ASSUME EmptyIsText == Empty \in Text /\ NoFile \notin Text /\ NoFile \notin File

VARIABLES
  buf,          \* the array of pointers
  num_tabs,
  active_idx,
  heap,
  disk,         \* the content of every file, or NoFile
  prompt,       \* the prompt that is shown: "none", "open", "new" or "save"
  req_exit,     \* TXTED_REQ_EXIT: the exit dialog is shown
  exited

tabVars == <<buf, num_tabs, active_idx>>
uiVars == <<prompt, req_exit, exited>>
vars == <<buf, num_tabs, active_idx, heap, disk, prompt, req_exit, exited>>

Slot == 0 .. MAX_TABS - 1
BufferType == [file : File \cup {NoFile}, text : Text, dirty : BOOLEAN]

-----------------------------------------------------------------------------
(* Buffers. *)

Buffer_new == [file |-> NoFile, text |-> Empty, dirty |-> FALSE]

\* A file that cannot be opened gives an untitled buffer.
Buffer_open(f, content) ==
  IF f = NoFile \/ content[f] = NoFile THEN Buffer_new
  ELSE [file |-> f, text |-> content[f], dirty |-> FALSE]

\* calloc: b is not in use once freed is.
IsFresh(b, freed) == heap[b] = NULL \/ b = freed

\* The heap when freed is released and holds is stored at b.
Swapped(freed, b, holds) ==
  [a \in BufId |-> IF a = b THEN holds ELSE IF a = freed THEN NULL ELSE heap[a]]

-----------------------------------------------------------------------------
(* The operations of the buffer manager. *)

BufManager_getactive == buf[active_idx]

\* A tab that is opened without regard to how many there are.
NewTabUnguarded(holds) ==
  \E b \in BufId :
    /\ IsFresh(b, NULL)
    /\ heap' = Swapped(NULL, b, holds)
    /\ buf' = [i \in Slot |-> IF i = num_tabs THEN b ELSE buf[i]]
    /\ active_idx' = num_tabs
    /\ num_tabs' = num_tabs + 1

\* With all tabs taken nothing is opened.
BufManager_newtab(holds) ==
  \/ num_tabs >= MAX_TABS /\ UNCHANGED <<tabVars, heap>>
  \/ /\ num_tabs < MAX_TABS
     /\ \E b \in BufId :
          /\ IsFresh(b, NULL)
          /\ heap' = Swapped(NULL, b, holds)
          /\ buf' = [buf EXCEPT ![num_tabs] = b]
     /\ active_idx' = num_tabs
     /\ num_tabs' = num_tabs + 1

\* The buffer in front gives way, saved or not.
BufManager_open(holds) ==
  /\ \E b \in BufId :
       /\ IsFresh(b, BufManager_getactive)
       /\ heap' = Swapped(BufManager_getactive, b, holds)
       /\ buf' = [buf EXCEPT ![active_idx] = b]
  /\ UNCHANGED <<num_tabs, active_idx>>

\* A shift that starts one slot late.
ShiftedLate(idx) ==
  [i \in Slot |-> IF i > idx /\ i < num_tabs - 1 THEN buf[i + 1]
                  ELSE IF i = num_tabs - 1 THEN NULL ELSE buf[i]]

\* The loop that closes the gap at idx, and the last slot cleared.
Shifted(idx) ==
  [i \in Slot |-> IF i >= idx /\ i < num_tabs - 1 THEN buf[i + 1]
                  ELSE IF i = num_tabs - 1 THEN NULL ELSE buf[i]]

\* Closing tab idx, which is in front by then; the last tab is never closed but
\* emptied.
BufManager_closetab(idx) ==
  \/ /\ num_tabs = 1
     /\ \E b \in BufId :
          /\ IsFresh(b, buf[idx])
          /\ heap' = Swapped(buf[idx], b, Buffer_new)
          /\ buf' = [buf EXCEPT ![0] = b]
     /\ active_idx' = 0
     /\ UNCHANGED num_tabs
  \/ /\ num_tabs > 1
     /\ heap' = [heap EXCEPT ![buf[idx]] = NULL]
     /\ buf' = Shifted(idx)
     /\ num_tabs' = num_tabs - 1
     /\ active_idx' = IF idx >= num_tabs - 1 THEN num_tabs - 2 ELSE idx

BufManager_checkdirty ==
  Cardinality({i \in 0 .. num_tabs - 1 : heap[buf[i]].dirty})

-----------------------------------------------------------------------------
(* Keys and clicks. The keys are dead while the exit dialog is shown. While a    *)
(* prompt is shown they are dead, too, unless a click has set the mode back to   *)
(* WRITE; menu bar, tabs and file manager take clicks all the time.              *)

\* Typing, or an item of the Edit menu, which the dialog does not cover.
Edit ==
  /\ \E t \in Text :
       heap' = [heap EXCEPT ![BufManager_getactive].text = t,
                            ![BufManager_getactive].dirty = TRUE]
  /\ UNCHANGED <<tabVars, disk, uiVars>>

\* Ctrl+T, or the button "+".
NewTab ==
  /\ BufManager_newtab(Buffer_new)
  /\ UNCHANGED <<disk, uiVars>>

\* Ctrl+Shift+W
ForceClose ==
  /\ ~req_exit
  /\ BufManager_closetab(active_idx)
  /\ UNCHANGED <<disk, uiVars>>

\* Ctrl+W closes the tab in front, a click on the button of a tab brings that tab
\* to the front first. A buffer with unsaved changes stays open.
Nav_close_tab(idx) ==
  /\ \/ heap[buf[idx]].dirty /\ active_idx' = idx /\ UNCHANGED <<buf, num_tabs, heap>>
     \/ ~heap[buf[idx]].dirty /\ BufManager_closetab(idx)
  /\ UNCHANGED <<disk, uiVars>>

\* Ctrl+Tab and Ctrl+Shift+Tab stop at the ends.
BufManager_switchtab ==
  /\ ~req_exit /\ num_tabs > 1
  /\ active_idx' \in {active_idx - 1, active_idx + 1} \cap (0 .. num_tabs - 1)
  /\ UNCHANGED <<buf, num_tabs, heap, disk, uiVars>>

ClickTab ==
  /\ active_idx' \in 0 .. num_tabs - 1
  /\ UNCHANGED <<buf, num_tabs, heap, disk, uiVars>>

-----------------------------------------------------------------------------
(* Files. *)

\* A file manager that opens in place, saved or not.
OpenInPlace(f) ==
  /\ BufManager_open(Buffer_open(f, disk))
  /\ UNCHANGED <<disk, uiVars>>

\* A key or a menu item opens a prompt, also over another one. "save" is the prompt
\* of Ctrl+S on an untitled buffer, and of Ctrl+Shift+S.
prompt_ui_config ==
  /\ prompt' \in {"open", "new", "save"}
  /\ UNCHANGED <<tabVars, heap, disk, req_exit, exited>>

\* Escape
CancelPrompt ==
  /\ prompt # "none"
  /\ prompt' = "none"
  /\ UNCHANGED <<tabVars, heap, disk, req_exit, exited>>

\* FloatPrompt_execute acts on the buffer in front, whatever was in front when the
\* prompt was opened: the tabs can be clicked while it is shown.
FloatPrompt_execute(type) ==
  /\ prompt = type
  /\ prompt' = "none"
  /\ UNCHANGED <<req_exit, exited>>

\* Enter or a click in the file manager: unsaved changes keep their tab.
OpenInFileManager(f) ==
  /\ IF heap[BufManager_getactive].dirty
     THEN BufManager_newtab(Buffer_open(f, disk))
     ELSE BufManager_open(Buffer_open(f, disk))
  /\ UNCHANGED <<disk, uiVars>>

\* The prompt "Open file"
Nav_open_file(f) ==
  /\ FloatPrompt_execute("open")
  /\ BufManager_open(Buffer_open(f, disk))
  /\ UNCHANGED disk

\* The prompt "New file". Fs_create truncates a file that exists.
Nav_create_new_file(f) ==
  /\ FloatPrompt_execute("new")
  /\ disk' = [disk EXCEPT ![f] = Empty]
  /\ BufManager_newtab(Buffer_open(f, disk'))

\* Buffer_save to path f: an empty text is not written, and stays dirty.
SaveTo(f, created) ==
  LET b == heap[BufManager_getactive]
  IN  /\ heap' = [heap EXCEPT ![BufManager_getactive] =
                    [b EXCEPT !.file = f, !.dirty = @ /\ b.text = Empty]]
      /\ disk' = [disk EXCEPT ![f] = IF b.text # Empty THEN b.text
                                     ELSE IF created THEN Empty ELSE @]
      /\ UNCHANGED tabVars

\* Ctrl+S, or "Save File" of the menu.
Save ==
  /\ heap[BufManager_getactive].file # NoFile
  /\ SaveTo(heap[BufManager_getactive].file, FALSE)
  /\ UNCHANGED uiVars

\* The prompt for a file name. Fs_create truncates here, too.
Nav_save_as(f) ==
  /\ FloatPrompt_execute("save")
  /\ SaveTo(f, TRUE)

-----------------------------------------------------------------------------
(* Leaving the editor. *)

\* Ctrl+Q
Nav_exit ==
  /\ BufManager_checkdirty = 0
  /\ req_exit' = TRUE
  /\ UNCHANGED <<tabVars, heap, disk, prompt, exited>>

\* Ctrl+Shift+Q
ForceExit ==
  /\ ~req_exit
  /\ req_exit' = TRUE
  /\ UNCHANGED <<tabVars, heap, disk, prompt, exited>>

CancelExit ==
  /\ req_exit
  /\ req_exit' = FALSE
  /\ UNCHANGED <<tabVars, heap, disk, prompt, exited>>

\* The loop ends when the dialog is confirmed or the window is closed, and every
\* buffer is freed (BufManager_destroy).
Quit ==
  /\ exited' = TRUE
  /\ heap' = [b \in BufId |-> IF \E i \in 0 .. num_tabs - 1 : buf[i] = b THEN NULL ELSE heap[b]]
  /\ buf' = [i \in Slot |-> IF i < num_tabs THEN NULL ELSE buf[i]]
  /\ num_tabs' = 0 /\ active_idx' = -1
  /\ UNCHANGED <<disk, prompt, req_exit>>

-----------------------------------------------------------------------------
\* The first tab: the file named on the command line, or an untitled buffer.
Init ==
  /\ disk \in [File -> Text \cup {NoFile}]
  /\ \E b \in BufId, f \in File \cup {NoFile} :
       /\ heap = [a \in BufId |-> IF a = b THEN Buffer_open(f, disk) ELSE NULL]
       /\ buf = [i \in Slot |-> IF i = 0 THEN b ELSE NULL]
  /\ num_tabs = 1 /\ active_idx = 0
  /\ prompt = "none" /\ req_exit = FALSE /\ exited = FALSE

Next ==
  /\ ~exited
  /\ \/ Edit
     \/ NewTab
     \/ ForceClose
     \/ \E idx \in 0 .. num_tabs - 1 : Nav_close_tab(idx)
     \/ BufManager_switchtab
     \/ ClickTab
     \/ prompt_ui_config
     \/ CancelPrompt
     \/ \E f \in File :
          OpenInFileManager(f) \/ Nav_open_file(f) \/ Nav_create_new_file(f) \/ Nav_save_as(f)
     \/ Save
     \/ Nav_exit
     \/ ForceExit
     \/ CancelExit
     \/ Quit

Spec == Init /\ [][Next]_vars

-----------------------------------------------------------------------------
(* Properties. *)

TypeOK ==
  /\ buf \in [Slot -> BufId \cup {NULL}]
  /\ num_tabs \in 0 .. MAX_TABS
  /\ active_idx \in -1 .. num_tabs - 1
  /\ heap \in [BufId -> BufferType \cup {NULL}]
  /\ disk \in [File -> Text \cup {NoFile}]
  /\ prompt \in {"none", "open", "new", "save"}
  /\ req_exit \in BOOLEAN /\ exited \in BOOLEAN

\* The first num_tabs slots hold the allocated buffers, each exactly once, and
\* while the editor runs one of them is in front: no buffer is leaked, freed twice
\* or used after it was freed, through any order of openings, replacements and
\* closings (newtab, open, closetab and destroy of buffer_manager.c).
TabsHoldBuffers ==
  /\ \A i \in Slot : IF i < num_tabs THEN buf[i] # NULL ELSE buf[i] = NULL
  /\ \A i, j \in Slot : i # j /\ buf[i] # NULL => buf[i] # buf[j]
  /\ \A b \in BufId : heap[b] # NULL <=> \E i \in Slot : buf[i] = b
  /\ ~exited => active_idx >= 0

\* The array behaves as the row of tabs that the user sees: closing a tab keeps
\* the order of the others and brings the right one to the front (the shift and
\* the correction of active_idx in BufManager_closetab).
Row == INSTANCE TabBar WITH
  Doc     <- BufId,
  MaxDocs <- MAX_TABS,
  docs    <- [k \in 1 .. num_tabs |-> buf[k - 1]],
  front   <- active_idx + 1,
  closed  <- exited
ImplementsTabBar == Row!Spec

\* Unsaved changes are dropped only where the user is told so or asked for it: by
\* Ctrl+Shift+W, by leaving the editor, and by the prompt "Open file" (the checks
\* of BUF_IS_DIRTY in Nav_close_tab and in fs_ui.c).
UnsavedIsKept ==
  [][\A b \in BufId :
       heap[b] # NULL /\ heap[b].dirty /\ heap'[b] # heap[b]
         /\ (heap'[b] = NULL \/ ~heap'[b].dirty)
       => \/ ForceClose \/ Quit \/ Save
          \/ \E f \in File : Nav_open_file(f) \/ Nav_save_as(f)]_vars
=============================================================================
