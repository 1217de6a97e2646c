# TxtEd, modelled in TLA+

TxtEd is a text editor written in C on raylib. These modules model the parts of
it in which state is kept and can go wrong: the text with its line index and
cursor, the undo history, the clipboard and saving, the tabs and the buffers
they own, the file manager and the mode that says who gets the keys, the rope
below the text, the connection to a language server and the popup in front of
it, and the threads of the git client. TLC checks them on small instances; TLAPS
proves the invariants of the text and of its history, of the tabs, of the file
manager, of the connection, of the popup and of the git threads for all constants,
that the array of tabs implements the row of tabs a user sees, and that a request
to the server keeps what it promises its caller.

Paths below are relative to the repository; line numbers of every definition
are in `PROJECT.json` under `map`.

## 1. The system

One UI thread runs the main loop (`main.c`): each frame it reads keys and
mouse, runs the handlers and draws. Two other kinds of thread exist: the reader
of the language server, and detached threads of the git client. There are no
tests and no design documents in the repository; what the code is meant to do
is stated in its (Indonesian) comments, and those are what the findings quote.

| Component | Files under `src/src/` | State | Operations | Talks to |
| --- | --- | --- | --- | --- |
| Text | `buffer/rope.c` | a tree of shared, counted nodes | `String_insert`, `String_delete`, `String_get`, split, concat, rebalance | buffer |
| Line index | `buffer/buffer.c` | sorted array of the offsets at which lines start | full scan, update at an insertion, update at a deletion | buffer, cursor |
| Undo history | `buffer/undo.c` | actions, number of applied ones, flag `is_undoing`, time of the last one | push with merging, pop for undo and redo, discard of what was undone | buffer |
| Buffer | `buffer/buffer.c` | text, index, cursor, selection, dirty flag, path, history, git lines, syntax tree | insert, delete, undo, redo, copy, cut, paste, save, open, free | all of the above, disk, LSP, git |
| Clipboard | `buffer/clipboard.c` | one text, and the system's | set, get | buffer |
| Buffer manager | `buffer/buffer_manager.c` | array of at most 7 buffer pointers, their number, the index in front, workspace | new tab, open in place, close, switch, destroy | buffer, file system, git, LSP |
| Navigation | `navigation/*.c` | none of its own; mode and prompt flags | keys and mouse to cursor and edit operations; prompts | buffer, buffer manager, LSP panels |
| Tab bar, menus, prompts, exit dialog | `render/tab.c`, `render/popup.c`, `render/confirm_exit.c` | prompt, lists of hits, `TXTED_REQ_EXIT` | clicks, items of the menus, line editor, confirm and cancel | buffer manager, navigation |
| File system | `fs/fs.c` | none | save, create, scan a project, find its root | disk |
| File manager | `fs/fs_ui.c` | tree of nodes, table of the rows shown, row selected, path loaded | expand, move, open by key or click, refresh, load | buffer manager, file system, navigation |
| Language server connection | `lsp/lsp_server.c`, `lsp/lsp_config.c` | child process, two pipes, reader thread, one pending request (id, result, flag, mutex, condition), table of diagnostics | start, four kinds of request, three kinds of notification, stop; reader loop | LSP client, server process |
| Language server client | `lsp/lsp_client.c`, `lsp/render_lsp_ui.c` | document versions, debounce timers, completion list, panels | document opened, changed, closed; ask for completion, signature, hover | connection, buffer |
| Git client and panel | `git/*.c` | branch, changed lines per buffer, push result and flag (atomics) | fetch in a detached thread, stage, commit, push in a detached thread | libgit2, buffer |
| Drawing | `render/{render,layout,status,notification}.c`, `settings/theme.c` | timers, rectangles | draw | all |
| Syntax highlighting | `lsp/syntax_highlight.c` | syntax tree of a buffer | parse after every edit; indentation behind an opening character | tree-sitter |
| Settings, matching, results | `settings/settings.c`, `helper/{matches,result}.c` | values of an ini file | read once; score a label | navigation |
| Vendored | `helper/cJSON.c`, generated C grammar, raygui, headers | - | - | - |

### What is hard, and what makes each part correct

* **Text, index, history.** The line index is never rebuilt after a file is
  opened: every edit updates it in place. Undo and redo replay edits at recorded
  offsets, through the same functions the keyboard uses, on a text that they do
  not always restore exactly. Correct means: the index is what a scan would
  give; the cursor lies in the text and on a row of the index; no stored offset
  lies behind the end; the history, replayed, explains the text; a text that
  differs from its file is marked dirty.
* **Tabs.** An array of owning pointers, shifted on closing and freed from four
  places, with prompts that act on whatever tab is in front when Enter is
  pressed. Correct means: tabs and allocated buffers correspond one to one, the
  tabs keep their order, the right one comes to the front, and unsaved changes
  are dropped only where the user is told.
* **Language server.** A request made by the UI thread waits, holding and
  releasing a mutex, for at most a second, while the answer may come late, never,
  for an older request, with an error, or be cut off by a crash of the server.
  Correct means: a request returns once, with its own answer or none, leaves
  nothing behind for the next, and the stop ends unless the server cannot write.
* **Rope.** Every edit splits and joins trees that share their nodes with the
  tree before; a count too low frees a piece of the text edits later, a weight
  too low reads the wrong piece. Correct means: the tree holds the text, no node
  of it is freed, lengths and weights are right, the tree stays low.
* **The popup.** Flags, list and an array of pointers into the list are set and
  cleared in seven places, some of them between two keys of one frame, and the
  document the list is asked for is remembered apart from the buffer in front.
  Correct means: no freed item is drawn or applied, the popup is open only with
  items, which the server computed on the text in front, and the server is told
  of each file what its buffers hold.
* **Git.** Detached threads fill an array of the buffer while edits move its
  entries, with no lock; a push reports through two atomics that the UI thread
  polls. Correct means: no access outside the array, every unedited line keeps
  the mark and, where blame is of the same row, the author git gives it, one push at a time, every result shown once and for the
  push it belongs to.
* **File manager and modes.** The file manager keeps the row that is selected,
  not the node, and reads keys, loads the tree and reads clicks at three places of
  a frame, while prompts drawn later free the tree under the table of rows. Mode
  (write, popup, file manager), prompts, menus and panels are separate flags,
  set in a dozen places. Correct means: a key acts on the node that the user
  chose as long as its tree is loaded, what was just created is listed, and mode POPUP has a window to leave
  it by. Several keys may come in one frame: `LspClient` has those.

`PROJECT.json` lists each hazard with its line, and which property covers it.

## 2. The modules

```
LineIndex      UndoStack                     LspCall            TabBar
      |  \            /                          |  (implemented by)  |
    Text  TextBuffer ----- TextUndo          LspRequests             Tabs
      |       |              |    |             |                    |
    Rope  MCTextBuffer       |    |          LspRequestsProofs  TabsProofs
      |          \           |    |
      |           MCTextUndo-+  TextBufferProofs
      |
      +--- MCRope, RopeProofs

LspClient          GitPush          GitGutter -- MCGitGutter    FileManager -- MCFileManager
    |                 |                 |                            |
LspClientProofs    GitPushProofs    GitGutterProofs            FileManagerProofs
```

**LineIndex** is the text as a sequence of characters, with the rope's three
operations, and the line index. Offsets are the code's 0-based ones. The sorted
array `lines.offset` is represented by the set of its entries, row `y` being its
`y`-th smallest one; `line_index_insert_newlines` and
`line_index_delete_range` are the in-place updates, `LineIndex_insert` the scan.

**UndoStack** is `undo.c` as pure operators on a record: `Undo_push` with its
three ways to merge, `Undo_pop`, `Redo_pop`, `Undo_discard_redo`. The clock
enters as one Boolean, `recent`: was the last action recorded less than 500 ms
ago. `Pacing` gives the values it may take; it is free at every edit, which
covers every timing.

**TextBuffer** is one buffer of a file that no language server serves. `buf` is
the `Buffer` struct; `Buffer_insert`, `Buffer_delete`, `Buffer_undo` and
`Buffer_redo` are operators from struct to struct, composed from those of the
two modules above exactly in the order of the code, the clamping of the cursor
(`Sync`) included. Each handler of `navigation.c` is an action: typing,
auto-paired brackets, Enter with its indentation, Backspace, undo, redo, Escape,
copy, cut, paste, the moves with and without shift, jumps, start and end of
line, press, drag, wheel, search hit, save and save as. The environment is one
action, another application's copy. The row is named by the offset at which its
line starts instead of its number, which makes row and offset comparable. The
wheel may move the cursor's row to any line, which includes what the window's
height and scroll offset would allow.

**TextUndo** is `TextBuffer` with one history variable, `restored`: every undo and
redo so far undid or redid the whole of its action. It becomes FALSE where
`Buffer_undo` takes back an insertion of several characters, or `Buffer_redo`
repeats a deletion of several, since both then delete one.

**Rope** is `rope.c`, function by function. The functions change nodes in place,
and so are operators from heap to heap; `heap` maps addresses to nodes with
`len`, `weight`, children and `ref_count`, `root` is `Buffer.str`. Splitting,
sharing, counting, building and rebalancing are the code's, in its order. A step is
one `String_insert` or `String_delete`, of any text at any place. An address is never
allocated twice, so that whoever still uses a node that was freed is seen; the
program gets the memory again, but what it does differs only if it does use it. So a
node comes after its children, and the code's recursion goes down the addresses,
which makes it a recursive function over `0 .. n`. Counts are unsigned in the code,
and the empty rope is born with count 0: the release that takes it below 0 makes it
`Wrap - 1`. A count that has grown to 2^32 is left out. **MCRope** bounds the texts.
No function of the rope looks at a character, so its pieces consist of characters
that the text does not yet have: a text whose characters all differ shows every
loss, repetition and exchange. **Text** is what the rope promises: the two operations of `LineIndex`
on a plain sequence, which `TextBuffer` builds on.

**Tabs** is the buffer manager and everything that calls it. `buf`, `num_tabs`
and `active_idx` are its fields, 0-based; `heap` says which `Buffer` structs
are allocated and holds of each the path, the text (a value) and the dirty flag.
A `free` is an entry that becomes `NULL`, a `calloc` an entry that was `NULL`.
`prompt`, `req_exit` and `exited` are the flags that guard operations. The exit
dialog does not disable the mouse on tabs and menus in the code, and so not here.

**TabBar** is what the row of tabs promises, independent of arrays and pointers:
a sequence of documents that no action reorders, one in front.

**FileManager** is `fs_ui.c` with the keys, menus, prompts and panels that move
the focus. A frame is a round of phases in the order of `main.c`: input, then of
`draw_file_manager` the collecting of rows, the keys, the loading of the tree and
the click, then the top bar, the Git panel and the prompt. `fm_root` is the tree:
its root, `kids` for the children of each directory that is loaded, `open` for
`is_expanded`; `visible` is `g_visible_nodes`, `selected` the index into it. A
path is the sequence of the ranks of its names among their siblings, so that
`file_node_cmp` is the order in which rows are drawn. A node is its path while it
lives, `Freed` after; memory of a freed node may be that of a new one, so a
comparison with it may go either way (`PositionOf`). Any row may be under the
mouse, which stands for the scroll offset. The prompts are New file, New folder,
Save (which stands for Save As too), Open file and Search; Save makes a file by the
same `Fs_create` as New file, and with it frees the tree. Other programs create and
remove the paths in `Outside` between frames, and may remove the working directory
when it is empty (`cwd`): `getcwd` then fails, and New file and New folder return
before they set the mode, while Enter has hidden the prompt. `chosen`, `created` and
`lost` are history. `chosen` is the node the user moved or clicked to since the tree
was loaded; it is `NULL` in a new tree, and `Unknown` after a click on a row that the
table did not show, of which the code may select any. `created` is what the prompts
made, and `lost` says that Enter closed a prompt and nobody set the mode.

**LspRequests** has the UI thread, the reader thread and the server process as
three interleaved processes. `ui` says where the UI thread is: `init` and
`relock` are the two halves of `lsp_start`'s request, `send` a request that is
about to be written while `pending_mutex` is held, `check` the test of the `while`
around `pthread_cond_timedwait`, `wait` the wait itself, `shutdown` to `stopped`
the steps of `lsp_stop` and the closing of documents after it. `reader`
says where `reader_func` is. A pipe is a bounded queue of messages; writing to a
full one blocks, writing to a dead server raises SIGPIPE, which the code does not
handle (`killed`). The server is external: it answers in any order, late, never,
with an error, sends notifications, may send requests of its own (`ServerIds`),
and may crash.

**LspCall** is what a request promises its caller.

**LspClient** is `lsp_client.c` and what keys, tabs and buffers do to it. `ui` is
`g_lsp_ui`: its flags, the uri, whether the debounce timer runs, the number of
completions (`count`), what the pointers in `filtered` point to and the number of
items shown. How long the array is does not appear: it is doubled at most once
(`lsp_client.c:302`), nothing bounds the list, and what a list of more than twice
its length overwrites is undefined. `frame` is where the main loop is in a
frame: the update, the input (hotkeys, then typing) and the drawing, during
which clicks, prompts and the file manager act. `had` and `held` are the locals
`has_comp` and `buf` of `handle_input`, which are read once before the hotkeys
and used after them. `docs` is what the server holds of each file. The answers of
the server are external: any list up to `MaxItems`, any part of which matches
the word. That a request may fail is an empty list (`LspRequests` has the rest).

**GitPush** has the UI thread's frame and the detached threads of the pushes as
interleaved processes; each step is one access to one of the two atomics
`g_push_in_progress` and `g_push_result`. `outcome`, `started` and `reported` are
history: how each push ended, how many there were, which was reported last.

**GitGutter** has one buffer's array `line_git`, the UI thread's edits, which
move, mark and clear its entries, and the threads that reset, mark and blame it,
one entry per step. `lines` says of each row which row of the file it was, which
is what the entries ought to follow. `file` is what git knows: the hunks of the
diff and the number of rows of HEAD. The code goes through the blame of HEAD and writes
it to the rows of the same number (`BlameRow`); which row of HEAD a row of the file
really is, is `HeadRow`, counted from the hunks and used by the property alone.
**MCGitGutter** has six such files.

## 3. The runs

| Run | Specification | Checks | Size |
| --- | --- | --- | --- |
| `text_edit` | `EditSpec` | `TypeOK`, `LineIndexMirrorsText`, `CursorInText`, `UnsavedIsDirty` | 210,576 states |
| `text_undo` | `SmallUndoSpec` | `StoredOffsetsStayInText`, `HistoryFitsText`, `UndoneHistoryExplainsText` | 340,900 states |
| `tabs` | `Tabs!Spec` | `TypeOK`, `TabsHoldBuffers`, `ImplementsTabBar`, `UnsavedIsKept` | 422,584 states |
| `file_manager` | `FileManager!Spec` | `TypeOK`, `SelectionIsChosen`, `CreatedIsListed`, `PopupHasWindow`, no deadlock | 4,483,756 states |
| `lsp_requests` | `LspRequests!Spec` | `TypeOK`, `NothingPendingBetweenRequests`, `ResponseIsAnswer`, `ImplementsCall`, `StopReturns`, no deadlock | 228,267 states |
| `rope` | `SmallSpec` of `MCRope` | `TypeOK`, `GetReturnsPiece`, `CountsCoverReferences`, `WeightsMeasure`, `HeightBounded`, `ImplementsText` | 4,111 states |
| `lsp_client` | `LspClient!Spec` | `TypeOK`, `CompletionIsLive`, `VisibleHasItems`, `SignatureIsLive`, `ShownForText`, `DocumentsFollowTabs` | 738,015 states |
| `git_push` | `GitPush!Spec` | `TypeOK`, `FlagMeansPushing`, `ReportIsNews`, `PushIsReported` | 3,379 states |
| `git_gutter` | `GitGutter!Spec` | `TypeOK`, `AccessesInBounds`, `GutterFollowsLines`, no deadlock | 380,665 states |

* **The text runs.** The full state of a buffer with history, clipboard and disk
  is too large for one run, so each run has the actions its properties depend on
  and a `VIEW` that hides what none of its actions reads (`EditView`: the history,
  and of the file all but whether it holds the text; `UndoView`: dirty flag, column,
  the anchor of no selection). A text of 3 characters has up to four lines, empty
  lines, a last line with and without newline, and room for an edit at every
  place relative to them; 2 actions of up to
  3 characters, typed fast and slow, are enough for every merge, for an undo
  followed by a new edit, and for the replay of an action on a text that another
  undo left too long. `MaxLen` and `MaxActs` bound text and history.
  `IndentWidth` is 1 for the code's 4, `MaxIndent` 1 or 0 for 200, `JumpRows` 2 for
  5, so that the limits are met. In `text_undo`, `UndoneHistoryExplainsText` is
  about the states in which `restored` is TRUE: undo of a longer insertion does not
  restore the text, which is the finding `undo_typing` and would violate
  `HistoryExplainsText` for that reason alone. After such an undo the other two
  properties still hold. The run's steps that neither undo nor redo are those of
  `SmallUndoNext`; the theorems are about all of them (`UndoSpec`).
* **`file_manager`.** A directory with two files in it, and a file beside it: four rows
  for a table of two (`MAX_VISIBLE`, 1024 in the code), so that rows beyond the table
  are drawn and clicked. There are two rows in the tree of the directory and two in the
  collapsed tree of everything, so that a number left over from the tree before, by a
  refresh or by a file that sets the workspace, would point to another node. The file
  beside the directory also comes and goes by other programs, and so may the working
  directory once it is empty. A frame takes a key or a click of every kind, and the keys
  that move and enter also together with a click on a row; other pairs act on disjoint
  state. The view sees key and click only as far as a later phase goes by them, and of
  `created` what the tree does not list yet: what it lists it keeps, and what is loaded
  later is loaded from a disk that has all of it (`TypeOK`).
* **`tabs`.** Three tabs for the code's seven: closing the first, a middle and the
  last tab, a full bar, and the single tab that is emptied instead of closed all
  occur. Four buffers are one more than there are tabs, so that a replacement may
  get other memory than what it frees, or the same. One file and two texts tell
  unsaved from saved. The editor really stops here (`exited`), so
  deadlock is not checked; nor in the text runs, where the bounds stop it.
* **`lsp_requests`.** Three ids: the one of "initialize", and two requests so that
  the answer to the first can meet the wait for the second; `lsp_stop` takes a
  further id. The server's stdin holds one message, so writes to it do block. Its
  stdout holds three: fewer than the answers and the two notifications (`MaxNotes`
  bounds what it sends unasked) that may be waiting when the editor stops, so that
  the stop does meet a server that is writing into a full pipe. It is enough for the
  answers that can be on their way while a request is written; with less, a request
  hangs, which is the run `lsp_blocked`. The server may crash at any moment.
  `StopReturns` says that `lsp_stop` ends unless `OutputJammed` holds from some time
  on: `running` is FALSE, the reader exits without draining the pipe, the server never
  gets to read "exit", and `waitpid` (`lsp_server.c:1199`) has no time limit. That does
  happen in the run, and ends only if the server is killed.
* **`rope`.** Leaves of two characters for the code's 1024, so that pieces of up to
  five need one, two or three leaves and splits fall inside and between leaves.
  Texts of up to `Dense` characters are edited everywhere; longer ones, up to
  `MaxLen`, grow and shrink at their end, which is what typing does and what makes
  a tree of ten levels, so that rebalancing happens (`NeverRebalance`, the mutant,
  is caught). The view is the shape of the tree: it leaves out addresses,
  characters, and how far above 1 a count is, since counts only grow by leaks.
  The bounds stop it, so deadlock is not checked.
* **`lsp_client`.** Two tabs (closing one of two, the single tab that is emptied, a
  file next to an untitled buffer, one file in both tabs), one file of a language
  with a server, two texts besides the empty one, lists of up to two items. The editor stops here (`exited`).
* **`git_push`.** Three pushes: one that is reported, one whose result meets the
  start of the next, and that next one. The program may be left at any time.
* **`git_gutter`.** Two threads, as the first file that is opened gets one from
  `BufManager_set_workspace` and one from `BufManager_newtab`; files without
  changes, untracked, with an inserted, a changed and a deleted line, and with an
  insertion above a deletion, below which rows and rows of HEAD agree again; texts of up to
  four lines in an array of two (64 in the code), so that it grows. The view leaves
  out entries once `exact` is FALSE, except for what the threads test. The threads
  are symmetric.

### Findings

Three runs each check one statement that a comment of the code makes, and that
TLC finds violated by what the code does.

| Run | Statement | What happens |
| --- | --- | --- |
| `undo_typing` | undoing an insertion deletes the inserted text (`buffer.c:839`) | one character is deleted, whatever was inserted |
| `lsp_blocked` | a request takes one second at most (`lsp_server.c:262`) | UI thread, reader and server wait for one another, and the clock has not started |
| `lsp_wrong_document` | a document's uri is set only from a buffer with a path (`lsp_client.c:219`) | it is left as it was instead, and the text of an untitled tab is sent under it |

Other places where the models do what the code does, and a stricter property
would fail, are in the notes of the hazards in `PROJECT.json`: `fwrite` whose
result is ignored (add `"short"` to `SaveOutcomes` of `text_edit`), requests
of the server's own that count as answers (`ServerIds` of `lsp_requests`), a
column clamped behind the newline, `Fs_create` on a file that exists, completion
lists of more than twice the array's capacity, a stop that waits for a server whose
output nobody reads (`OutputJammed`). A search that Enter ends without
a match leaves mode POPUP with no window, and so do New file and New folder in a
working directory that was removed (`lost`): the keys are dead until a menu is
clicked. Blame is of HEAD and is copied by row number, although the comment at
`git_client.c:630` speaks of author and time of the last commit of each line:
below an uncommitted insertion or deletion a line is shown with another line's
author (`GutterFollowsLines` without `HeadRow(r) = r` fails). In an empty directory `g_visible_count > 0` guards Escape and
Ctrl+arrow too, so that only the mouse leaves the file manager (`HasKeys`). A
click on a row beyond the table acts on it but leaves the selection where it was.
Of "New file" that fails, the directories it made stay unlisted.

### Fairness

`LspRequests` and `GitPush` have liveness properties. The fairness of
`LspRequests` is that both threads are
scheduled (`WF` of `Proceed` and `ReaderNext`), time passes (`WF` of `Expire`:
the deadline is an absolute time, and a spurious wake-up does not move it), and
the server goes on reading and writing (`SF` of `ServerRead`, because between
two reads it may always have something else to write first; `WF` of
`ServerWrite`). The server need not answer, and nothing obliges the user to act.
`lsp_blocked` refutes `RequestReturns` under that same fairness. `GitPush` has
`WF` of `UiFrame`, since the main loop draws frame after frame whatever the user
does, and `WF` of the two stores of each thread, which nothing can block; a push
itself need not end, and the user may leave. `PushIsReported` excepts the frame
in which another push is clicked: `GitPopup_push_async` then overwrites the
result before it was polled. The other specifications are driven by the user
alone, who need not do anything, or are about data, so they have no fairness and
their properties are safety.

## 4. What is proved

All proofs are checked by TLAPS with no step left open.

**`TextBufferProofs`** proves of `TextBuffer!Spec`, for every alphabet, text,
bound and number of rows: `TypeCorrect`, `IndexMirrors`
(`LineIndexMirrorsText`), `CursorStays` (`CursorInText`) and `OffsetsStay`
(`StoredOffsetsStayInText`). These are one induction. The invariant is `IInv`:
the buffer is `Good`, and clipboard and disk are texts. A buffer is `Sound` when
it is well typed, the index is the scan, and the cursor is in the text; it is
`Good` when in addition no undo is going on and `HistoryFits`. The last part is
what makes the rest inductive. Undo and redo insert at offsets recorded in the
past; that these lie in the text cannot follow from the text having been
restored, because it is not (undo of an insertion and redo of a deletion remove
one character only). But they only ever remove too little. So there is a
sequence `size[0..n]` of the sizes which the text would have had by the
recorded actions, each action finds its place in a text of its size, and the real
text is at least as long as `size[current]`. `HistoryFits` says that such a
sequence exists, `PushFits`, `UndoFits` and `RedoFits` that pushing (with merges
and discarded redos), undoing and redoing keep it so. Everything else is one
lemma per operation (`DeleteSound`, `InsertSound`, `UndoGood`, `RedoGood`, ...)
and one step per action. `HistoryFitsAlways` (`HistoryFitsText`) names the sizes
whose existence `HistoryFits` states: two sizes that follow one another differ by
the length of the action between them, so they are those that a recursive function
adds up from the first action on (`FitsIsFitsText`).
`UnsavedStaysDirty` (`UnsavedIsDirty`) is a second induction: every step either
marks the buffer dirty or leaves text, flag, file and path alone (`Kept`), or is a
save. It needs `DiskHonest`: the disk stores all of a text or refuses the file. With
a partial write, which `Fs_savefile` does not notice, it does not hold.

`HistoryExplains` (`UndoneHistoryExplainsText`) is a third induction, about
`TextUndo!UndoSpec`. While `restored` holds there is a sequence of texts, from the
one opened through the present one to the last that redo can reach, in which each
action leads from one text to the next (`PassesThrough`, `Explains`). It must
include the texts ahead of the present one, since redo goes there. Undo and redo
move along the sequence. A new edit drops what is ahead and adds one text at the
end, and a merge replaces the last one: that is correct because two insertions
that meet are one insertion, and two deletions that meet are one deletion
(`MergedDoes`, from `InsertBehind` and `InsertBefore`). The
handlers that delete and insert in one go, as Enter, a pair of brackets and a
paste over a selection do, are sequences of these (`InsertTells`,
`DeleteTells`). That the recursive function of `HistoryExplainsText` gives the
text of such a sequence is an induction over the actions done (`TellsExplains`).

Both functions are recursive over `0 .. n`. The induction for them is `UpTo`,
stated of a set instead of a predicate and derived from the minimum that a well-founded
order gives every set.

The module begins with the lemmas on which this rests: what insertion and
deletion do to each character, that the two in-place updates of the index
give the scan of the new text (`InsertStarts`, `DeleteStarts`), that rows and
their ends lie in the text (`RowExists`, `LineEndBounds`), that a deletion takes
back an insertion and an insertion a deletion (`InsertDeleted`, `DeleteInserted`).

**`RopeProofs`** proves all six properties of `rope` of `Rope!Spec`, for every
alphabet, size of leaves and wrap and for texts of any length: `TypeCorrect`,
`CountsAreSafe` (`CountsCoverReferences`), `WeightsAreRight` (`WeightsMeasure`),
`HeightIsBounded` (`HeightBounded`), `GetIsExact` (`GetReturnsPiece`) and
`RopeIsText` (`ImplementsText`), the refinement. They rest on one invariant,
`IInv` (`Invariant`). An operation holds up to six references of its own while it
runs (the root, both parts of a split, the new tree, a joined tree), and lets them go one by
one. That counts cover the references from nodes and from the buffer is true only
between operations; what is true at every call is `Held(heap, E)`: every allocated
node is well formed (`Formed`), and its count is at least the number of references
from nodes plus `E[n]`, the references that whoever called owes back. Each function has
one lemma that says what it does to `E`: `String_retain` and the makers add one
(`Retained`, `LeafMade`, `Joined`), `String_release` takes one away (`Released`,
`ReleaseKeeps`), `String_split` adds both parts (`SplitKeeps`), and so on. In
`Good`, the buffer is owed one reference to `root`; to the empty rope, which has
count 0, none, so its release wraps around and frees nothing (`ReleasedEmpty`,
`EmptyStays`). `String_insert` never releases the tree that joins left part and new
text: its reference is owed by nobody, and the invariant allows that (`OweDrop`).

That nothing is lost follows from `Agree`: an operation frees nodes and counts
them, but never changes the text, length or children of one that stays, so a node
that somebody still refers to holds the text it held (`SameTree`, `OweStays`). With
it `SplitKeeps` says that the two parts hold the text before the offset and the text
from it on, `BuildKeeps` and `RebalanceKeeps` that a rebuild holds the same text,
`InsertKeeps` and `DeleteKeeps` that the new root holds the text of `Text`'s
operation, from which come the refinement and, with `Lengths`, the weights.
`HeightBounded` is part of the invariant as `Low`, since an edit that changes
nothing must keep it; a rebuilt tree has it because the halves of `LowParent` differ by
one leaf at most (`BuiltLow`), any other because `String_rebalance` has tested it.

Every recursion here is down the addresses, the leaves that remain or the
characters that remain. The induction is `FromBelow`, stated of a set, which is
derived from well-foundedness; that such a recursive function exists at all is shown
for each (`HeightAt`, `LeavesAt`, `FlatAt` and the steps of `String_split`,
`String_release`, `String_collect`, `make_leaves`).

**`TabsProofs`** proves `TypeCorrect`, `TabsHold` (`TabsHoldBuffers`),
`ImplementsTabs` (`ImplementsTabBar`) and `UnsavedStays` (`UnsavedIsKept`) for every
capacity and every set of buffers, files and texts. `TypeOK /\ TabsHoldBuffers` is inductive as it
stands. Each operation of the buffer manager has one lemma that it keeps tabs
and heap together and one that it is a step of `TabBar`, under the mapping
`docs[k] = buf[k - 1]`, `front = active_idx + 1`, `closed = exited`. For
`UnsavedStays`, memory that a step takes over was free or belonged to the buffer
that gives way (`SwappedDrops`), so only that buffer's flag matters.

**`LspRequestsProofs`** proves `TypeCorrect`, `NothingPending`
(`NothingPendingBetweenRequests`), `CallsAreAnswered` and `ResponsesAreAnswers`
(`ResponseIsAnswer`) for any number of requests and notifications, any size of
pipe and any ids the server may use. The invariant of the first three is `IInv`:
the values are of their kinds, what travels in each pipe is what that side
writes (`Traffic`), and `Pending`: while the UI thread is in a request,
`pending_id` is that request's id and the result is its own or none; outside
both are empty. That the reader compares ids under the mutex, and that the
caller clears both fields before it lets go of the mutex, is what keeps
`Pending`. `CallsAreAnswered` is the initial state and the step simulation of
`LspCall`, where `calling` is the id while the UI thread is `InRequest`, and stays
it when the editor is killed there; the fairness of `LspCall` is not part of it.
`ResponsesAreAnswers` needs to know in addition where each id is: `AnswerInv`
says that an id is in one stage at a time (on the way to the server, held by it,
on the way back), at most once in the pipe to the server, and that an id not
yet written is nowhere. It holds under `ServerIds = {}` only, the server sending no
requests. That is no weakness of the proof: the reader takes any message with the
awaited id for the answer, also a request of the server's own, and `lsp_requests`
finds that violation as soon as `ServerIds` holds the id of a request.

**`GitPushProofs`** proves `TypeCorrect`, `FlagIsRight` (`FlagMeansPushing`) and
`ReportsAreNews` (`ReportIsNews`) for any number of pushes. `IInv` adds to the
three properties that the flag is what the UI thread has just set while it is
`AboutToCreate` a thread, that threads are numbered in the order of their start
(`Numbered`), and `News`: a result that lies in the atomic unreported is that of
the newest thread, which has stored it and was not reported. The last is what
fails if a thread cleared the flag before it stores the result, since the next
push could then start and have its result preceded by an old one.

**`LspClientProofs`** proves all six properties of `lsp_client`: `TypeCorrect`,
`CompletionStaysLive` (`CompletionIsLive`), `VisiblePopupHasItems`
(`VisibleHasItems`), `SignatureStaysLive` (`SignatureIsLive`), `ListShownForText` (`ShownForText`) and `DocumentsClosed`
(`DocumentsFollowTabs`), for any number of tabs, files, texts and items. `IInv` adds
`PopupInv` and `Seen` to the types. `PopupInv` ties the flags to the data: with
`HAS_COMP` the list is allocated and not empty, and the popup open;
an open popup has `HAS_COMP`. An update clears only a part of this before it asks the
server, so the lemmas on its steps go through what holds in between (`Cleared`).
`Seen` is what `handle_input` relies on while it goes through the hotkeys with what
it saw before them: if there was a list then, there still is one.

**`GitGutterProofs`** proves `TypeCorrect`, `AccessesStayInBounds`
(`AccessesInBounds`) and `GutterFollows` (`GutterFollowsLines`) for every set of
files and any number of threads. `IInv` adds
`Stamped`: a thread between its two writes to one row of a hunk is at a row of the
array, since the array may grow in between but never shrinks. The test before the
first write is not repeated before the second.

`GutterFollows` has an invariant of its own, `Shown`, which needs what the property
leaves open: what the entries say while threads still run. Until an edit comes
the text is the file's, and of each row of the file `StatusSays` and `BlameSays`
state what is true once every thread has been past it. A mark may be cleared again
by a thread that is still resetting, a time that one thread took from a
commit may be overwritten by another that found the field empty before; each time
the thread that spoils an entry is one that still has that row before it, and
will set it right. The mark for lines that are gone is written only over no
mark, so it also needs that such a row never has another (first part of
`StatusSays`). Each kind of step moves one thread past one row, or past one hunk
(`InHunk`, `NextInDiff`), and leaves the rest (`RowStays`). When the last thread is
done (`Arrived`) the entries are those of `Fetched`; from then on the threads
never write again, and an edit moves entries and lines by the same numbers
(`InsertFollows`, `DeleteFollows`). `Fetched` is what the threads leave, blame by row
number included; that this is the truth for the mark of every row, and for author and
time of the rows the property speaks of, is `FetchedIsTrue`. Diffs enter by the
assumption `HunksOfDiffs`: no line is in two hunks, lines are counted from 1, and no
hunk says nothing.

**`FileManagerProofs`** proves `PopupAlwaysHasWindow` (`PopupHasWindow`),
`CreatedAlwaysListed` (`CreatedIsListed`), `SelectionStaysChosen`
(`SelectionIsChosen`) and `TypeCorrect` for every tree of paths and every size of
the table. The first is inductive as it stands: each of the places that set the
mode sets the flag of its window in the same step. It has `lost` for the two ways
in which Enter hides a prompt and nobody gives the keys back. For the second, `TreeInv` adds
the types of the tree and that rows are only there with a tree: a directory
is loaded from the disk as a whole, so it lists what was created before, and what is
created afterwards frees the tree. For the third, the code keeps the number of a row
while rows are collected anew in each frame. `SelectionInv` says that the chosen
node is on the selected row of the rows as they would be collected now
(`Listing`), at any moment of the frame, and that without a choice the number is 0 as
soon as there are rows: a tree that was freed has none, so the collecting before the
next load of the root sets the number to 0, and a new workspace does so itself
(`MovedToFirstRow`). Only expanding and collapsing change
these rows without forgetting the choice. `file_node_cmp` is a strict total order
(`CmpTransitive`, `CmpTotal`), so the number of the nodes drawn before a node is its
row (`BeforeNumbers`, `CutRows`); a directory is drawn before what is in it
(`PrefixFirst`), so toggling it leaves the nodes before it and their number as
they were (`SameBefore`, `ToggleKeepsPlace`).

The assumptions are the named ones of the modules: the special characters are
different characters of the alphabet (`CharsAreChars`, `NLIsChar`), texts are
sequences over it (`TextsAreTexts`), sizes are naturals (`NumbersAreNumbers`),
`Pacing` is Boolean (`PacingIsBoolean`), there is room for a tab (`TabsFit`), and
`NULL` and `NoFile` are none of the values they are told apart from (`NotNull`,
`EmptyIsText`), the pipes hold a message
(`Bounds`), ids are naturals (`IdsAreNumbers`), and so is the number of pushes
(`PushesAreCounted`) and the longest list of completions (`Lists`), an empty text is a text, `NoPath` is no path and `NotOpen` no
text (`Names`), paths are sequences of ranks whose parents are directories
(`PathsAreRanks`, `PathsAreTree`), `NULL` and `Freed` are no paths
(`NullIsNoValue`) and `Unknown` is neither (`UnknownIsNoValue`), a leaf has room for a character and an unsigned has two values
(`Sizes`), `Freed` is no node (`FreedIsNoNode`), the table of rows has a row (`SomeVisible`), a
frame takes a key and a click (`InputsAreKeysAndClicks`), a file and the array
`line_git` have a row (`FilesAreFiles`, `SizesAreSizes`), and hunks are those of a
diff (`HunksOfDiffs`).

**Model-checked only.** That a request returns when the server answers or time
passes (the fairness of `LspCall` in `ImplementsCall`), `StopReturns` and
`PushIsReported` are liveness, which is out of the prover's reach. Every other
invariant and action property of a passing run is proved.

## 5. What is not modelled

* Running out of memory; fixed buffers of 255 and 1024 characters for lines and
  paths; tabs drawn as four columns; multi-byte keys, which the code cuts to one byte.
* Window, scroll offset, drawing, themes, settings, matching, notifications.
* In `TextBuffer`, what a language server contributes: formatting on save edits
  past the undo history. `LspClient` has formatting as a change of the text.
* Diagnostics: the reader replaces lists that the UI thread draws without the
  lock, so what it sees is undefined. Version numbers of documents. The contents
  of messages and the parsing of their headers. In `LspClient`, a server that
  crashes (in `LspRequests` it does).
* The line index as an array that is moved with `memmove` and doubled.
* Between one thread's `realloc` of `line_git` and the other's next load of the
  pointer, and after a buffer is closed under its threads, the code writes to
  freed memory: undefined, and left out of `GitGutter`. So are several rows that
  one thread writes while the other reads half of an entry.
* The mode, except in `FileManager`. Handlers that the mode guards may happen at any
  time in `Tabs`, which allows more than the code does and so cannot hide a violation
  of its safety properties.
* In `FileManager`: the exit and the Help dialog, several keys in one frame, a working
  directory that is made again under its old name, and
  project roots above the directory the editor was started in.
* Several keys in one frame, except in `LspClient`, and uses of a buffer after it
  was freed within one handler (listed as hazards).
* A search hit of one buffer applied to another (a hazard; `TextBuffer` has one).
* Files that fail to open or write in `Tabs` (they do fail in `TextBuffer`).
* Of git: staging, committing, the status and the branch, which are calls of
  libgit2 that the UI thread waits for; the text of the last error.
* Syntax highlighting, which hands the text to tree-sitter after each edit.
* Vendored code: the generated C grammar, cJSON, raygui and the headers of
  libgit2 and tree-sitter, which are more than nine tenths of the lines of the
  repository.

## 6. Plan

In this order; the first twelve exist.

1. `TextBuffer` with its proofs: the text is the editor's purpose.
2. `Tabs` over `TabBar`: ownership of buffers, loss of unsaved changes.
3. `LspRequests` over `LspCall`: the requests to the server, with locks and pipes.
4. `LspRequestsProofs`: nothing left behind by a request, and the safety part of
   `LspCall`, for every number of ids and every size of pipe.
5. `Rope` over `Text`: the tree of shared nodes below the text.
6. `LspClient`: the popup and the documents, with several keys per frame.
7. `GitPush` with its proofs: two atomics between two threads.
8. `GitGutter`: threads that write into a buffer that is edited.
9. Proofs of the safety properties of `LspClient`, of `AccessesInBounds`, of
   `UnsavedIsKept` and of `UnsavedIsDirty`.
10. `FileManager` with its proofs: a selection kept by row, and the mode that says
    who gets the keys.
11. Proofs of `GutterFollowsLines`, whose invariant is what each thread has done so
    far to each row, and of what the history tells of the text.
12. `RopeProofs`: the tree as functions without `RECURSIVE`, and its six properties.
13. `LineIndexArray`: the sorted array with its `memmove`, refining the set of
    `LineIndex`.
14. `Dialogs`: hits of one buffer applied to another, the exit dialog over a menu
    that still edits; `Diagnostics`.
