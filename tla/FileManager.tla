---------------------------- MODULE FileManager ----------------------------
(***************************************************************************)
(* The file manager (fs_ui.c) and the focus mode that says who gets the    *)
(* keys: the keys and clicks of navigation.c, the menus of tab.c, the      *)
(* prompts of popup.c and nav_utils.c, and the Git panel's open and close. *)
(*                                                                         *)
(* A frame of the main loop is a round of phases in the order of main.c:   *)
(* handle_input, the parts of draw_file_manager, the top bar, the windows  *)
(* on top.  It takes at most one key and one click.  Buffers and tabs are  *)
(* Tabs's matter; the exit and the Help dialog are left out.               *)
(*                                                                         *)
(* A path is the sequence of the ranks of its names in the order of        *)
(* file_node_cmp among their siblings, and <<>> is the directory the       *)
(* editor was started in, below which every file is.  Once that is gone    *)
(* nothing can be made in it, nor by its name another in its place.        *)
(***************************************************************************)
EXTENDS Integers, FiniteSets, Sequences, SequencesExt

CONSTANTS
  Dir, File,    \* the paths a directory or a file may have
  Outside,      \* the paths that other programs create and remove
  Input,        \* what one frame may take: a key and a click
  MAX_VISIBLE,  \* size of g_visible_nodes (the code: 1024)
  NULL, Freed,  \* no path; what is left of a node that was freed
  Unknown       \* a node clicked on that the table of rows did not show

ASSUME PathsAreRanks == Dir \cup File \subseteq Seq(Nat) /\ IsFiniteSet(Dir \cup File)
ASSUME PathsAreTree ==
  /\ Dir \cap File = {} /\ <<>> \notin Dir \cup File
  /\ \A p \in Dir \cup File : Front(p) \in Dir \cup {<<>>}
  /\ Outside \subseteq Dir \cup File
ASSUME SomeVisible == MAX_VISIBLE \in Nat \ {0}

Path == Dir \cup File

\* A root, the children of the directories that are loaded, those expanded.
Tree == [root : Path \cup {<<>>}, open : SUBSET Dir,
         kids : UNION {[D -> SUBSET Path] : D \in SUBSET (Dir \cup {<<>>})}]

ASSUME NullIsNoValue == NULL \notin Path \cup {<<>>} \cup Tree /\ Freed \notin Path
ASSUME UnknownIsNoValue == Unknown \notin Path \cup {NULL}

VARIABLES
  disk,         \* the paths that exist
  cwd,          \* the working directory exists: getcwd finds it
  path_root,    \* the workspace, or NULL
  mode, show_fm, active_menu, prompt,
  show_git,
  fm_root,      \* the tree, or NULL
  loaded_root,  \* g_loaded_root_path, NULL for ""
  visible, selected,
  phase, key, click,
  chosen,       \* the node the user last moved or clicked to since the tree was
                \* loaded, NULL if there is none
  created,      \* what New file, New folder and Save have made
  lost          \* a prompt was closed by Enter and nobody set the mode

treeVars == <<fm_root, loaded_root>>
listVars == <<visible, selected, chosen>>
windowVars == <<prompt, show_git, lost>>
diskVars == <<disk, cwd>>
vars == <<diskVars, path_root, mode, show_fm, active_menu, windowVars, treeVars,
          listVars, phase, key, click, created>>

PanelKey == {"none", "down", "up", "enter", "escape", "to_editor"}
Key == PanelKey \cup
       {"ctrl_f", "to_panel", "ctrl_n", "ctrl_p", "ctrl_s", "ctrl_o", "ctrl_b", "ctrl_g"}
Click == {"none", "bar", "panel", "editor"}   \* the part of the window

ASSUME InputsAreKeysAndClicks == Input \subseteq [key : Key, click : Click]

-----------------------------------------------------------------------------
(* The tree. *)

Entries(dir) == {p \in disk : Front(p) = dir}
Above(p) == {d \in Dir : IsStrictPrefix(d, p)}

\* A directory that is gone has no children; a root that is none is not loaded.
FileNode_build(root) ==
  [root |-> root, open |-> {},
   kids |-> [d \in {root} \cap ((Dir \cap disk) \cup {<<>>}) |-> Entries(d)]]

Nodes == IF fm_root = NULL THEN {}
         ELSE UNION {fm_root.kids[d] : d \in DOMAIN fm_root.kids}

\* p is drawn above q: a directory above what is in it, siblings by rank.
file_node_cmp(p, q) ==
  \E k \in DOMAIN q :
    /\ \A j \in 1 .. k - 1 : j \in DOMAIN p /\ p[j] = q[j]
    /\ k \in DOMAIN p => p[k] < q[k]

\* The rows that are drawn: the nodes all of whose parents are expanded.
Rows ==
  LET shown == {n \in Nodes : \A d \in Above(n) \cap Nodes : d \in fm_root.open}
  IN  [i \in 1 .. Cardinality(shown) |->
         CHOOSE n \in shown : Cardinality({m \in shown : file_node_cmp(m, n)}) = i - 1]

\* Rows collected without regard to the size of the table.
CollectUnbounded == Rows

collect_visible_nodes ==
  IF Len(Rows) <= MAX_VISIBLE THEN Rows ELSE SubSeq(Rows, 1, MAX_VISIBLE)

\* The children of a directory are loaded once.
FileNode_load_children(kids, dir) ==
  [d \in DOMAIN kids \cup {dir} |-> IF d \in DOMAIN kids THEN kids[d] ELSE Entries(d)]

Toggle(dir) ==
  /\ fm_root' =
       IF dir \in fm_root.open THEN [fm_root EXCEPT !.open = @ \ {dir}]
       ELSE [fm_root EXCEPT !.open = @ \cup {dir},
                            !.kids = FileNode_load_children(@, dir)]
  /\ UNCHANGED loaded_root

Dangling == [i \in DOMAIN visible |-> Freed]

\* A refresh that leaves it to the comparison of paths to load the tree again.
RefreshKeepsTree == loaded_root' = NULL /\ UNCHANGED <<fm_root, listVars>>

\* The tree is built anew, and collapsed, when the file manager is drawn next:
\* what was chosen in the old one is forgotten.
file_manager_refresh ==
  /\ fm_root' = NULL /\ loaded_root' = NULL
  /\ visible' = IF fm_root = NULL THEN visible ELSE Dangling
  /\ chosen' = NULL
  /\ UNCHANGED selected

\* A file that is opened sets the workspace once: a directory above it, or the
\* path itself if there is no such file. With all tabs taken nothing is opened.
OpenFile(f, on) ==
  path_root' \in
    IF path_root # NULL THEN {path_root}
    ELSE {NULL} \cup IF f \in on THEN Above(f) \cup {<<>>} ELSE {f}

-----------------------------------------------------------------------------
(* Keys and clicks of the editor. *)

prompt_ui_config(type) ==
  prompt' = type /\ mode' = "POPUP" /\ UNCHANGED <<show_fm, show_git>>

Nav_show_fm ==
  /\ show_fm' = ~show_fm
  /\ mode' = IF show_fm THEN "WRITE" ELSE "FILE_MANAGER"
  /\ UNCHANGED <<prompt, show_git>>

GitPopup_open ==
  show_git' = "opened" /\ mode' = "POPUP" /\ UNCHANGED <<prompt, show_fm>>

\* Closing that leaves the mode to its caller, as the function GitPopup_close does.
CloseWithoutMode == show_git' = "no" /\ UNCHANGED mode

GitPopup_close == show_git' = "no" /\ mode' = "WRITE"

\* Update_navigation_click: the mode the keys of this frame are read in.
ClickedMode(at) ==
  IF mode = "POPUP" THEN mode
  ELSE IF ~show_fm THEN "WRITE"
  ELSE CASE at = "panel" -> "FILE_MANAGER"
         [] at = "editor" -> "WRITE"
         [] OTHER -> mode

\* handle_input in mode WRITE.
WriteKey(k) ==
  CASE k = "ctrl_f" -> Nav_show_fm
    [] k = "ctrl_n" -> prompt_ui_config("new")
    [] k = "ctrl_p" -> prompt_ui_config("folder")
    [] k = "ctrl_s" -> prompt_ui_config("save")
    [] k = "ctrl_o" -> prompt_ui_config("open")
    [] k = "ctrl_b" -> prompt_ui_config("search")
    [] k = "ctrl_g" -> GitPopup_open
    [] OTHER ->
         /\ mode' = IF k \in {"to_panel", "to_editor"} /\ show_fm
                    THEN "FILE_MANAGER" ELSE "WRITE"
         /\ UNCHANGED <<show_fm, prompt, show_git>>

\* A click on a menu comes without a key in the same frame.
handle_input ==
  /\ phase = "input"
  /\ \E in \in Input :
       /\ in.key = "none" \/ in.click = "none" \/ ~active_menu
       /\ key' = IF in.key \in PanelKey THEN in.key ELSE "none"
       /\ click' = in.click
       /\ IF ClickedMode(in.click) = "WRITE" THEN WriteKey(in.key)
          ELSE mode' = ClickedMode(in.click) /\ UNCHANGED <<show_fm, prompt, show_git>>
  /\ lost' = (lost /\ mode = "POPUP" /\ prompt = "none" /\ show_git = "no")
  /\ phase' = "collect"
  /\ UNCHANGED <<diskVars, path_root, active_menu, treeVars, listVars, created>>

-----------------------------------------------------------------------------
(* draw_file_manager. *)

CollectRows ==
  /\ phase = "collect"
  /\ \/ ~show_fm /\ phase' = "bar" /\ UNCHANGED listVars
     \/ /\ show_fm /\ phase' = "keys"
        /\ visible' = collect_visible_nodes
        /\ selected' = IF Len(visible') = 0 THEN 0
                       ELSE IF selected >= Len(visible') THEN Len(visible') - 1
                       ELSE selected
        /\ UNCHANGED chosen
  /\ UNCHANGED <<diskVars, path_root, mode, show_fm, active_menu, windowVars,
                 treeVars, key, click, created>>

MoveTo(i) ==
  /\ selected' = i /\ chosen' = visible[i + 1]
  /\ UNCHANGED <<visible, treeVars, mode, show_fm, path_root>>

\* Enter, Space or a click on a node.
Activate(n) ==
  \/ n \in Dir /\ Toggle(n) /\ UNCHANGED <<mode, path_root>>
  \/ n \in File /\ OpenFile(n, disk) /\ mode' = "WRITE" /\ UNCHANGED treeVars

HasKeys == mode = "FILE_MANAGER" /\ ~active_menu /\ Len(visible) > 0

PanelKeys ==
  /\ phase = "keys" /\ phase' = "load"
  /\ \/ HasKeys /\ key = "down" /\ selected < Len(visible) - 1 /\ MoveTo(selected + 1)
     \/ HasKeys /\ key = "up" /\ selected > 0 /\ MoveTo(selected - 1)
     \/ /\ HasKeys /\ key = "enter"
        /\ Activate(visible[selected + 1])
        /\ UNCHANGED <<listVars, show_fm>>
     \/ /\ HasKeys /\ key = "escape"
        /\ mode' = "WRITE" /\ show_fm' = FALSE
        /\ UNCHANGED <<listVars, treeVars, path_root>>
     \/ /\ HasKeys /\ key = "to_editor"
        /\ mode' = "WRITE"
        /\ UNCHANGED <<listVars, treeVars, show_fm, path_root>>
     \/ /\ \/ ~HasKeys \/ key = "none"
           \/ key = "down" /\ selected >= Len(visible) - 1
           \/ key = "up" /\ selected = 0
        /\ UNCHANGED <<listVars, treeVars, mode, show_fm, path_root>>
  /\ UNCHANGED <<diskVars, active_menu, windowVars, key, click, created>>

\* A new workspace that leaves the selected row where it is.
MovedKeepsRow == UNCHANGED selected

MovedToFirstRow == selected' = 0

\* The tree follows the workspace, and without one the working directory, if that
\* is there.  Only the first case sets the selected row.
LoadRoot ==
  /\ phase = "load" /\ phase' = "click"
  /\ LET moved == path_root # NULL /\ loaded_root # path_root
         root == IF moved THEN path_root ELSE <<>>
     IN  IF moved \/ (fm_root = NULL /\ cwd)
         THEN /\ fm_root' = FileNode_build(root) /\ loaded_root' = root
              /\ IF moved THEN MovedToFirstRow ELSE UNCHANGED selected
              /\ visible' = IF fm_root = NULL THEN visible ELSE Dangling
              /\ chosen' = NULL
         ELSE UNCHANGED <<treeVars, listVars>>
  /\ UNCHANGED <<diskVars, path_root, mode, show_fm, active_menu, windowVars, key,
                 click, created>>

\* The position of n in g_visible_nodes; memory of a freed node may be the
\* memory of n now, so any position may compare equal.
PositionOf(n) ==
  {i \in DOMAIN visible : visible[i] \in {n, Freed}}

\* The node is found in the table of rows and becomes the selected one.
Select(n) ==
  \/ \E i \in PositionOf(n) : selected' = i - 1
  \/ n \notin ToSet(visible) /\ UNCHANGED selected

\* The table shows the row that was clicked if the rows have not changed in this
\* frame and the row is within the table; otherwise the code may select any row.
Chosen(n) ==
  IF n \in ToSet(visible) /\ visible = collect_visible_nodes THEN n ELSE Unknown

\* A click is looked at while the rows are drawn, whoever has the keys.
ClickRow ==
  /\ phase = "click" /\ phase' = "bar"
  /\ \/ /\ show_fm /\ click = "panel" /\ ~active_menu
        /\ \E r \in DOMAIN Rows :
             Select(Rows[r]) /\ chosen' = Chosen(Rows[r]) /\ Activate(Rows[r])
        /\ UNCHANGED visible
     \/ UNCHANGED <<listVars, treeVars, mode, path_root>>
  /\ UNCHANGED <<diskVars, show_fm, active_menu, windowVars, key, click, created>>

-----------------------------------------------------------------------------
(* What is drawn later: menus, Git panel, prompts. *)

MenuItem ==
  \/ \E type \in {"new", "folder", "save", "open"} : prompt_ui_config(type)
  \/ Nav_show_fm \/ GitPopup_open
  \/ UNCHANGED <<mode, show_fm, prompt, show_git>>

\* A click on the bar opens and closes a menu or hits a tab; below the bar it hits
\* an item, the frame of the menu, or closes it.
draw_all_top_bar ==
  /\ phase = "bar" /\ phase' = "git"
  /\ \/ /\ click = "bar" /\ active_menu' \in BOOLEAN
        /\ UNCHANGED <<mode, show_fm, prompt, show_git>>
     \/ /\ active_menu /\ click \in {"panel", "editor"}
        /\ \/ active_menu' = FALSE /\ MenuItem
           \/ UNCHANGED <<active_menu, mode, show_fm, prompt, show_git>>
     \/ /\ ~(active_menu /\ click \in {"panel", "editor"}) /\ click # "bar"
        /\ UNCHANGED <<active_menu, mode, show_fm, prompt, show_git>>
  /\ UNCHANGED <<diskVars, path_root, lost, treeVars, listVars, key, click, created>>

\* Escape closes the Git panel, and so does a click on its button or beside it,
\* except for the first click after it was opened.
draw_gitpopup ==
  /\ phase = "git" /\ phase' = "prompt"
  /\ \/ show_git # "no" /\ key = "escape" /\ GitPopup_close
     \/ show_git = "shown" /\ click # "none" /\ GitPopup_close
     \/ /\ show_git = "no" \/ key # "escape"
        /\ show_git' = IF show_git = "opened" /\ click # "none" THEN "shown" ELSE show_git
        /\ UNCHANGED mode
  /\ UNCHANGED <<diskVars, path_root, show_fm, active_menu, prompt, lost, treeVars,
                 listVars, key, click, created>>

\* The directories above the file are made first, and stay without a word to the
\* file manager when the file cannot be made.
Fs_create(f) ==
  /\ cwd
  /\ disk' = disk \cup Above(f) \cup {f}
  /\ created' = created \cup (disk' \ disk) \cup {f}
  /\ file_manager_refresh

Fs_create_fails ==
  /\ \/ cwd /\ \E p \in Path : disk' = disk \cup Above(p)
     \/ UNCHANGED disk
  /\ UNCHANGED <<created, treeVars, listVars>>

\* Without a working directory nobody sets the mode.
NoDirectory ==
  /\ ~cwd /\ lost' = TRUE
  /\ UNCHANGED <<disk, path_root, mode, treeVars, listVars, created>>

Nav_create_new_file ==
  \/ NoDirectory
  \/ /\ cwd /\ mode' = "WRITE" /\ UNCHANGED lost
     /\ \/ \E f \in File : Fs_create(f) /\ OpenFile(f, disk')
        \/ Fs_create_fails /\ UNCHANGED path_root

\* mkdir, or its failure.
Nav_create_folder ==
  \/ NoDirectory
  \/ /\ cwd /\ mode' = "WRITE" /\ UNCHANGED <<path_root, lost>>
     /\ \/ \E d \in Dir \ disk :
             /\ Above(d) \subseteq disk
             /\ disk' = disk \cup {d} /\ created' = created \cup {d}
        \/ UNCHANGED <<disk, created>>
     /\ file_manager_refresh

\* Save of a text without a file, and Save As.
Nav_save ==
  /\ mode' = "WRITE" /\ UNCHANGED <<path_root, lost>>
  /\ (\E f \in File : Fs_create(f)) \/ Fs_create_fails

Nav_open_file ==
  /\ mode' = "WRITE" /\ \E f \in File : OpenFile(f, disk)
  /\ UNCHANGED <<disk, lost, treeVars, listVars, created>>

\* With a match the editor jumps to it; without one nobody sets the mode.
SearchEntered ==
  /\ \/ mode' = "WRITE" /\ UNCHANGED lost
     \/ lost' = TRUE /\ UNCHANGED mode
  /\ UNCHANGED <<disk, path_root, treeVars, listVars, created>>

FloatPrompt_execute ==
  \/ prompt = "new" /\ Nav_create_new_file
  \/ prompt = "folder" /\ Nav_create_folder
  \/ prompt = "save" /\ Nav_save
  \/ prompt = "open" /\ Nav_open_file
  \/ prompt = "search" /\ SearchEntered

draw_prompt_ui ==
  /\ phase = "prompt" /\ phase' = "input"
  /\ key' = "none" /\ click' = "none"
  /\ \/ /\ key = "enter" /\ prompt # "none"
        /\ prompt' = "none" /\ FloatPrompt_execute
     \/ /\ key = "escape" /\ prompt # "none"
        /\ prompt' = "none" /\ mode' = "WRITE"
        /\ UNCHANGED <<disk, path_root, lost, treeVars, listVars, created>>
     \/ /\ key \notin {"enter", "escape"} \/ prompt = "none"
        /\ UNCHANGED <<disk, path_root, mode, prompt, lost, treeVars, listVars, created>>
  /\ UNCHANGED <<cwd, show_fm, active_menu, show_git>>

\* Another program creates or removes something between two frames, or removes
\* the working directory when it is empty.
OtherProgram ==
  /\ phase = "input"
  /\ \/ \E p \in Outside :
          /\ \/ /\ cwd /\ p \notin disk /\ Above(p) \subseteq disk
                /\ disk' = disk \cup {p}
             \/ /\ p \in disk /\ Entries(p) = {}
                /\ disk' = disk \ {p}
          /\ UNCHANGED cwd
     \/ /\ cwd /\ disk = {}
        /\ cwd' = FALSE /\ UNCHANGED disk
  /\ created' = created \cap disk'
  /\ UNCHANGED <<path_root, mode, show_fm, active_menu, windowVars, treeVars,
                 listVars, phase, key, click>>

-----------------------------------------------------------------------------

\* Started without a file, or with one.
Init ==
  /\ disk \in {D \in SUBSET Path : \A p \in D : Above(p) \subseteq D}
  /\ cwd = TRUE
  /\ path_root \in {NULL, <<>>} \cup Path
  /\ mode = "WRITE" /\ show_fm = FALSE /\ active_menu = FALSE
  /\ prompt = "none" /\ show_git = "no" /\ lost = FALSE
  /\ fm_root = NULL /\ loaded_root = NULL
  /\ visible = <<>> /\ selected = 0 /\ chosen = NULL
  /\ phase = "input" /\ key = "none" /\ click = "none"
  /\ created = {}

Next ==
  \/ handle_input \/ CollectRows \/ PanelKeys \/ LoadRoot \/ ClickRow
  \/ draw_all_top_bar \/ draw_gitpopup \/ draw_prompt_ui \/ OtherProgram

Spec == Init /\ [][Next]_vars

-----------------------------------------------------------------------------

TypeOK ==
  /\ disk \subseteq Path /\ created \subseteq disk
  /\ path_root \in {NULL, <<>>} \cup Path
  /\ loaded_root \in {NULL, <<>>} \cup Path
  /\ mode \in {"WRITE", "FILE_MANAGER", "POPUP"}
  /\ {cwd, show_fm, active_menu, lost} \subseteq BOOLEAN
  /\ show_git \in {"no", "opened", "shown"}
  /\ prompt \in {"none", "new", "folder", "save", "open", "search"}
  /\ fm_root \in Tree \cup {NULL}
  /\ fm_root # NULL => /\ fm_root.root = loaded_root
                       /\ fm_root.open \subseteq DOMAIN fm_root.kids
  /\ visible \in Seq(Path \cup {Freed}) /\ selected \in Nat
  /\ Len(visible) <= MAX_VISIBLE
  /\ phase \in {"input", "collect", "keys", "load", "click", "bar", "git", "prompt"}
  /\ key \in PanelKey /\ click \in Click
  /\ chosen \in Path \cup {NULL, Unknown}

\* The key of a frame acts on a node that is in the tree: on the one the user moved
\* or clicked to since the tree was loaded, and if there is none on the first.  The
\* code keeps no node but a row number, while rows are collected anew in every frame
\* from a tree that is expanded, collapsed and freed.  Loading a tree anew (a
\* refresh, a new workspace) does forget the choice, and must then not leave its
\* number to another node.  Excepted is the time after a click on a row that the
\* table did not show (Unknown), until the user moves or the tree is loaded anew.
SelectionIsChosen ==
  phase = "keys" =>
    /\ ToSet(visible) \subseteq Nodes
    /\ chosen = NULL => selected = 0
    /\ chosen \in Path => selected < Len(visible) /\ visible[selected + 1] = chosen

\* What New file, New folder and Save made is listed in every directory that is
\* loaded.
CreatedIsListed ==
  fm_root # NULL =>
    \A p \in created : Front(p) \in DOMAIN fm_root.kids => p \in fm_root.kids[Front(p)]

\* Who sets the mode to POPUP shows a window, and who closes the last window gives
\* the keys back, with two exceptions, both marked by lost: Enter in a search that
\* found nothing, and Enter in New file or New folder when the working directory
\* has been removed.  The code hides the prompt in both and leaves the mode POPUP.
PopupHasWindow ==
  mode = "POPUP" => prompt # "none" \/ show_git # "no" \/ lost
=============================================================================
