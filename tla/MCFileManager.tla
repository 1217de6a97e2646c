--------------------------- MODULE MCFileManager ---------------------------
(***************************************************************************)
(* A small instance of FileManager for TLC: a directory with two files in  *)
(* it, and a file beside it that other programs create and remove.  The    *)
(* table of rows holds two, which is less than are shown, and as many as   *)
(* there are in a tree of the directory, or of all with it collapsed.      *)
(***************************************************************************)
EXTENDS FileManager

MCDir == {<<1>>}
MCFile == {<<1, 1>>, <<1, 2>>, <<2>>}
MCOutside == {<<2>>}

\* A key or a click, and the keys that move and enter together with a click on a row.
MCInput ==
  [key : Key, click : {"none"}] \cup [key : {"none"}, click : Click]
    \cup [key : {"down", "enter"}, click : {"panel"}]

\* The key and the click of the frame are seen only as far as a later phase still
\* goes by them: the panel by all keys, windows by Enter and Escape alone.
SeenKey ==
  IF phase \in {"collect", "keys"} /\ mode = "FILE_MANAGER" THEN {key}
  ELSE IF prompt # "none" \/ show_git # "no" THEN {key} \cap {"enter", "escape"}
  ELSE {}

OnRows == phase \in {"collect", "keys", "load", "click"} /\ show_fm /\ ~active_menu

SeenClick ==
  CASE phase \in {"input", "prompt"} -> "none"
    [] phase = "git" -> IF click = "none" \/ show_git = "no" THEN "none" ELSE "bar"
    [] click = "panel" /\ OnRows -> "panel"
    [] OTHER -> IF click \notin {"panel", "editor"} THEN click
                ELSE IF active_menu \/ show_git # "no" THEN "editor" ELSE "none"

\* What was created, without what is listed already: that stays listed as long as the
\* tree does, and a tree that is loaded after that has all that is on the disk.
Unlisted == created \ Nodes

\* The rows that were collected are those of the tree until the tree may change.
MCView ==
  <<diskVars, path_root, mode, show_fm, active_menu, windowVars, fm_root, selected,
    chosen, phase, Unlisted, SeenKey, SeenClick,
    IF phase \in {"load", "click"} THEN visible ELSE <<>>>>
=============================================================================
