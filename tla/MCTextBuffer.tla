---------------------------- MODULE MCTextBuffer ----------------------------
(***************************************************************************)
(* Small instances of TextBuffer for TLC.  The buffer has too much state   *)
(* for one run, so each run leaves out the actions that its properties do  *)
(* not depend on, and its view the state they do not depend on.            *)
(***************************************************************************)
EXTENDS TextBuffer

CONSTANT letter   \* an ordinary character

MCFiles == {<<>>, <<letter, NL>>}
MCClips == {<<letter, NL>>}

-----------------------------------------------------------------------------
(* Editing, moving and saving, by keyboard and mouse, without undo.  No      *)
(* action here reads the history, and only selections of one character are   *)
(* copied or cut.                                                            *)

EditSpec ==
  Init /\ [][\/ EditNext \/ MoveNext \/ MouseNext
             \/ SelLen(buf) <= 1 /\ CopyNext
             \/ PasteNext \/ DiskNext]_vars

\* Of the file only whether it holds the text.
EditView == <<[buf EXCEPT !.undo = Undo_init], clip, named, disk = buf.text>>
=============================================================================
