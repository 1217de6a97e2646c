------------------------------ MODULE GitGutter ------------------------------
(***************************************************************************)
(* What is shown of git for each line: the array line_git, which the       *)
(* gutter and the text behind the cursor's line are drawn from.  Detached  *)
(* threads fill it after the file was opened, row by row and with no lock, *)
(* and every edit of the UI thread moves its entries along with the lines. *)
(* Formatting changes the lines without it.                                *)
(*                                                                         *)
(* A row is a number from 0.  `lines' says of each row of the text which   *)
(* row of the file it is, or that it was edited.  A use of the array       *)
(* between the reallocation by one thread and the next load of the pointer *)
(* by the other is not modelled, nor is a buffer closed under its threads. *)
(***************************************************************************)
EXTENDS Integers, Sequences, FiniteSetsExt

CONSTANTS
    Files,          \* what is opened: rows, hunks of its diff, rows blamed
    Workers,        \* the threads that may be fetching for the buffer
    MIN_CAPACITY,   \* 64 in the code
    MaxLines        \* bounds the text

Hunk == [new_start : Nat, new_lines : Nat, old_lines : Nat]

ASSUME FilesAreFiles ==
    Files \subseteq [rows : 1 .. MaxLines, hunks : Seq(Hunk), blamed : Nat]
\* Hunks as a diff has them: lines are counted from 1, no hunk says nothing,
\* and no line is in two.
ASSUME HunksOfDiffs ==
    \A f \in Files : \A k \in DOMAIN f.hunks :
        LET h == f.hunks[k]
        IN  /\ h.new_lines > 0 => h.new_start > 0
            /\ h.new_lines = 0 => h.old_lines > 0
            /\ \A l \in DOMAIN f.hunks \ {k} :
                  (h.new_start .. h.new_start + h.new_lines - 1)
                    \cap (f.hunks[l].new_start ..
                            f.hunks[l].new_start + f.hunks[l].new_lines - 1) = {}
ASSUME SizesAreSizes == MIN_CAPACITY \in Nat \ {0} /\ MaxLines \in Nat \ {0}

\* Whose a line is, and when it was edited: by the commit of a row of HEAD
\* (its number), by the user just now, or not known.
You == -1
Nobody == -2

Blank == [status |-> "NONE", last_edited_at |-> Nobody, author |-> Nobody]
Mine == [status |-> "MODIFIED", last_edited_at |-> You, author |-> You]

Edited == -1

VARIABLES
    file,           \* the file, as git knows it
    lines,          \* its length is lines.line_count
    line_git,       \* indexed by 0 .. meta_capacity - 1
    meta_capacity,
    fetch,          \* where each thread is
    accessed,       \* the highest index the last step used
    exact           \* the file was fetched, and nothing but edits came after

vars == <<file, lines, line_git, meta_capacity, fetch, accessed, exact>>

line_count == Len(lines)

Larger(m, n) == IF m > n THEN m ELSE n

Init ==
    /\ file \in Files
    /\ lines = [k \in 1 .. file.rows |-> k - 1]
    /\ meta_capacity = Larger(MIN_CAPACITY, file.rows)
    /\ line_git = [i \in 0 .. meta_capacity - 1 |-> Blank]
    /\ fetch \in [Workers -> [at : {"reset", "done"}, row : {0}, hunk : {1},
                              stamp : {FALSE}]]
    /\ accessed = 0
    /\ exact = \E w \in Workers : fetch[w].at = "reset"

Idle == \A w \in Workers : fetch[w].at = "done"

-----------------------------------------------------------------------------
(* The UI thread.                                                          *)

\* New entries left as the allocator hands them out.
EnsureUncleared(needed) ==
    IF needed <= meta_capacity THEN line_git
    ELSE [i \in 0 .. 2 * needed - 1 |->
             IF i < meta_capacity THEN line_git[i] ELSE [Blank EXCEPT !.status = "garbage"]]

\* Reallocation to twice what is needed; the new entries are cleared.
EnsureCapacity(needed) ==
    IF needed <= meta_capacity THEN line_git
    ELSE [i \in 0 .. 2 * needed - 1 |->
             IF i < meta_capacity THEN line_git[i] ELSE Blank]

\* Moving the entries from the split row on, not from the one below it.
InsertMovesRow(y, row, n) ==
    LET now == line_count + n
        git == EnsureCapacity(now)
    IN  /\ now <= MaxLines /\ (n = 0 => row = y)
        /\ lines' = SubSeq(lines, 1, y) \o [k \in 1 .. n + 1 |-> Edited]
                        \o SubSeq(lines, y + 2, line_count)
        /\ line_git' = [i \in DOMAIN git |->
                           CASE i \in row .. row + n - 1           -> Mine
                             [] n > 0 /\ i \in row + n .. now - 1 -> git[i - n]
                             [] OTHER                              -> git[i]]
        /\ meta_capacity' = IF now <= meta_capacity THEN meta_capacity ELSE 2 * now
        /\ accessed' = IF n > 0 THEN now - 1 ELSE y
        /\ exact' = (exact /\ Idle /\ row = y)
        /\ UNCHANGED <<file, fetch>>

\* Text with n newlines goes into row y.  The rows below it move down, and
\* those it is split into are the user's.  With a newline in it, the code goes
\* by the row that the cursor had, which the wheel, or a move up or down, may
\* have left beside the row of its offset.
Buffer_insert(y, row, n) ==
    LET now == line_count + n
        git == EnsureCapacity(now)
    IN  /\ now <= MaxLines /\ (n = 0 => row = y)
        /\ lines' = SubSeq(lines, 1, y) \o [k \in 1 .. n + 1 |-> Edited]
                        \o SubSeq(lines, y + 2, line_count)
        /\ line_git' = [i \in DOMAIN git |->
                           CASE i \in row .. row + n           -> Mine
                             [] i \in row + n + 1 .. now - 1 -> git[i - n]
                             [] OTHER                        -> git[i]]
        /\ meta_capacity' = IF now <= meta_capacity THEN meta_capacity ELSE 2 * now
        /\ accessed' = IF n > 0 THEN now - 1 ELSE y
        /\ exact' = (exact /\ Idle /\ row = y)
        /\ UNCHANGED <<file, fetch>>

\* Room for the lines that are left, not for those that were there.
DeleteEnsuresLess(y, n) ==
    LET old == line_count
        now == old - n
        git == EnsureCapacity(now)
    IN  /\ y + n < old
        /\ lines' = SubSeq(lines, 1, y) \o <<Edited>> \o SubSeq(lines, y + n + 2, old)
        /\ line_git' = [i \in DOMAIN git |->
                           CASE i = y                -> Mine
                             [] i \in y + 1 .. now - 1 /\ i + n \in DOMAIN git -> git[i + n]
                             [] i \in now .. old - 1   -> Blank
                             [] OTHER                  -> git[i]]
        /\ meta_capacity' = IF now <= meta_capacity THEN meta_capacity ELSE 2 * now
        /\ accessed' = IF n > 0 THEN old - 1 ELSE y
        /\ exact' = (exact /\ Idle)
        /\ UNCHANGED <<file, fetch>>

\* Text that begins in row y and has n newlines goes.  The rows below move up,
\* and the entries left over behind the last line are cleared.
Buffer_delete(y, n) ==
    LET old == line_count
        now == old - n
        git == EnsureCapacity(old)
    IN  /\ y + n < old
        /\ lines' = SubSeq(lines, 1, y) \o <<Edited>> \o SubSeq(lines, y + n + 2, old)
        /\ line_git' = [i \in DOMAIN git |->
                           CASE i = y                -> Mine
                             [] i \in y + 1 .. now - 1 -> git[i + n]
                             [] i \in now .. old - 1   -> Blank
                             [] OTHER                  -> git[i]]
        /\ meta_capacity' = IF old <= meta_capacity THEN meta_capacity ELSE 2 * old
        /\ accessed' = IF n > 0 THEN old - 1 ELSE y
        /\ exact' = (exact /\ Idle)
        /\ UNCHANGED <<file, fetch>>

\* Formatting on save: another text, line_git as it was.
lsp_apply_text_edits ==
    /\ \E n \in 1 .. MaxLines : lines' = [k \in 1 .. n |-> Edited]
    /\ exact' = FALSE
    /\ UNCHANGED <<file, line_git, meta_capacity, fetch, accessed>>

-----------------------------------------------------------------------------
(* git_fetch_worker: reset, diff and blame, one access after the other.    *)

Goto(w, at) == [fetch EXCEPT ![w].at = at, ![w].row = 0]

\* The test before each of its accesses.
Present(row) == row < line_count /\ row < meta_capacity

ResetRow(w) ==
    LET row == fetch[w].row
    IN  /\ fetch[w].at = "reset"
        /\ \/ /\ row < meta_capacity
              /\ line_git' = [line_git EXCEPT ![row].status = "NONE"]
              /\ fetch' = [fetch EXCEPT ![w].row = row + 1]
              /\ accessed' = row
           \/ /\ row >= meta_capacity
              /\ fetch' = Goto(w, "diff")
              /\ UNCHANGED <<line_git, accessed>>
        /\ UNCHANGED <<file, lines, meta_capacity, exact>>

\* diff_hunk_cb, its next row: the status, then the time if there is none.
MarkRow(w) ==
    LET h == file.hunks[fetch[w].hunk]
        row == h.new_start - 1 + fetch[w].row
    IN  /\ fetch[w].at = "diff" /\ ~fetch[w].stamp
        /\ fetch[w].hunk <= Len(file.hunks)
        /\ h.new_lines > 0 /\ h.new_start > 0 /\ fetch[w].row < h.new_lines
        /\ \/ /\ Present(row)
              /\ line_git' = [line_git EXCEPT ![row].status =
                                 IF h.old_lines = 0 THEN "ADDED" ELSE "MODIFIED"]
              /\ accessed' = row
              /\ fetch' = IF line_git[row].last_edited_at = Nobody
                          THEN [fetch EXCEPT ![w].stamp = TRUE]
                          ELSE [fetch EXCEPT ![w].row = @ + 1]
           \/ /\ ~Present(row)
              /\ fetch' = [fetch EXCEPT ![w].row = @ + 1]
              /\ UNCHANGED <<line_git, accessed>>
        /\ UNCHANGED <<file, lines, meta_capacity, exact>>

StampRow(w) ==
    LET row == file.hunks[fetch[w].hunk].new_start - 1 + fetch[w].row
    IN  /\ fetch[w].at = "diff" /\ fetch[w].stamp
        /\ line_git' = [line_git EXCEPT ![row].last_edited_at = You]
        /\ fetch' = [fetch EXCEPT ![w].stamp = FALSE, ![w].row = @ + 1]
        /\ accessed' = row
        /\ UNCHANGED <<file, lines, meta_capacity, exact>>

\* diff_hunk_cb for lines that are gone: a mark on the row before them.
MarkDeleted(w) ==
    LET h == file.hunks[fetch[w].hunk]
        row == Larger(h.new_start - 1, 0)
    IN  /\ fetch[w].at = "diff" /\ fetch[w].hunk <= Len(file.hunks)
        /\ h.new_lines = 0 /\ h.old_lines > 0
        /\ IF Present(row) /\ line_git[row].status = "NONE"
           THEN line_git' = [line_git EXCEPT ![row].status = "DELETED"] /\ accessed' = row
           ELSE UNCHANGED <<line_git, accessed>>
        /\ fetch' = [fetch EXCEPT ![w].row = 0, ![w].hunk = @ + 1]
        /\ UNCHANGED <<file, lines, meta_capacity, exact>>

NextHunk(w) ==
    /\ fetch[w].at = "diff" /\ ~fetch[w].stamp
    /\ \/ /\ fetch[w].hunk > Len(file.hunks)
          /\ fetch' = Goto(w, "blame")
       \/ /\ fetch[w].hunk <= Len(file.hunks)
          /\ LET h == file.hunks[fetch[w].hunk]
             IN  \/ h.new_lines > 0 /\ (h.new_start = 0 \/ fetch[w].row >= h.new_lines)
                 \/ h.new_lines = 0 /\ h.old_lines = 0
          /\ fetch' = [fetch EXCEPT ![w].row = 0, ![w].hunk = @ + 1]
    /\ UNCHANGED <<file, lines, line_git, meta_capacity, accessed, exact>>

\* Git_fetch_file_blame: row r of HEAD is blamed on commit r, and the code writes
\* that to row r of the text, which need not be the same line (HeadRow).
BlameRow(w) ==
    LET row == fetch[w].row
    IN  /\ fetch[w].at = "blame"
        /\ \/ /\ row < file.blamed /\ Present(row)
              /\ line_git' = [line_git EXCEPT ![row].author = row,
                                              ![row].last_edited_at = row]
              /\ fetch' = [fetch EXCEPT ![w].row = row + 1]
              /\ accessed' = row
           \/ /\ row < file.blamed /\ ~Present(row)
              /\ fetch' = [fetch EXCEPT ![w].row = row + 1]
              /\ UNCHANGED <<line_git, accessed>>
           \/ /\ row >= file.blamed
              /\ fetch' = Goto(w, "done")
              /\ UNCHANGED <<line_git, accessed>>
        /\ UNCHANGED <<file, lines, meta_capacity, exact>>

-----------------------------------------------------------------------------

Next ==
    \/ \E y \in 0 .. line_count - 1, n \in 0 .. MaxLines :
          \/ Buffer_delete(y, n)
          \/ \E row \in 0 .. line_count - 1 : Buffer_insert(y, row, n)
    \/ lsp_apply_text_edits
    \/ \E w \in Workers :
          \/ ResetRow(w) \/ MarkRow(w) \/ StampRow(w)
          \/ MarkDeleted(w) \/ NextHunk(w) \/ BlameRow(w)

Spec == Init /\ [][Next]_vars

-----------------------------------------------------------------------------

Status == {"NONE", "ADDED", "MODIFIED", "DELETED"}

\* The values the variables take.
TypeOK ==
    /\ file \in Files
    /\ lines \in Seq(Edited .. MaxLines - 1) /\ line_count \in 1 .. MaxLines
    /\ meta_capacity \in Nat
    /\ line_git \in [0 .. meta_capacity - 1 ->
                       [status : Status, last_edited_at : Int, author : Int]]
    /\ fetch \in [Workers -> [at : {"reset", "diff", "blame", "done"}, row : Nat,
                              hunk : Nat \ {0}, stamp : BOOLEAN]]
    /\ accessed \in Nat
    /\ exact \in BOOLEAN

\* Edits move and mark entries by the number of lines before and after, which
\* formatting may have let grow past the array; the threads go by the lines
\* that git knows, which edits may have removed.  Neither uses an entry the
\* array does not have.
AccessesInBounds == accessed < meta_capacity

\* Row r of the file is in a hunk: HEAD has it otherwise or not at all.
Uncommitted(r) ==
    \E k \in DOMAIN file.hunks :
        LET h == file.hunks[k] IN r + 1 \in h.new_start .. h.new_start + h.new_lines - 1

\* The row of HEAD that a row outside the hunks is: each hunk above it has moved
\* it by the lines that were added and removed.  (A hunk without new lines lies
\* behind the line that it names.)
HeadRow(r) ==
    LET hunks == file.hunks
        above == {k \in DOMAIN hunks :
                     hunks[k].new_start + Larger(hunks[k].new_lines - 1, 0) <= r}
        grown(k) == hunks[k].old_lines - hunks[k].new_lines
    IN  r + MapThenSumSet(grown, above)

\* Whose that line is: git blames HEAD, and its rows only.
Commit(r) == IF HeadRow(r) < file.blamed THEN HeadRow(r) ELSE Nobody

\* The mark of row r: in a hunk, behind which lines are gone, or neither.
Mark(r) ==
    LET hunks == {file.hunks[k] : k \in DOMAIN file.hunks}
        here == {h \in hunks : r + 1 \in h.new_start .. h.new_start + h.new_lines - 1}
        gone == {h \in hunks : h.new_lines = 0 /\ r = Larger(h.new_start - 1, 0)}
    IN  CASE here # {} -> IF \E h \in here : h.old_lines = 0 THEN "ADDED" ELSE "MODIFIED"
          [] here = {} /\ gone # {} -> "DELETED"
          [] OTHER -> "NONE"

\* However many threads fetched, in whatever order their writes came, and
\* however the text was edited since: each line that was not edited has the mark
\* of its row, each edited one is the user's, and entries behind the last line
\* are blank.  Author and time are those of the commit the line is from, if the
\* line has in HEAD the row it had in the file.  Not otherwise: the code gives row
\* r what git blames row r of HEAD on, which is another line's below an
\* uncommitted insertion or deletion, and the former line's within a hunk.  (And
\* nothing is said when an edit met a running thread or was made with the cursor's
\* row beside its offset, nor after formatting: exact is then FALSE.)
GutterFollowsLines ==
    exact /\ Idle =>
        /\ \A y \in 0 .. line_count - 1 :
              LET r == lines[y + 1]
              IN  IF r = Edited THEN line_git[y] = Mine
                  ELSE /\ line_git[y].status = Mark(r)
                       /\ ~Uncommitted(r) /\ HeadRow(r) = r =>
                            /\ line_git[y].author = Commit(r)
                            /\ line_git[y].last_edited_at = Commit(r)
        /\ \A i \in line_count .. meta_capacity - 1 : line_git[i] = Blank
=============================================================================
