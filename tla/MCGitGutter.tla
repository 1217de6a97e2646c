----------------------------- MODULE MCGitGutter -----------------------------
(***************************************************************************)
(* Files for GitGutter, and how git describes them.                        *)
(***************************************************************************)
EXTENDS GitGutter, TLC

ThreadSymmetry == Permutations(Workers)

Change(start, new, old) == [new_start |-> start, new_lines |-> new, old_lines |-> old]

OpenedFiles == {
    [rows |-> 2, hunks |-> <<>>, blamed |-> 2],                  \* as committed
    [rows |-> 1, hunks |-> <<>>, blamed |-> 0],                  \* not tracked
    [rows |-> 3, hunks |-> <<Change(2, 1, 0)>>, blamed |-> 2],   \* one inserted
    [rows |-> 2, hunks |-> <<Change(0, 0, 1)>>, blamed |-> 3],   \* the first gone
    [rows |-> 3, hunks |-> <<Change(1, 1, 1), Change(2, 0, 1)>>, \* one changed,
     blamed |-> 4],                                              \* one gone
    [rows |-> 3, hunks |-> <<Change(1, 1, 0), Change(2, 0, 1)>>, \* one inserted,
     blamed |-> 3]}                                              \* one gone

\* Once exact is FALSE it stays so, and of text and entries only what a step
\* tests makes a difference to the properties.
GutterView ==
    <<file, meta_capacity, fetch, accessed < meta_capacity, exact,
      IF exact THEN <<lines, line_git>>
      ELSE <<line_count, [i \in DOMAIN line_git |->
                             <<line_git[i].status = "NONE",
                               line_git[i].last_edited_at = Nobody>>]>>>>
=============================================================================
