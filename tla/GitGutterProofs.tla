--------------------------- MODULE GitGutterProofs ---------------------------
(***************************************************************************)
(* The UI thread and any number of fetching threads use only entries that  *)
(* line_git has, whatever the files and the hunks of their diffs; and each *)
(* line keeps what they leave for its row, which is the row's mark, and    *)
(* author and time of the line if HEAD has it in the same row.             *)
(***************************************************************************)
EXTENDS GitGutter, SequenceTheorems, TLAPS

Entry == [status : Status, last_edited_at : Int, author : Int]

Row == Edited .. MaxLines - 1

Step == [at : {"reset", "diff", "blame", "done"}, row : Nat,
         hunk : Nat \ {0}, stamp : BOOLEAN]

-----------------------------------------------------------------------------
(* What git says of a file, and the entries.                               *)

LEMMA FileType ==
  ASSUME file \in Files
  PROVE  /\ file.rows \in 1 .. MaxLines
         /\ file.blamed \in Nat
         /\ Len(file.hunks) \in Nat
         /\ \A k \in Nat \ {0} : k <= Len(file.hunks) =>
               /\ file.hunks[k].new_start \in Nat
               /\ file.hunks[k].new_lines \in Nat
               /\ file.hunks[k].old_lines \in Nat
<1>1. file \in [rows : 1 .. MaxLines, hunks : Seq(Hunk), blamed : Nat]
  BY FilesAreFiles
<1>2. file.hunks \in Seq(Hunk)
  BY <1>1
<1>3. Len(file.hunks) \in Nat
  BY <1>2, LenProperties
<1>4. \A k \in Nat \ {0} : k <= Len(file.hunks) => file.hunks[k] \in Hunk
  BY <1>2, <1>3, ElementOfSeq
<1>5. QED
  BY <1>1, <1>3, <1>4 DEF Hunk

LEMMA KnownEntries == Blank \in Entry /\ Mine \in Entry
BY DEF Blank, Mine, Entry, Status, You, Nobody

LEMMA EntryUpdates ==
  ASSUME NEW e \in Entry
  PROVE  /\ \A s \in Status : [e EXCEPT !.status = s] \in Entry
         /\ \A a \in Int : [e EXCEPT !.last_edited_at = a] \in Entry
         /\ \A a, b \in Int : [e EXCEPT !.author = a, !.last_edited_at = b] \in Entry
BY DEF Entry

LEMMA StatusUpdate ==
  ASSUME NEW n \in Nat, NEW g \in [0 .. n - 1 -> Entry], NEW i \in 0 .. n - 1,
         NEW s \in Status
  PROVE  [g EXCEPT ![i].status = s] \in [0 .. n - 1 -> Entry]
<1>1. g[i] \in Entry
  OBVIOUS
<1>2. [g[i] EXCEPT !.status = s] \in Entry
  BY <1>1, EntryUpdates
<1>3. [g EXCEPT ![i] = [g[i] EXCEPT !.status = s]] \in [0 .. n - 1 -> Entry]
  BY <1>2
<1>4. QED
  BY <1>3

LEMMA TimeUpdate ==
  ASSUME NEW n \in Nat, NEW g \in [0 .. n - 1 -> Entry], NEW i \in 0 .. n - 1,
         NEW a \in Int
  PROVE  [g EXCEPT ![i].last_edited_at = a] \in [0 .. n - 1 -> Entry]
<1>1. [g[i] EXCEPT !.last_edited_at = a] \in Entry
  BY EntryUpdates
<1>2. [g EXCEPT ![i] = [g[i] EXCEPT !.last_edited_at = a]] \in [0 .. n - 1 -> Entry]
  BY <1>1
<1>3. QED
  BY <1>2

LEMMA BlameUpdate ==
  ASSUME NEW n \in Nat, NEW g \in [0 .. n - 1 -> Entry], NEW i \in 0 .. n - 1,
         NEW a \in Int
  PROVE  [g EXCEPT ![i].author = a, ![i].last_edited_at = a] \in [0 .. n - 1 -> Entry]
<1>1. [g[i] EXCEPT !.author = a, !.last_edited_at = a] \in Entry
  BY EntryUpdates
<1>2. [g EXCEPT ![i] = [g[i] EXCEPT !.author = a, !.last_edited_at = a]]
        \in [0 .. n - 1 -> Entry]
  BY <1>1
<1>3. [g EXCEPT ![i].author = a, ![i].last_edited_at = a]
        = [g EXCEPT ![i] = [g[i] EXCEPT !.author = a, !.last_edited_at = a]]
  OBVIOUS
<1>4. QED
  BY <1>2, <1>3

\* The array after room was made for more lines.
LEMMA Grown ==
  ASSUME NEW needed \in Nat, meta_capacity \in Nat,
         line_git \in [0 .. meta_capacity - 1 -> Entry]
  PROVE  LET cap == IF needed <= meta_capacity THEN meta_capacity ELSE 2 * needed
         IN  /\ cap \in Nat /\ meta_capacity <= cap /\ needed <= cap
             /\ EnsureCapacity(needed) \in [0 .. cap - 1 -> Entry]
<1>1. CASE needed <= meta_capacity
  BY <1>1 DEF EnsureCapacity
<1>2. CASE ~(needed <= meta_capacity)
  <2>1. \A i \in 0 .. 2 * needed - 1 :
           (IF i < meta_capacity THEN line_git[i] ELSE Blank) \in Entry
    BY KnownEntries
  <2>2. EnsureCapacity(needed) \in [0 .. 2 * needed - 1 -> Entry]
    BY <1>2, <2>1 DEF EnsureCapacity
  <2>3. QED
    BY <1>2, <2>2
<1>3. QED
  BY <1>1, <1>2

LEMMA Listed ==
  ASSUME NEW S, NEW n \in Nat, NEW f \in [1 .. n -> S]
  PROVE  f \in Seq(S) /\ Len(f) = n
<1>1. f \in Seq(S)
  BY Z3
<1>2. QED
  BY <1>1, LenProperties

\* The first i rows of a text of c rows, and the rows behind its j-th.
LEMMA Ends ==
  ASSUME NEW l, NEW c \in Nat, \A k \in 1 .. c : l[k] \in Row,
         NEW i \in Nat, NEW j \in Nat, i <= j, j <= c
  PROVE  /\ SubSeq(l, 1, i) \in Seq(Row) /\ Len(SubSeq(l, 1, i)) = i
         /\ \A k \in 1 .. i : SubSeq(l, 1, i)[k] = l[k]
         /\ SubSeq(l, j + 1, c) \in Seq(Row) /\ Len(SubSeq(l, j + 1, c)) = c - j
         /\ \A k \in 1 .. c - j : SubSeq(l, j + 1, c)[k] = l[j + k]
<1>1. /\ SubSeq(l, 1, i) \in Seq(Row)
      /\ Len(SubSeq(l, 1, i)) = IF 1 <= i THEN i - 1 + 1 ELSE 0
      /\ \A k \in 1 .. i - 1 + 1 : SubSeq(l, 1, i)[k] = l[1 + k - 1]
  <2>1. 1 \in Int /\ i \in Int /\ \A k \in 1 .. i : l[k] \in Row
    OBVIOUS
  <2>2. QED
    BY <2>1, SubSeqProperties
<1>2. Len(SubSeq(l, 1, i)) = i /\ \A k \in 1 .. i : SubSeq(l, 1, i)[k] = l[k]
  BY <1>1
<1> DEFINE m == j + 1
<1>3. m \in Int /\ c \in Int /\ \A k \in m .. c : l[k] \in Row
  OBVIOUS
<1>4. m = j + 1
  OBVIOUS
<1> HIDE DEF m
<1>5. /\ SubSeq(l, m, c) \in Seq(Row)
      /\ Len(SubSeq(l, m, c)) = IF m <= c THEN c - m + 1 ELSE 0
      /\ \A k \in 1 .. c - m + 1 : SubSeq(l, m, c)[k] = l[m + k - 1]
  BY <1>3, SubSeqProperties
<1>6. Len(SubSeq(l, m, c)) = c - j
  BY <1>4, <1>5
<1>7. ASSUME NEW k \in 1 .. c - j
      PROVE  SubSeq(l, m, c)[k] = l[j + k]
  <2>1. k \in 1 .. c - m + 1 /\ m + k - 1 = j + k
    BY <1>4
  <2>2. QED
    BY <1>5, <2>1
<1>8. QED
  BY <1>1, <1>2, <1>4, <1>5, <1>6, <1>7

\* The rows behind the first i, up to the j-th, were replaced by those of m.
LEMMA Replaced ==
  ASSUME lines \in Seq(Row), NEW m \in Seq(Row), NEW i \in Nat, NEW j \in Nat,
         i <= j, j <= line_count,
         lines' = SubSeq(lines, 1, i) \o m \o SubSeq(lines, j + 1, line_count)
  PROVE  lines' \in Seq(Row) /\ line_count' = i + Len(m) + line_count - j
<1> DEFINE a == SubSeq(lines, 1, i)
           b == SubSeq(lines, j + 1, line_count)
<1>1. line_count \in Nat /\ Len(m) \in Nat /\ \A k \in 1 .. line_count : lines[k] \in Row
  BY LenProperties, ElementOfSeq DEF line_count
<1>2. a \in Seq(Row) /\ Len(a) = i
  BY <1>1, Ends
<1>3. b \in Seq(Row) /\ Len(b) = line_count - j
  BY <1>1, Ends
<1>4. lines' = (a \o m) \o b
  OBVIOUS
<1> HIDE DEF a, b
<1>5. a \o m \in Seq(Row) /\ Len(a \o m) = i + Len(m)
  BY <1>2, ConcatProperties
<1> DEFINE am == a \o m
<1>6. am \in Seq(Row) /\ Len(am) = i + Len(m) /\ lines' = am \o b
  BY <1>4, <1>5
<1> HIDE DEF am
<1>7. am \o b \in Seq(Row) /\ Len(am \o b) = Len(am) + Len(b)
  BY <1>3, <1>6, ConcatProperties
<1>8. QED
  BY <1>1, <1>3, <1>6, <1>7 DEF line_count

\* a, m and b are put together one after the other: a is the beginning of l, up
\* to i, and b its end, from behind j.
Pieced(l, a, m, b, am, all, i, n, j, c) ==
    /\ \A k \in 1 .. i : a[k] = l[k]
    /\ \A k \in 1 .. c - j : b[k] = l[j + k]
    /\ \A k \in 1 .. i + n : am[k] = IF k <= i THEN a[k] ELSE m[k - i]
    /\ \A k \in 1 .. i + n + c - j :
          all[k] = IF k <= i + n THEN am[k] ELSE b[k - (i + n)]

\* m in the place of what l has behind i, up to j.
Joined(all, l, m, i, n, j, c) ==
    \A k \in 1 .. i + n + c - j :
       all[k] = IF k <= i THEN l[k]
                ELSE IF k <= i + n THEN m[k - i] ELSE l[k - i - n + j]

LEMMA Pieces ==
  ASSUME NEW l, NEW a, NEW m, NEW b, NEW am, NEW all,
         NEW i \in Nat, NEW n \in Nat, NEW j \in Nat, NEW c \in Nat, i <= j, j <= c,
         Pieced(l, a, m, b, am, all, i, n, j, c)
  PROVE  Joined(all, l, m, i, n, j, c)
<1> USE DEF Pieced, Joined
<1> TAKE k \in 1 .. i + n + c - j
<1>1. CASE k <= i
  BY <1>1
<1>2. CASE k > i /\ k <= i + n
  BY <1>2
<1>3. CASE k > i + n
  <2>1. k - (i + n) \in 1 .. c - j /\ j + (k - (i + n)) = k - i - n + j
    BY <1>3
  <2>2. all[k] = b[k - (i + n)] /\ b[k - (i + n)] = l[j + (k - (i + n))]
    BY <1>3, <2>1
  <2>3. all[k] = l[k - i - n + j]
    BY <2>1, <2>2
  <2>4. QED
    BY <1>3, <2>3
<1>4. QED
  BY <1>1, <1>2, <1>3

\* The row that each of the new rows is.
LEMMA ReplacedAt ==
  ASSUME lines \in Seq(Row), NEW m \in Seq(Row), NEW i \in Nat, NEW j \in Nat,
         i <= j, j <= line_count,
         lines' = SubSeq(lines, 1, i) \o m \o SubSeq(lines, j + 1, line_count)
  PROVE  Joined(lines', lines, m, i, Len(m), j, line_count)
<1> DEFINE a == SubSeq(lines, 1, i)
           b == SubSeq(lines, j + 1, line_count)
<1>1. line_count \in Nat /\ Len(m) \in Nat /\ \A k \in 1 .. line_count : lines[k] \in Row
  BY LenProperties, ElementOfSeq DEF line_count
<1>2. a \in Seq(Row) /\ Len(a) = i /\ \A k \in 1 .. i : a[k] = lines[k]
  BY <1>1, Ends
<1>3. /\ b \in Seq(Row) /\ Len(b) = line_count - j
      /\ \A k \in 1 .. line_count - j : b[k] = lines[j + k]
  BY <1>1, Ends
<1>4. lines' = (a \o m) \o b
  OBVIOUS
<1> HIDE DEF a, b
<1> DEFINE am == a \o m
<1>5. am \in Seq(Row) /\ Len(am) = i + Len(m) /\ lines' = am \o b
      /\ \A k \in 1 .. i + Len(m) : am[k] = IF k <= i THEN a[k] ELSE m[k - i]
  BY <1>2, <1>4, ConcatProperties
<1> HIDE DEF am
<1>6. \A k \in 1 .. Len(am) + Len(b) :
         (am \o b)[k] = IF k <= Len(am) THEN am[k] ELSE b[k - Len(am)]
  BY <1>3, <1>5, ConcatProperties
<1>7. \A k \in 1 .. i + Len(m) + line_count - j :
         lines'[k] = IF k <= i + Len(m) THEN am[k] ELSE b[k - (i + Len(m))]
  BY <1>1, <1>3, <1>5, <1>6
<1>8. Pieced(lines, a, m, b, am, lines', i, Len(m), j, line_count)
  BY <1>2, <1>3, <1>5, <1>7 DEF Pieced
<1>9. QED
  BY <1>1, <1>8, Pieces

-----------------------------------------------------------------------------
(* The inductive invariant.                                                *)

\* A thread between the status and the time of a row of a hunk is at an entry
\* that the array has: it may grow in between, and does not shrink.
Stamped ==
    \A w \in Workers : fetch[w].stamp =>
        /\ fetch[w].at = "diff"
        /\ fetch[w].hunk <= Len(file.hunks)
        /\ file.hunks[fetch[w].hunk].new_lines > 0
        /\ file.hunks[fetch[w].hunk].new_start - 1 + fetch[w].row
             \in 0 .. meta_capacity - 1

IInv == TypeOK /\ AccessesInBounds /\ Stamped

LEMMA TypedEntries == TypeOK => line_git \in [0 .. meta_capacity - 1 -> Entry]
BY DEF TypeOK, Entry

LEMMA InitInv == Init => IInv
<1> SUFFICES ASSUME Init PROVE IInv
  OBVIOUS
<1>1. file \in Files
  BY DEF Init
<1>2. file.rows \in 1 .. MaxLines
  BY <1>1, FileType
<1>3. lines \in Seq(Row) /\ line_count = file.rows
  <2> DEFINE f(k) == k - 1
  <2>1. \A k \in 1 .. file.rows : f(k) \in Row
    BY <1>2, SizesAreSizes DEF Edited, Row
  <2>2. lines = [k \in 1 .. file.rows |-> f(k)]
    BY DEF Init
  <2> HIDE DEF f
  <2>3. lines \in [1 .. file.rows -> Row] /\ file.rows \in Nat
    BY <1>2, <2>1, <2>2
  <2>4. QED
    BY <2>3, Listed, Zenon DEF line_count
<1>4. meta_capacity \in Nat \ {0}
  BY <1>2, SizesAreSizes DEF Init, Larger
<1>5. line_git \in [0 .. meta_capacity - 1 -> Entry]
  BY KnownEntries DEF Init
<1>6. fetch \in [Workers -> Step] /\ \A w \in Workers : ~fetch[w].stamp
  <2> DEFINE First == [at : {"reset", "done"}, row : {0}, hunk : {1}, stamp : {FALSE}]
  <2>1. ASSUME NEW s \in First
        PROVE  s \in Step /\ ~s.stamp
    <3>1. /\ s = [at |-> s.at, row |-> s.row, hunk |-> s.hunk, stamp |-> s.stamp]
          /\ s.at \in {"reset", "done"} /\ s.row = 0 /\ s.hunk = 1 /\ s.stamp = FALSE
      BY Zenon
    <3>2. s = [at |-> s.at, row |-> 0, hunk |-> 1, stamp |-> FALSE]
      BY <3>1, Zenon
    <3>3. \A at \in {"reset", "done"} :
             [at |-> at, row |-> 0, hunk |-> 1, stamp |-> FALSE] \in Step
      BY DEF Step
    <3>4. QED
      BY <3>1, <3>2, <3>3, Zenon
  <2>2. fetch \in [Workers -> First]
    BY DEF Init
  <2> HIDE DEF First
  <2>3. QED
    BY <2>1, <2>2
<1>7. TypeOK
  BY <1>1, <1>2, <1>3, <1>4, <1>5, <1>6 DEF Init, TypeOK, Entry, Step, Row
<1>8. AccessesInBounds /\ Stamped
  BY <1>4, <1>6 DEF Init, AccessesInBounds, Stamped
<1>9. QED
  BY <1>7, <1>8 DEF IInv

\* What every edit does: other lines, and an array that is no smaller.
LEMMA EditInv ==
  ASSUME IInv,
         lines' \in Seq(Row), line_count' \in 1 .. MaxLines,
         meta_capacity' \in Nat, meta_capacity <= meta_capacity',
         line_git' \in [0 .. meta_capacity' - 1 -> Entry],
         accessed' \in Nat, accessed' < meta_capacity',
         exact' \in BOOLEAN, UNCHANGED <<file, fetch>>
  PROVE  IInv'
<1>1. TypeOK'
  BY DEF IInv, TypeOK, Entry, Row
<1>2. Stamped'
  <2> SUFFICES ASSUME NEW w \in Workers, fetch[w].stamp
               PROVE  file.hunks[fetch[w].hunk].new_start - 1 + fetch[w].row
                        \in 0 .. meta_capacity' - 1
    BY DEF IInv, Stamped
  <2>1. file.hunks[fetch[w].hunk].new_start - 1 + fetch[w].row
          \in 0 .. meta_capacity - 1
    BY DEF IInv, Stamped
  <2>2. meta_capacity \in Nat
    BY DEF IInv, TypeOK
  <2>3. QED
    BY <2>1, <2>2
<1>3. QED
  BY <1>1, <1>2 DEF IInv, AccessesInBounds

LEMMA InsertInv ==
  ASSUME IInv, NEW y \in 0 .. line_count - 1, NEW row \in 0 .. line_count - 1,
         NEW n \in 0 .. MaxLines, Buffer_insert(y, row, n)
  PROVE  IInv'
<1> DEFINE now == line_count + n
           git == EnsureCapacity(now)
           cap == IF now <= meta_capacity THEN meta_capacity ELSE 2 * now
           marks == [k \in 1 .. n + 1 |-> Edited]
<1>1. /\ line_count \in 1 .. MaxLines /\ MaxLines \in Nat /\ meta_capacity \in Nat
      /\ lines \in Seq(Row)
      /\ line_git \in [0 .. meta_capacity - 1 -> Entry]
      /\ accessed \in Nat /\ exact \in BOOLEAN
  BY TypedEntries, SizesAreSizes DEF IInv, TypeOK, Row
<1>2. now \in Nat /\ now <= MaxLines
  <2>1. now <= MaxLines
    BY Zenon DEF Buffer_insert
  <2>2. QED
    BY <1>1, <2>1
<1>3. cap \in Nat /\ meta_capacity <= cap /\ now <= cap /\ git \in [0 .. cap - 1 -> Entry]
  BY <1>1, <1>2, Grown
<1>4. meta_capacity' = cap
  BY DEF Buffer_insert
<1>5. lines' \in Seq(Row) /\ line_count' = now
  <2>1. marks \in Seq(Row) /\ Len(marks) = n + 1
    BY <1>1 DEF Edited, Row
  <2>2. lines' = SubSeq(lines, 1, y) \o marks \o SubSeq(lines, y + 2, line_count)
    BY Zenon DEF Buffer_insert
  <2> HIDE DEF marks
  <2>3. y \in Nat /\ y + 1 \in Nat /\ y <= y + 1 /\ y + 1 <= line_count /\ (y + 1) + 1 = y + 2
    BY <1>1
  <2>4. lines' = SubSeq(lines, 1, y) \o marks \o SubSeq(lines, (y + 1) + 1, line_count)
    BY <2>2, <2>3, Zenon
  <2>5. lines' \in Seq(Row) /\ line_count' = y + Len(marks) + line_count - (y + 1)
    BY <1>1, <2>1, <2>3, <2>4, Replaced
  <2>6. QED
    BY <1>1, <2>1, <2>5
<1>6. line_git' \in [0 .. meta_capacity' - 1 -> Entry]
  <2> DEFINE e(i) == CASE i \in row .. row + n         -> Mine
                       [] i \in row + n + 1 .. now - 1 -> git[i - n]
                       [] OTHER                        -> git[i]
  <2>1. line_git' = [i \in DOMAIN git |-> e(i)]
    BY DEF Buffer_insert
  <2>2. DOMAIN git = 0 .. cap - 1 /\ \A i \in 0 .. cap - 1 : git[i] \in Entry
    BY <1>3
  <2> HIDE DEF git
  <2>3. ASSUME NEW i \in 0 .. cap - 1
        PROVE  e(i) \in Entry
    <3>1. CASE i \in row .. row + n
      <4>1. ~(i \in row + n + 1 .. now - 1)
        BY <1>1, <3>1
      <4>2. QED
        BY <3>1, <4>1, KnownEntries
    <3>2. CASE i \in row + n + 1 .. now - 1
      <4>1. i - n \in 0 .. cap - 1 /\ ~(i \in row .. row + n)
        BY <1>1, <1>2, <1>3, <3>2
      <4>2. QED
        BY <2>2, <3>2, <4>1
    <3>3. CASE ~(i \in row .. row + n) /\ ~(i \in row + n + 1 .. now - 1)
      BY <2>2, <3>3
    <3>4. QED
      BY <3>1, <3>2, <3>3
  <2> HIDE DEF e
  <2>4. QED
    BY <1>4, <2>1, <2>2, <2>3
<1>7. accessed' \in Nat /\ accessed' < meta_capacity'
  <2>1. accessed' = IF n > 0 THEN now - 1 ELSE y
    BY Zenon DEF Buffer_insert
  <2> HIDE DEF git
  <2>2. QED
    BY <1>1, <1>2, <1>3, <1>4, <2>1
<1>8. exact' \in BOOLEAN /\ UNCHANGED <<file, fetch>>
  BY DEF Buffer_insert
<1>9. QED
  BY <1>1, <1>2, <1>3, <1>4, <1>5, <1>6, <1>7, <1>8, EditInv

LEMMA DeleteInv ==
  ASSUME IInv, NEW y \in 0 .. line_count - 1, NEW n \in 0 .. MaxLines,
         Buffer_delete(y, n)
  PROVE  IInv'
<1> DEFINE old == line_count
           now == old - n
           git == EnsureCapacity(old)
           cap == IF old <= meta_capacity THEN meta_capacity ELSE 2 * old
<1>1. /\ old \in 1 .. MaxLines /\ MaxLines \in Nat /\ meta_capacity \in Nat
      /\ lines \in Seq(Row)
      /\ line_git \in [0 .. meta_capacity - 1 -> Entry]
      /\ accessed \in Nat /\ exact \in BOOLEAN
  BY TypedEntries, SizesAreSizes DEF IInv, TypeOK, Row
<1>2. y + n < old
  BY DEF Buffer_delete
<1>3. cap \in Nat /\ meta_capacity <= cap /\ old <= cap /\ git \in [0 .. cap - 1 -> Entry]
  BY <1>1, Grown
<1>4. meta_capacity' = cap
  BY DEF Buffer_delete
<1>5. lines' \in Seq(Row) /\ line_count' = now
  <2> DEFINE one == <<Edited>>
  <2>1. one \in Seq(Row) /\ Len(one) = 1
    BY <1>1 DEF Edited, Row
  <2>2. lines' = SubSeq(lines, 1, y) \o one \o SubSeq(lines, y + n + 2, line_count)
    BY Zenon DEF Buffer_delete
  <2> HIDE DEF one
  <2>3. /\ y \in Nat /\ y + n + 1 \in Nat /\ y <= y + n + 1 /\ y + n + 1 <= line_count
        /\ (y + n + 1) + 1 = y + n + 2
    BY <1>1, <1>2
  <2>4. lines' = SubSeq(lines, 1, y) \o one \o SubSeq(lines, (y + n + 1) + 1, line_count)
    BY <2>2, <2>3, Zenon
  <2>5. lines' \in Seq(Row) /\ line_count' = y + Len(one) + line_count - (y + n + 1)
    BY <1>1, <2>1, <2>3, <2>4, Replaced
  <2>6. QED
    BY <1>1, <2>1, <2>5
<1>6. line_git' \in [0 .. meta_capacity' - 1 -> Entry]
  <2> DEFINE e(i) == CASE i = y                  -> Mine
                       [] i \in y + 1 .. now - 1 -> git[i + n]
                       [] i \in now .. old - 1   -> Blank
                       [] OTHER                  -> git[i]
  <2>1. line_git' = [i \in DOMAIN git |-> e(i)]
    BY DEF Buffer_delete
  <2>2. DOMAIN git = 0 .. cap - 1 /\ \A i \in 0 .. cap - 1 : git[i] \in Entry
    BY <1>3
  <2> HIDE DEF git
  <2>3. ASSUME NEW i \in 0 .. cap - 1
        PROVE  e(i) \in Entry
    <3>1. CASE i = y
      <4>1. ~(i \in y + 1 .. now - 1) /\ ~(i \in now .. old - 1)
        BY <1>1, <1>2, <3>1
      <4>2. QED
        BY <3>1, <4>1, KnownEntries
    <3>2. CASE i \in y + 1 .. now - 1
      <4>1. i + n \in 0 .. cap - 1 /\ i # y /\ ~(i \in now .. old - 1)
        BY <1>1, <1>2, <1>3, <3>2
      <4>2. QED
        BY <2>2, <3>2, <4>1
    <3>3. CASE i \in now .. old - 1
      <4>1. i # y /\ ~(i \in y + 1 .. now - 1)
        BY <1>1, <1>2, <3>3
      <4>2. QED
        BY <3>3, <4>1, KnownEntries
    <3>4. CASE i # y /\ ~(i \in y + 1 .. now - 1) /\ ~(i \in now .. old - 1)
      BY <2>2, <3>4
    <3>5. QED
      BY <3>1, <3>2, <3>3, <3>4
  <2> HIDE DEF e
  <2>4. QED
    BY <1>4, <2>1, <2>2, <2>3
<1>7. accessed' \in Nat /\ accessed' < meta_capacity'
  <2>1. accessed' = IF n > 0 THEN old - 1 ELSE y
    BY Zenon DEF Buffer_delete
  <2> HIDE DEF git
  <2>2. QED
    BY <1>1, <1>2, <1>3, <1>4, <2>1
<1>8. exact' \in BOOLEAN /\ UNCHANGED <<file, fetch>>
  BY DEF Buffer_delete
<1>9. QED
  BY <1>1, <1>2, <1>3, <1>4, <1>5, <1>6, <1>7, <1>8, EditInv

LEMMA FormatInv == IInv /\ lsp_apply_text_edits => IInv'
<1> SUFFICES ASSUME IInv, lsp_apply_text_edits PROVE IInv'
  OBVIOUS
<1>1. PICK n \in 1 .. MaxLines : lines' = [k \in 1 .. n |-> Edited]
  BY DEF lsp_apply_text_edits
<1>2. lines' \in Seq(Row) /\ line_count' \in 1 .. MaxLines
  BY <1>1, SizesAreSizes DEF Edited, Row, line_count
<1>3. /\ meta_capacity' = meta_capacity /\ meta_capacity \in Nat
      /\ line_git' \in [0 .. meta_capacity' - 1 -> Entry]
      /\ accessed' \in Nat /\ accessed' < meta_capacity'
      /\ exact' \in BOOLEAN /\ UNCHANGED <<file, fetch>>
  BY TypedEntries DEF lsp_apply_text_edits, IInv, TypeOK, AccessesInBounds
<1>4. QED
  BY <1>2, <1>3, EditInv

-----------------------------------------------------------------------------
(* The fetching threads.                                                   *)

\* What every access of a thread does: one entry of the array, or none, and
\* then its own place.
LEMMA FetchInv ==
  ASSUME IInv, NEW w \in Workers, NEW s \in Step, fetch' = [fetch EXCEPT ![w] = s],
         line_git' \in [0 .. meta_capacity - 1 -> Entry],
         accessed' \in 0 .. meta_capacity - 1,
         s.stamp => /\ s.at = "diff"
                    /\ s.hunk <= Len(file.hunks)
                    /\ file.hunks[s.hunk].new_lines > 0
                    /\ file.hunks[s.hunk].new_start - 1 + s.row \in 0 .. meta_capacity - 1,
         UNCHANGED <<file, lines, meta_capacity, exact>>
  PROVE  IInv'
<1>1. fetch \in [Workers -> Step] /\ meta_capacity \in Nat
  BY DEF IInv, TypeOK, Step
<1>2. fetch' \in [Workers -> Step]
  BY <1>1
<1>3. TypeOK'
  BY <1>1, <1>2 DEF IInv, TypeOK, Entry, Step, line_count
<1>4. AccessesInBounds'
  BY <1>1 DEF AccessesInBounds
<1>5. Stamped'
  <2> SUFFICES ASSUME NEW v \in Workers, fetch'[v].stamp
               PROVE  /\ fetch'[v].at = "diff"
                      /\ fetch'[v].hunk <= Len(file.hunks)
                      /\ file.hunks[fetch'[v].hunk].new_lines > 0
                      /\ file.hunks[fetch'[v].hunk].new_start - 1 + fetch'[v].row
                           \in 0 .. meta_capacity - 1
    BY DEF Stamped
  <2>1. CASE v = w
    BY <1>1, <2>1
  <2>2. CASE v # w
    <3>1. fetch'[v] = fetch[v]
      BY <1>1, <2>2
    <3>2. QED
      BY <3>1 DEF IInv, Stamped
  <2>3. QED
    BY <2>1, <2>2
<1>6. QED
  BY <1>3, <1>4, <1>5 DEF IInv

\* The parts of the invariant that a thread's step starts from.
LEMMA Places ==
  ASSUME IInv, NEW w \in Workers
  PROVE  /\ fetch \in [Workers -> Step] /\ fetch[w] \in Step
         /\ fetch[w].row \in Nat /\ fetch[w].hunk \in Nat \ {0}
         /\ fetch[w].stamp \in BOOLEAN
         /\ meta_capacity \in Nat /\ accessed \in 0 .. meta_capacity - 1
         /\ line_git \in [0 .. meta_capacity - 1 -> Entry]
         /\ line_count \in Nat
BY TypedEntries DEF IInv, TypeOK, AccessesInBounds, Step

\* Nothing but the place has changed.
LEMMA StayInv ==
  ASSUME IInv, NEW w \in Workers, NEW s \in Step, ~s.stamp,
         fetch' = [fetch EXCEPT ![w] = s],
         UNCHANGED <<line_git, accessed>>,
         UNCHANGED <<file, lines, meta_capacity, exact>>
  PROVE  IInv'
BY Places, FetchInv

\* The places a thread goes to that is not between a status and a time.
LEMMA MoveAt ==
  ASSUME IInv, NEW w \in Workers, ~fetch[w].stamp,
         NEW at \in {"reset", "diff", "blame", "done"}, fetch' = Goto(w, at)
  PROVE  \E s \in Step : ~s.stamp /\ fetch' = [fetch EXCEPT ![w] = s]
<1>1. fetch \in [Workers -> Step] /\ fetch[w] \in Step
  BY Places
<1>2. [fetch[w] EXCEPT !.at = at, !.row = 0] \in Step
      /\ ~[fetch[w] EXCEPT !.at = at, !.row = 0].stamp
  BY <1>1 DEF Step
<1>3. fetch' = [fetch EXCEPT ![w] = [fetch[w] EXCEPT !.at = at, !.row = 0]]
  BY <1>1 DEF Goto
<1>4. QED
  BY <1>2, <1>3

LEMMA MoveRow ==
  ASSUME IInv, NEW w \in Workers, ~fetch[w].stamp,
         NEW r \in Nat, fetch' = [fetch EXCEPT ![w].row = r]
  PROVE  \E s \in Step : ~s.stamp /\ fetch' = [fetch EXCEPT ![w] = s]
<1>1. fetch \in [Workers -> Step] /\ fetch[w] \in Step
  BY Places
<1>2. [fetch[w] EXCEPT !.row = r] \in Step /\ ~[fetch[w] EXCEPT !.row = r].stamp
  BY <1>1 DEF Step
<1>3. fetch' = [fetch EXCEPT ![w] = [fetch[w] EXCEPT !.row = r]]
  BY <1>1
<1>4. QED
  BY <1>2, <1>3

LEMMA MoveHunk ==
  ASSUME IInv, NEW w \in Workers, ~fetch[w].stamp,
         fetch' = [fetch EXCEPT ![w].row = 0, ![w].hunk = fetch[w].hunk + 1]
  PROVE  \E s \in Step : ~s.stamp /\ fetch' = [fetch EXCEPT ![w] = s]
<1> DEFINE h == fetch[w].hunk + 1
<1>1. fetch \in [Workers -> Step] /\ fetch[w] \in Step /\ h \in Nat \ {0}
  BY Places
<1>2. fetch' = [fetch EXCEPT ![w] = [fetch[w] EXCEPT !.row = 0, !.hunk = h]]
  BY <1>1
<1> HIDE DEF h
<1>3. [fetch[w] EXCEPT !.row = 0, !.hunk = h] \in Step
      /\ ~[fetch[w] EXCEPT !.row = 0, !.hunk = h].stamp
  BY <1>1 DEF Step
<1>4. QED
  BY <1>2, <1>3

LEMMA ResetInv == ASSUME IInv, NEW w \in Workers, ResetRow(w) PROVE IInv'
<1> DEFINE r == fetch[w].row
<1>1. ~fetch[w].stamp
  BY DEF IInv, Stamped, ResetRow
<1>2. CASE /\ r < meta_capacity
           /\ line_git' = [line_git EXCEPT ![r].status = "NONE"]
           /\ fetch' = [fetch EXCEPT ![w].row = r + 1]
           /\ accessed' = r
  <2>1. r \in 0 .. meta_capacity - 1 /\ r + 1 \in Nat
    BY <1>2, Places
  <2>2. PICK s \in Step : ~s.stamp /\ fetch' = [fetch EXCEPT ![w] = s]
    BY <1>1, <1>2, <2>1, MoveRow
  <2>3. line_git' \in [0 .. meta_capacity - 1 -> Entry]
    BY <1>2, <2>1, Places, StatusUpdate DEF Status
  <2>4. QED
    BY <1>2, <2>1, <2>2, <2>3, FetchInv DEF ResetRow
<1>3. CASE fetch' = Goto(w, "diff") /\ UNCHANGED <<line_git, accessed>>
  <2>1. PICK s \in Step : ~s.stamp /\ fetch' = [fetch EXCEPT ![w] = s]
    BY <1>1, <1>3, MoveAt
  <2>2. QED
    BY <1>3, <2>1, StayInv DEF ResetRow
<1>4. QED
  BY <1>2, <1>3 DEF ResetRow

LEMMA MarkInv == ASSUME IInv, NEW w \in Workers, MarkRow(w) PROVE IInv'
<1> DEFINE h == file.hunks[fetch[w].hunk]
           r == h.new_start - 1 + fetch[w].row
           mark == IF h.old_lines = 0 THEN "ADDED" ELSE "MODIFIED"
<1>1. /\ ~fetch[w].stamp /\ fetch[w].at = "diff" /\ fetch[w].hunk <= Len(file.hunks)
      /\ h.new_lines > 0 /\ h.new_start > 0
      /\ UNCHANGED <<file, lines, meta_capacity, exact>>
  BY Zenon DEF MarkRow
<1>2. h.new_start \in Nat /\ r \in Nat /\ fetch[w].row + 1 \in Nat
  <2>1. file \in Files
    BY DEF IInv, TypeOK
  <2>2. h.new_start \in Nat
    BY <1>1, <2>1, Places, FileType
  <2>3. fetch[w].row \in Nat /\ h.new_start > 0
    BY <1>1, Places
  <2> HIDE DEF h
  <2>4. QED
    BY <2>2, <2>3
<1>3. fetch' = [fetch EXCEPT ![w].row = fetch[w].row + 1]
        => \E s \in Step : ~s.stamp /\ fetch' = [fetch EXCEPT ![w] = s]
  BY <1>1, <1>2, MoveRow
<1>4. CASE /\ Present(r)
           /\ line_git' = [line_git EXCEPT ![r].status = mark]
           /\ accessed' = r
           /\ fetch' = IF line_git[r].last_edited_at = Nobody
                       THEN [fetch EXCEPT ![w].stamp = TRUE]
                       ELSE [fetch EXCEPT ![w].row = fetch[w].row + 1]
  <2>1. r \in 0 .. meta_capacity - 1
    <3>1. r < meta_capacity /\ meta_capacity \in Nat
      BY <1>4, Places DEF Present
    <3> HIDE DEF r
    <3>2. QED
      BY <1>2, <3>1
  <2>2. line_git' \in [0 .. meta_capacity - 1 -> Entry]
    <3>1. mark \in Status
      BY DEF Status
    <3> HIDE DEF mark, r
    <3>2. QED
      BY <1>4, <2>1, <3>1, Places, StatusUpdate
  <2>3. CASE fetch' = [fetch EXCEPT ![w].stamp = TRUE]
    <3> DEFINE t == [fetch[w] EXCEPT !.stamp = TRUE]
    <3>1. /\ t \in Step /\ t.stamp /\ t.at = fetch[w].at
          /\ t.hunk = fetch[w].hunk /\ t.row = fetch[w].row
      BY Places DEF Step
    <3>2. fetch' = [fetch EXCEPT ![w] = t]
      BY <2>3, Places
    <3> HIDE DEF t
    <3>3. /\ t.at = "diff" /\ t.hunk <= Len(file.hunks)
          /\ file.hunks[t.hunk].new_lines > 0
          /\ file.hunks[t.hunk].new_start - 1 + t.row \in 0 .. meta_capacity - 1
      BY <1>1, <2>1, <3>1
    <3>4. accessed' \in 0 .. meta_capacity - 1
      BY <1>4, <2>1
    <3>5. QED
      BY <1>1, <2>2, <3>1, <3>2, <3>3, <3>4, FetchInv
  <2>4. CASE fetch' = [fetch EXCEPT ![w].row = fetch[w].row + 1]
    BY <1>1, <1>3, <1>4, <2>1, <2>2, <2>4, FetchInv
  <2>5. QED
    BY <1>4, <2>3, <2>4
<1>5. CASE /\ fetch' = [fetch EXCEPT ![w].row = fetch[w].row + 1]
           /\ UNCHANGED <<line_git, accessed>>
  BY <1>1, <1>3, <1>5, StayInv
<1>6. QED
  <2>1. \/ /\ Present(r)
           /\ line_git' = [line_git EXCEPT ![r].status = mark]
           /\ accessed' = r
           /\ fetch' = IF line_git[r].last_edited_at = Nobody
                       THEN [fetch EXCEPT ![w].stamp = TRUE]
                       ELSE [fetch EXCEPT ![w].row = fetch[w].row + 1]
        \/ /\ fetch' = [fetch EXCEPT ![w].row = fetch[w].row + 1]
           /\ UNCHANGED <<line_git, accessed>>
    BY DEF MarkRow
  <2>2. QED
    BY <1>4, <1>5, <2>1

LEMMA StampInv == ASSUME IInv, NEW w \in Workers, StampRow(w) PROVE IInv'
<1> DEFINE r == file.hunks[fetch[w].hunk].new_start - 1 + fetch[w].row
           s == [fetch[w] EXCEPT !.stamp = FALSE, !.row = fetch[w].row + 1]
<1>1. r \in 0 .. meta_capacity - 1
  BY DEF IInv, Stamped, StampRow
<1>2. line_git' \in [0 .. meta_capacity - 1 -> Entry]
  <2>1. line_git' = [line_git EXCEPT ![r].last_edited_at = You]
    BY Zenon DEF StampRow
  <2>2. You \in Int
    BY DEF You
  <2> HIDE DEF r
  <2>3. QED
    BY <1>1, <2>1, <2>2, Places, TimeUpdate
<1>3. s \in Step /\ ~s.stamp
  <2>1. fetch[w] \in Step /\ fetch[w].row + 1 \in Nat
    BY Places
  <2>2. QED
    BY <2>1 DEF Step
<1>4. fetch' = [fetch EXCEPT ![w] = s]
  BY Places DEF StampRow
<1>5. /\ accessed' \in 0 .. meta_capacity - 1
      /\ UNCHANGED <<file, lines, meta_capacity, exact>>
  BY <1>1 DEF StampRow
<1> HIDE DEF r, s
<1>6. QED
  BY <1>2, <1>3, <1>4, <1>5, FetchInv

LEMMA MarkDeletedInv == ASSUME IInv, NEW w \in Workers, MarkDeleted(w) PROVE IInv'
<1> DEFINE h == file.hunks[fetch[w].hunk]
           r == Larger(h.new_start - 1, 0)
<1>1. /\ fetch[w].hunk <= Len(file.hunks) /\ h.new_lines = 0
      /\ UNCHANGED <<file, lines, meta_capacity, exact>>
      /\ fetch' = [fetch EXCEPT ![w].row = 0, ![w].hunk = fetch[w].hunk + 1]
  BY Places DEF MarkDeleted
<1>2. ~fetch[w].stamp
  BY <1>1 DEF IInv, Stamped
<1>3. PICK s \in Step : ~s.stamp /\ fetch' = [fetch EXCEPT ![w] = s]
  BY <1>1, <1>2, MoveHunk
<1>4. r \in Nat
  <2>1. file \in Files
    BY DEF IInv, TypeOK
  <2>2. h.new_start \in Nat
    BY <1>1, <2>1, Places, FileType
  <2>3. QED
    BY <2>2 DEF Larger
<1>5. CASE Present(r) /\ line_git' = [line_git EXCEPT ![r].status = "DELETED"] /\ accessed' = r
  <2>1. r \in 0 .. meta_capacity - 1
    <3>1. r < meta_capacity /\ meta_capacity \in Nat
      BY <1>5, Places, Zenon DEF Present
    <3> HIDE DEF r
    <3>2. QED
      BY <1>4, <3>1
  <2> HIDE DEF r
  <2>2. line_git' \in [0 .. meta_capacity - 1 -> Entry]
    BY <1>5, <2>1, Places, StatusUpdate DEF Status
  <2>3. QED
    BY <1>1, <1>3, <1>5, <2>1, <2>2, FetchInv
<1>6. CASE UNCHANGED <<line_git, accessed>>
  BY <1>1, <1>3, <1>6, StayInv
<1>7. QED
  BY <1>5, <1>6 DEF MarkDeleted

LEMMA NextHunkInv == ASSUME IInv, NEW w \in Workers, NextHunk(w) PROVE IInv'
<1>1. /\ ~fetch[w].stamp
      /\ UNCHANGED <<line_git, accessed>>
      /\ UNCHANGED <<file, lines, meta_capacity, exact>>
  BY DEF NextHunk
<1>2. PICK s \in Step : ~s.stamp /\ fetch' = [fetch EXCEPT ![w] = s]
  <2>1. CASE fetch' = Goto(w, "blame")
    BY <1>1, <2>1, MoveAt
  <2>2. CASE fetch' = [fetch EXCEPT ![w].row = 0, ![w].hunk = fetch[w].hunk + 1]
    BY <1>1, <2>2, MoveHunk
  <2>3. QED
    BY <2>1, <2>2, Places DEF NextHunk
<1>3. QED
  BY <1>1, <1>2, StayInv

LEMMA BlameInv == ASSUME IInv, NEW w \in Workers, BlameRow(w) PROVE IInv'
<1> DEFINE r == fetch[w].row
<1>1. fetch[w].at = "blame" /\ UNCHANGED <<file, lines, meta_capacity, exact>>
  BY DEF BlameRow
<1>2. ~fetch[w].stamp /\ r \in Nat /\ r + 1 \in Nat
  BY <1>1, Places DEF IInv, Stamped
<1>3. fetch' = [fetch EXCEPT ![w].row = r + 1]
        => \E s \in Step : ~s.stamp /\ fetch' = [fetch EXCEPT ![w] = s]
  BY <1>2, MoveRow
<1>4. CASE /\ Present(r)
           /\ line_git' = [line_git EXCEPT ![r].author = r, ![r].last_edited_at = r]
           /\ fetch' = [fetch EXCEPT ![w].row = r + 1]
           /\ accessed' = r
  <2>1. r \in 0 .. meta_capacity - 1
    BY <1>2, <1>4, Places DEF Present
  <2>2. line_git' \in [0 .. meta_capacity - 1 -> Entry]
    <3>1. r \in Int /\ meta_capacity \in Nat /\ line_git \in [0 .. meta_capacity - 1 -> Entry]
      BY <1>2, Places
    <3> HIDE DEF r
    <3>2. [line_git EXCEPT ![r].author = r, ![r].last_edited_at = r]
            \in [0 .. meta_capacity - 1 -> Entry]
      BY <2>1, <3>1, BlameUpdate, Zenon
    <3>3. QED
      BY <1>4, <3>2, Zenon
  <2>3. QED
    BY <1>1, <1>3, <1>4, <2>1, <2>2, FetchInv
<1>5. CASE fetch' = [fetch EXCEPT ![w].row = r + 1] /\ UNCHANGED <<line_git, accessed>>
  BY <1>1, <1>3, <1>5, StayInv
<1>6. CASE fetch' = Goto(w, "done") /\ UNCHANGED <<line_git, accessed>>
  <2>1. PICK t \in Step : ~t.stamp /\ fetch' = [fetch EXCEPT ![w] = t]
    BY <1>2, <1>6, MoveAt
  <2>2. QED
    BY <1>1, <1>6, <2>1, StayInv
<1>7. QED
  BY <1>4, <1>5, <1>6 DEF BlameRow

LEMMA NextInv == IInv /\ [Next]_vars => IInv'
<1> SUFFICES ASSUME IInv, [Next]_vars PROVE IInv'
  OBVIOUS
<1>1. CASE UNCHANGED vars
  BY <1>1 DEF vars, IInv, TypeOK, AccessesInBounds, Stamped, line_count
<1>2. ASSUME NEW y \in 0 .. line_count - 1, NEW n \in 0 .. MaxLines, Buffer_delete(y, n)
      PROVE  IInv'
  BY <1>2, DeleteInv
<1>3. ASSUME NEW y \in 0 .. line_count - 1, NEW n \in 0 .. MaxLines,
             NEW row \in 0 .. line_count - 1, Buffer_insert(y, row, n)
      PROVE  IInv'
  BY <1>3, InsertInv
<1>4. CASE lsp_apply_text_edits
  BY <1>4, FormatInv
<1>5. ASSUME NEW w \in Workers,
             \/ ResetRow(w) \/ MarkRow(w) \/ StampRow(w)
             \/ MarkDeleted(w) \/ NextHunk(w) \/ BlameRow(w)
      PROVE  IInv'
  BY <1>5, ResetInv, MarkInv, StampInv, MarkDeletedInv, NextHunkInv, BlameInv
<1>6. QED
  BY <1>1, <1>2, <1>3, <1>4, <1>5 DEF Next

-----------------------------------------------------------------------------
(* What the entries say while threads fetch.                               *)

HunkNumbers == 1 .. Len(file.hunks)

\* Row i is one of those that hunk k added or changed.
Covers(k, i) ==
    i + 1 \in file.hunks[k].new_start
                .. file.hunks[k].new_start + file.hunks[k].new_lines - 1

\* Lines are gone behind row i, by hunk k.
Gone(k, i) ==
    file.hunks[k].new_lines = 0 /\ i = Larger(file.hunks[k].new_start - 1, 0)

MarkOf(k) == IF file.hunks[k].old_lines = 0 THEN "ADDED" ELSE "MODIFIED"

\* A thread at s is behind hunk k, or has done j of its rows and row i with them.
Beyond(s, k, j, i) ==
    \/ s.at \in {"blame", "done"}
    \/ s.at = "diff" /\ s.hunk > k
    \/ s.at = "diff" /\ s.hunk = k /\ file.hunks[k].new_start - 1 + j > i

Marked(s, k, i) == Beyond(s, k, IF s.stamp THEN s.row + 1 ELSE s.row, i)

Timed(s, k, i) == Beyond(s, k, s.row, i)

Left(s, k) == s.at \in {"blame", "done"} \/ (s.at = "diff" /\ s.hunk > k)

Blamed(s, i) == s.at = "done" \/ (s.at = "blame" /\ s.row > i)

\* Row i of the file has its mark once every thread has been there: until then
\* one of them may still clear it, or find it set and leave it.
StatusSays(i) ==
    /\ \A k \in HunkNumbers : Covers(k, i) =>
          ((\A w \in Workers : Marked(fetch[w], k, i)) => line_git[i].status = MarkOf(k))
    /\ (\A k \in HunkNumbers : ~Covers(k, i)) =>
          /\ line_git[i].status \in {"NONE", "DELETED"}
          /\ \A k \in HunkNumbers : Gone(k, i) =>
                ((\A w \in Workers : Left(fetch[w], k)) => line_git[i].status = "DELETED")
          /\ (\A k \in HunkNumbers : ~Gone(k, i)) => line_git[i].status = "NONE"

\* Author and time of row i, in the same way: a thread that found no time may
\* write its own over the one that another took from the commit, and then has
\* its blame still before it.
BlameSays(i) ==
    /\ i < file.blamed /\ (\A w \in Workers : Blamed(fetch[w], i)) =>
          line_git[i].author = i /\ line_git[i].last_edited_at = i
    /\ i >= file.blamed =>
          /\ line_git[i].author = Nobody
          /\ line_git[i].last_edited_at \in {Nobody, You}
          /\ (\A k \in HunkNumbers : ~Covers(k, i)) => line_git[i].last_edited_at = Nobody
          /\ \A k \in HunkNumbers : Covers(k, i) =>
                ((\A w \in Workers : Timed(fetch[w], k, i)) =>
                    line_git[i].last_edited_at = You)

\* What the threads leave for row r of the file: its mark, and author and time
\* of row r of HEAD.
Fetched(r) ==
    LET hunks == {file.hunks[k] : k \in DOMAIN file.hunks}
        here == {h \in hunks : r + 1 \in h.new_start .. h.new_start + h.new_lines - 1}
        gone == {h \in hunks : h.new_lines = 0 /\ r = Larger(h.new_start - 1, 0)}
    IN  [status |-> CASE here # {} -> IF \E h \in here : h.old_lines = 0
                                      THEN "ADDED" ELSE "MODIFIED"
                      [] here = {} /\ gone # {} -> "DELETED"
                      [] OTHER -> "NONE",
         last_edited_at |-> IF r < file.blamed THEN r
                            ELSE IF here # {} THEN You ELSE Nobody,
         author |-> IF r < file.blamed THEN r ELSE Nobody]

\* That is the mark of the row, and the commit of a row that HEAD has in its place.
LEMMA FetchedIsTrue ==
  ASSUME NEW r
  PROVE  /\ Fetched(r).status = Mark(r)
         /\ ~Uncommitted(r) /\ HeadRow(r) = r =>
               Fetched(r).author = Commit(r) /\ Fetched(r).last_edited_at = Commit(r)
<1>1. Fetched(r).status = Mark(r)
  BY Zenon DEF Fetched, Mark
<1>2. /\ Fetched(r).author = IF r < file.blamed THEN r ELSE Nobody
      /\ ~Uncommitted(r) =>
            Fetched(r).last_edited_at = IF r < file.blamed THEN r ELSE Nobody
  BY DEF Fetched, Uncommitted
<1>3. HeadRow(r) = r => Commit(r) = IF r < file.blamed THEN r ELSE Nobody
  BY DEF Commit
<1>4. QED
  BY <1>1, <1>2, <1>3

\* The text is the file's still.
Unedited ==
    lines = [k \in 1 .. file.rows |-> k - 1] /\ file.rows <= meta_capacity

\* A thread has the hunks before it until it has cleared every row, and is
\* between status and time of a row of the file only.
OnItsWay(s) ==
    /\ s.at = "reset" => s.hunk = 1
    /\ s.stamp => /\ s.row < file.hunks[s.hunk].new_lines
                  /\ file.hunks[s.hunk].new_start - 1 + s.row < file.rows

Fetching ==
    /\ Unedited
    /\ \A w \in Workers : OnItsWay(fetch[w])
    /\ \A i \in 0 .. file.rows - 1 : StatusSays(i) /\ BlameSays(i)
    /\ \A i \in file.rows .. meta_capacity - 1 : line_git[i] = Blank

Follows ==
    /\ \A y \in 0 .. line_count - 1 :
          line_git[y] = IF lines[y + 1] = Edited THEN Mine ELSE Fetched(lines[y + 1])
    /\ \A i \in line_count .. meta_capacity - 1 : line_git[i] = Blank

Shown ==
    exact => line_count <= meta_capacity /\ IF Idle THEN Follows ELSE Fetching

LEMMA Hunks ==
  ASSUME file \in Files, NEW k \in HunkNumbers
  PROVE  /\ k \in Nat \ {0}
         /\ file.hunks[k].new_start \in Nat
         /\ file.hunks[k].new_lines \in Nat
         /\ file.hunks[k].old_lines \in Nat
         /\ file.hunks[k].new_lines > 0 => file.hunks[k].new_start > 0
         /\ file.hunks[k].new_lines = 0 => file.hunks[k].old_lines > 0
<1>1. k \in Nat \ {0} /\ k <= Len(file.hunks)
  BY FileType DEF HunkNumbers
<1>2. k \in DOMAIN file.hunks
  <2>1. file.hunks \in Seq(Hunk)
    BY FilesAreFiles
  <2>2. QED
    BY <1>1, <2>1, LenProperties DEF HunkNumbers
<1>3. QED
  BY <1>1, <1>2, FileType, HunksOfDiffs

\* No row is in two hunks.
LEMMA Apart ==
  ASSUME file \in Files, NEW k \in HunkNumbers, NEW l \in HunkNumbers,
         NEW i \in Int, Covers(k, i), Covers(l, i)
  PROVE  k = l
<1>1. file.hunks \in Seq(Hunk)
  BY FilesAreFiles
<1>2. k \in DOMAIN file.hunks /\ l \in DOMAIN file.hunks
  BY <1>1, LenProperties DEF HunkNumbers
<1>3. SUFFICES ASSUME k # l PROVE FALSE
  OBVIOUS
<1>4. (file.hunks[k].new_start .. file.hunks[k].new_start + file.hunks[k].new_lines - 1)
        \cap (file.hunks[l].new_start ..
                file.hunks[l].new_start + file.hunks[l].new_lines - 1) = {}
  BY <1>2, <1>3, HunksOfDiffs, Zenon
<1>5. QED
  BY <1>4 DEF Covers

LEMMA SizeOfFile ==
  ASSUME file \in Files, Unedited
  PROVE  line_count = file.rows /\ \A i \in 0 .. file.rows - 1 : lines[i + 1] = i
BY FileType DEF Unedited, line_count

-----------------------------------------------------------------------------
(* A thread's step, seen from one row.                                     *)

\* Where the step of thread w has brought it.
Moved(w, at, hunk, row, stamp) ==
    /\ \A v \in Workers \ {w} : fetch'[v] = fetch[v]
    /\ fetch'[w].at = at /\ fetch'[w].hunk = hunk
    /\ fetch'[w].row = row /\ fetch'[w].stamp = stamp

\* The file is the same after a step, and what is said of it.
LEMMA StatusNext ==
  ASSUME file' = file, NEW i \in Nat,
         \A k \in HunkNumbers : Covers(k, i) =>
            ((\A v \in Workers : Marked(fetch'[v], k, i))
                => line_git'[i].status = MarkOf(k)),
         (\A k \in HunkNumbers : ~Covers(k, i)) =>
            /\ line_git'[i].status \in {"NONE", "DELETED"}
            /\ \A k \in HunkNumbers : Gone(k, i) =>
                  ((\A v \in Workers : Left(fetch'[v], k))
                      => line_git'[i].status = "DELETED")
            /\ (\A k \in HunkNumbers : ~Gone(k, i)) => line_git'[i].status = "NONE"
  PROVE  StatusSays(i)'
BY DEF StatusSays, HunkNumbers, Covers, Gone, Marked, Left, Beyond, MarkOf

LEMMA BlameNext ==
  ASSUME file' = file, NEW i \in Nat,
         i < file.blamed /\ (\A v \in Workers : Blamed(fetch'[v], i)) =>
            line_git'[i].author = i /\ line_git'[i].last_edited_at = i,
         i >= file.blamed =>
            /\ line_git'[i].author = Nobody
            /\ line_git'[i].last_edited_at \in {Nobody, You}
            /\ (\A k \in HunkNumbers : ~Covers(k, i)) => line_git'[i].last_edited_at = Nobody
            /\ \A k \in HunkNumbers : Covers(k, i) =>
                  ((\A v \in Workers : Timed(fetch'[v], k, i)) =>
                      line_git'[i].last_edited_at = You)
  PROVE  BlameSays(i)'
BY DEF BlameSays, HunkNumbers, Covers, Timed, Blamed, Beyond

LEMMA StatusKept ==
  ASSUME NEW w \in Workers, \A v \in Workers \ {w} : fetch'[v] = fetch[v],
         file' = file, NEW i \in Nat, StatusSays(i),
         line_git'[i].status = line_git[i].status,
         \A k \in HunkNumbers : Covers(k, i) =>
            (Marked(fetch'[w], k, i) => Marked(fetch[w], k, i)),
         \A k \in HunkNumbers : Gone(k, i) => (Left(fetch'[w], k) => Left(fetch[w], k))
  PROVE  StatusSays(i)'
<1>1. ASSUME NEW k \in HunkNumbers, Covers(k, i), \A v \in Workers : Marked(fetch'[v], k, i)
      PROVE  line_git'[i].status = MarkOf(k)
  <2>1. \A v \in Workers : Marked(fetch[v], k, i)
    <3>1. ASSUME NEW v \in Workers PROVE Marked(fetch[v], k, i)
      <4>1. CASE v = w
        BY <1>1, <4>1
      <4>2. CASE v # w
        <5>1. Marked(fetch'[v], k, i) /\ fetch'[v] = fetch[v]
          BY <1>1, <4>2
        <5>2. QED
          BY <5>1
      <4>3. QED
        BY <4>1, <4>2
    <3>2. QED
      BY <3>1
  <2>2. QED
    BY <1>1, <2>1 DEF StatusSays
<1>2. ASSUME NEW k \in HunkNumbers, Gone(k, i), \A v \in Workers : Left(fetch'[v], k),
             \A l \in HunkNumbers : ~Covers(l, i)
      PROVE  line_git'[i].status = "DELETED"
  <2>1. \A v \in Workers : Left(fetch[v], k)
    <3>1. ASSUME NEW v \in Workers PROVE Left(fetch[v], k)
      <4>1. CASE v = w
        BY <1>2, <4>1
      <4>2. CASE v # w
        <5>1. Left(fetch'[v], k) /\ fetch'[v] = fetch[v]
          BY <1>2, <4>2
        <5>2. QED
          BY <5>1
      <4>3. QED
        BY <4>1, <4>2
    <3>2. QED
      BY <3>1
  <2>2. QED
    BY <1>2, <2>1 DEF StatusSays
<1>3. QED
  BY <1>1, <1>2, StatusNext DEF StatusSays

LEMMA BlameKept ==
  ASSUME NEW w \in Workers, \A v \in Workers \ {w} : fetch'[v] = fetch[v],
         file' = file, NEW i \in Nat, BlameSays(i),
         line_git'[i].author = line_git[i].author,
         line_git'[i].last_edited_at = line_git[i].last_edited_at,
         \A k \in HunkNumbers : Covers(k, i) =>
            (Timed(fetch'[w], k, i) => \/ Timed(fetch[w], k, i)
                                       \/ line_git[i].last_edited_at # Nobody),
         i < file.blamed => (Blamed(fetch'[w], i) => Blamed(fetch[w], i))
  PROVE  BlameSays(i)'
<1>1. ASSUME NEW k \in HunkNumbers, Covers(k, i), \A v \in Workers : Timed(fetch'[v], k, i),
             i >= file.blamed
      PROVE  line_git'[i].last_edited_at = You
  <2>1. CASE Timed(fetch[w], k, i)
    <3>1. \A v \in Workers : Timed(fetch[v], k, i)
      <4>1. ASSUME NEW v \in Workers, v # w PROVE Timed(fetch[v], k, i)
        <5>1. Timed(fetch'[v], k, i) /\ fetch'[v] = fetch[v]
          BY <1>1, <4>1
        <5>2. QED
          BY <5>1
      <4>2. QED
        BY <2>1, <4>1
    <3>2. QED
      BY <1>1, <3>1 DEF BlameSays
  <2>2. CASE line_git[i].last_edited_at # Nobody
    BY <1>1, <2>2 DEF BlameSays
  <2>3. QED
    BY <1>1, <2>1, <2>2
<1>2. ASSUME \A v \in Workers : Blamed(fetch'[v], i), i < file.blamed
      PROVE  line_git'[i].author = i /\ line_git'[i].last_edited_at = i
  <2>1. \A v \in Workers : Blamed(fetch[v], i)
    <3>1. ASSUME NEW v \in Workers, v # w PROVE Blamed(fetch[v], i)
      <4>1. Blamed(fetch'[v], i) /\ fetch'[v] = fetch[v]
        BY <1>2, <3>1
      <4>2. QED
        BY <4>1
    <3>2. QED
      BY <1>2, <3>1
  <2>2. QED
    BY <1>2, <2>1 DEF BlameSays
<1>3. QED
  BY <1>1, <1>2, BlameNext DEF BlameSays

\* What is left to show of a thread's step: its own place and every row.
LEMMA FetchingStays ==
  ASSUME Fetching, NEW w \in Workers, \A v \in Workers \ {w} : fetch'[v] = fetch[v],
         UNCHANGED <<file, lines, meta_capacity>>,
         OnItsWay(fetch'[w]),
         \A i \in 0 .. file.rows - 1 : StatusSays(i)' /\ BlameSays(i)',
         \A i \in file.rows .. meta_capacity - 1 : line_git'[i] = Blank
  PROVE  Fetching'
<1>1. \A v \in Workers : OnItsWay(fetch'[v])
  <2>1. ASSUME NEW v \in Workers, v # w PROVE OnItsWay(fetch'[v])
    <3>1. OnItsWay(fetch[v]) /\ fetch'[v] = fetch[v]
      BY <2>1 DEF Fetching
    <3>2. QED
      BY <3>1
  <2>2. QED
    BY <2>1
<1>2. Unedited'
  BY DEF Fetching, Unedited
<1>3. \A v \in Workers : OnItsWay(fetch[v])'
  BY <1>1 DEF OnItsWay
<1>4. QED
  BY <1>2, <1>3 DEF Fetching

\* What a thread's step starts from.
LEMMA Start ==
  ASSUME IInv, Fetching, NEW w \in Workers
  PROVE  /\ file \in Files /\ file.rows \in 1 .. MaxLines /\ file.blamed \in Nat
         /\ line_count = file.rows /\ file.rows <= meta_capacity
         /\ OnItsWay(fetch[w])
         /\ \A i \in 0 .. file.rows - 1 : i \in Nat /\ StatusSays(i) /\ BlameSays(i)
         /\ \A i \in file.rows .. meta_capacity - 1 : line_git[i] = Blank
         /\ \A i \in 0 .. file.rows - 1 : Present(i)
         /\ \A i \in Int : Present(i) => i < file.rows
<1>1. file \in Files
  BY DEF IInv, TypeOK
<1>2. file.rows \in 1 .. MaxLines /\ file.blamed \in Nat
  BY <1>1, FileType
<1>3. line_count = file.rows /\ file.rows <= meta_capacity
  BY <1>1, SizeOfFile DEF Fetching, Unedited
<1>4. meta_capacity \in Nat
  BY Places
<1>5. QED
  BY <1>1, <1>2, <1>3, <1>4 DEF Fetching, Present

\* One field of one entry was written.
LEMMA StatusWritten ==
  ASSUME NEW n \in Nat, NEW g \in [0 .. n - 1 -> Entry], NEW j \in 0 .. n - 1, NEW m,
         NEW h, h = [g EXCEPT ![j].status = m]
  PROVE  /\ h[j].status = m
         /\ \A i \in 0 .. n - 1 : /\ h[i].author = g[i].author
                                  /\ h[i].last_edited_at = g[i].last_edited_at
         /\ \A i \in 0 .. n - 1 : i # j => h[i] = g[i]
<1>1. g[j] \in Entry
  OBVIOUS
<1>2. h[j] = [g[j] EXCEPT !.status = m]
  OBVIOUS
<1>3. /\ h[j].status = m /\ h[j].author = g[j].author
      /\ h[j].last_edited_at = g[j].last_edited_at
  BY <1>1, <1>2 DEF Entry
<1>4. \A i \in 0 .. n - 1 : i # j => h[i] = g[i]
  OBVIOUS
<1>5. QED
  BY <1>3, <1>4

LEMMA SameEntry ==
  ASSUME NEW e \in Entry, NEW f \in Entry, e.status = f.status,
         e.last_edited_at = f.last_edited_at, e.author = f.author
  PROVE  e = f
BY DEF Entry

LEMMA ResetFetches ==
  ASSUME IInv, Fetching, NEW w \in Workers, ResetRow(w)
  PROVE  Fetching'
<1> DEFINE r == fetch[w].row
<1>1. /\ fetch[w].at = "reset" /\ fetch[w].hunk = 1 /\ ~fetch[w].stamp
      /\ UNCHANGED <<file, lines, meta_capacity>>
  BY Start DEF ResetRow, OnItsWay, IInv, Stamped
<1>2. \/ /\ r < meta_capacity
         /\ line_git' = [line_git EXCEPT ![r].status = "NONE"]
         /\ Moved(w, "reset", 1, r + 1, FALSE)
      \/ line_git' = line_git /\ Moved(w, "diff", 1, 0, FALSE)
  <2>1. fetch \in [Workers -> Step] /\ fetch[w] \in Step
    BY Places
  <2>2. CASE /\ r < meta_capacity
             /\ line_git' = [line_git EXCEPT ![r].status = "NONE"]
             /\ fetch' = [fetch EXCEPT ![w].row = r + 1]
    BY <1>1, <2>1, <2>2 DEF Moved, Step
  <2>3. CASE fetch' = Goto(w, "diff") /\ line_git' = line_git
    BY <1>1, <2>1, <2>3 DEF Goto, Moved, Step
  <2>4. QED
    BY <2>2, <2>3 DEF ResetRow
<1>3. \A v \in Workers \ {w} : fetch'[v] = fetch[v]
  BY <1>2 DEF Moved
<1>4. \A i \in Nat : /\ \A k \in HunkNumbers : Covers(k, i) => /\ ~Marked(fetch'[w], k, i)
                                                              /\ ~Timed(fetch'[w], k, i)
                     /\ \A k \in HunkNumbers : ~Left(fetch'[w], k)
                     /\ ~Blamed(fetch'[w], i)
  <2>1. \A k \in HunkNumbers : k \in Nat \ {0} /\ file.hunks[k].new_start \in Nat
    BY Hunks, Start
  <2>2. QED
    BY <1>2, <2>1 DEF Moved, Marked, Timed, Left, Blamed, Beyond, Covers
<1>5. r \in Nat /\ line_git \in [0 .. meta_capacity - 1 -> Entry] /\ meta_capacity \in Nat
  BY Places
<1>6. \A i \in 0 .. meta_capacity - 1 :
         /\ line_git'[i].author = line_git[i].author
         /\ line_git'[i].last_edited_at = line_git[i].last_edited_at
         /\ line_git'[i].status = line_git[i].status \/ line_git'[i].status = "NONE"
  <2>1. CASE line_git' = line_git
    BY <2>1
  <2>2. CASE r < meta_capacity /\ line_git' = [line_git EXCEPT ![r].status = "NONE"]
    <3>1. r \in 0 .. meta_capacity - 1
      BY <1>5, <2>2
    <3>2. QED
      BY <1>5, <2>2, <3>1, StatusWritten
  <2>3. QED
    BY <1>2, <2>1, <2>2
<1>7. ASSUME NEW i \in 0 .. file.rows - 1
      PROVE  StatusSays(i)' /\ BlameSays(i)'
  <2>1. /\ i \in Nat /\ i \in 0 .. meta_capacity - 1 /\ StatusSays(i) /\ BlameSays(i)
    BY <1>5, Start
  <2>2. BlameSays(i)'
    BY <1>1, <1>3, <1>4, <1>6, <2>1, BlameKept
  <2>3. CASE line_git'[i].status = line_git[i].status
    <3>1. \A k \in HunkNumbers : Covers(k, i) => ~Marked(fetch'[w], k, i)
      BY <1>4, <2>1
    <3>2. \A k \in HunkNumbers : ~Left(fetch'[w], k)
      BY <1>4, <2>1
    <3>3. QED
      BY <1>1, <1>3, <2>1, <2>2, <2>3, <3>1, <3>2, StatusKept
  <2>4. CASE line_git'[i].status = "NONE"
    <3>1. \A k \in HunkNumbers : Covers(k, i) => ~\A v \in Workers : Marked(fetch'[v], k, i)
      BY <1>4, <2>1
    <3>2. \A k \in HunkNumbers : ~\A v \in Workers : Left(fetch'[v], k)
      BY <1>4, <2>1
    <3>3. QED
      BY <1>1, <2>1, <2>2, <2>4, <3>1, <3>2, StatusNext
  <2>5. QED
    BY <1>6, <2>1, <2>2, <2>3, <2>4
<1>8. ASSUME NEW i \in file.rows .. meta_capacity - 1
      PROVE  line_git'[i] = Blank
  <2>1. file.rows \in Nat
    BY Start
  <2>2. line_git[i] = Blank /\ i \in 0 .. meta_capacity - 1
    BY <1>5, <2>1, Start
  <2>3. line_git' \in [0 .. meta_capacity - 1 -> Entry]
    <3>1. IInv'
      BY ResetInv
    <3>2. QED
      BY <1>1, <3>1, TypedEntries DEF IInv, TypeOK, Entry
  <2>4. line_git'[i] \in Entry /\ Blank \in Entry
    BY <2>2, <2>3, KnownEntries
  <2>5. line_git'[i].status = "NONE"
    BY <1>6, <2>2 DEF Blank
  <2>6. QED
    BY <1>6, <2>2, <2>4, <2>5, SameEntry DEF Blank
<1>9. OnItsWay(fetch'[w])
  BY <1>2 DEF Moved, OnItsWay
<1>10. QED
  BY <1>1, <1>3, <1>7, <1>8, <1>9, FetchingStays

\* A step of a thread that leaves the entry of row i: it did not come by there.
LEMMA RowStays ==
  ASSUME NEW w \in Workers, \A v \in Workers \ {w} : fetch'[v] = fetch[v],
         file' = file, NEW i \in Nat, StatusSays(i), BlameSays(i),
         line_git'[i] = line_git[i],
         \A k \in HunkNumbers : Covers(k, i) =>
            /\ Marked(fetch'[w], k, i) => Marked(fetch[w], k, i)
            /\ Timed(fetch'[w], k, i) => Timed(fetch[w], k, i),
         \A k \in HunkNumbers : Gone(k, i) => (Left(fetch'[w], k) => Left(fetch[w], k)),
         Blamed(fetch'[w], i) => Blamed(fetch[w], i)
  PROVE  StatusSays(i)' /\ BlameSays(i)'
<1>1. StatusSays(i)'
  BY StatusKept
<1>2. BlameSays(i)'
  BY BlameKept
<1>3. QED
  BY <1>1, <1>2

\* What a step to the next write in a hunk brings the thread past.
LEMMA InHunk ==
  ASSUME file \in Files, NEW s \in Step, NEW t \in Step,
         s.at = "diff", t.at = "diff", t.hunk = s.hunk, s.hunk \in HunkNumbers,
         \/ ~s.stamp /\ t.stamp /\ t.row = s.row
         \/ ~t.stamp /\ t.row = s.row + 1,
         NEW k \in HunkNumbers, NEW i \in Nat,
         i # file.hunks[s.hunk].new_start - 1 + s.row \/ k # s.hunk
  PROVE  /\ Marked(t, k, i) => Marked(s, k, i)
         /\ Timed(t, k, i) => Timed(s, k, i)
         /\ Left(t, k) => Left(s, k)
         /\ ~Blamed(t, i)
<1>1. /\ k \in Nat /\ file.hunks[k].new_start \in Nat
      /\ s.row \in Nat /\ s.hunk \in Nat
  BY Hunks DEF Step
<1>2. Timed(t, k, i) => Timed(s, k, i)
  BY <1>1 DEF Timed, Beyond
<1>3. Marked(t, k, i) => Marked(s, k, i)
  <2>1. CASE s.stamp
    BY <1>1, <2>1 DEF Marked, Beyond
  <2>2. CASE ~s.stamp
    BY <1>1, <2>2 DEF Marked, Beyond
  <2>3. QED
    BY <2>1, <2>2
<1>4. (Left(t, k) => Left(s, k)) /\ ~Blamed(t, i)
  BY DEF Left, Blamed
<1>5. QED
  BY <1>2, <1>3, <1>4

\* The row of the file that a thread is at in a hunk.
LEMMA AtRow ==
  ASSUME IInv, Fetching, NEW w \in Workers, fetch[w].hunk \in HunkNumbers,
         file.hunks[fetch[w].hunk].new_lines > 0,
         fetch[w].row < file.hunks[fetch[w].hunk].new_lines
  PROVE  LET r == file.hunks[fetch[w].hunk].new_start - 1 + fetch[w].row
         IN  r \in Nat /\ Covers(fetch[w].hunk, r)
<1>1. /\ file.hunks[fetch[w].hunk].new_start \in Nat
      /\ file.hunks[fetch[w].hunk].new_lines \in Nat
      /\ file.hunks[fetch[w].hunk].new_start > 0
  BY Start, Hunks
<1>2. fetch[w].row \in Nat
  BY Places
<1>3. QED
  BY <1>1, <1>2 DEF Covers

LEMMA MarkFetches ==
  ASSUME IInv, Fetching, NEW w \in Workers, MarkRow(w)
  PROVE  Fetching'
<1> DEFINE c == fetch[w].hunk
           r == file.hunks[c].new_start - 1 + fetch[w].row
<1>1. /\ fetch[w].at = "diff" /\ ~fetch[w].stamp /\ c \in HunkNumbers
      /\ file.hunks[c].new_lines > 0 /\ fetch[w].row < file.hunks[c].new_lines
      /\ UNCHANGED <<file, lines, meta_capacity>>
  <2>1. c \in Nat \ {0} /\ file \in Files /\ Len(file.hunks) \in Nat
    BY Places, Start, FileType
  <2>2. c <= Len(file.hunks)
    BY Zenon DEF MarkRow
  <2>3. c \in HunkNumbers
    BY <2>1, <2>2 DEF HunkNumbers
  <2>4. QED
    BY <2>3, Zenon DEF MarkRow
<1>2. r \in Nat /\ Covers(c, r)
  BY <1>1, AtRow
<1>3. /\ fetch[w] \in Step /\ fetch \in [Workers -> Step] /\ fetch[w].row \in Nat
      /\ line_git \in [0 .. meta_capacity - 1 -> Entry] /\ meta_capacity \in Nat
      /\ file \in Files /\ file.rows \in Nat
  BY Places, Start
<1>4. \/ /\ Present(r)
         /\ line_git' = [line_git EXCEPT ![r].status = MarkOf(c)]
         /\ \/ fetch' = [fetch EXCEPT ![w].stamp = TRUE]
            \/ /\ line_git[r].last_edited_at # Nobody
               /\ fetch' = [fetch EXCEPT ![w].row = fetch[w].row + 1]
      \/ /\ ~Present(r)
         /\ line_git' = line_git
         /\ fetch' = [fetch EXCEPT ![w].row = fetch[w].row + 1]
  BY DEF MarkRow, MarkOf
<1> HIDE DEF r
<1>5. /\ \A v \in Workers \ {w} : fetch'[v] = fetch[v]
      /\ fetch'[w] \in Step
      /\ fetch'[w].at = "diff" /\ fetch'[w].hunk = c
      /\ \/ Present(r) /\ fetch'[w].stamp /\ fetch'[w].row = fetch[w].row
         \/ /\ ~fetch'[w].stamp /\ fetch'[w].row = fetch[w].row + 1
            /\ Present(r) => line_git[r].last_edited_at # Nobody
  <2>1. CASE Present(r) /\ fetch' = [fetch EXCEPT ![w].stamp = TRUE]
    BY <1>1, <1>3, <2>1 DEF Step
  <2>2. CASE /\ fetch' = [fetch EXCEPT ![w].row = fetch[w].row + 1]
             /\ Present(r) => line_git[r].last_edited_at # Nobody
    <3>1. /\ \A v \in Workers \ {w} : fetch'[v] = fetch[v]
          /\ fetch'[w] = [fetch[w] EXCEPT !.row = fetch[w].row + 1]
      BY <1>3, <2>2
    <3>2. /\ fetch'[w] \in Step /\ fetch'[w].at = fetch[w].at
          /\ fetch'[w].hunk = fetch[w].hunk /\ fetch'[w].stamp = fetch[w].stamp
          /\ fetch'[w].row = fetch[w].row + 1
      BY <1>3, <3>1, SMTT(30) DEF Step
    <3>3. QED
      BY <1>1, <2>2, <3>1, <3>2
  <2>3. QED
    BY <1>4, <2>1, <2>2
<1>6. ASSUME NEW k \in HunkNumbers, NEW i \in Nat, i # r \/ k # c
      PROVE  /\ Marked(fetch'[w], k, i) => Marked(fetch[w], k, i)
             /\ Timed(fetch'[w], k, i) => Timed(fetch[w], k, i)
             /\ Left(fetch'[w], k) => Left(fetch[w], k)
             /\ ~Blamed(fetch'[w], i)
  BY <1>1, <1>3, <1>5, <1>6, InHunk DEF r
<1>7. /\ Present(r) => r \in 0 .. meta_capacity - 1 /\ r < file.rows
      /\ \A i \in 0 .. meta_capacity - 1 : i # r => line_git'[i] = line_git[i]
      /\ ~Present(r) => line_git' = line_git
  BY <1>2, <1>3, <1>4, Start DEF Present
<1>8. ASSUME NEW i \in 0 .. file.rows - 1
      PROVE  StatusSays(i)' /\ BlameSays(i)'
  <2>1. /\ i \in Nat /\ i \in 0 .. meta_capacity - 1 /\ StatusSays(i) /\ BlameSays(i)
        /\ Present(i)
    BY <1>3, Start
  <2>2. CASE i # r
    <3>1. line_git'[i] = line_git[i]
      BY <1>7, <2>1, <2>2
    <3>2. QED
      BY <1>1, <1>5, <1>6, <2>1, <2>2, <3>1, RowStays
  <2>3. CASE i = r
    <3>1. /\ Present(r) /\ r \in 0 .. meta_capacity - 1
          /\ line_git' = [line_git EXCEPT ![r].status = MarkOf(c)]
      BY <1>4, <1>7, <2>1, <2>3
    <3>2. /\ line_git'[r].status = MarkOf(c)
          /\ line_git'[r].author = line_git[r].author
          /\ line_git'[r].last_edited_at = line_git[r].last_edited_at
      BY <1>3, <3>1, StatusWritten
    <3>3. StatusSays(i)'
      <4>1. \A k \in HunkNumbers : Covers(k, i) => k = c
        BY <1>1, <1>2, <1>3, <2>3, Apart
      <4>2. ~\A k \in HunkNumbers : ~Covers(k, i)
        BY <1>1, <1>2, <2>3
      <4>3. QED
        BY <1>1, <2>1, <2>3, <3>2, <4>1, <4>2, StatusNext
    <3>4. BlameSays(i)'
      <4>1. ASSUME NEW k \in HunkNumbers, Timed(fetch'[w], k, i)
            PROVE  Timed(fetch[w], k, i) \/ line_git[i].last_edited_at # Nobody
        <5>1. CASE ~fetch'[w].stamp /\ line_git[r].last_edited_at # Nobody
          BY <2>3, <5>1
        <5>2. CASE fetch'[w].stamp /\ fetch'[w].row = fetch[w].row
          BY <1>1, <1>5, <4>1, <5>2 DEF Timed, Beyond
        <5>3. QED
          BY <1>5, <3>1, <5>1, <5>2
      <4>2. ~Blamed(fetch'[w], i)
        BY <1>5 DEF Blamed
      <4>3. QED
        BY <1>1, <1>5, <2>1, <2>3, <3>2, <4>1, <4>2, BlameKept
    <3>5. QED
      BY <3>3, <3>4
  <2>4. QED
    BY <2>2, <2>3
<1>9. ASSUME NEW i \in file.rows .. meta_capacity - 1
      PROVE  line_git'[i] = Blank
  <2>1. i \in 0 .. meta_capacity - 1 /\ line_git[i] = Blank
    BY <1>3, Start
  <2>2. Present(r) => i # r
    BY <1>3, <1>7
  <2>3. QED
    BY <1>7, <2>1, <2>2
<1>10. OnItsWay(fetch'[w])
  <2>1. fetch'[w].at # "reset"
    BY <1>5
  <2>2. fetch'[w].stamp => r < file.rows /\ fetch'[w].row = fetch[w].row
    BY <1>5, <1>7
  <2>3. QED
    BY <1>1, <1>5, <2>1, <2>2 DEF OnItsWay, r
<1>11. QED
  BY <1>1, <1>5, <1>8, <1>9, <1>10, FetchingStays

LEMMA StampFetches ==
  ASSUME IInv, Fetching, NEW w \in Workers, StampRow(w)
  PROVE  Fetching'
<1> DEFINE c == fetch[w].hunk
           r == file.hunks[c].new_start - 1 + fetch[w].row
           t == [fetch[w] EXCEPT !.stamp = FALSE, !.row = fetch[w].row + 1]
<1>1. /\ fetch[w].at = "diff" /\ fetch[w].stamp /\ c \in HunkNumbers
      /\ file.hunks[c].new_lines > 0 /\ fetch[w].row < file.hunks[c].new_lines
      /\ r < file.rows
      /\ UNCHANGED <<file, lines, meta_capacity>>
  <2>1. c \in Nat \ {0} /\ file \in Files /\ Len(file.hunks) \in Nat
    BY Places, Start, FileType
  <2>2. fetch[w].at = "diff" /\ fetch[w].stamp /\ UNCHANGED <<file, lines, meta_capacity>>
    BY Zenon DEF StampRow
  <2>3. c <= Len(file.hunks) /\ file.hunks[c].new_lines > 0
    BY <2>2 DEF IInv, Stamped
  <2>4. fetch[w].row < file.hunks[c].new_lines /\ r < file.rows
    BY <2>2, Start DEF OnItsWay
  <2>5. QED
    BY <2>1, <2>2, <2>3, <2>4 DEF HunkNumbers
<1>2. r \in Nat /\ Covers(c, r)
  BY <1>1, AtRow
<1>3. /\ fetch[w] \in Step /\ fetch \in [Workers -> Step] /\ fetch[w].row + 1 \in Nat
      /\ line_git \in [0 .. meta_capacity - 1 -> Entry] /\ meta_capacity \in Nat
      /\ file \in Files /\ file.rows \in Nat /\ file.blamed \in Nat
      /\ file.rows <= meta_capacity
  BY Places, Start
<1>4. line_git' = [line_git EXCEPT ![r].last_edited_at = You]
  BY Zenon DEF StampRow
<1>5. /\ \A v \in Workers \ {w} : fetch'[v] = fetch[v]
      /\ fetch'[w] \in Step /\ fetch'[w].at = "diff" /\ fetch'[w].hunk = c
      /\ ~fetch'[w].stamp /\ fetch'[w].row = fetch[w].row + 1
  <2>1. t \in Step /\ t.at = "diff" /\ t.hunk = c /\ ~t.stamp /\ t.row = fetch[w].row + 1
    BY <1>1, <1>3 DEF Step
  <2>2. fetch' = [fetch EXCEPT ![w] = t]
    BY <1>3 DEF StampRow
  <2> HIDE DEF t
  <2>3. QED
    BY <1>3, <2>1, <2>2
<1> HIDE DEF r, t
<1>6. r \in 0 .. meta_capacity - 1
  BY <1>1, <1>2, <1>3
<1>7. /\ \A i \in 0 .. meta_capacity - 1 : i # r => line_git'[i] = line_git[i]
      /\ line_git'[r].status = line_git[r].status
      /\ line_git'[r].author = line_git[r].author
      /\ line_git'[r].last_edited_at = You
  <2>1. line_git[r] \in Entry /\ line_git'[r] = [line_git[r] EXCEPT !.last_edited_at = You]
    BY <1>3, <1>4, <1>6
  <2>2. /\ line_git'[r].status = line_git[r].status
        /\ line_git'[r].author = line_git[r].author
        /\ line_git'[r].last_edited_at = You
    BY <2>1 DEF Entry
  <2>3. QED
    BY <1>3, <1>4, <2>2
<1>8. ASSUME NEW i \in 0 .. file.rows - 1
      PROVE  StatusSays(i)' /\ BlameSays(i)'
  <2>1. /\ i \in Nat /\ i \in 0 .. meta_capacity - 1 /\ StatusSays(i) /\ BlameSays(i)
    BY <1>3, Start
  <2>2. CASE i # r
    <3>1. line_git'[i] = line_git[i]
      BY <1>7, <2>1, <2>2
    <3>2. \A k \in HunkNumbers : /\ Marked(fetch'[w], k, i) => Marked(fetch[w], k, i)
                                 /\ Timed(fetch'[w], k, i) => Timed(fetch[w], k, i)
                                 /\ Left(fetch'[w], k) => Left(fetch[w], k)
      BY <1>1, <1>3, <1>5, <2>1, <2>2, InHunk DEF r
    <3>3. ~Blamed(fetch'[w], i)
      BY <1>5 DEF Blamed
    <3>4. QED
      BY <1>1, <1>5, <2>1, <3>1, <3>2, <3>3, RowStays
  <2>3. CASE i = r
    <3>1. StatusSays(i)'
      <4>1. ASSUME NEW k \in HunkNumbers
            PROVE  /\ Marked(fetch'[w], k, i) => Marked(fetch[w], k, i)
                   /\ Left(fetch'[w], k) => Left(fetch[w], k)
        BY <1>1, <1>5 DEF Marked, Left, Beyond
      <4>2. QED
        BY <1>1, <1>5, <1>7, <2>1, <2>3, <4>1, StatusKept
    <3>2. BlameSays(i)'
      <4>1. ~\A v \in Workers : Blamed(fetch'[v], i)
        BY <1>5 DEF Blamed
      <4>2. ~\A k \in HunkNumbers : ~Covers(k, i)
        BY <1>1, <1>2, <2>3
      <4>3. i >= file.blamed => line_git'[i].author = Nobody
        BY <1>7, <2>1, <2>3 DEF BlameSays
      <4>4. QED
        BY <1>1, <1>7, <2>1, <2>3, <4>1, <4>2, <4>3, BlameNext
    <3>3. QED
      BY <3>1, <3>2
  <2>4. QED
    BY <2>2, <2>3
<1>9. ASSUME NEW i \in file.rows .. meta_capacity - 1
      PROVE  line_git'[i] = Blank
  <2>1. i \in 0 .. meta_capacity - 1 /\ line_git[i] = Blank
    BY <1>3, Start
  <2>2. i # r
    BY <1>1, <1>2, <1>3
  <2>3. QED
    BY <1>7, <2>1, <2>2
<1>10. OnItsWay(fetch'[w])
  BY <1>5 DEF OnItsWay
<1>11. QED
  BY <1>1, <1>5, <1>8, <1>9, <1>10, FetchingStays

LEMMA NextPlace ==
  ASSUME NEW s \in Step, s.at = "diff", ~s.stamp
  PROVE  LET t == [s EXCEPT !.row = 0, !.hunk = s.hunk + 1]
         IN  t \in Step /\ t.at = "diff" /\ t.hunk = s.hunk + 1 /\ ~t.stamp /\ t.row = 0
<1> DEFINE h == s.hunk + 1
           t == [s EXCEPT !.row = 0, !.hunk = h]
<1>1. h \in Nat \ {0}
  BY DEF Step
<1> HIDE DEF h
<1>2. t \in Step /\ t.at = "diff" /\ t.hunk = h /\ ~t.stamp /\ t.row = 0
  BY <1>1 DEF Step
<1> HIDE DEF t
<1>3. QED
  BY <1>2 DEF h, t

\* What the step to the next hunk brings a thread past.
LEMMA NextInDiff ==
  ASSUME file \in Files, NEW s \in Step, NEW t \in Step,
         s.at = "diff", t.at = "diff", s.hunk \in HunkNumbers,
         t.hunk = s.hunk + 1, t.row = 0, ~t.stamp, ~s.stamp,
         file.hunks[s.hunk].new_lines > 0 => s.row >= file.hunks[s.hunk].new_lines,
         NEW k \in HunkNumbers, NEW i \in Nat
  PROVE  /\ Covers(k, i) => /\ Marked(t, k, i) => Marked(s, k, i)
                            /\ Timed(t, k, i) => Timed(s, k, i)
         /\ k # s.hunk => (Left(t, k) => Left(s, k))
         /\ ~Blamed(t, i)
<1>1. /\ k \in Nat /\ file.hunks[k].new_start \in Nat /\ file.hunks[k].new_lines \in Nat
      /\ s.row \in Nat /\ s.hunk \in Nat
  BY Hunks DEF Step
<1>2. ASSUME Covers(k, i) PROVE Timed(t, k, i) => Timed(s, k, i)
  <2>1. CASE k = s.hunk
    BY <1>1, <1>2, <2>1 DEF Timed, Beyond, Covers
  <2>2. CASE k # s.hunk
    BY <1>1, <1>2, <2>2 DEF Timed, Beyond, Covers
  <2>3. QED
    BY <2>1, <2>2
<1>3. Marked(t, k, i) = Timed(t, k, i) /\ Marked(s, k, i) = Timed(s, k, i)
  BY DEF Marked, Timed
<1>4. ~Blamed(t, i) /\ (k # s.hunk => (Left(t, k) => Left(s, k)))
  BY <1>1 DEF Left, Blamed
<1>5. QED
  BY <1>2, <1>3, <1>4

LEMMA MarkDeletedFetches ==
  ASSUME IInv, Fetching, NEW w \in Workers, MarkDeleted(w)
  PROVE  Fetching'
<1> DEFINE c == fetch[w].hunk
           r == Larger(file.hunks[c].new_start - 1, 0)
           t == [fetch[w] EXCEPT !.row = 0, !.hunk = c + 1]
<1>1. /\ fetch[w].at = "diff" /\ c \in HunkNumbers /\ c \in Nat
      /\ file.hunks[c].new_lines = 0
      /\ UNCHANGED <<file, lines, meta_capacity>>
  <2>1. c \in Nat \ {0} /\ file \in Files /\ Len(file.hunks) \in Nat
    BY Places, Start, FileType
  <2>2. c <= Len(file.hunks)
    BY Zenon DEF MarkDeleted
  <2>3. c \in HunkNumbers
    BY <2>1, <2>2 DEF HunkNumbers
  <2>4. QED
    BY <2>1, <2>3, Zenon DEF MarkDeleted
<1>2. ~fetch[w].stamp
  BY <1>1 DEF IInv, Stamped
<1>3. /\ fetch[w] \in Step /\ fetch \in [Workers -> Step]
      /\ line_git \in [0 .. meta_capacity - 1 -> Entry] /\ meta_capacity \in Nat
      /\ file \in Files /\ file.rows \in Nat /\ file.rows <= meta_capacity
  BY Places, Start
<1>4. /\ \A v \in Workers \ {w} : fetch'[v] = fetch[v]
      /\ fetch'[w] \in Step /\ fetch'[w].at = "diff" /\ fetch'[w].hunk = c + 1
      /\ ~fetch'[w].stamp /\ fetch'[w].row = 0
  <2>1. t \in Step /\ t.at = "diff" /\ t.hunk = c + 1 /\ ~t.stamp /\ t.row = 0
    BY <1>1, <1>2, <1>3, NextPlace
  <2>2. fetch' = [fetch EXCEPT ![w] = t]
    BY <1>3 DEF MarkDeleted
  <2> HIDE DEF t
  <2>3. QED
    BY <1>3, <2>1, <2>2
<1>5. r \in Nat /\ Gone(c, r) /\ \A i \in Nat : Gone(c, i) => i = r
  BY <1>1, <1>3, Hunks DEF Gone, Larger
<1>6. IF Present(r) /\ line_git[r].status = "NONE"
      THEN line_git' = [line_git EXCEPT ![r].status = "DELETED"]
      ELSE line_git' = line_git
  BY DEF MarkDeleted
<1> HIDE DEF r, t
<1>7. ASSUME NEW k \in HunkNumbers, NEW i \in Nat
      PROVE  /\ Covers(k, i) => /\ Marked(fetch'[w], k, i) => Marked(fetch[w], k, i)
                                /\ Timed(fetch'[w], k, i) => Timed(fetch[w], k, i)
             /\ k # c => (Left(fetch'[w], k) => Left(fetch[w], k))
             /\ ~Blamed(fetch'[w], i)
  BY <1>1, <1>2, <1>3, <1>4, NextInDiff
<1>8. Present(r) => r \in 0 .. meta_capacity - 1 /\ r < file.rows
  BY <1>3, <1>5, Start DEF Present
<1>9. \A i \in 0 .. meta_capacity - 1 : i # r => line_git'[i] = line_git[i]
  BY <1>3, <1>6
<1>10. ASSUME NEW i \in 0 .. file.rows - 1
       PROVE  StatusSays(i)' /\ BlameSays(i)'
  <2>1. /\ i \in Nat /\ i \in 0 .. meta_capacity - 1 /\ StatusSays(i) /\ BlameSays(i)
        /\ Present(i)
    BY <1>3, Start
  <2>2. ~Blamed(fetch'[w], i)
    BY <1>4 DEF Blamed
  <2>3. CASE i # r
    <3>1. line_git'[i] = line_git[i] /\ ~Gone(c, i)
      BY <1>5, <1>9, <2>1, <2>3
    <3>2. \A k \in HunkNumbers : Gone(k, i) => (Left(fetch'[w], k) => Left(fetch[w], k))
      BY <1>7, <2>1, <3>1
    <3>3. \A k \in HunkNumbers : Covers(k, i) =>
            /\ Marked(fetch'[w], k, i) => Marked(fetch[w], k, i)
            /\ Timed(fetch'[w], k, i) => Timed(fetch[w], k, i)
      BY <1>7, <2>1
    <3>4. QED
      BY <1>1, <1>4, <2>1, <2>2, <3>1, <3>2, <3>3, RowStays
  <2>4. CASE i = r
    <3>1. /\ line_git'[i].author = line_git[i].author
          /\ line_git'[i].last_edited_at = line_git[i].last_edited_at
          /\ line_git'[i].status = IF line_git[i].status = "NONE" THEN "DELETED"
                                   ELSE line_git[i].status
      <4>1. CASE line_git[r].status = "NONE"
        <5>1. line_git' = [line_git EXCEPT ![r].status = "DELETED"]
          BY <1>6, <2>1, <2>4, <4>1
        <5>2. QED
          BY <1>3, <2>1, <2>4, <4>1, <5>1, StatusWritten
      <4>2. CASE line_git[r].status # "NONE"
        BY <1>6, <2>4, <4>2
      <4>3. QED
        BY <4>1, <4>2
    <3>2. BlameSays(i)'
      <4>1. \A k \in HunkNumbers : Covers(k, i) =>
              (Timed(fetch'[w], k, i) => Timed(fetch[w], k, i))
        BY <1>7, <2>1
      <4>2. QED
        BY <1>1, <1>4, <2>1, <2>2, <3>1, <4>1, BlameKept
    <3>3. StatusSays(i)'
      <4>1. ASSUME NEW k \in HunkNumbers, Covers(k, i),
                   \A v \in Workers : Marked(fetch'[v], k, i)
            PROVE  line_git'[i].status = MarkOf(k)
        <5>1. \A v \in Workers : Marked(fetch[v], k, i)
          <6>1. Marked(fetch[w], k, i)
            BY <1>7, <2>1, <4>1
          <6>2. ASSUME NEW v \in Workers, v # w PROVE Marked(fetch[v], k, i)
            <7>1. Marked(fetch'[v], k, i) /\ fetch'[v] = fetch[v]
              BY <1>4, <4>1, <6>2
            <7>2. QED
              BY <7>1
          <6>3. QED
            BY <6>1, <6>2
        <5>2. line_git[i].status = MarkOf(k) /\ MarkOf(k) # "NONE"
          BY <2>1, <4>1, <5>1 DEF StatusSays, MarkOf
        <5>3. QED
          BY <3>1, <5>2
      <4>2. (\A k \in HunkNumbers : ~Covers(k, i)) => line_git'[i].status = "DELETED"
        BY <2>1, <3>1 DEF StatusSays
      <4>3. ~\A k \in HunkNumbers : ~Gone(k, i)
        BY <1>1, <1>5, <2>4
      <4>4. QED
        BY <1>1, <2>1, <4>1, <4>2, <4>3, StatusNext
    <3>4. QED
      BY <3>2, <3>3
  <2>5. QED
    BY <2>3, <2>4
<1>11. ASSUME NEW i \in file.rows .. meta_capacity - 1
       PROVE  line_git'[i] = Blank
  <2>1. i \in 0 .. meta_capacity - 1 /\ line_git[i] = Blank
    BY <1>3, Start
  <2>2. CASE i # r
    BY <1>9, <2>1, <2>2
  <2>3. CASE i = r
    BY <1>3, <1>6, <1>8, <2>1, <2>3
  <2>4. QED
    BY <2>2, <2>3
<1>12. OnItsWay(fetch'[w])
  BY <1>4 DEF OnItsWay
<1>13. QED
  BY <1>1, <1>4, <1>10, <1>11, <1>12, FetchingStays

LEMMA NextHunkFetches ==
  ASSUME IInv, Fetching, NEW w \in Workers, NextHunk(w)
  PROVE  Fetching'
<1> DEFINE c == fetch[w].hunk
           t == [fetch[w] EXCEPT !.row = 0, !.hunk = c + 1]
           b == [fetch[w] EXCEPT !.at = "blame", !.row = 0]
<1>1. /\ fetch[w].at = "diff" /\ ~fetch[w].stamp
      /\ UNCHANGED <<file, lines, meta_capacity, line_git>>
  BY Zenon DEF NextHunk
<1>2. /\ fetch[w] \in Step /\ fetch \in [Workers -> Step]
      /\ file \in Files /\ c \in Nat \ {0} /\ Len(file.hunks) \in Nat
      /\ file.rows \in Nat /\ meta_capacity \in Nat
  BY Places, Start, FileType
<1>3. \/ c > Len(file.hunks) /\ fetch' = Goto(w, "blame")
      \/ /\ c \in HunkNumbers /\ fetch' = [fetch EXCEPT ![w] = t]
         /\ file.hunks[c].new_lines > 0 /\ fetch[w].row >= file.hunks[c].new_lines
  <2>1. CASE c > Len(file.hunks) /\ fetch' = Goto(w, "blame")
    BY <2>1
  <2>2. CASE /\ c <= Len(file.hunks)
             /\ \/ /\ file.hunks[c].new_lines > 0
                   /\ \/ file.hunks[c].new_start = 0
                      \/ fetch[w].row >= file.hunks[c].new_lines
                \/ file.hunks[c].new_lines = 0 /\ file.hunks[c].old_lines = 0
             /\ fetch' = [fetch EXCEPT ![w].row = 0, ![w].hunk = c + 1]
    <3>1. c \in HunkNumbers
      BY <1>2, <2>2 DEF HunkNumbers
    <3>2. file.hunks[c].new_lines > 0 /\ fetch[w].row >= file.hunks[c].new_lines
      BY <1>2, <2>2, <3>1, Hunks
    <3>3. fetch' = [fetch EXCEPT ![w] = t]
      BY <1>2, <2>2
    <3>4. QED
      BY <3>1, <3>2, <3>3
  <2>3. QED
    BY <2>1, <2>2 DEF NextHunk
<1>4. /\ \A v \in Workers \ {w} : fetch'[v] = fetch[v]
      /\ OnItsWay(fetch'[w])
      /\ \A i \in Nat : ~Blamed(fetch'[w], i)
      /\ \A i \in Nat : \A k \in HunkNumbers :
            /\ Covers(k, i) => /\ Marked(fetch'[w], k, i) => Marked(fetch[w], k, i)
                               /\ Timed(fetch'[w], k, i) => Timed(fetch[w], k, i)
            /\ Gone(k, i) => (Left(fetch'[w], k) => Left(fetch[w], k))
  <2>1. CASE c > Len(file.hunks) /\ fetch' = Goto(w, "blame")
    <3>1. b \in Step /\ b.at = "blame" /\ b.row = 0 /\ ~b.stamp
      BY <1>1, <1>2 DEF Step
    <3>2. fetch' = [fetch EXCEPT ![w] = b]
      BY <1>2, <2>1 DEF Goto
    <3> HIDE DEF b
    <3>3. fetch'[w] = b /\ \A v \in Workers \ {w} : fetch'[v] = fetch[v]
      BY <1>2, <3>1, <3>2
    <3>4. \A k \in HunkNumbers : c > k
      BY <1>2, <2>1 DEF HunkNumbers
    <3>5. \A i \in Nat : \A k \in HunkNumbers :
             Marked(fetch[w], k, i) /\ Timed(fetch[w], k, i) /\ Left(fetch[w], k)
      BY <1>1, <3>4 DEF Marked, Timed, Left, Beyond
    <3>6. OnItsWay(fetch'[w]) /\ \A i \in Nat : ~Blamed(fetch'[w], i)
      BY <3>1, <3>3 DEF OnItsWay, Blamed
    <3>7. QED
      BY <3>3, <3>5, <3>6
  <2>2. CASE /\ c \in HunkNumbers /\ fetch' = [fetch EXCEPT ![w] = t]
             /\ file.hunks[c].new_lines > 0 /\ fetch[w].row >= file.hunks[c].new_lines
    <3>1. t \in Step /\ t.at = "diff" /\ t.hunk = c + 1 /\ ~t.stamp /\ t.row = 0
      BY <1>1, <1>2, NextPlace
    <3> HIDE DEF t
    <3>2. fetch'[w] = t /\ \A v \in Workers \ {w} : fetch'[v] = fetch[v]
      BY <1>2, <2>2, <3>1
    <3>3. ASSUME NEW i \in Nat, NEW k \in HunkNumbers
          PROVE  /\ Covers(k, i) => /\ Marked(t, k, i) => Marked(fetch[w], k, i)
                                    /\ Timed(t, k, i) => Timed(fetch[w], k, i)
                 /\ k # c => (Left(t, k) => Left(fetch[w], k))
      BY <1>1, <1>2, <2>2, <3>1, NextInDiff
    <3>4. \A i \in Nat : ~Gone(c, i)
      BY <2>2 DEF Gone
    <3>5. OnItsWay(fetch'[w]) /\ \A i \in Nat : ~Blamed(fetch'[w], i)
      BY <3>1, <3>2 DEF OnItsWay, Blamed
    <3>6. QED
      BY <3>2, <3>3, <3>4, <3>5
  <2>3. QED
    BY <1>3, <2>1, <2>2
<1>5. ASSUME NEW i \in 0 .. file.rows - 1
      PROVE  StatusSays(i)' /\ BlameSays(i)'
  <2>1. i \in Nat /\ StatusSays(i) /\ BlameSays(i)
    BY Start
  <2>2. QED
    BY <1>1, <1>4, <2>1, RowStays
<1>6. \A i \in file.rows .. meta_capacity - 1 : line_git'[i] = Blank
  BY <1>1, Start
<1>7. QED
  BY <1>1, <1>4, <1>5, <1>6, FetchingStays

LEMMA BlameFetches ==
  ASSUME IInv, Fetching, NEW w \in Workers, BlameRow(w)
  PROVE  Fetching'
<1> DEFINE r == fetch[w].row
<1>1. fetch[w].at = "blame" /\ UNCHANGED <<file, lines, meta_capacity>>
  BY Zenon DEF BlameRow
<1>2. /\ fetch[w] \in Step /\ fetch \in [Workers -> Step] /\ r \in Nat /\ ~fetch[w].stamp
      /\ line_git \in [0 .. meta_capacity - 1 -> Entry] /\ meta_capacity \in Nat
      /\ file \in Files /\ file.rows \in Nat /\ file.rows <= meta_capacity
      /\ file.blamed \in Nat
  BY <1>1, Places, Start DEF IInv, Stamped
<1>3. \/ /\ r < file.blamed /\ Present(r)
         /\ line_git' = [line_git EXCEPT ![r].author = r, ![r].last_edited_at = r]
         /\ fetch' = [fetch EXCEPT ![w].row = r + 1]
      \/ /\ r < file.blamed /\ ~Present(r)
         /\ line_git' = line_git
         /\ fetch' = [fetch EXCEPT ![w].row = r + 1]
      \/ r >= file.blamed /\ line_git' = line_git /\ fetch' = Goto(w, "done")
  BY DEF BlameRow
<1>4. /\ \A v \in Workers \ {w} : fetch'[v] = fetch[v]
      /\ OnItsWay(fetch'[w])
      /\ \A i \in Nat : i < file.blamed /\ Blamed(fetch'[w], i) =>
            Blamed(fetch[w], i) \/ (i = r /\ r < file.blamed)
  <2>1. CASE r < file.blamed /\ fetch' = [fetch EXCEPT ![w].row = r + 1]
    <3>1. fetch'[w] = [fetch[w] EXCEPT !.row = r + 1]
          /\ \A v \in Workers \ {w} : fetch'[v] = fetch[v]
      BY <1>2, <2>1
    <3>2. fetch'[w].at = "blame" /\ fetch'[w].row = r + 1 /\ ~fetch'[w].stamp
      BY <1>1, <1>2, <3>1 DEF Step
    <3>3. QED
      BY <1>1, <1>2, <2>1, <3>1, <3>2 DEF OnItsWay, Blamed
  <2>2. CASE r >= file.blamed /\ fetch' = Goto(w, "done")
    <3>1. fetch'[w] = [fetch[w] EXCEPT !.at = "done", !.row = 0]
          /\ \A v \in Workers \ {w} : fetch'[v] = fetch[v]
      BY <1>2, <2>2 DEF Goto
    <3>2. fetch'[w].at = "done" /\ ~fetch'[w].stamp
      BY <1>2, <3>1 DEF Step
    <3>3. QED
      BY <1>1, <1>2, <2>2, <3>1, <3>2 DEF OnItsWay, Blamed
  <2>3. QED
    BY <1>3, <2>1, <2>2
<1>5. \A k \in HunkNumbers, i \in Nat :
         Marked(fetch[w], k, i) /\ Timed(fetch[w], k, i) /\ Left(fetch[w], k)
  BY <1>1 DEF Marked, Timed, Left, Beyond
<1> HIDE DEF r
<1>6. /\ Present(r) => r \in 0 .. meta_capacity - 1 /\ r < file.rows
      /\ \A i \in 0 .. meta_capacity - 1 : i # r => line_git'[i] = line_git[i]
      /\ ~(Present(r) /\ r < file.blamed) => line_git' = line_git
  BY <1>2, <1>3, Start DEF Present
<1>7. ASSUME NEW i \in 0 .. file.rows - 1
      PROVE  StatusSays(i)' /\ BlameSays(i)'
  <2>1. /\ i \in Nat /\ i \in 0 .. meta_capacity - 1 /\ StatusSays(i) /\ BlameSays(i)
        /\ Present(i)
    BY <1>2, Start
  <2>2. CASE i = r /\ r < file.blamed
    <3>1. /\ line_git'[i].status = line_git[i].status
          /\ line_git'[i].author = i /\ line_git'[i].last_edited_at = i
      <4>1. /\ line_git[i] \in Entry
            /\ line_git' = [line_git EXCEPT ![r].author = r, ![r].last_edited_at = r]
        BY <1>2, <1>3, <2>1, <2>2, SMTT(30)
      <4>2. line_git'[i] = [line_git[i] EXCEPT !.author = i, !.last_edited_at = i]
        BY <1>2, <2>1, <2>2, <4>1
      <4>3. QED
        BY <4>1, <4>2 DEF Entry
    <3>2. StatusSays(i)'
      BY <1>1, <1>4, <1>5, <2>1, <3>1, StatusKept
    <3>3. BlameSays(i)'
      BY <1>1, <1>2, <2>1, <2>2, <3>1, BlameNext
    <3>4. QED
      BY <3>2, <3>3
  <2>3. CASE ~(i = r /\ r < file.blamed)
    <3>1. line_git'[i] = line_git[i]
      BY <1>6, <2>1, <2>3
    <3>2. StatusSays(i)'
      BY <1>1, <1>4, <1>5, <2>1, <3>1, StatusKept
    <3>3. BlameSays(i)'
      <4>1. i < file.blamed => (Blamed(fetch'[w], i) => Blamed(fetch[w], i))
        BY <1>4, <2>1, <2>3
      <4>2. QED
        BY <1>1, <1>4, <1>5, <2>1, <3>1, <4>1, BlameKept
    <3>4. QED
      BY <3>2, <3>3
  <2>4. QED
    BY <2>2, <2>3
<1>8. ASSUME NEW i \in file.rows .. meta_capacity - 1
      PROVE  line_git'[i] = Blank
  <2>1. i \in 0 .. meta_capacity - 1 /\ line_git[i] = Blank
    BY <1>2, Start
  <2>2. Present(r) => i # r
    BY <1>2, <1>6
  <2>3. QED
    BY <1>6, <2>1, <2>2
<1>9. QED
  BY <1>1, <1>4, <1>7, <1>8, FetchingStays

-----------------------------------------------------------------------------
(* Where the threads have left the entries, and where edits take them.     *)

LEMMA FollowsNext ==
  ASSUME file' = file,
         \A y \in 0 .. line_count' - 1 :
            line_git'[y] = IF lines'[y + 1] = Edited THEN Mine ELSE Fetched(lines'[y + 1]),
         \A i \in line_count' .. meta_capacity' - 1 : line_git'[i] = Blank
  PROVE  Follows'
<1>1. \A r : Fetched(r)' = Fetched(r)
  BY DEF Fetched
<1>2. QED
  BY <1>1 DEF Follows

\* What is left for row i, by the numbers of the hunks.
LEMMA FetchedIs ==
  ASSUME file \in Files, NEW i \in Nat
  PROVE  /\ \A k \in HunkNumbers : Covers(k, i) => Fetched(i).status = MarkOf(k)
         /\ (\A k \in HunkNumbers : ~Covers(k, i)) =>
               Fetched(i).status = IF \E k \in HunkNumbers : Gone(k, i)
                                   THEN "DELETED" ELSE "NONE"
         /\ Fetched(i).author = IF i < file.blamed THEN i ELSE Nobody
         /\ Fetched(i).last_edited_at =
               IF i < file.blamed THEN i
               ELSE IF \E k \in HunkNumbers : Covers(k, i) THEN You ELSE Nobody
         /\ Fetched(i) \in Entry
<1> DEFINE hunks == {file.hunks[k] : k \in DOMAIN file.hunks}
           here == {h \in hunks : i + 1 \in h.new_start .. h.new_start + h.new_lines - 1}
           gone == {h \in hunks : h.new_lines = 0 /\ i = Larger(h.new_start - 1, 0)}
           new == \E h \in here : h.old_lines = 0
           status == CASE here # {} -> IF new THEN "ADDED" ELSE "MODIFIED"
                       [] here = {} /\ gone # {} -> "DELETED"
                       [] OTHER -> "NONE"
           time == IF i < file.blamed THEN i
                   ELSE IF here # {} THEN You ELSE Nobody
           author == IF i < file.blamed THEN i ELSE Nobody
<1>1. Fetched(i) = [status |-> status, last_edited_at |-> time, author |-> author]
  BY DEF Fetched
<1>2. DOMAIN file.hunks = HunkNumbers
  <2>1. file.hunks \in Seq(Hunk)
    BY FilesAreFiles
  <2>2. QED
    BY <2>1, LenProperties DEF HunkNumbers
<1>3. (here # {}) <=> \E k \in HunkNumbers : Covers(k, i)
  BY <1>2 DEF Covers
<1>4. (gone # {}) <=> \E k \in HunkNumbers : Gone(k, i)
  BY <1>2 DEF Gone
<1>5. new <=> \E k \in HunkNumbers : Covers(k, i) /\ file.hunks[k].old_lines = 0
  BY <1>2 DEF Covers
<1> HIDE DEF hunks, here, gone, new
<1>6. ASSUME NEW k \in HunkNumbers, Covers(k, i)
      PROVE  status = MarkOf(k)
  <2>1. here # {}
    BY <1>3, <1>6
  <2>2. new <=> file.hunks[k].old_lines = 0
    <3>1. \A l \in HunkNumbers : Covers(l, i) => l = k
      BY <1>6, Apart
    <3>2. QED
      BY <1>5, <1>6, <3>1
  <2>3. QED
    BY <2>1, <2>2 DEF MarkOf
<1>7. ASSUME \A k \in HunkNumbers : ~Covers(k, i)
      PROVE  status = IF \E k \in HunkNumbers : Gone(k, i) THEN "DELETED" ELSE "NONE"
  <2>1. here = {}
    BY <1>3, <1>7
  <2>2. QED
    BY <1>4, <2>1
<1>8. status \in Status /\ time \in Int /\ author \in Int
  <2>1. status \in Status
    BY DEF Status
  <2>2. time \in Int /\ author \in Int
    BY DEF You, Nobody
  <2>3. QED
    BY <2>1, <2>2
<1>9. time = IF i < file.blamed THEN i
             ELSE IF \E k \in HunkNumbers : Covers(k, i) THEN You ELSE Nobody
  BY <1>3
<1> HIDE DEF status, time
<1>10. QED
  BY <1>1, <1>6, <1>7, <1>8, <1>9 DEF Entry

\* Once no thread is left, each row of the file has what they leave for it.
LEMMA Arrived == IInv /\ Fetching /\ Idle => Follows
<1> SUFFICES ASSUME IInv, Fetching, Idle PROVE Follows
  OBVIOUS
<1>1. /\ file \in Files /\ file.rows \in Nat /\ file.blamed \in Nat
      /\ line_count = file.rows /\ \A i \in 0 .. file.rows - 1 : lines[i + 1] = i
      /\ file.rows <= meta_capacity /\ meta_capacity \in Nat
      /\ line_git \in [0 .. meta_capacity - 1 -> Entry]
  BY FileType, SizeOfFile, TypedEntries DEF IInv, TypeOK, Fetching, Unedited
<1>2. ASSUME NEW i \in 0 .. file.rows - 1
      PROVE  line_git[i] = Fetched(i)
  <2>1. i \in Nat /\ StatusSays(i) /\ BlameSays(i) /\ line_git[i] \in Entry
    BY <1>1 DEF Fetching
  <2>2. /\ \A k \in HunkNumbers : \A w \in Workers :
              Marked(fetch[w], k, i) /\ Timed(fetch[w], k, i) /\ Left(fetch[w], k)
        /\ \A w \in Workers : Blamed(fetch[w], i)
    BY DEF Idle, Marked, Timed, Left, Blamed, Beyond
  <2>3. /\ Fetched(i) \in Entry
        /\ \A k \in HunkNumbers : Covers(k, i) => Fetched(i).status = MarkOf(k)
        /\ (\A k \in HunkNumbers : ~Covers(k, i)) =>
              Fetched(i).status = IF \E k \in HunkNumbers : Gone(k, i)
                                  THEN "DELETED" ELSE "NONE"
        /\ Fetched(i).author = IF i < file.blamed THEN i ELSE Nobody
        /\ Fetched(i).last_edited_at =
              IF i < file.blamed THEN i
              ELSE IF \E k \in HunkNumbers : Covers(k, i) THEN You ELSE Nobody
    BY <1>1, <2>1, FetchedIs
  <2>4. line_git[i].status = Fetched(i).status
    <3>1. CASE \E k \in HunkNumbers : Covers(k, i)
      BY <2>1, <2>2, <2>3, <3>1 DEF StatusSays
    <3>2. CASE \A k \in HunkNumbers : ~Covers(k, i)
      <4>1. CASE \E k \in HunkNumbers : Gone(k, i)
        BY <2>1, <2>2, <2>3, <3>2, <4>1 DEF StatusSays
      <4>2. CASE \A k \in HunkNumbers : ~Gone(k, i)
        BY <2>1, <2>3, <3>2, <4>2 DEF StatusSays
      <4>3. QED
        BY <4>1, <4>2
    <3>3. QED
      BY <3>1, <3>2
  <2>5. /\ line_git[i].author = Fetched(i).author
        /\ line_git[i].last_edited_at = Fetched(i).last_edited_at
    <3>1. CASE i < file.blamed
      BY <2>1, <2>2, <2>3, <3>1 DEF BlameSays
    <3>2. CASE i >= file.blamed
      <4>1. ~(i < file.blamed)
        BY <1>1, <2>1, <3>2
      <4>2. CASE \E k \in HunkNumbers : Covers(k, i)
        BY <2>1, <2>2, <2>3, <3>2, <4>1, <4>2 DEF BlameSays
      <4>3. CASE \A k \in HunkNumbers : ~Covers(k, i)
        BY <2>1, <2>3, <3>2, <4>1, <4>3 DEF BlameSays
      <4>4. QED
        BY <4>2, <4>3
    <3>3. QED
      BY <1>1, <2>1, <3>1, <3>2
  <2>6. QED
    BY <2>1, <2>3, <2>4, <2>5, SameEntry
<1>3. \A y \in 0 .. line_count - 1 :
         line_git[y] = IF lines[y + 1] = Edited THEN Mine ELSE Fetched(lines[y + 1])
  <2>1. ASSUME NEW y \in 0 .. line_count - 1
        PROVE  line_git[y] = Fetched(y) /\ lines[y + 1] = y /\ lines[y + 1] # Edited
    BY <1>1, <1>2 DEF Edited
  <2>2. QED
    BY <2>1
<1>4. \A i \in line_count .. meta_capacity - 1 : line_git[i] = Blank
  BY <1>1 DEF Fetching
<1>5. QED
  BY <1>3, <1>4 DEF Follows

\* The entries and the lines move by the same numbers: text goes in.
LEMMA InsertFollows ==
  ASSUME IInv, Follows, line_count <= meta_capacity,
         NEW y \in 0 .. line_count - 1, NEW n \in 0 .. MaxLines, Buffer_insert(y, y, n)
  PROVE  Follows' /\ line_count' <= meta_capacity'
<1> DEFINE now == line_count + n
           git == EnsureCapacity(now)
           cap == IF now <= meta_capacity THEN meta_capacity ELSE 2 * now
           marks == [k \in 1 .. n + 1 |-> Edited]
<1>1. /\ line_count \in 1 .. MaxLines /\ MaxLines \in Nat /\ meta_capacity \in Nat
      /\ lines \in Seq(Row) /\ n \in Nat /\ y \in Nat /\ y < line_count
      /\ line_git \in [0 .. meta_capacity - 1 -> Entry]
  BY TypedEntries, SizesAreSizes DEF IInv, TypeOK, Row
<1>2. /\ now \in Nat /\ cap \in Nat /\ meta_capacity <= cap /\ now <= cap
      /\ git \in [0 .. cap - 1 -> Entry]
  BY <1>1, Grown
<1>3. /\ \A i \in 0 .. line_count - 1 : git[i] = line_git[i]
      /\ \A i \in line_count .. cap - 1 : git[i] = Blank
  BY <1>1, <1>2 DEF EnsureCapacity, Follows
<1>4. /\ meta_capacity' = cap /\ file' = file
      /\ line_git' = [i \in DOMAIN git |->
                         CASE i \in y .. y + n             -> Mine
                           [] i \in y + n + 1 .. now - 1 -> git[i - n]
                           [] OTHER                      -> git[i]]
  BY Zenon DEF Buffer_insert
<1>5. /\ line_count' = now
      /\ \A k \in 1 .. now : lines'[k] = IF k <= y THEN lines[k]
                                         ELSE IF k <= y + n + 1 THEN Edited
                                         ELSE lines[k - n]
  <2>1. marks \in Seq(Row) /\ Len(marks) = n + 1 /\ \A k \in 1 .. n + 1 : marks[k] = Edited
    BY <1>1 DEF Edited, Row
  <2>2. lines' = SubSeq(lines, 1, y) \o marks \o SubSeq(lines, y + 2, line_count)
    BY Zenon DEF Buffer_insert
  <2> HIDE DEF marks
  <2>3. y \in Nat /\ y + 1 \in Nat /\ y <= y + 1 /\ y + 1 <= line_count /\ (y + 1) + 1 = y + 2
    BY <1>1
  <2>4. lines' = SubSeq(lines, 1, y) \o marks \o SubSeq(lines, (y + 1) + 1, line_count)
    BY <2>2, <2>3, Zenon
  <2>5. line_count' = y + Len(marks) + line_count - (y + 1)
    BY <1>1, <2>1, <2>3, <2>4, Replaced
  <2>6. \A k \in 1 .. y + Len(marks) + line_count - (y + 1) :
           lines'[k] = IF k <= y THEN lines[k]
                       ELSE IF k <= y + Len(marks) THEN marks[k - y]
                       ELSE lines[k - y - Len(marks) + (y + 1)]
    <3>1. Joined(lines', lines, marks, y, Len(marks), y + 1, line_count)
      BY <1>1, <2>1, <2>3, <2>4, ReplacedAt
    <3>2. QED
      BY <3>1, Zenon DEF Joined
  <2>7. y + Len(marks) + line_count - (y + 1) = now
    BY <1>1, <2>1
  <2>8. ASSUME NEW k \in 1 .. now
        PROVE  lines'[k] = IF k <= y THEN lines[k]
                           ELSE IF k <= y + n + 1 THEN Edited ELSE lines[k - n]
    <3>1. lines'[k] = IF k <= y THEN lines[k]
                      ELSE IF k <= y + (n + 1) THEN marks[k - y]
                      ELSE lines[k - y - (n + 1) + (y + 1)]
      BY <2>1, <2>6, <2>7
    <3>2. k - y - (n + 1) + (y + 1) = k - n /\ y + (n + 1) = y + n + 1
      BY <1>1
    <3>3. k > y /\ k <= y + n + 1 => k - y \in 1 .. n + 1
      BY <1>1
    <3>4. QED
      BY <1>1, <2>1, <3>1, <3>2, <3>3
  <2>9. QED
    BY <2>5, <2>7, <2>8
<1> HIDE DEF git, cap, marks
<1>6. ASSUME NEW i \in 0 .. now - 1
      PROVE  line_git'[i] = IF lines'[i + 1] = Edited THEN Mine
                            ELSE Fetched(lines'[i + 1])
  <2>1. i \in DOMAIN git
    BY <1>1, <1>2
  <2>2. CASE i < y
    <3>1. line_git'[i] = git[i]
      BY <1>1, <1>4, <2>1, <2>2
    <3>2. git[i] = line_git[i] /\ lines'[i + 1] = lines[i + 1]
      BY <1>1, <1>3, <1>5, <2>2
    <3>3. QED
      BY <1>1, <2>2, <3>1, <3>2 DEF Follows
  <2>3. CASE i \in y .. y + n
    <3>1. line_git'[i] = Mine
      BY <1>4, <2>1, <2>3
    <3>2. lines'[i + 1] = Edited
      BY <1>1, <1>5, <2>3
    <3>3. QED
      BY <3>1, <3>2
  <2>4. CASE i > y + n
    <3>1. i - n \in 0 .. line_count - 1 /\ (i + 1) - n = (i - n) + 1
      BY <1>1, <2>4
    <3>2. i \in y + n + 1 .. now - 1 /\ ~(i \in y .. y + n)
      BY <1>1, <2>4
    <3>3. line_git'[i] = git[i - n]
      BY <1>4, <2>1, <3>2
    <3>4. lines'[i + 1] = lines[(i - n) + 1]
      <4>1. i + 1 \in 1 .. now /\ ~(i + 1 <= y) /\ ~(i + 1 <= y + n + 1)
        BY <1>1, <2>4
      <4>2. lines'[i + 1] = lines[(i + 1) - n]
        BY <1>5, <4>1
      <4>3. QED
        BY <3>1, <4>2
    <3>5. QED
      BY <1>3, <3>1, <3>3, <3>4 DEF Follows
  <2>5. QED
    BY <1>1, <2>2, <2>3, <2>4
<1>7. ASSUME NEW i \in now .. cap - 1
      PROVE  line_git'[i] = Blank
  <2>1. i \in DOMAIN git /\ ~(i \in y .. y + n) /\ ~(i \in y + n + 1 .. now - 1)
    BY <1>1, <1>2
  <2>2. line_git'[i] = git[i]
    BY <1>4, <2>1
  <2>3. i \in line_count .. cap - 1
    BY <1>1, <1>2
  <2>4. QED
    BY <1>3, <2>2, <2>3
<1>8. QED
  BY <1>2, <1>4, <1>5, <1>6, <1>7, FollowsNext

\* Text goes.
LEMMA DeleteFollows ==
  ASSUME IInv, Follows, line_count <= meta_capacity,
         NEW y \in 0 .. line_count - 1, NEW n \in 0 .. MaxLines, Buffer_delete(y, n)
  PROVE  Follows' /\ line_count' <= meta_capacity'
<1> DEFINE old == line_count
           now == old - n
           git == EnsureCapacity(old)
           one == <<Edited>>
<1>1. /\ old \in 1 .. MaxLines /\ MaxLines \in Nat /\ meta_capacity \in Nat
      /\ lines \in Seq(Row) /\ n \in Nat /\ y \in Nat /\ y + n < old
      /\ line_git \in [0 .. meta_capacity - 1 -> Entry]
  BY TypedEntries, SizesAreSizes, SMTT(30) DEF IInv, TypeOK, Row, Buffer_delete
<1>2. git = line_git
  BY DEF EnsureCapacity
<1>3. /\ meta_capacity' = meta_capacity /\ file' = file
      /\ line_git' = [i \in DOMAIN git |->
                         CASE i = y                  -> Mine
                           [] i \in y + 1 .. now - 1 -> git[i + n]
                           [] i \in now .. old - 1   -> Blank
                           [] OTHER                  -> git[i]]
  BY Zenon DEF Buffer_delete
<1>4. /\ line_count' = now
      /\ \A k \in 1 .. now : lines'[k] = IF k <= y THEN lines[k]
                                         ELSE IF k = y + 1 THEN Edited
                                         ELSE lines[k + n]
  <2>1. one \in Seq(Row) /\ Len(one) = 1 /\ one[1] = Edited
    BY <1>1 DEF Edited, Row
  <2>2. lines' = SubSeq(lines, 1, y) \o one \o SubSeq(lines, y + n + 2, line_count)
    BY Zenon DEF Buffer_delete
  <2> HIDE DEF one
  <2> DEFINE j == y + n + 1
  <2>3. j \in Nat /\ y <= j /\ j <= line_count /\ j + 1 = y + n + 2
    BY <1>1
  <2>4. y + Len(one) + line_count - j = now
    BY <1>1, <2>1
  <2>5. j = y + n + 1
    OBVIOUS
  <2> HIDE DEF j
  <2>6. lines' = SubSeq(lines, 1, y) \o one \o SubSeq(lines, j + 1, line_count)
    BY <2>2, <2>3, Zenon
  <2>7. line_count' = y + Len(one) + line_count - j
    BY <1>1, <2>1, <2>3, <2>6, Replaced
  <2>8. \A k \in 1 .. y + Len(one) + line_count - j :
           lines'[k] = IF k <= y THEN lines[k]
                       ELSE IF k <= y + Len(one) THEN one[k - y]
                       ELSE lines[k - y - Len(one) + j]
    <3>1. Joined(lines', lines, one, y, Len(one), j, line_count)
      BY <1>1, <2>1, <2>3, <2>6, ReplacedAt
    <3>2. QED
      BY <3>1 DEF Joined
  <2>9. ASSUME NEW k \in 1 .. now
        PROVE  lines'[k] = IF k <= y THEN lines[k]
                           ELSE IF k = y + 1 THEN Edited ELSE lines[k + n]
    <3>1. lines'[k] = IF k <= y THEN lines[k]
                      ELSE IF k <= y + 1 THEN one[k - y]
                      ELSE lines[k - y - 1 + j]
      BY <2>1, <2>8, <2>4
    <3>2. k - y - 1 + j = k + n
      BY <1>1, <2>5
    <3>3. k = y + 1 => k - y = 1
      BY <1>1
    <3>4. QED
      BY <1>1, <2>1, <3>1, <3>2, <3>3
  <2>10. QED
    BY <2>7, <2>4, <2>9
<1> HIDE DEF git, one
<1>5. ASSUME NEW i \in 0 .. now - 1
      PROVE  line_git'[i] = IF lines'[i + 1] = Edited THEN Mine
                            ELSE Fetched(lines'[i + 1])
  <2>1. i \in DOMAIN git
    BY <1>1, <1>2
  <2>2. CASE i < y
    <3>1. i # y /\ ~(i \in y + 1 .. now - 1) /\ ~(i \in now .. old - 1)
      BY <1>1, <2>2
    <3>2. line_git'[i] = line_git[i]
      BY <1>2, <1>3, <2>1, <3>1
    <3>3. lines'[i + 1] = lines[i + 1]
      BY <1>1, <1>4, <2>2
    <3>4. i \in 0 .. line_count - 1
      BY <1>1, <2>2
    <3>5. QED
      BY <3>2, <3>3, <3>4 DEF Follows
  <2>3. CASE i = y
    <3>1. ~(i \in y + 1 .. now - 1) /\ ~(i \in now .. old - 1)
      BY <1>1, <2>3
    <3>2. line_git'[i] = Mine
      BY <1>3, <2>1, <2>3, <3>1
    <3>3. lines'[i + 1] = Edited
      BY <1>1, <1>4, <2>3
    <3>4. QED
      BY <3>2, <3>3
  <2>4. CASE i > y
    <3>1. i + n \in 0 .. old - 1 /\ (i + 1) + n = (i + n) + 1
      BY <1>1, <2>4
    <3>2. i # y /\ i \in y + 1 .. now - 1 /\ ~(i \in now .. old - 1)
      BY <1>1, <2>4
    <3>3. line_git'[i] = line_git[i + n]
      BY <1>2, <1>3, <2>1, <3>2
    <3>4. lines'[i + 1] = lines[(i + n) + 1]
      BY <1>1, <1>4, <2>4, <3>1
    <3>5. QED
      BY <3>1, <3>3, <3>4 DEF Follows
  <2>5. QED
    BY <1>1, <2>2, <2>3, <2>4
<1>6. ASSUME NEW i \in now .. meta_capacity - 1
      PROVE  line_git'[i] = Blank
  <2>1. i \in DOMAIN git /\ i # y /\ ~(i \in y + 1 .. now - 1)
    BY <1>1, <1>2
  <2>2. CASE i < old
    BY <1>1, <1>3, <2>1, <2>2
  <2>3. CASE i >= old
    <3>1. ~(i \in now .. old - 1) /\ i \in line_count .. meta_capacity - 1
      BY <1>1, <2>3
    <3>2. line_git'[i] = line_git[i]
      BY <1>2, <1>3, <2>1, <3>1
    <3>3. QED
      BY <3>1, <3>2 DEF Follows
  <2>4. QED
    BY <1>1, <2>2, <2>3
<1>7. Follows'
  BY <1>3, <1>4, <1>5, <1>6, FollowsNext
<1>8. QED
  BY <1>1, <1>3, <1>4, <1>7

-----------------------------------------------------------------------------
(* The invariant of what is shown.                                         *)

LEMMA InitShown == Init => Shown
<1> SUFFICES ASSUME Init, exact
             PROVE  line_count <= meta_capacity /\ ~Idle /\ Fetching
  BY DEF Shown
<1>1. /\ IInv /\ file \in Files /\ file.rows \in 1 .. MaxLines /\ file.blamed \in Nat
      /\ Unedited /\ meta_capacity \in Nat
  <2>1. IInv /\ file \in Files /\ file.rows \in 1 .. MaxLines /\ file.blamed \in Nat
    BY InitInv, FileType DEF Init
  <2>2. meta_capacity \in Nat /\ file.rows <= meta_capacity
    BY <2>1, SizesAreSizes DEF Init, Larger
  <2>3. QED
    BY <2>1, <2>2 DEF Init, Unedited
<1>2. line_count <= meta_capacity
  BY <1>1, SizeOfFile DEF Unedited
<1>3. PICK w \in Workers : fetch[w].at = "reset"
  BY DEF Init
<1>4. ~Idle
  BY <1>3 DEF Idle
<1>5. \A v \in Workers : OnItsWay(fetch[v])
  <2> DEFINE First == [at : {"reset", "done"}, row : {0}, hunk : {1}, stamp : {FALSE}]
  <2>1. \A s \in First : s.hunk = 1 /\ ~s.stamp
    OBVIOUS
  <2>2. fetch \in [Workers -> First]
    BY DEF Init
  <2> HIDE DEF First
  <2>3. QED
    BY <2>1, <2>2 DEF OnItsWay
<1>6. \A i \in 0 .. meta_capacity - 1 : line_git[i] = Blank
  BY DEF Init
<1>7. ASSUME NEW i \in 0 .. file.rows - 1
      PROVE  StatusSays(i) /\ BlameSays(i)
  <2>1. line_git[i] = Blank /\ i \in Nat
    BY <1>1, <1>6 DEF Unedited
  <2>2. \A k \in HunkNumbers : /\ ~Marked(fetch[w], k, i) /\ ~Timed(fetch[w], k, i)
                               /\ ~Left(fetch[w], k)
    BY <1>3 DEF Marked, Timed, Left, Beyond
  <2>3. ~Blamed(fetch[w], i)
    BY <1>3 DEF Blamed
  <2>4. StatusSays(i)
    BY <2>1, <2>2 DEF StatusSays, Blank
  <2>5. BlameSays(i)
    BY <2>1, <2>2, <2>3 DEF BlameSays, Blank
  <2>6. QED
    BY <2>4, <2>5
<1>8. \A i \in file.rows .. meta_capacity - 1 : line_git[i] = Blank
  BY <1>1, <1>6
<1>9. QED
  BY <1>1, <1>2, <1>4, <1>5, <1>7, <1>8 DEF Fetching

\* A thread's step, and the last one of the last thread.
LEMMA ThreadShown ==
  ASSUME IInv, IInv', Shown, NEW w \in Workers, fetch[w].at # "done",
         UNCHANGED <<lines, meta_capacity, exact>>,
         Fetching => Fetching'
  PROVE  Shown'
<1>1. exact => Fetching /\ line_count <= meta_capacity
  BY DEF Shown, Idle
<1>2. exact => Fetching' /\ line_count' <= meta_capacity'
  BY <1>1 DEF line_count
<1>3. (IInv /\ Fetching /\ Idle => Follows)'
  BY Arrived, PTL
<1>4. QED
  BY <1>2, <1>3 DEF Shown

LEMMA StayShown == Shown /\ UNCHANGED vars => Shown'
<1> SUFFICES ASSUME Shown, UNCHANGED vars, exact PROVE Shown'
  BY DEF Shown, vars
<1>1. /\ file' = file /\ lines' = lines /\ line_git' = line_git /\ fetch' = fetch
      /\ meta_capacity' = meta_capacity /\ line_count' = line_count
      /\ line_count <= meta_capacity
  BY DEF vars, Shown, line_count
<1>2. CASE Idle
  <2>1. Follows'
    BY <1>1, <1>2, FollowsNext DEF Shown, Follows
  <2>2. Idle'
    BY <1>1, <1>2 DEF Idle
  <2>3. QED
    BY <1>1, <2>1, <2>2 DEF Shown
<1>3. CASE ~Idle
  <2>1. PICK w \in Workers : fetch[w].at # "done"
    BY <1>3 DEF Idle
  <2>2. Fetching
    BY <1>3 DEF Shown
  <2>3. \A i \in 0 .. file.rows - 1 : i \in Nat
    OBVIOUS
  <2>4. ASSUME NEW i \in 0 .. file.rows - 1
        PROVE  StatusSays(i)' /\ BlameSays(i)'
    BY <1>1, <2>2, <2>3, RowStays DEF Fetching
  <2>5. Fetching'
    BY <1>1, <2>2, <2>4, FetchingStays DEF Fetching
  <2>6. ~Idle'
    BY <1>1, <1>3 DEF Idle
  <2>7. QED
    BY <1>1, <2>5, <2>6 DEF Shown
<1>4. QED
  BY <1>2, <1>3

LEMMA NextShown == IInv /\ Shown /\ [Next]_vars => Shown'
<1> SUFFICES ASSUME IInv, Shown, [Next]_vars PROVE Shown'
  OBVIOUS
<1>1. CASE UNCHANGED vars
  BY <1>1, StayShown
<1>2. ASSUME NEW y \in 0 .. line_count - 1, NEW n \in 0 .. MaxLines, Buffer_delete(y, n)
      PROVE  Shown'
  <2>1. exact' = (exact /\ Idle) /\ fetch' = fetch
    BY <1>2 DEF Buffer_delete
  <2>2. CASE exact /\ Idle
    <3>1. Follows' /\ line_count' <= meta_capacity'
      BY <1>2, <2>2, DeleteFollows DEF Shown
    <3>2. Idle'
      BY <2>1, <2>2 DEF Idle
    <3>3. QED
      BY <3>1, <3>2 DEF Shown
  <2>3. QED
    BY <2>1, <2>2 DEF Shown
<1>3. ASSUME NEW y \in 0 .. line_count - 1, NEW n \in 0 .. MaxLines,
             NEW row \in 0 .. line_count - 1, Buffer_insert(y, row, n)
      PROVE  Shown'
  <2>1. exact' = (exact /\ Idle /\ row = y) /\ fetch' = fetch
    BY <1>3 DEF Buffer_insert
  <2>2. CASE exact /\ Idle /\ row = y
    <3>1. Follows' /\ line_count' <= meta_capacity'
      BY <1>3, <2>2, InsertFollows DEF Shown
    <3>2. Idle'
      BY <2>1, <2>2 DEF Idle
    <3>3. QED
      BY <3>1, <3>2 DEF Shown
  <2>3. QED
    BY <2>1, <2>2 DEF Shown
<1>4. CASE lsp_apply_text_edits
  BY <1>4 DEF lsp_apply_text_edits, Shown
<1>5. ASSUME NEW w \in Workers,
             \/ ResetRow(w) \/ MarkRow(w) \/ StampRow(w)
             \/ MarkDeleted(w) \/ NextHunk(w) \/ BlameRow(w)
      PROVE  Shown'
  <2>1. fetch[w].at # "done" /\ UNCHANGED <<lines, meta_capacity, exact>>
    BY <1>5 DEF ResetRow, MarkRow, StampRow, MarkDeleted, NextHunk, BlameRow
  <2>2. Fetching => Fetching'
    BY <1>5, ResetFetches, MarkFetches, StampFetches, MarkDeletedFetches,
       NextHunkFetches, BlameFetches
  <2>3. IInv'
    BY NextInv
  <2>4. QED
    BY <2>1, <2>2, <2>3, ThreadShown
<1>6. QED
  BY <1>1, <1>2, <1>3, <1>4, <1>5 DEF Next

-----------------------------------------------------------------------------
(* The theorems.                                                           *)

\* The invariant holds throughout: types, bounds, and the places of the threads
\* between two writes of diff_hunk_cb to one entry.
THEOREM Invariant == Spec => []IInv
<1>1. Init => IInv
  BY InitInv
<1>2. IInv /\ [Next]_vars => IInv'
  BY NextInv
<1>3. QED
  BY <1>1, <1>2, PTL DEF Spec

\* The entries and the places of the threads keep their types, for every set
\* of files and any number of threads (Buffer_insert, Buffer_delete,
\* git_fetch_worker).
THEOREM TypeCorrect == Spec => []TypeOK
<1>1. IInv => TypeOK
  BY DEF IInv
<1>2. QED
  BY <1>1, Invariant, PTL

\* Neither an edit, by the lines before and after it, nor a thread, by the
\* lines that git knows, uses an entry that line_git does not have, however
\* their steps interleave (buffer.c, git_client.c).
THEOREM AccessesStayInBounds == Spec => []AccessesInBounds
<1>1. IInv => AccessesInBounds
  BY DEF IInv
<1>2. QED
  BY <1>1, Invariant, PTL

\* However many threads fetched, in whatever order their writes came, and
\* however many edits came after, a line that was not edited has the mark of its
\* row and, if HEAD has it in the same row, author and time of its commit; an
\* edited one is the user's, and the entries behind the last line are blank: for
\* every set of files whose hunks are a diff's, any number of threads and text of
\* any size (git_fetch_worker, Buffer_insert, Buffer_delete).
THEOREM GutterFollows == Spec => []GutterFollowsLines
<1>1. Init => IInv /\ Shown
  BY InitInv, InitShown
<1>2. (IInv /\ Shown) /\ [Next]_vars => (IInv /\ Shown)'
  BY NextInv, NextShown
<1>3. Shown => GutterFollowsLines
  <2> SUFFICES ASSUME Follows, exact, Idle PROVE GutterFollowsLines
    BY DEF Shown, GutterFollowsLines
  <2>1. ASSUME NEW y \in 0 .. line_count - 1, lines[y + 1] # Edited
        PROVE  /\ line_git[y].status = Mark(lines[y + 1])
               /\ ~Uncommitted(lines[y + 1]) /\ HeadRow(lines[y + 1]) = lines[y + 1] =>
                     /\ line_git[y].author = Commit(lines[y + 1])
                     /\ line_git[y].last_edited_at = Commit(lines[y + 1])
    <3>1. line_git[y] = Fetched(lines[y + 1])
      BY <2>1 DEF Follows
    <3>2. QED
      BY <3>1, FetchedIsTrue
  <2>2. QED
    BY <2>1 DEF Follows, GutterFollowsLines
<1>4. QED
  BY <1>1, <1>2, <1>3, PTL DEF Spec
=============================================================================
