-------------------------------- MODULE Rope --------------------------------
(***************************************************************************)
(* The rope (rope.c): a binary tree of nodes whose leaves hold pieces of   *)
(* the text.  Nodes are shared between the tree before and the tree after  *)
(* an operation and counted by reference.                                  *)
(*                                                                         *)
(* The heap is the sequence of the addresses; one that is freed holds      *)
(* Freed and is not allocated again, so that whoever still uses it is      *)
(* seen.  The functions of the code, which change nodes in place, are      *)
(* operators that take a heap and return one, in a record with what they   *)
(* return.  A node is allocated after its children: the recursion of the   *)
(* code goes down the addresses.                                           *)
(***************************************************************************)
EXTENDS Integers, Sequences, FiniteSets

CONSTANTS
  Char, NL,        \* the characters, and the one that ends a line (of Text)
  Freed,           \* what an address holds that is freed
  MAX_SIZE_LEAF,   \* the longest text of one leaf: 1024 in the code
  Wrap             \* reference counts are unsigned, one less than 0 is Wrap - 1: 2^32 in the code

ASSUME Sizes == MAX_SIZE_LEAF \in Nat \ {0} /\ Wrap \in Nat \ {0, 1}

VARIABLES
  heap,   \* the nodes that are allocated, by address
  root    \* Buffer.str: the address of the root

vars == <<heap, root>>

Null == 0

\* struct String. A node that is no leaf has no characters of its own.
Nodes ==
  [leaf : BOOLEAN, len : Nat, weight : Nat, left : Nat, right : Nat, str : Seq(Char),
   ref_count : Nat]

ASSUME FreedIsNoNode == Freed \notin Nodes

Node(leaf, len, weight, left, right, str, count) ==
  [leaf |-> leaf, len |-> len, weight |-> weight, left |-> left, right |-> right,
   str |-> str, ref_count |-> count]

Heap ==
  {h \in Seq(Nodes \cup {Freed}) :
     \A n \in DOMAIN h : h[n] # Freed => h[n].left < n /\ h[n].right < n}

\* An address that a function may be given, and the heaps that have it.
Usable(h, n) == n = Null \/ (n \in DOMAIN h /\ h[n] # Freed)

With(n) == {h \in Heap : Usable(h, n)}

smaller(m, n) == IF m < n THEN m ELSE n

-----------------------------------------------------------------------------
(* Allocation and counting. *)

\* malloc.
Alloc(h, node) == [heap |-> Append(h, node), at |-> Len(h) + 1]

Free(h, n) == [h EXCEPT ![n] = Freed]

\* Bound: there are never as many references to a node as an unsigned can count.
String_retain(h, n) ==
  IF n = Null THEN h ELSE [h EXCEPT ![n].ref_count = @ + 1]

\* Nobody's node, whose count is 0, is not freed: its count wraps around.
String_release(h, n) ==
  LET release[m \in 0 .. n] ==
        [g \in With(m) |->
           IF m = Null THEN g
           ELSE LET counted == [g EXCEPT ![m].ref_count = IF @ = 0 THEN Wrap - 1 ELSE @ - 1]
                IN  IF counted[m].ref_count > 0 THEN counted
                    ELSE IF g[m].leaf THEN Free(counted, m)
                    ELSE Free(release[g[m].right][release[g[m].left][counted]], m)]
  IN  release[n][h]

\* The empty rope: no leaf, without children, and nobody counts it.
String_new(h) == Alloc(h, Node(FALSE, 0, 0, Null, Null, <<>>, 0))

String_make_leaf(h, s) == Alloc(h, Node(TRUE, Len(s), Len(s), Null, Null, s, 1))

String_len(h, n) == IF n = Null THEN 0 ELSE h[n].len

-----------------------------------------------------------------------------
(* Trees. *)

\* A parent that does not count its children.
ConcatUncounted(h, left, right) ==
  IF left = Null /\ right = Null THEN String_new(h)
  ELSE IF left = Null THEN [heap |-> String_retain(h, right), at |-> right]
  ELSE IF right = Null THEN [heap |-> String_retain(h, left), at |-> left]
  ELSE LET weight == String_len(h, left)
       IN  Alloc(h, Node(FALSE, weight + String_len(h, right), weight, left, right, <<>>, 1))

\* A parent that takes the left child's weight for its length.
ConcatWeight(h, left, right) ==
  IF left = Null /\ right = Null THEN String_new(h)
  ELSE IF left = Null THEN [heap |-> String_retain(h, right), at |-> right]
  ELSE IF right = Null THEN [heap |-> String_retain(h, left), at |-> left]
  ELSE LET weight == h[left].weight
       IN  Alloc(String_retain(String_retain(h, left), right),
                 Node(FALSE, weight + String_len(h, right), weight, left, right, <<>>, 1))

\* The parent counts both children. With one side only, that side is counted
\* once more and returned.
String_concat(h, left, right) ==
  IF left = Null /\ right = Null THEN String_new(h)
  ELSE IF left = Null THEN [heap |-> String_retain(h, right), at |-> right]
  ELSE IF right = Null THEN [heap |-> String_retain(h, left), at |-> left]
  ELSE LET weight == String_len(h, left)
       IN  Alloc(String_retain(String_retain(h, left), right),
                 Node(FALSE, weight + String_len(h, right), weight, left, right, <<>>, 1))

\* A balanced tree over the leaves with numbers start .. end - 1: build[k] makes
\* one over k leaves.
String_build_balanced(h, leaves, start, end) ==
  LET build[k \in 0 .. end - start] ==
        [g \in Heap |-> [from \in Nat |->
           IF k = 0 THEN [heap |-> g, at |-> Null]
           ELSE IF k = 1 THEN [heap |-> g, at |-> leaves[from + 1]]
           ELSE LET mid == (from + from + k) \div 2
                    left == build[mid - from][g][from]
                    right == build[from + k - mid][left.heap][mid]
                IN  String_concat(right.heap, left.at, right.at)]]
  IN  build[end - start][h][start]

\* The part before index and the part from it on. Leaves and whole subtrees
\* are shared with the old tree, the nodes on the way are made anew.
String_split(h, n, index) ==
  LET split[m \in 0 .. n] ==
        [g \in With(m) |-> [i \in Nat |->
           IF m = Null THEN [heap |-> g, left |-> Null, right |-> Null]
           ELSE IF g[m].leaf THEN
             IF i <= 0 THEN [heap |-> String_retain(g, m), left |-> Null, right |-> m]
             ELSE IF i >= g[m].len THEN [heap |-> String_retain(g, m), left |-> m, right |-> Null]
             ELSE LET first == String_make_leaf(g, SubSeq(g[m].str, 1, i))
                      rest == String_make_leaf(first.heap, SubSeq(g[m].str, i + 1, g[m].len))
                  IN  [heap |-> rest.heap, left |-> first.at, right |-> rest.at]
           ELSE IF i < g[m].weight THEN
             LET part == split[g[m].left][g][i]
                 rest == String_concat(part.heap, part.right, g[m].right)
             IN  [heap |-> String_release(rest.heap, part.right),
                  left |-> part.left, right |-> rest.at]
           ELSE
             LET part == split[g[m].right][g][i - g[m].weight]
                 first == String_concat(part.heap, g[m].left, part.left)
             IN  [heap |-> String_release(first.heap, part.left),
                  left |-> first.at, right |-> part.right]]]
  IN  split[n][h][index]

-----------------------------------------------------------------------------
(* Reading. *)

\* The right side is read as if nothing had been read of the left.
CollectFrom(h, n, start, len) ==
  LET collect[m \in {k \in 0 .. n : Usable(h, k)}] ==
        [s \in Nat |-> [k \in Nat |->
           IF m = Null \/ k = 0 THEN <<>>
           ELSE IF h[m].leaf THEN SubSeq(h[m].str, s + 1, smaller(h[m].len, s + k))
           ELSE IF s < h[m].weight THEN
             collect[h[m].left][s][smaller(h[m].weight - s, k)] \o collect[h[m].right][0][k]
           ELSE collect[h[m].right][s - h[m].weight][k]]]
  IN  collect[n][start][len]

String_collect(h, n, start, len) ==
  LET collect[m \in {k \in 0 .. n : Usable(h, k)}] ==
        [s \in Nat |-> [k \in Nat |->
           IF m = Null \/ k = 0 THEN <<>>
           ELSE IF h[m].leaf THEN SubSeq(h[m].str, s + 1, smaller(h[m].len, s + k))
           ELSE IF s < h[m].weight THEN
             LET there == smaller(h[m].weight - s, k)
             IN  collect[h[m].left][s][there] \o collect[h[m].right][0][k - there]
           ELSE collect[h[m].right][s - h[m].weight][k]]]
  IN  collect[n][start][len]

String_get(index, len) ==
  IF index >= heap[root].len THEN <<>>
  ELSE String_collect(heap, root, index, smaller(len, heap[root].len - index))

-----------------------------------------------------------------------------
(* Balance. *)

\* The height of the tree below each node.
String_height(h) ==
  LET height[n \in 0 .. Len(h)] ==
        IF n = Null THEN 1 ELSE IF h[n] = Freed THEN 1 ELSE IF h[n].leaf THEN 1
        ELSE 1 + (IF height[h[n].left] > height[h[n].right]
                  THEN height[h[n].left] ELSE height[h[n].right])
  IN  height

\* The right side first.
LeavesBackwards(h) ==
  LET leaves[n \in 0 .. Len(h)] ==
        IF n = Null THEN <<>> ELSE IF h[n] = Freed THEN <<>> ELSE IF h[n].leaf THEN <<n>>
        ELSE leaves[h[n].right] \o leaves[h[n].left]
  IN  leaves

\* The leaves below each node from left to right; their number is
\* String_count_leaves.
String_collect_leaves(h) ==
  LET leaves[n \in 0 .. Len(h)] ==
        IF n = Null THEN <<>> ELSE IF h[n] = Freed THEN <<>> ELSE IF h[n].leaf THEN <<n>>
        ELSE leaves[h[n].left] \o leaves[h[n].right]
  IN  leaves

log2(n) == LET l[m \in 0 .. n] == IF m < 2 THEN 0 ELSE 1 + l[m \div 2] IN l[n]

\* How high a tree of this many leaves may be.
Threshold(leaves) == 2 * (log2(leaves) + 1)

\* A tree that is never rebuilt.
NeverRebalance(h, n) == [heap |-> h, at |-> n]

\* A tree that is too high is rebuilt over the same leaves, and the old one let go.
String_rebalance(h, n) ==
  LET leaves == String_collect_leaves(h)[n]
      height == String_height(h)[n]
      built == String_build_balanced(h, leaves, 0, Len(leaves))
  IN  IF \/ n = Null
         \/ Len(leaves) <= 2
         \/ height <= Threshold(Len(leaves)) /\ height < 28
      THEN [heap |-> h, at |-> n]
      ELSE [heap |-> String_release(built.heap, n), at |-> built.at]

-----------------------------------------------------------------------------
(* Insertion and deletion. *)

\* The leaves for a long text s, made one after the other: make[k] makes those
\* for the k characters that remain.
make_leaves(h, s) ==
  LET make[k \in 0 .. Len(s)] ==
        [g \in Heap |->
           IF k = 0 THEN [heap |-> g, leaves |-> <<>>]
           ELSE LET offset == Len(s) - k
                    chunk_len == smaller(k, MAX_SIZE_LEAF)
                    leaf == String_make_leaf(g, SubSeq(s, offset + 1, offset + chunk_len))
                    rest == make[k - chunk_len][leaf.heap]
                IN  [heap |-> rest.heap, leaves |-> <<leaf.at>> \o rest.leaves]]
  IN  make[Len(s)][h]

\* A leaf that is one character too long.
InsertedWide(h, s) ==
  IF Len(s) <= MAX_SIZE_LEAF + 1 THEN String_make_leaf(h, s)
  ELSE LET made == make_leaves(h, s)
       IN  String_build_balanced(made.heap, made.leaves, 0, Len(made.leaves))

Inserted(h, s) ==
  IF Len(s) <= MAX_SIZE_LEAF THEN String_make_leaf(h, s)
  ELSE LET made == make_leaves(h, s)
       IN  String_build_balanced(made.heap, made.leaves, 0, Len(made.leaves))

String_insert(index, s) ==
  LET new == Inserted(heap, s)
      parts == String_split(new.heap, root, index)
      before == String_concat(parts.heap, parts.left, new.at)
      all == String_concat(before.heap, before.at, parts.right)
      balanced == String_rebalance(String_release(all.heap, root), all.at)
      done == String_release(String_release(String_release(balanced.heap,
                parts.left), parts.right), new.at)
  IN  IF s = <<>> THEN UNCHANGED vars
      ELSE IF heap[root].len = 0
      THEN heap' = String_release(new.heap, root) /\ root' = new.at
      ELSE heap' = done /\ root' = balanced.at

String_delete(pos, len) ==
  LET cut == smaller(len, heap[root].len - pos)
      parts == String_split(heap, root, pos)
      rest == String_split(parts.heap, parts.right, cut)
      all == String_concat(rest.heap, parts.left, rest.right)
      let == String_release(String_release(String_release(String_release(String_release(
               all.heap, root), rest.left), parts.right), parts.left), rest.right)
      balanced == String_rebalance(let, all.at)
  IN  IF len = 0 \/ pos >= heap[root].len THEN UNCHANGED vars
      ELSE heap' = balanced.heap /\ root' = balanced.at

-----------------------------------------------------------------------------
(* The buffer's edits. *)

\* Buffer_new and Buffer_open start from an empty rope.
Init ==
  LET new == String_new(<<>>)
  IN  heap = new.heap /\ root = new.at

Insert == \E p \in 0 .. heap[root].len, s \in Seq(Char) : String_insert(p, s)

\* A range may reach behind the end: String_delete cuts it.
Delete == \E p \in 0 .. heap[root].len, n \in Nat : String_delete(p, n)

Next == Insert \/ Delete

Spec == Init /\ [][Next]_vars

-----------------------------------------------------------------------------
(* Properties. *)

Allocated == {n \in DOMAIN heap : heap[n] # Freed}

\* The text below each node, read without using a length or a weight.
Flat(h) ==
  LET flat[n \in 0 .. Len(h)] ==
        IF n = Null THEN <<>> ELSE IF h[n] = Freed THEN <<>> ELSE IF h[n].leaf THEN h[n].str
        ELSE flat[h[n].left] \o flat[h[n].right]
  IN  flat

\* Every node is a leaf with a text of its own or has two children; only the
\* empty rope has neither.
TypeOK ==
  /\ heap \in Heap
  /\ root \in Allocated
  /\ \A n \in Allocated :
       /\ heap[n].leaf => /\ Len(heap[n].str) \in 1 .. MAX_SIZE_LEAF
                          /\ heap[n].left = Null /\ heap[n].right = Null
       /\ ~heap[n].leaf => heap[n].str = <<>> /\ (heap[n].left = Null <=> heap[n].right = Null)

\* The tree holds the text that an editor of plain sequences would have: no
\* split, sharing or rebalancing loses, repeats or reorders a character
\* (String_insert, String_delete).
Contents == INSTANCE Text WITH text <- Flat(heap)[root]

ImplementsText == Contents!Spec

\* String_get returns the piece that was asked for, wherever leaves begin and
\* end: the offsets that go down into a right child are its own.
GetReturnsPiece ==
  \A i \in 0 .. heap[root].len, n \in 1 .. heap[root].len + 1 :
    String_get(i, n) = Contents!String_get(Flat(heap)[root], i, n)

\* A node is freed only when nothing refers to it: nothing refers to a node that
\* is freed, and each count is at least the number of references from other
\* nodes and from the buffer. (It may be more, which leaks a node but breaks
\* none.) The empty rope is born with count 0 and is the exception, which the
\* insertion that replaces it wraps around.
References(n) ==
  Cardinality({m \in Allocated : heap[m].left = n})
    + Cardinality({m \in Allocated : heap[m].right = n})
    + (IF n = root THEN 1 ELSE 0)

CountsCoverReferences ==
  \A n \in Allocated :
    /\ {heap[n].left, heap[n].right} \subseteq Allocated \cup {Null}
    /\ \/ heap[n].ref_count >= References(n)
       \/ n = root /\ heap[n].len = 0

\* The numbers by which splitting and reading find their way are right in every
\* node: weight is the length of the left side, len that of both.
WeightsMeasure ==
  \A n \in Allocated :
    /\ heap[n].len = Len(Flat(heap)[n])
    /\ heap[n].weight = IF heap[n].leaf THEN heap[n].len ELSE Len(Flat(heap)[heap[n].left])

\* After every operation the recursion over the tree is short: its height stays
\* logarithmic in the leaves, however they came to be (String_rebalance).
HeightBounded ==
  LET leaves == Len(String_collect_leaves(heap)[root])
  IN  leaves > 2 => String_height(heap)[root] <= Threshold(leaves)
=============================================================================
