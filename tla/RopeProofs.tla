----------------------------- MODULE RopeProofs -----------------------------
(***************************************************************************)
(* What holds of the rope for all constants: every node that is referred   *)
(* to is there, the lengths and weights are right, the tree stays low, the *)
(* text is the one that a plain sequence would be, and reading a piece of  *)
(* it gives that piece.                                                    *)
(***************************************************************************)
EXTENDS Rope, SequenceTheorems, FiniteSetTheorems, WellFoundedInduction, TLAPS

-----------------------------------------------------------------------------
(* Induction, and recursion that goes down. *)

\* What is in S whenever everything below is in S, is in S.
LEMMA FromBelow ==
  ASSUME NEW n \in Nat, NEW S,
         \A m \in 0 .. n : (\A k \in 0 .. m - 1 : k \in S) => m \in S
  PROVE  \A m \in 0 .. n : m \in S
<1> DEFINE T == (0 .. n) \ S
           Less == {ss \in Nat \X Nat : ss[1] < ss[2]}
<1>1. IsWellFoundedOn(Less, Nat)
  BY NatLessThanWellFounded DEF OpToRel
<1>2. SUFFICES ASSUME T # {} PROVE FALSE
  OBVIOUS
<1>3. T \in SUBSET Nat
  OBVIOUS
<1>4. PICK k \in T : \A j \in T : <<j, k>> \notin Less
  <2> HIDE DEF Less, T
  <2> QED
    BY <1>1, <1>2, <1>3, WFMin
<1>5. \A j \in 0 .. k - 1 : j \in S
  <2> TAKE j \in 0 .. k - 1
  <2>1. j \in Nat /\ j < k /\ j \in 0 .. n /\ <<j, k>> \in Less
    BY <1>4
  <2>2. QED
    BY <1>4, <2>1
<1>6. QED
  BY <1>4, <1>5

-----------------------------------------------------------------------------
(* Heaps. *)

Live(h) == {n \in 1 .. Len(h) : h[n] # Freed}

LEMMA HeapFacts ==
  ASSUME NEW h \in Heap
  PROVE  /\ h \in Seq(Nodes \cup {Freed}) /\ DOMAIN h = 1 .. Len(h) /\ Len(h) \in Nat
         /\ \A n \in 1 .. Len(h) : h[n] \in Nodes \cup {Freed}
         /\ \A n \in Live(h) : /\ n \in 1 .. Len(h) /\ h[n] \in Nodes
                               /\ h[n].left \in 0 .. n - 1 /\ h[n].right \in 0 .. n - 1
<1>1. h \in Seq(Nodes \cup {Freed}) /\ DOMAIN h = 1 .. Len(h) /\ Len(h) \in Nat
  BY LenProperties DEF Heap
<1>2. \A n \in 1 .. Len(h) : h[n] \in Nodes \cup {Freed}
  BY <1>1, ElementOfSeq
<1>3. ASSUME NEW n \in Live(h)
      PROVE  /\ n \in 1 .. Len(h) /\ h[n] \in Nodes
             /\ h[n].left \in 0 .. n - 1 /\ h[n].right \in 0 .. n - 1
  <2>1. n \in 1 .. Len(h) /\ h[n] # Freed /\ h[n] \in Nodes
    BY <1>2 DEF Live
  <2>2. h[n].left < n /\ h[n].right < n
    BY <1>1, <2>1 DEF Heap
  <2>3. QED
    BY <2>1, <2>2 DEF Nodes
<1>4. QED
  BY <1>1, <1>2, <1>3

\* Writing to an address.
Write(h, n, x) == [h EXCEPT ![n] = x]

LEMMA WriteNode ==
  ASSUME NEW h \in Heap, NEW n \in 1 .. Len(h), NEW x \in Nodes \cup {Freed},
         x # Freed => x.left < n /\ x.right < n
  PROVE  /\ Write(h, n, x) \in Heap /\ Len(Write(h, n, x)) = Len(h) /\ Write(h, n, x)[n] = x
         /\ \A m \in 1 .. Len(h) : m # n => Write(h, n, x)[m] = h[m]
<1> DEFINE g == Write(h, n, x)
<1>1. h \in Seq(Nodes \cup {Freed}) /\ DOMAIN h = 1 .. Len(h) /\ Len(h) \in Nat
  BY HeapFacts
<1>2. g \in Seq(Nodes \cup {Freed}) /\ Len(g) = Len(h)
  BY <1>1, ExceptSeq DEF Write
<1>3. g[n] = x /\ \A m \in 1 .. Len(h) : m # n => g[m] = h[m]
  BY <1>1 DEF Write
<1>4. DOMAIN g = 1 .. Len(h)
  BY <1>1 DEF Write
<1> HIDE DEF g
<1>5. \A m \in DOMAIN g : g[m] # Freed => g[m].left < m /\ g[m].right < m
  BY <1>1, <1>3, <1>4 DEF Heap
<1>6. g \in Heap
  BY <1>2, <1>5 DEF Heap
<1>7. QED
  BY <1>2, <1>3, <1>6 DEF g

\* A new address.
LEMMA NewNode ==
  ASSUME NEW h \in Heap, NEW x \in Nodes, x.left \in 0 .. Len(h), x.right \in 0 .. Len(h)
  PROVE  /\ Append(h, x) \in Heap /\ Len(Append(h, x)) = Len(h) + 1
         /\ Append(h, x)[Len(h) + 1] = x
         /\ \A m \in 1 .. Len(h) : Append(h, x)[m] = h[m]
<1> DEFINE g == Append(h, x)
<1>1. h \in Seq(Nodes \cup {Freed}) /\ DOMAIN h = 1 .. Len(h) /\ Len(h) \in Nat
  BY HeapFacts
<1>2. /\ g \in Seq(Nodes \cup {Freed}) /\ Len(g) = Len(h) + 1 /\ g[Len(h) + 1] = x
      /\ \A m \in 1 .. Len(h) : g[m] = h[m]
  BY <1>1, AppendProperties
<1> HIDE DEF g
<1>3. DOMAIN g = 1 .. Len(h) + 1
  BY <1>1, <1>2, LenProperties
<1>4. ASSUME NEW m \in DOMAIN g, g[m] # Freed PROVE g[m].left < m /\ g[m].right < m
  <2>1. CASE m = Len(h) + 1
    BY <1>1, <1>2, <2>1
  <2>2. CASE m \in 1 .. Len(h)
    BY <1>1, <1>2, <1>4, <2>2 DEF Heap
  <2>3. QED
    BY <1>1, <1>3, <2>1, <2>2
<1>5. g \in Heap
  BY <1>2, <1>4 DEF Heap
<1>6. QED
  BY <1>2, <1>5 DEF g

\* Nodes that differ in their counts only.
Same(a, b) ==
  /\ a.leaf = b.leaf /\ a.len = b.len /\ a.weight = b.weight
  /\ a.left = b.left /\ a.right = b.right /\ a.str = b.str

\* A node is never changed but in its count.
Agree(h, g) ==
  /\ Len(h) <= Len(g)
  /\ \A m \in 1 .. Len(h) : g[m] # Freed => h[m] # Freed /\ Same(h[m], g[m])

LEMMA AgreeTrans ==
  ASSUME NEW h \in Heap, NEW g \in Heap, NEW k \in Heap, Agree(h, g), Agree(g, k)
  PROVE  Agree(h, k)
<1>1. Len(h) \in Nat /\ Len(g) \in Nat /\ Len(k) \in Nat
  BY HeapFacts
<1>2. \A m \in 1 .. Len(h) : m \in 1 .. Len(g)
  BY <1>1 DEF Agree
<1>3. QED
  BY <1>1, <1>2 DEF Agree, Same

LEMMA AgreeSelf == ASSUME NEW h \in Heap PROVE Agree(h, h)
BY HeapFacts DEF Agree, Same

\* The count of a node.
Count(h, n, c) == [h EXCEPT ![n].ref_count = c]

LEMMA WriteCount ==
  ASSUME NEW h \in Heap, NEW n \in Live(h), NEW c \in Nat
  PROVE  /\ Count(h, n, c) \in Heap /\ Len(Count(h, n, c)) = Len(h)
         /\ Agree(h, Count(h, n, c)) /\ Live(Count(h, n, c)) = Live(h)
         /\ Count(h, n, c)[n].ref_count = c /\ Same(h[n], Count(h, n, c)[n])
         /\ \A m \in 1 .. Len(h) : m # n => Count(h, n, c)[m] = h[m]
<1> DEFINE x == [h[n] EXCEPT !.ref_count = c]
           g == Count(h, n, c)
<1>1. /\ n \in 1 .. Len(h) /\ h[n] \in Nodes /\ Len(h) \in Nat
      /\ h[n].left < n /\ h[n].right < n
  BY HeapFacts
<1>2. x \in Nodes /\ x.ref_count = c /\ Same(h[n], x) /\ x.left = h[n].left /\ x.right = h[n].right
  BY <1>1 DEF Nodes, Same
<1>3. x # Freed
  BY <1>2, FreedIsNoNode
<1>4. g = Write(h, n, x)
  BY DEF Count, Write
<1> HIDE DEF x, g
<1>5. /\ g \in Heap /\ Len(g) = Len(h) /\ g[n] = x
      /\ \A m \in 1 .. Len(h) : m # n => g[m] = h[m]
  <2>1. /\ Write(h, n, x) \in Heap /\ Len(Write(h, n, x)) = Len(h) /\ Write(h, n, x)[n] = x
        /\ \A m \in 1 .. Len(h) : m # n => Write(h, n, x)[m] = h[m]
    <3>1. x \in Nodes \cup {Freed} /\ (x # Freed => x.left < n /\ x.right < n)
      BY <1>1, <1>2
    <3>2. QED
      BY <1>1, <3>1, WriteNode
  <2>2. QED
    BY <1>4, <2>1
<1>6. h[n] # Freed
  BY DEF Live
<1>7. Agree(h, g)
  BY <1>1, <1>2, <1>5, <1>6 DEF Agree, Same
<1>8. Live(g) = Live(h)
  BY <1>3, <1>5, <1>6 DEF Live
<1>9. QED
  BY <1>2, <1>5, <1>7, <1>8 DEF g

LEMMA LiveFacts ==
  ASSUME NEW h \in Heap, NEW n \in Live(h)
  PROVE  /\ n \in Nat \ {Null} /\ n \in Nat /\ n # Null /\ n \in 1 .. Len(h) /\ h[n] # Freed
         /\ h[n] \in Nodes /\ Len(h) \in Nat
         /\ h[n].leaf \in BOOLEAN /\ h[n].len \in Nat /\ h[n].weight \in Nat
         /\ h[n].str \in Seq(Char) /\ h[n].ref_count \in Nat
         /\ h[n].left \in Nat /\ h[n].right \in Nat
         /\ h[n].left \in 0 .. n - 1 /\ h[n].right \in 0 .. n - 1
<1>1. /\ n \in 1 .. Len(h) /\ h[n] \in Nodes /\ Len(h) \in Nat
      /\ h[n].left \in 0 .. n - 1 /\ h[n].right \in 0 .. n - 1
  BY HeapFacts
<1>2. /\ h[n].leaf \in BOOLEAN /\ h[n].len \in Nat /\ h[n].weight \in Nat
      /\ h[n].str \in Seq(Char) /\ h[n].ref_count \in Nat
      /\ h[n].left \in Nat /\ h[n].right \in Nat
  BY <1>1 DEF Nodes
<1>3. n \in Nat \ {Null} /\ n \in Nat /\ n # Null
  BY <1>1 DEF Null
<1>4. h[n] # Freed
  BY DEF Live
<1>5. QED
  BY <1>1, <1>2, <1>3, <1>4

-----------------------------------------------------------------------------
(* What a heap keeps: L are the nodes that count as nodes, which between     *)
(* operations are all that are allocated, and E[n] is the number of          *)
(* references to n from outside the heap.                                    *)

\* A leaf with a text, the empty rope, or a parent of two that are not empty.
Formed(h, L, n) ==
  IF h[n].leaf
  THEN /\ h[n].left = Null /\ h[n].right = Null
       /\ Len(h[n].str) \in 1 .. MAX_SIZE_LEAF
       /\ h[n].len = Len(h[n].str) /\ h[n].weight = h[n].len
  ELSE /\ h[n].str = <<>>
       /\ \/ h[n].left = Null /\ h[n].right = Null /\ h[n].len = 0 /\ h[n].weight = 0
          \/ /\ h[n].left \in L /\ h[n].right \in L
             /\ h[h[n].left].len > 0 /\ h[h[n].right].len > 0
             /\ h[n].weight = h[h[n].left].len
             /\ h[n].len = h[n].weight + h[h[n].right].len

Lefts(h, L, n) == {m \in L : h[m].left = n}
Rights(h, L, n) == {m \in L : h[m].right = n}
Refs(h, L, n) == Cardinality(Lefts(h, L, n)) + Cardinality(Rights(h, L, n))

Counts(h, E, L) == \A n \in L : h[n].ref_count >= Refs(h, L, n) + E[n]

Sound(h, E, L) ==
  /\ h \in Heap /\ L \subseteq Live(h) /\ E \in [Nat -> Nat]
  /\ \A n \in L : Formed(h, L, n)
  /\ Counts(h, E, L)
  /\ \A n \in Nat \ {Null} : E[n] > 0 => n \in L

Plus(E, n) == [k \in Nat |-> IF k = n THEN E[k] + 1 ELSE E[k]]
Minus(E, n) == [k \in Nat |-> IF k = n THEN E[k] - 1 ELSE E[k]]

LEMMA FiniteRefs ==
  ASSUME NEW h \in Heap, NEW L \in SUBSET Live(h), NEW n
  PROVE  /\ IsFiniteSet(L) /\ IsFiniteSet(Lefts(h, L, n)) /\ IsFiniteSet(Rights(h, L, n))
         /\ Cardinality(Lefts(h, L, n)) \in Nat /\ Cardinality(Rights(h, L, n)) \in Nat
         /\ Refs(h, L, n) \in Nat
<1>1. Len(h) \in Nat /\ 1 \in Int
  BY HeapFacts
<1>2. IsFiniteSet(1 .. Len(h))
  BY <1>1, FS_Interval
<1>3. /\ L \in SUBSET (1 .. Len(h)) /\ Lefts(h, L, n) \in SUBSET (1 .. Len(h))
      /\ Rights(h, L, n) \in SUBSET (1 .. Len(h))
  BY DEF Live, Lefts, Rights
<1>4. /\ IsFiniteSet(L) /\ IsFiniteSet(Lefts(h, L, n)) /\ IsFiniteSet(Rights(h, L, n))
  BY <1>2, <1>3, FS_Subset
<1>5. Cardinality(Lefts(h, L, n)) \in Nat /\ Cardinality(Rights(h, L, n)) \in Nat
  BY <1>4, FS_CardinalityType
<1>6. QED
  BY <1>4, <1>5 DEF Refs

\* There are no more references from fewer nodes.
LEMMA FewerRefs ==
  ASSUME NEW h \in Heap, NEW g \in Heap, NEW L \in SUBSET Live(h), NEW M \in SUBSET L,
         \A m \in M : g[m].left = h[m].left /\ g[m].right = h[m].right,
         NEW n
  PROVE  Refs(g, M, n) <= Refs(h, L, n) /\ Refs(g, M, n) \in Nat /\ Refs(h, L, n) \in Nat
<1>1. Lefts(g, M, n) \in SUBSET Lefts(h, L, n) /\ Rights(g, M, n) \in SUBSET Rights(h, L, n)
  BY DEF Lefts, Rights
<1>2. /\ IsFiniteSet(Lefts(h, L, n)) /\ IsFiniteSet(Rights(h, L, n))
      /\ Cardinality(Lefts(h, L, n)) \in Nat /\ Cardinality(Rights(h, L, n)) \in Nat
  BY FiniteRefs
<1>3. /\ IsFiniteSet(Lefts(g, M, n)) /\ IsFiniteSet(Rights(g, M, n))
      /\ Cardinality(Lefts(g, M, n)) <= Cardinality(Lefts(h, L, n))
      /\ Cardinality(Rights(g, M, n)) <= Cardinality(Rights(h, L, n))
  BY <1>1, <1>2, FS_Subset
<1>4. Cardinality(Lefts(g, M, n)) \in Nat /\ Cardinality(Rights(g, M, n)) \in Nat
  BY <1>3, FS_CardinalityType
<1>5. QED
  BY <1>2, <1>3, <1>4 DEF Refs

\* What one node refers to.
RefsOf(h, x, n) == (IF h[x].left = n THEN 1 ELSE 0) + (IF h[x].right = n THEN 1 ELSE 0)

LEMMA RefsWithout ==
  ASSUME NEW h \in Heap, NEW L \in SUBSET Live(h), NEW x \in L, NEW n
  PROVE  Refs(h, L, n) = Refs(h, L \ {x}, n) + RefsOf(h, x, n)
<1>1. /\ Lefts(h, L \ {x}, n) = Lefts(h, L, n) \ {x}
      /\ Rights(h, L \ {x}, n) = Rights(h, L, n) \ {x}
      /\ x \in Lefts(h, L, n) <=> h[x].left = n
      /\ x \in Rights(h, L, n) <=> h[x].right = n
  BY DEF Lefts, Rights
<1>2. /\ IsFiniteSet(Lefts(h, L, n)) /\ IsFiniteSet(Rights(h, L, n))
      /\ Cardinality(Lefts(h, L, n)) \in Nat /\ Cardinality(Rights(h, L, n)) \in Nat
  BY FiniteRefs
<1>3. Cardinality(Lefts(h, L \ {x}, n))
        = IF h[x].left = n THEN Cardinality(Lefts(h, L, n)) - 1 ELSE Cardinality(Lefts(h, L, n))
  <2>1. Cardinality(Lefts(h, L, n) \ {x})
          = IF x \in Lefts(h, L, n) THEN Cardinality(Lefts(h, L, n)) - 1
            ELSE Cardinality(Lefts(h, L, n))
    BY <1>2, FS_RemoveElement
  <2>2. QED
    BY <1>1, <2>1, Zenon
<1>4. Cardinality(Rights(h, L \ {x}, n))
        = IF h[x].right = n THEN Cardinality(Rights(h, L, n)) - 1 ELSE Cardinality(Rights(h, L, n))
  <2>1. Cardinality(Rights(h, L, n) \ {x})
          = IF x \in Rights(h, L, n) THEN Cardinality(Rights(h, L, n)) - 1
            ELSE Cardinality(Rights(h, L, n))
    BY <1>2, FS_RemoveElement
  <2>2. QED
    BY <1>1, <2>1, Zenon
<1>5. QED
  BY <1>2, <1>3, <1>4 DEF Refs, RefsOf

\* The children of a node that counts as one do, too.
LEMMA ChildrenCount ==
  ASSUME NEW h, NEW E, NEW L, Sound(h, E, L), NEW n \in L
  PROVE  /\ h[n].left \in L \cup {Null} /\ h[n].right \in L \cup {Null}
         /\ h[n] \in Nodes /\ n \in 1 .. Len(h) /\ n \in Live(h)
         /\ h[n].left \in 0 .. n - 1 /\ h[n].right \in 0 .. n - 1
<1>1. Formed(h, L, n) /\ n \in Live(h) /\ h \in Heap
  BY DEF Sound
<1>2. QED
  BY <1>1, HeapFacts DEF Formed

\* A node keeps its form as long as its children are there.
LEMMA FormStays ==
  ASSUME NEW h \in Heap, NEW g \in Heap, Agree(h, g), NEW L \in SUBSET Live(h),
         NEW M \in SUBSET Live(g), NEW n \in L \cap M, Formed(h, L, n),
         h[n].left \in M \cup {Null}, h[n].right \in M \cup {Null}
  PROVE  Formed(g, M, n)
<1>1. /\ n \in 1 .. Len(h) /\ h[n] \in Nodes /\ Len(h) \in Nat
      /\ h[n].left \in 0 .. n - 1 /\ h[n].right \in 0 .. n - 1
  BY HeapFacts
<1>2. Same(h[n], g[n])
  BY <1>1 DEF Agree, Live
<1>3. \A k \in M : k <= n => h[k].len = g[k].len
  <2> TAKE k \in M
  <2> HAVE k <= n
  <2>1. k \in Nat /\ k >= 1 /\ g[k] # Freed
    BY HeapFacts DEF Live
  <2>2. k \in 1 .. Len(h)
    BY <1>1, <2>1
  <2>3. QED
    BY <2>1, <2>2 DEF Agree, Same
<1>4. ASSUME h[n].leaf PROVE Formed(g, M, n)
  BY <1>2, <1>4 DEF Formed, Same
<1>5. ASSUME ~h[n].leaf, h[n].left = Null, h[n].right = Null PROVE Formed(g, M, n)
  <2>1. Null \notin L
    BY HeapFacts DEF Live, Null
  <2>2. QED
    BY <1>2, <1>5, <2>1 DEF Formed, Same
<1>6. ASSUME ~h[n].leaf, h[n].left # Null \/ h[n].right # Null PROVE Formed(g, M, n)
  <2>1. /\ h[n].left \in L /\ h[n].right \in L
        /\ h[n].str = <<>>
        /\ h[h[n].left].len > 0 /\ h[h[n].right].len > 0
        /\ h[n].weight = h[h[n].left].len
        /\ h[n].len = h[n].weight + h[h[n].right].len
    BY <1>6 DEF Formed
  <2>2. h[n].left # Null /\ h[n].right # Null
    BY <2>1, HeapFacts DEF Live, Null
  <2>3. h[n].left \in M /\ h[n].right \in M
    BY <2>2
  <2>4. h[h[n].left].len = g[h[n].left].len /\ h[h[n].right].len = g[h[n].right].len
    BY <1>1, <1>3, <2>3
  <2>5. QED
    BY <1>2, <2>1, <2>3, <2>4 DEF Formed, Same
<1>7. QED
  BY <1>1, <1>4, <1>5, <1>6 DEF Nodes

-----------------------------------------------------------------------------
(* Letting a node go. *)

ReleaseBody(release, m) ==
  [g \in With(m) |->
     IF m = Null THEN g
     ELSE LET counted == [g EXCEPT ![m].ref_count = IF @ = 0 THEN Wrap - 1 ELSE @ - 1]
          IN  IF counted[m].ref_count > 0 THEN counted
              ELSE IF g[m].leaf THEN Free(counted, m)
              ELSE Free(release[g[m].right][release[g[m].left][counted]], m)]

LEMMA ReleaseLocal ==
  ASSUME NEW m \in Nat, NEW f, NEW g, \A k \in 0 .. m - 1 : f[k] = g[k]
  PROVE  ReleaseBody(f, m) = ReleaseBody(g, m)
<1>1. CASE m = Null
  BY <1>1, Zenon DEF ReleaseBody
<1>2. CASE m # Null
  <2>1. \A h \in With(m) : f[h[m].left] = g[h[m].left] /\ f[h[m].right] = g[h[m].right]
    <3> TAKE h \in With(m)
    <3>1. h \in Heap /\ m \in Live(h)
      BY <1>2, HeapFacts DEF With, Usable, Live
    <3>2. QED
      BY <3>1, HeapFacts
  <2>2. QED
    BY <2>1, Zenon DEF ReleaseBody
<1>3. QED
  BY <1>1, <1>2

LEMMA ReleaseSteps ==
  ASSUME NEW n \in Nat
  PROVE  \E f : /\ f = [m \in 0 .. n |-> ReleaseBody(f, m)]
                /\ \A h : String_release(h, n) = f[n][h]
<1> DEFINE Is(f, k) == f = [m \in 0 .. k |-> ReleaseBody(f, m)]
           S == {k \in 0 .. n : \E f : Is(f, k)}
<1>1. ASSUME NEW k \in 0 .. n, \A j \in 0 .. k - 1 : j \in S
      PROVE  k \in S
  <2>1. PICK f : \A m \in 0 .. k - 1 : f[m] = ReleaseBody(f, m)
    <3>1. CASE k = 0
      BY <3>1
    <3>2. CASE k # 0
      <4>1. k - 1 \in S /\ k - 1 \in 0 .. k - 1
        BY <1>1, <3>2
      <4>2. PICK f : Is(f, k - 1)
        BY <4>1
      <4>3. QED
        BY <4>2, Zenon
    <3>3. QED
      BY <3>1, <3>2
  <2> DEFINE g == [m \in 0 .. k |-> ReleaseBody(f, m)]
  <2>2. \A m \in 0 .. k - 1 : g[m] = f[m]
    BY <2>1
  <2>3. \A m \in 0 .. k : ReleaseBody(f, m) = ReleaseBody(g, m)
    <3> TAKE m \in 0 .. k
    <3> HIDE DEF g
    <3>1. \A j \in 0 .. m - 1 : f[j] = g[j]
      BY <2>2
    <3>2. m \in Nat
      OBVIOUS
    <3>3. QED
      BY <3>1, <3>2, ReleaseLocal
  <2>4. Is(g, k)
    BY <2>3, Zenon
  <2> HIDE DEF g, Is
  <2>5. QED
    BY <2>4
<1>2. n \in S
  <2>1. \A m \in 0 .. n : (\A k \in 0 .. m - 1 : k \in S) => m \in S
    BY <1>1
  <2> HIDE DEF S
  <2>2. QED
    BY <2>1, FromBelow
<1>3. \E f : Is(f, n)
  BY <1>2
<1> DEFINE r == CHOOSE f : Is(f, n)
<1>4. \A h : String_release(h, n) = r[n][h]
  BY Zenon DEF String_release, ReleaseBody
<1>5. Is(r, n)
  <2> HIDE DEF Is
  <2> QED
    BY <1>3, Zenon
<1>6. QED
  BY <1>4, <1>5, Zenon

\* Heap h after references were given up: the heap r keeps what E still refers to.
Kept(h, r, E, L) ==
  /\ Sound(r, E, L \cap Live(r))
  /\ Len(r) = Len(h) /\ Agree(h, r) /\ Live(h) \ L \subseteq Live(r)

\* A count that goes down.
Decremented(h, m) == [h EXCEPT ![m].ref_count = IF @ = 0 THEN Wrap - 1 ELSE @ - 1]

LEMMA Uncounted ==
  ASSUME NEW h, NEW E, NEW L, Sound(h, E, L), NEW m \in L, E[m] > 0
  PROVE  /\ h[m].ref_count - 1 \in Nat /\ m \in Live(h) /\ m \in Nat \ {Null}
         /\ h[m].ref_count - 1 >= Refs(h, L, m) + (E[m] - 1)
         /\ Refs(h, L, m) \in Nat /\ E[m] \in Nat
         /\ Decremented(h, m) \in Heap /\ Len(Decremented(h, m)) = Len(h)
         /\ Agree(h, Decremented(h, m)) /\ Live(Decremented(h, m)) = Live(h)
         /\ Decremented(h, m)[m].ref_count = h[m].ref_count - 1
         /\ Same(h[m], Decremented(h, m)[m])
         /\ \A k \in 1 .. Len(h) : k # m => Decremented(h, m)[k] = h[k]
<1> DEFINE g == Decremented(h, m)
<1>1. /\ h \in Heap /\ L \in SUBSET Live(h) /\ E \in [Nat -> Nat] /\ m \in Live(h)
      /\ h[m].ref_count >= Refs(h, L, m) + E[m]
  BY DEF Sound, Counts
<1>2. /\ m \in Nat \ {Null} /\ h[m].ref_count \in Nat /\ m \in 1 .. Len(h)
  BY <1>1, LiveFacts
<1>3. Refs(h, L, m) \in Nat /\ E[m] \in Nat
  BY <1>1, <1>2, FiniteRefs
<1>4. h[m].ref_count # 0 /\ h[m].ref_count - 1 \in Nat
      /\ h[m].ref_count - 1 >= Refs(h, L, m) + (E[m] - 1)
  <2> DEFINE r == Refs(h, L, m)
             e == E[m]
             c == h[m].ref_count
  <2>1. r \in Nat /\ e \in Nat /\ c \in Nat /\ c >= r + e /\ e > 0
    BY <1>1, <1>2, <1>3
  <2> HIDE DEF r, e, c
  <2>2. c # 0 /\ c - 1 \in Nat /\ c - 1 >= r + (e - 1)
    BY <2>1
  <2>3. QED
    BY <2>2 DEF r, e, c
<1> DEFINE c == h[m].ref_count - 1
<1>5. g = Count(h, m, c)
  BY <1>4, Zenon DEF Decremented, Count
<1>6. c \in Nat
  BY <1>4
<1> HIDE DEF c
<1>7. /\ g \in Heap /\ Len(g) = Len(h) /\ Agree(h, g) /\ Live(g) = Live(h)
      /\ g[m].ref_count = c /\ Same(h[m], g[m])
      /\ \A k \in 1 .. Len(h) : k # m => g[k] = h[k]
  <2>1. h \in Heap /\ m \in Live(h)
    BY <1>1
  <2> DEFINE k == Count(h, m, c)
  <2>2. /\ k \in Heap /\ Len(k) = Len(h) /\ Agree(h, k) /\ Live(k) = Live(h)
        /\ k[m].ref_count = c /\ Same(h[m], k[m])
        /\ \A i \in 1 .. Len(h) : i # m => k[i] = h[i]
    <3> HIDE DEF c
    <3>1. QED
      BY <2>1, <1>6, WriteCount
  <2>3. QED
    BY <2>2, <1>5
<1>8. QED
  BY <1>1, <1>2, <1>3, <1>4, <1>7 DEF c

LEMMA MinusType ==
  ASSUME NEW E \in [Nat -> Nat], NEW n \in Nat, E[n] > 0
  PROVE  /\ Minus(E, n) \in [Nat -> Nat] /\ Minus(E, n)[n] = E[n] - 1
         /\ \A k \in Nat : Minus(E, n)[k] <= E[k]
         /\ \A k \in Nat : k # n => Minus(E, n)[k] = E[k]
<1>1. \A k \in Nat : E[k] \in Nat
  OBVIOUS
<1>2. \A k \in Nat : (IF k = n THEN E[k] - 1 ELSE E[k]) \in Nat
  BY <1>1
<1>3. QED
  BY <1>1, <1>2 DEF Minus

\* Fewer references from outside are no harm.
LEMMA SoundLess ==
  ASSUME NEW h, NEW E, NEW L, Sound(h, E, L), NEW F \in [Nat -> Nat],
         \A k \in Nat \ {Null} : F[k] <= E[k]
  PROVE  Sound(h, F, L)
<1>1. /\ h \in Heap /\ L \in SUBSET Live(h) /\ E \in [Nat -> Nat]
  BY DEF Sound
<1>2. \A n \in L : n \in Nat \ {Null} /\ h[n].ref_count \in Nat /\ Refs(h, L, n) \in Nat
  BY <1>1, LiveFacts, FiniteRefs
<1>3. \A n \in L : h[n].ref_count >= Refs(h, L, n) + F[n]
  <2> TAKE n \in L
  <2>1. h[n].ref_count >= Refs(h, L, n) + E[n] /\ F[n] <= E[n] /\ F[n] \in Nat /\ E[n] \in Nat
    BY <1>1, <1>2 DEF Sound, Counts
  <2>2. QED
    BY <1>2, <2>1
<1>4. \A n \in Nat \ {Null} : F[n] > 0 => n \in L
  <2> TAKE n \in Nat \ {Null}
  <2>1. F[n] > 0 => E[n] > 0
    BY <1>1
  <2>2. QED
    BY <2>1 DEF Sound
<1>5. QED
  BY <1>1, <1>3, <1>4 DEF Sound, Counts

\* The node stays: somebody else refers to it.
LEMMA CountedStays ==
  ASSUME NEW h, NEW E, NEW L, Sound(h, E, L), NEW m \in L, E[m] > 0
  PROVE  Kept(h, Decremented(h, m), Minus(E, m), L) /\ Live(Decremented(h, m)) = Live(h)
<1> DEFINE g == Decremented(h, m)
<1>1. /\ g \in Heap /\ Len(g) = Len(h) /\ Agree(h, g) /\ Live(g) = Live(h)
      /\ g[m].ref_count = h[m].ref_count - 1 /\ Same(h[m], g[m])
      /\ h[m].ref_count - 1 >= Refs(h, L, m) + (E[m] - 1)
      /\ \A k \in 1 .. Len(h) : k # m => g[k] = h[k]
      /\ m \in Nat \ {Null}
  BY Uncounted
<1> HIDE DEF g
<1>2. /\ h \in Heap /\ L \in SUBSET Live(h) /\ E \in [Nat -> Nat]
  BY DEF Sound
<1>3. /\ Minus(E, m) \in [Nat -> Nat] /\ Minus(E, m)[m] = E[m] - 1
      /\ \A k \in Nat : k # m => Minus(E, m)[k] = E[k]
      /\ \A k \in Nat : Minus(E, m)[k] <= E[k]
  BY <1>1, <1>2, MinusType
<1>4. \A n \in L : n \in 1 .. Len(h) /\ n \in Nat /\ g[n].left = h[n].left /\ g[n].right = h[n].right
  <2> TAKE n \in L
  <2>1. n \in 1 .. Len(h) /\ n \in Nat
    BY <1>2, LiveFacts
  <2>2. QED
    BY <1>1, <2>1 DEF Same
<1>5. \A n \in L : Formed(g, L, n)
  <2> TAKE n \in L
  <2>1. /\ Formed(h, L, n) /\ h[n].left \in L \cup {Null} /\ h[n].right \in L \cup {Null}
    BY ChildrenCount DEF Sound
  <2>2. QED
    BY <1>1, <1>2, <2>1, FormStays
<1>6. \A n \in L : g[n].ref_count >= Refs(g, L, n) + Minus(E, m)[n]
  <2> TAKE n \in L
  <2>1. Refs(g, L, n) <= Refs(h, L, n) /\ Refs(g, L, n) \in Nat /\ Refs(h, L, n) \in Nat
    BY <1>1, <1>2, <1>4, FewerRefs
  <2>2. h[n].ref_count >= Refs(h, L, n) + E[n] /\ h[n].ref_count \in Nat /\ E[n] \in Nat
    BY <1>2, <1>4, LiveFacts DEF Sound, Counts
  <2>3. CASE n = m
    <3>1. /\ g[n].ref_count = h[n].ref_count - 1 /\ Minus(E, m)[n] = E[n] - 1
          /\ h[n].ref_count - 1 >= Refs(h, L, n) + (E[n] - 1)
      BY <1>1, <1>3, <2>3
    <3>2. QED
      BY <2>1, <2>2, <3>1
  <2>4. CASE n # m
    <3>1. Minus(E, m)[n] = E[n] /\ g[n] = h[n]
      BY <1>1, <1>3, <1>4, <2>4
    <3>2. g[n].ref_count = h[n].ref_count
      BY <3>1
    <3>3. QED
      BY <2>1, <2>2, <3>1, <3>2
  <2>5. QED
    BY <2>3, <2>4
<1>7. \A n \in Nat \ {Null} : Minus(E, m)[n] > 0 => n \in L
  <2> TAKE n \in Nat \ {Null}
  <2>1. Minus(E, m)[n] <= E[n] /\ Minus(E, m)[n] \in Nat /\ E[n] \in Nat
    BY <1>2, <1>3
  <2>2. QED
    BY <2>1 DEF Sound
<1>8. L \cap Live(g) = L /\ L \subseteq Live(g)
  BY <1>1, <1>2
<1>9. Sound(g, Minus(E, m), L)
  BY <1>1, <1>3, <1>5, <1>6, <1>7, <1>8 DEF Sound, Counts
<1>10. QED
  BY <1>1, <1>8, <1>9 DEF Kept, g

\* What node m refers to is referred to from outside, once m is no node any more.
Handed(h, E, m) == [k \in Nat |-> (IF k = m THEN E[k] - 1 ELSE E[k]) + RefsOf(h, m, k)]

\* The last reference goes: the node counts no longer, and hands on its own.
LEMMA CountedOut ==
  ASSUME NEW h, NEW E, NEW L, Sound(h, E, L), NEW m \in L, E[m] > 0,
         ~(Decremented(h, m)[m].ref_count > 0)
  PROVE  /\ Sound(Decremented(h, m), Handed(h, E, m), L \ {m})
         /\ Handed(h, E, m) \in [Nat -> Nat]
         /\ E[m] = 1
<1> DEFINE g == Decremented(h, m)
<1> DEFINE M == L \ {m}
           F == Handed(h, E, m)
<1>1. /\ g \in Heap /\ Len(g) = Len(h) /\ Agree(h, g) /\ Live(g) = Live(h)
      /\ g[m].ref_count = h[m].ref_count - 1 /\ Same(h[m], g[m])
      /\ h[m].ref_count - 1 >= Refs(h, L, m) + (E[m] - 1) /\ h[m].ref_count - 1 \in Nat
      /\ Refs(h, L, m) \in Nat /\ E[m] \in Nat
      /\ \A k \in 1 .. Len(h) : k # m => g[k] = h[k]
      /\ m \in Nat \ {Null} /\ m \in Live(h) /\ ~(g[m].ref_count > 0)
  BY Uncounted
<1> HIDE DEF g
<1>2. /\ h \in Heap /\ L \in SUBSET Live(h) /\ E \in [Nat -> Nat] /\ M \in SUBSET L
      /\ M \in SUBSET Live(g)
  BY <1>1 DEF Sound
<1>3. Refs(h, L, m) = 0 /\ E[m] = 1
  BY <1>1
<1>4. \A n \in L : h[n].left # m /\ h[n].right # m
  <2>1. /\ IsFiniteSet(Lefts(h, L, m)) /\ IsFiniteSet(Rights(h, L, m))
        /\ Cardinality(Lefts(h, L, m)) = 0 /\ Cardinality(Rights(h, L, m)) = 0
    <3> DEFINE a == Cardinality(Lefts(h, L, m))
               b == Cardinality(Rights(h, L, m))
    <3>1. a \in Nat /\ b \in Nat /\ IsFiniteSet(Lefts(h, L, m)) /\ IsFiniteSet(Rights(h, L, m))
      BY <1>2, FiniteRefs
    <3>2. a + b = 0
      BY <1>3 DEF Refs
    <3> HIDE DEF a, b
    <3>3. a = 0 /\ b = 0
      BY <3>1, <3>2
    <3>4. QED
      BY <3>1, <3>3 DEF a, b
  <2>2. Lefts(h, L, m) = {} /\ Rights(h, L, m) = {}
    BY <2>1, FS_EmptySet
  <2>3. QED
    BY <2>2 DEF Lefts, Rights
<1>5. /\ h[m].left \in L \cup {Null} /\ h[m].right \in L \cup {Null}
      /\ h[m].left \in Nat /\ h[m].right \in Nat /\ h[m].left # m /\ h[m].right # m
  BY <1>1, <1>2, <1>4, ChildrenCount, LiveFacts
<1>6. \A k \in Nat : RefsOf(h, m, k) \in Nat
  BY <1>5 DEF RefsOf
<1>7. /\ F \in [Nat -> Nat] /\ F[m] = 0
      /\ \A k \in Nat : k # m => F[k] = E[k] + RefsOf(h, m, k)
  <2>1. RefsOf(h, m, m) = 0
    BY <1>5 DEF RefsOf
  <2>2. \A k \in Nat : /\ k # m => (IF k = m THEN E[k] - 1 ELSE E[k]) = E[k]
                       /\ k = m => (IF k = m THEN E[k] - 1 ELSE E[k]) = 0
                       /\ E[k] \in Nat
    BY <1>2, <1>3
  <2>3. \A k \in Nat : (IF k = m THEN E[k] - 1 ELSE E[k]) + RefsOf(h, m, k) \in Nat
    BY <1>6, <2>2
  <2>4. F \in [Nat -> Nat]
    BY <2>3 DEF Handed
  <2>5. \A k \in Nat : F[k] = (IF k = m THEN E[k] - 1 ELSE E[k]) + RefsOf(h, m, k)
    BY DEF Handed
  <2> HIDE DEF F
  <2>6. F[m] = 0
    <3>1. F[m] = (IF m = m THEN E[m] - 1 ELSE E[m]) + RefsOf(h, m, m)
      BY <1>1, <2>5, Zenon
    <3>2. QED
      BY <1>3, <2>1, <3>1
  <2>7. \A k \in Nat : k # m => F[k] = E[k] + RefsOf(h, m, k)
    BY <2>5
  <2>8. QED
    BY <2>4, <2>6, <2>7
<1> HIDE DEF F
<1>8. \A n \in M : /\ n \in 1 .. Len(h) /\ n \in Nat /\ n # m
                   /\ g[n] = h[n] /\ h[n].ref_count \in Nat
  BY <1>1, <1>2, LiveFacts
<1>9. \A n \in M : Formed(g, M, n)
  <2> TAKE n \in M
  <2>1. /\ Formed(h, L, n) /\ h[n].left \in L \cup {Null} /\ h[n].right \in L \cup {Null}
    BY ChildrenCount DEF Sound
  <2>2. h[n].left \in M \cup {Null} /\ h[n].right \in M \cup {Null}
    BY <1>4, <2>1
  <2>3. n \in L \cap M
    OBVIOUS
  <2> HIDE DEF M
  <2>4. QED
    BY <1>1, <1>2, <2>1, <2>2, <2>3, FormStays
<1>10. \A n \in M : g[n].ref_count >= Refs(g, M, n) + F[n]
  <2> TAKE n \in M
  <2>1. Refs(g, M, n) <= Refs(h, M, n) /\ Refs(g, M, n) \in Nat /\ Refs(h, M, n) \in Nat
    <3>1. M \in SUBSET Live(h) /\ M \in SUBSET M
      BY <1>2
    <3>2. \A k \in M : g[k].left = h[k].left /\ g[k].right = h[k].right
      BY <1>8
    <3> HIDE DEF M
    <3>3. QED
      BY <1>1, <1>2, <3>1, <3>2, FewerRefs
  <2>2. h[n].ref_count >= Refs(h, L, n) + E[n] /\ E[n] \in Nat /\ Refs(h, L, n) \in Nat
    BY <1>2, <1>8, FiniteRefs DEF Sound, Counts
  <2>3. Refs(h, L, n) = Refs(h, M, n) + RefsOf(h, m, n)
    BY <1>2, RefsWithout
  <2>4. F[n] = E[n] + RefsOf(h, m, n) /\ RefsOf(h, m, n) \in Nat
    BY <1>6, <1>7, <1>8
  <2>5. g[n].ref_count = h[n].ref_count /\ h[n].ref_count \in Nat
    BY <1>8
  <2>6. QED
    BY <2>1, <2>2, <2>3, <2>4, <2>5
<1>11. \A n \in Nat \ {Null} : F[n] > 0 => n \in M
  <2> TAKE n \in Nat \ {Null}
  <2> HAVE F[n] > 0
  <2>1. n # m /\ F[n] = E[n] + RefsOf(h, m, n) /\ E[n] \in Nat
    BY <1>2, <1>7
  <2>2. CASE E[n] > 0
    BY <2>1, <2>2 DEF Sound
  <2>3. CASE RefsOf(h, m, n) # 0
    <3>1. n = h[m].left \/ n = h[m].right
      BY <2>3 DEF RefsOf
    <3>2. QED
      BY <1>5, <2>1, <3>1
  <2>4. QED
    BY <1>6, <2>1, <2>2, <2>3
<1>12. Sound(g, F, M)
  BY <1>1, <1>2, <1>7, <1>9, <1>10, <1>11 DEF Sound, Counts
<1>13. QED
  BY <1>3, <1>7, <1>12 DEF F, g

\* A node that does not count as one is freed.
LEMMA FreeOutside ==
  ASSUME NEW h, NEW E, NEW L, Sound(h, E, L), NEW m \in Live(h), m \notin L,
         NEW g, g = Free(h, m)
  PROVE  Sound(g, E, L) /\ Len(g) = Len(h) /\ Agree(h, g) /\ Live(g) = Live(h) \ {m}
<1>1. /\ h \in Heap /\ L \in SUBSET Live(h) /\ E \in [Nat -> Nat] /\ m \in 1 .. Len(h)
  BY HeapFacts DEF Sound
<1>2. g = Write(h, m, Freed)
  BY DEF Free, Write
<1>3. /\ g \in Heap /\ Len(g) = Len(h) /\ g[m] = Freed
      /\ \A k \in 1 .. Len(h) : k # m => g[k] = h[k]
  <2> DEFINE x == Freed
  <2>1. x \in Nodes \cup {Freed} /\ (x # Freed => x.left < m /\ x.right < m)
    OBVIOUS
  <2>2. g = Write(h, m, x)
    BY <1>2
  <2> HIDE DEF x
  <2>3. /\ Write(h, m, x) \in Heap /\ Len(Write(h, m, x)) = Len(h) /\ Write(h, m, x)[m] = x
        /\ \A k \in 1 .. Len(h) : k # m => Write(h, m, x)[k] = h[k]
    BY <1>1, <2>1, WriteNode
  <2>4. QED
    BY <2>2, <2>3 DEF x
<1>4. Live(g) = Live(h) \ {m}
  BY <1>3 DEF Live
<1>5. Agree(h, g)
  <2>1. Len(h) \in Nat
    BY <1>1, HeapFacts
  <2>2. QED
    BY <1>3, <2>1 DEF Agree, Same
<1>6. L \in SUBSET Live(g) /\ L \in SUBSET L
  BY <1>1, <1>4
<1>7. \A n \in L : n \in 1 .. Len(h) /\ g[n] = h[n] /\ h[n].ref_count \in Nat /\ E[n] \in Nat
  BY <1>1, <1>3, LiveFacts
<1>8. \A n \in L : Formed(g, L, n)
  <2> TAKE n \in L
  <2>1. /\ Formed(h, L, n) /\ h[n].left \in L \cup {Null} /\ h[n].right \in L \cup {Null}
    BY ChildrenCount DEF Sound
  <2>2. QED
    BY <1>1, <1>3, <1>5, <1>6, <2>1, FormStays
<1>9. \A n \in L : g[n].ref_count >= Refs(g, L, n) + E[n]
  <2> TAKE n \in L
  <2>1. Refs(g, L, n) <= Refs(h, L, n) /\ Refs(g, L, n) \in Nat /\ Refs(h, L, n) \in Nat
    <3>1. \A k \in L : g[k].left = h[k].left /\ g[k].right = h[k].right
      BY <1>7
    <3>2. QED
      BY <1>1, <1>3, <1>6, <3>1, FewerRefs
  <2>2. h[n].ref_count >= Refs(h, L, n) + E[n] /\ g[n].ref_count = h[n].ref_count
        /\ h[n].ref_count \in Nat /\ E[n] \in Nat
    BY <1>7 DEF Sound, Counts
  <2>3. QED
    BY <2>1, <2>2
<1>10. QED
  BY <1>1, <1>3, <1>4, <1>5, <1>6, <1>8, <1>9 DEF Sound, Counts

\* What String_release does for a caller that E[m] counts.
Lets(release, m) ==
  \A g, E, L : Sound(g, E, L) /\ E[m] > 0 => Kept(g, release[m][g], Minus(E, m), L)

LEMMA KeptTrans ==
  ASSUME NEW h \in Heap, NEW L \in SUBSET Live(h),
         NEW g, NEW E, NEW k, NEW F, Kept(h, g, E, L), Kept(g, k, F, L \cap Live(g))
  PROVE  Kept(h, k, F, L)
<1>1. /\ g \in Heap /\ k \in Heap /\ Len(g) = Len(h) /\ Len(k) = Len(g) /\ Agree(h, k)
      /\ Agree(g, k) /\ Len(h) \in Nat
  BY AgreeTrans, HeapFacts DEF Kept, Sound
<1>2. Live(k) \subseteq Live(g)
  BY <1>1 DEF Agree, Live
<1>3. (L \cap Live(g)) \cap Live(k) = L \cap Live(k)
  BY <1>2
<1>4. Live(h) \ L \subseteq Live(k)
  BY DEF Kept
<1>5. QED
  BY <1>1, <1>3, <1>4 DEF Kept

LEMMA ReleaseNode ==
  ASSUME NEW m \in Nat \ {Null}, NEW release, \A k \in 0 .. m - 1 : Lets(release, k),
         NEW h, NEW E, NEW L, Sound(h, E, L), E[m] > 0,
         NEW r, r = ReleaseBody(release, m)[h]
  PROVE  Kept(h, r, Minus(E, m), L)
<1> DEFINE c == Decremented(h, m)
           M == L \ {m}
           F == Handed(h, E, m)
           left == h[m].left
           right == h[m].right
           one == release[left][c]
           two == release[right][one]
<1>1. /\ h \in Heap /\ m \in L /\ L \in SUBSET Live(h) /\ m \in Live(h) /\ E \in [Nat -> Nat]
  BY DEF Sound
<1>2. r = IF c[m].ref_count > 0 THEN c
          ELSE IF h[m].leaf THEN Free(c, m) ELSE Free(two, m)
  <2>1. h \in With(m)
    BY <1>1, HeapFacts DEF With, Usable, Live
  <2>2. QED
    BY <2>1, Zenon DEF ReleaseBody, Decremented
<1>3. /\ c \in Heap /\ Len(c) = Len(h) /\ Agree(h, c) /\ Live(c) = Live(h)
  BY <1>1, Uncounted
<1>4. CASE c[m].ref_count > 0
  BY <1>1, <1>2, <1>4, CountedStays
<1>5. CASE ~(c[m].ref_count > 0)
  <2>1. Sound(c, F, M) /\ F \in [Nat -> Nat] /\ E[m] = 1
    <3>1. m \in L /\ ~(Decremented(h, m)[m].ref_count > 0)
      BY <1>1, <1>5
    <3>2. /\ Sound(Decremented(h, m), Handed(h, E, m), L \ {m})
          /\ Handed(h, E, m) \in [Nat -> Nat] /\ E[m] = 1
      BY <3>1, CountedOut
    <3>3. QED
      BY <3>2
  <2>2. /\ left \in 0 .. m - 1 /\ right \in 0 .. m - 1 /\ left \in Nat /\ right \in Nat
        /\ left # m /\ right # m
    <3>1. left \in 0 .. m - 1 /\ right \in 0 .. m - 1
      BY <1>1, LiveFacts
    <3> HIDE DEF left, right
    <3>2. QED
      BY <3>1
  <2>3. /\ M \in SUBSET Live(c) /\ m \in Live(c) /\ m \notin M
    BY <1>1, <1>3
  <2>4. \A k \in Nat : F[k] = Minus(E, m)[k] + RefsOf(h, m, k)
    BY DEF Handed, Minus
  <2>5. /\ Minus(E, m) \in [Nat -> Nat] /\ \A k \in Nat : Minus(E, m)[k] \in Nat
    BY <1>1, MinusType
  <2> HIDE DEF c, F, M
  <2>6. CASE h[m].leaf
    <3>1. left = Null /\ right = Null
      BY <1>1, <2>6 DEF Sound, Formed
    <3>2. \A k \in Nat \ {Null} : Minus(E, m)[k] <= F[k]
      <4> TAKE k \in Nat \ {Null}
      <4>1. RefsOf(h, m, k) = 0
        BY <3>1 DEF RefsOf
      <4>2. QED
        BY <2>4, <2>5, <4>1
    <3>3. Sound(c, Minus(E, m), M)
      BY <2>1, <2>5, <3>2, SoundLess
    <3>4. r = Free(c, m)
      BY <1>2, <1>5, <2>6
    <3>5. Sound(r, Minus(E, m), M) /\ Len(r) = Len(c) /\ Agree(c, r) /\ Live(r) = Live(c) \ {m}
      BY <2>3, <3>3, <3>4, FreeOutside
    <3>6. L \cap Live(r) = M
      BY <1>1, <1>3, <3>5 DEF M
    <3>7. Agree(h, r)
      BY <1>1, <1>3, <3>5, AgreeTrans DEF Sound
    <3>8. QED
      BY <1>1, <1>3, <3>5, <3>6, <3>7 DEF Kept
  <2>7. CASE ~h[m].leaf
    <3> DEFINE F1 == Minus(F, left)
               F2 == Minus(F1, right)
    <3>1. F[left] > 0 /\ \A k \in Nat : F[k] \in Nat
      <4>1. F[left] = Minus(E, m)[left] + RefsOf(h, m, left) /\ RefsOf(h, m, left) >= 1
        BY <2>2, <2>4 DEF RefsOf
      <4>2. Minus(E, m)[left] \in Nat /\ RefsOf(h, m, left) \in Nat
        BY <2>2, <2>5 DEF RefsOf
      <4>3. QED
        BY <2>1, <4>1, <4>2
    <3>2. Kept(c, one, F1, M)
      BY <2>1, <2>2, <3>1 DEF Lets
    <3>3. F1[right] > 0
      <4>1. F[right] = Minus(E, m)[right] + RefsOf(h, m, right)
        BY <2>2, <2>4
      <4>2. Minus(E, m)[right] \in Nat /\ RefsOf(h, m, right) \in Nat
        BY <2>2, <2>5 DEF RefsOf
      <4>3. F1[right] = IF right = left THEN F[right] - 1 ELSE F[right]
        BY <2>2 DEF Minus
      <4>4. RefsOf(h, m, right) = IF right = left THEN 2 ELSE 1
        BY DEF RefsOf
      <4>5. QED
        BY <4>1, <4>2, <4>3, <4>4
    <3>4. Sound(one, F1, M \cap Live(one))
      BY <3>2 DEF Kept
    <3> HIDE DEF one, F1
    <3>5. Kept(one, two, F2, M \cap Live(one))
      BY <2>2, <3>3, <3>4 DEF Lets
    <3>6. Kept(c, two, F2, M)
      BY <1>3, <2>3, <3>2, <3>5, KeptTrans
    <3>7. Sound(two, F2, M \cap Live(two)) /\ m \in Live(two) /\ Agree(c, two) /\ Len(two) = Len(c)
      BY <2>3, <3>6 DEF Kept
    <3>8. \A k \in Nat \ {Null} : Minus(E, m)[k] <= F2[k]
      <4> TAKE k \in Nat \ {Null}
      <4>1. F1[k] = IF k = left THEN F[k] - 1 ELSE F[k]
        BY DEF F1, Minus
      <4>2. F2[k] = IF k = right THEN F1[k] - 1 ELSE F1[k]
        BY DEF Minus
      <4>3. F[k] = Minus(E, m)[k] + RefsOf(h, m, k) /\ Minus(E, m)[k] \in Nat
        BY <2>4, <2>5
      <4>4. RefsOf(h, m, k) = (IF left = k THEN 1 ELSE 0) + (IF right = k THEN 1 ELSE 0)
        BY DEF RefsOf
      <4>5. QED
        BY <4>1, <4>2, <4>3, <4>4
    <3> HIDE DEF two, F2
    <3>9. Sound(two, Minus(E, m), M \cap Live(two))
      BY <2>5, <3>7, <3>8, SoundLess
    <3>10. r = Free(two, m)
      BY <1>2, <1>5, <2>7
    <3>11. /\ Sound(r, Minus(E, m), M \cap Live(two)) /\ Len(r) = Len(two) /\ Agree(two, r)
           /\ Live(r) = Live(two) \ {m}
      <4>1. m \notin M \cap Live(two)
        BY <2>3
      <4>2. QED
        BY <3>7, <3>9, <3>10, <4>1, FreeOutside
    <3>12. L \cap Live(r) = M \cap Live(two)
      BY <3>11 DEF M
    <3>13. Agree(h, r)
      <4>1. two \in Heap /\ r \in Heap
        BY <3>7, <3>11 DEF Sound
      <4>2. QED
        BY <1>1, <1>3, <3>7, <3>11, <4>1, AgreeTrans
    <3>14. Live(h) \ L \subseteq Live(r)
      <4>1. Live(c) \ M \subseteq Live(two)
        BY <3>6 DEF Kept
      <4>2. QED
        BY <1>1, <1>3, <3>11, <4>1 DEF M
    <3>15. QED
      BY <1>3, <3>7, <3>11, <3>12, <3>13, <3>14 DEF Kept
  <2>8. QED
    BY <2>6, <2>7
<1>6. QED
  BY <1>4, <1>5

\* String_release takes one reference from outside away.
LEMMA ReleaseKeeps ==
  ASSUME NEW h, NEW E, NEW L, Sound(h, E, L), NEW n \in Nat, E[n] > 0
  PROVE  Kept(h, String_release(h, n), Minus(E, n), L)
<1>1. PICK f : /\ f = [m \in 0 .. n |-> ReleaseBody(f, m)]
               /\ \A g : String_release(g, n) = f[n][g]
  BY ReleaseSteps
<1> DEFINE S == {m \in 0 .. n : Lets(f, m)}
<1>2. ASSUME NEW m \in 0 .. n, \A k \in 0 .. m - 1 : k \in S
      PROVE  m \in S
  <2>1. \A k \in 0 .. m - 1 : Lets(f, k)
    BY <1>2
  <2>2. f[m] = ReleaseBody(f, m)
    BY <1>1
  <2>3. ASSUME NEW g, NEW D, NEW M, Sound(g, D, M), D[m] > 0
        PROVE  Kept(g, f[m][g], Minus(D, m), M)
    <3>1. CASE m = Null
      <4>1. g \in Heap /\ D \in [Nat -> Nat] /\ M \subseteq Live(g)
        BY <2>3 DEF Sound
      <4>2. f[m][g] = g
        BY <2>2, <3>1, <4>1, Zenon DEF ReleaseBody, With, Usable
      <4>3. /\ Minus(D, m) \in [Nat -> Nat] /\ \A k \in Nat : Minus(D, m)[k] <= D[k]
        BY <2>3, <4>1, MinusType
      <4>4. Sound(g, Minus(D, m), M)
        BY <2>3, <4>3, SoundLess
      <4>5. M \cap Live(g) = M
        BY <4>1
      <4>6. QED
        BY <4>1, <4>2, <4>4, <4>5, AgreeSelf DEF Kept
    <3>2. CASE m # Null
      BY <2>1, <2>2, <2>3, <3>2, ReleaseNode
    <3>3. QED
      BY <3>1, <3>2
  <2>4. Lets(f, m)
    BY <2>3 DEF Lets
  <2>5. QED
    BY <2>4
<1>3. n \in S
  <2>1. \A m \in 0 .. n : (\A k \in 0 .. m - 1 : k \in S) => m \in S
    BY <1>2
  <2> HIDE DEF S
  <2>2. QED
    BY <2>1, FromBelow
<1>4. Lets(f, n)
  BY <1>3
<1>5. QED
  BY <1>1, <1>4 DEF Lets

-----------------------------------------------------------------------------
(* The functions that make and count nodes.                                  *)

\* A heap between two operations: all that is allocated counts.
Held(h, E) == Sound(h, E, Live(h))

LEMMA HeldFacts ==
  ASSUME NEW h, NEW E, Held(h, E)
  PROVE  /\ h \in Heap /\ E \in [Nat -> Nat] /\ Len(h) \in Nat
         /\ \A n \in Nat \ {Null} : E[n] > 0 => n \in Live(h)
         /\ \A n \in Live(h) : /\ Formed(h, Live(h), n)
                               /\ h[n].left \in Live(h) \cup {Null}
                               /\ h[n].right \in Live(h) \cup {Null}
                               /\ h[n].ref_count >= Refs(h, Live(h), n) + E[n]
                               /\ E[n] \in Nat /\ Refs(h, Live(h), n) \in Nat
<1>1. /\ h \in Heap /\ E \in [Nat -> Nat] /\ Live(h) \in SUBSET Live(h)
      /\ \A n \in Nat \ {Null} : E[n] > 0 => n \in Live(h)
      /\ \A n \in Live(h) : /\ Formed(h, Live(h), n)
                            /\ h[n].ref_count >= Refs(h, Live(h), n) + E[n]
  BY DEF Held, Sound, Counts
<1>2. Len(h) \in Nat
  BY <1>1, HeapFacts
<1>3. \A n \in Live(h) : h[n].left \in Live(h) \cup {Null} /\ h[n].right \in Live(h) \cup {Null}
  BY ChildrenCount DEF Held
<1>4. \A n \in Live(h) : E[n] \in Nat /\ Refs(h, Live(h), n) \in Nat
  BY <1>1, LiveFacts, FiniteRefs
<1>5. QED
  BY <1>1, <1>2, <1>3, <1>4

LEMMA HeldLess ==
  ASSUME NEW h, NEW E, Held(h, E), NEW F \in [Nat -> Nat],
         \A k \in Nat \ {Null} : F[k] <= E[k]
  PROVE  Held(h, F)
BY SoundLess DEF Held

LEMMA PlusType ==
  ASSUME NEW E \in [Nat -> Nat], NEW n \in Nat
  PROVE  /\ Plus(E, n) \in [Nat -> Nat] /\ Plus(E, n)[n] = E[n] + 1 /\ Plus(E, n)[n] > 0
         /\ \A k \in Nat : Plus(E, n)[k] >= E[k] /\ Plus(E, n)[k] \in Nat /\ E[k] \in Nat
         /\ \A k \in Nat : k # n => Plus(E, n)[k] = E[k]
<1>1. \A k \in Nat : E[k] \in Nat
  OBVIOUS
<1>2. \A k \in Nat : (IF k = n THEN E[k] + 1 ELSE E[k]) \in Nat
  BY <1>1
<1>3. QED
  BY <1>1, <1>2 DEF Plus

\* String_release of a node that E counts.
LEMMA Released ==
  ASSUME NEW h, NEW E, Held(h, E), NEW n \in Nat, E[n] > 0
  PROVE  /\ Held(String_release(h, n), Minus(E, n))
         /\ Agree(h, String_release(h, n)) /\ Len(String_release(h, n)) = Len(h)
<1> DEFINE r == String_release(h, n)
<1>1. Kept(h, r, Minus(E, n), Live(h))
  BY ReleaseKeeps DEF Held
<1> HIDE DEF r
<1>2. Live(r) \subseteq Live(h)
  BY <1>1 DEF Kept, Agree, Live
<1>3. Live(h) \cap Live(r) = Live(r)
  BY <1>2
<1>4. QED
  BY <1>1, <1>3 DEF Kept, Held, r

\* Nobody's node is not freed.
LEMMA ReleasedWraps ==
  ASSUME NEW h, NEW E, Held(h, E), NEW n \in Live(h), h[n].ref_count = 0
  PROVE  /\ Held(String_release(h, n), E)
         /\ Agree(h, String_release(h, n)) /\ Len(String_release(h, n)) = Len(h)
<1> DEFINE c == Count(h, n, Wrap - 1)
<1>1. h \in Heap /\ n \in Nat /\ n # Null /\ n \in 1 .. Len(h) /\ h[n] # Freed /\ E \in [Nat -> Nat]
  BY HeldFacts, LiveFacts
<1>2. Wrap - 1 \in Nat /\ Wrap - 1 > 0
  BY Sizes
<1>3. /\ c \in Heap /\ Len(c) = Len(h) /\ Agree(h, c) /\ Live(c) = Live(h)
      /\ c[n].ref_count = Wrap - 1 /\ Same(h[n], c[n])
      /\ \A m \in 1 .. Len(h) : m # n => c[m] = h[m]
  <2> DEFINE w == Wrap - 1
  <2>1. w \in Nat
    BY <1>2
  <2> HIDE DEF w
  <2>2. /\ Count(h, n, w) \in Heap /\ Len(Count(h, n, w)) = Len(h)
        /\ Agree(h, Count(h, n, w)) /\ Live(Count(h, n, w)) = Live(h)
        /\ Count(h, n, w)[n].ref_count = w /\ Same(h[n], Count(h, n, w)[n])
        /\ \A m \in 1 .. Len(h) : m # n => Count(h, n, w)[m] = h[m]
    BY <1>1, <2>1, WriteCount
  <2>3. QED
    BY <2>2 DEF w
<1>4. String_release(h, n) = c
  <2>1. PICK f : /\ f = [m \in 0 .. n |-> ReleaseBody(f, m)]
                 /\ \A g : String_release(g, n) = f[n][g]
    BY <1>1, ReleaseSteps
  <2>2. h \in With(n)
    BY <1>1, HeapFacts DEF With, Usable
  <2>3. f[n] = ReleaseBody(f, n)
    <3>1. n \in 0 .. n
      BY <1>1
    <3>2. QED
      BY <2>1, <3>1, Zenon
  <2>4. Decremented(h, n) = c
    BY Zenon DEF Decremented, Count
  <2>5. ReleaseBody(f, n)[h]
          = IF Decremented(h, n)[n].ref_count > 0 THEN Decremented(h, n)
            ELSE IF h[n].leaf THEN Free(Decremented(h, n), n)
            ELSE Free(f[h[n].right][f[h[n].left][Decremented(h, n)]], n)
    BY <1>1, <2>2, Zenon DEF ReleaseBody, Decremented
  <2>6. c[n].ref_count > 0
    BY <1>2, <1>3
  <2> HIDE DEF c
  <2>7. QED
    BY <2>1, <2>3, <2>4, <2>5, <2>6
<1> HIDE DEF c
<1>5. \A m \in Live(h) : /\ m \in 1 .. Len(h) /\ c[m].left = h[m].left /\ c[m].right = h[m].right
                         /\ m \in Nat /\ h[m].ref_count \in Nat
  BY <1>1, <1>3, LiveFacts DEF Same
<1>6. \A m \in Live(h) : Formed(c, Live(h), m)
  <2> TAKE m \in Live(h)
  <2>1. /\ Formed(h, Live(h), m) /\ h[m].left \in Live(h) \cup {Null}
        /\ h[m].right \in Live(h) \cup {Null}
    BY HeldFacts
  <2>2. QED
    BY <1>1, <1>3, <2>1, FormStays
<1>7. \A m \in Live(h) : c[m].ref_count >= Refs(c, Live(h), m) + E[m]
  <2> TAKE m \in Live(h)
  <2>1. Refs(c, Live(h), m) <= Refs(h, Live(h), m) /\ Refs(c, Live(h), m) \in Nat
    BY <1>1, <1>3, <1>5, FewerRefs
  <2>2. /\ h[m].ref_count >= Refs(h, Live(h), m) + E[m] /\ E[m] \in Nat
        /\ Refs(h, Live(h), m) \in Nat
    BY HeldFacts
  <2>3. c[m].ref_count >= h[m].ref_count /\ h[m].ref_count \in Nat /\ c[m].ref_count \in Nat
    <3>1. CASE m = n
      BY <1>2, <1>3, <1>5, <3>1
    <3>2. CASE m # n
      <4>1. c[m].ref_count = h[m].ref_count
        BY <1>3, <1>5, <3>2
      <4>2. QED
        BY <1>5, <4>1
    <3>3. QED
      BY <3>1, <3>2
  <2>4. QED
    BY <2>1, <2>2, <2>3
<1>8. Held(c, E)
  BY <1>1, <1>3, <1>6, <1>7, HeldFacts DEF Held, Sound, Counts
<1>9. QED
  BY <1>3, <1>4, <1>8

\* String_retain.
LEMMA Retained ==
  ASSUME NEW h, NEW E, Held(h, E), NEW n \in Live(h) \cup {Null}
  PROVE  /\ Held(String_retain(h, n), Plus(E, n))
         /\ Agree(h, String_retain(h, n)) /\ Len(String_retain(h, n)) = Len(h)
         /\ Live(String_retain(h, n)) = Live(h)
<1>1. h \in Heap /\ E \in [Nat -> Nat] /\ n \in Nat
  <2>1. h \in Heap /\ E \in [Nat -> Nat]
    BY HeldFacts
  <2>2. n \in Live(h) => n \in Nat
    BY <2>1, LiveFacts
  <2>3. QED
    BY <2>1, <2>2 DEF Null
<1>2. /\ Plus(E, n) \in [Nat -> Nat] /\ Plus(E, n)[n] = E[n] + 1
      /\ \A k \in Nat : k # n => Plus(E, n)[k] = E[k]
  BY <1>1, PlusType
<1>3. CASE n = Null
  <2>1. String_retain(h, n) = h
    BY <1>3 DEF String_retain
  <2>2. \A k \in Nat \ {Null} : Plus(E, n)[k] <= E[k]
    <3> TAKE k \in Nat \ {Null}
    <3>1. Plus(E, n)[k] = E[k] /\ E[k] \in Nat
      BY <1>1, <1>2, <1>3
    <3>2. QED
      BY <3>1
  <2>3. QED
    BY <1>1, <1>2, <2>1, <2>2, HeldLess, AgreeSelf
<1>4. CASE n # Null
  <2> DEFINE c == Count(h, n, h[n].ref_count + 1)
  <2>1. n \in Live(h) /\ h[n].ref_count \in Nat /\ h[n].ref_count + 1 \in Nat
    <3>1. n \in Live(h)
      BY <1>4
    <3>2. h[n].ref_count \in Nat
      BY <1>1, <3>1, LiveFacts
    <3>3. QED
      BY <3>1, <3>2
  <2>2. String_retain(h, n) = c
    BY <1>4, Zenon DEF String_retain, Count
  <2>3. /\ c \in Heap /\ Len(c) = Len(h) /\ Agree(h, c) /\ Live(c) = Live(h)
        /\ c[n].ref_count = h[n].ref_count + 1 /\ Same(h[n], c[n])
        /\ \A m \in 1 .. Len(h) : m # n => c[m] = h[m]
    <3> DEFINE k == h[n].ref_count + 1
    <3>1. k \in Nat /\ c = Count(h, n, k)
      BY <2>1
    <3> HIDE DEF k, c
    <3>2. /\ Count(h, n, k) \in Heap /\ Len(Count(h, n, k)) = Len(h)
          /\ Agree(h, Count(h, n, k)) /\ Live(Count(h, n, k)) = Live(h)
          /\ Count(h, n, k)[n].ref_count = k /\ Same(h[n], Count(h, n, k)[n])
          /\ \A m \in 1 .. Len(h) : m # n => Count(h, n, k)[m] = h[m]
      BY ONLY <1>1, <2>1, <3>1, WriteCount, Zenon
    <3>3. QED
      BY <3>1, <3>2 DEF k
  <2> HIDE DEF c
  <2>4. \A m \in Live(h) : /\ m \in 1 .. Len(h) /\ c[m].left = h[m].left /\ c[m].right = h[m].right
                           /\ m \in Nat /\ h[m].ref_count \in Nat
    BY <1>1, <2>3, LiveFacts DEF Same
  <2>5. \A m \in Live(h) : Formed(c, Live(h), m)
    <3> TAKE m \in Live(h)
    <3>1. /\ Formed(h, Live(h), m) /\ h[m].left \in Live(h) \cup {Null}
          /\ h[m].right \in Live(h) \cup {Null}
      BY HeldFacts
    <3>2. QED
      BY <1>1, <2>3, <3>1, FormStays
  <2>6. \A m \in Live(h) : c[m].ref_count >= Refs(c, Live(h), m) + Plus(E, n)[m]
    <3> TAKE m \in Live(h)
    <3>1. Refs(c, Live(h), m) <= Refs(h, Live(h), m) /\ Refs(c, Live(h), m) \in Nat
      BY <1>1, <2>3, <2>4, FewerRefs
    <3>2. /\ h[m].ref_count >= Refs(h, Live(h), m) + E[m] /\ E[m] \in Nat
          /\ Refs(h, Live(h), m) \in Nat
      BY HeldFacts
    <3>3. CASE m = n
      <4>1. c[m].ref_count = h[m].ref_count + 1 /\ Plus(E, n)[m] = E[m] + 1
        BY <1>2, <2>3, <3>3
      <4>2. QED
        BY <2>4, <3>1, <3>2, <4>1
    <3>4. CASE m # n
      <4>1. c[m].ref_count = h[m].ref_count /\ Plus(E, n)[m] = E[m]
        BY <1>2, <2>3, <2>4, <3>4
      <4>2. QED
        BY <2>4, <3>1, <3>2, <4>1
    <3>5. QED
      BY <3>3, <3>4
  <2>7. \A m \in Nat \ {Null} : Plus(E, n)[m] > 0 => m \in Live(h)
    <3> TAKE m \in Nat \ {Null}
    <3>1. m # n => Plus(E, n)[m] = E[m]
      BY <1>2
    <3>2. QED
      BY <2>1, <3>1, HeldFacts
  <2>8. Held(c, Plus(E, n))
    BY <1>2, <2>3, <2>5, <2>6, <2>7 DEF Held, Sound, Counts
  <2>9. QED
    BY <2>2, <2>3, <2>8
<1>5. QED
  BY <1>3, <1>4


\* A node that may be made in a heap.
WellMade(h, x) ==
  IF x.leaf
  THEN /\ x.left = Null /\ x.right = Null
       /\ Len(x.str) \in 1 .. MAX_SIZE_LEAF
       /\ x.len = Len(x.str) /\ x.weight = x.len
  ELSE /\ x.str = <<>>
       /\ \/ x.left = Null /\ x.right = Null /\ x.len = 0 /\ x.weight = 0
          \/ /\ x.left \in Live(h) /\ x.right \in Live(h)
             /\ h[x.left].len > 0 /\ h[x.right].len > 0
             /\ x.weight = h[x.left].len
             /\ x.len = x.weight + h[x.right].len

LEMMA OneMore ==
  ASSUME NEW n \in Nat
  PROVE  n + 1 \in Nat \ {Null} /\ 1 .. n + 1 = (1 .. n) \cup {n + 1} /\ n + 1 \notin 1 .. n
BY DEF Null

LEMMA Room ==
  ASSUME NEW c \in Nat, NEW r \in Nat, NEW e \in Nat, NEW a \in Nat, NEW f \in Nat, NEW s \in Nat,
         c >= r + e, f + a <= e, s <= r
  PROVE  c >= (s + a) + f
OBVIOUS

\* The references F after node x is made: what it refers to was counted in E, and
\* its own count covers those to it.
Paid(h, E, x, F) ==
  /\ F \in [Nat -> Nat] /\ F[Len(h) + 1] <= x.ref_count
  /\ \A k \in Live(h) :
       F[k] + ((IF x.left = k THEN 1 ELSE 0) + (IF x.right = k THEN 1 ELSE 0)) <= E[k]
  /\ \A k \in Nat \ {Null} : F[k] > 0 => k \in Live(h) \cup {Len(h) + 1}

\* A node is made: what it refers to was counted, and its own count starts.
LEMMA Made ==
  ASSUME NEW h, NEW E, Held(h, E), NEW x \in Nodes, WellMade(h, x), NEW F, Paid(h, E, x, F)
  PROVE  /\ Held(Append(h, x), F) /\ Agree(h, Append(h, x))
         /\ Live(Append(h, x)) = Live(h) \cup {Len(h) + 1}
         /\ Append(h, x)[Len(h) + 1] = x /\ Len(h) + 1 \in Nat \ {Null}
         /\ Len(h) + 1 \notin Live(h)
<1> DEFINE g == Append(h, x)
           at == Len(h) + 1
           M == Live(h)
           N == Live(g)
<1>0. /\ F \in [Nat -> Nat] /\ F[Len(h) + 1] <= x.ref_count
      /\ \A k \in Live(h) :
           F[k] + ((IF x.left = k THEN 1 ELSE 0) + (IF x.right = k THEN 1 ELSE 0)) <= E[k]
      /\ \A k \in Nat \ {Null} : F[k] > 0 => k \in Live(h) \cup {Len(h) + 1}
  BY DEF Paid
<1>1. h \in Heap /\ E \in [Nat -> Nat] /\ Len(h) \in Nat /\ at \in Nat \ {Null}
  <2>1. h \in Heap /\ E \in [Nat -> Nat] /\ Len(h) \in Nat
    BY HeldFacts
  <2>2. Len(h) + 1 \in Nat \ {Null}
    BY <2>1, OneMore
  <2>3. QED
    BY <2>1, <2>2
<1>2. x.left \in M \cup {Null} /\ x.right \in M \cup {Null}
  BY DEF WellMade
<1>3. \A k \in M : k \in 1 .. Len(h) /\ k \in Nat /\ k # at /\ k # Null
  BY <1>1, LiveFacts
<1>4. x.left \in 0 .. Len(h) /\ x.right \in 0 .. Len(h) /\ x.left # at /\ x.right # at
  <2>1. \A k \in M \cup {Null} : k \in 0 .. Len(h) /\ k # at
    <3> HIDE DEF M
    <3>1. Null \in 0 .. Len(h) /\ Null # at
      BY <1>1 DEF Null
    <3>2. \A k \in M : k \in 0 .. Len(h) /\ k # at
      BY <1>1, <1>3
    <3>3. QED
      BY <3>1, <3>2
  <2>2. QED
    BY <1>2, <2>1
<1>5. g \in Heap /\ Len(g) = Len(h) + 1 /\ g[at] = x /\ \A m \in 1 .. Len(h) : g[m] = h[m]
  BY <1>1, <1>4, NewNode
<1> HIDE DEF g
<1>6. x # Freed
  BY FreedIsNoNode
<1>7. N = M \cup {at}
  <2>1. 1 .. Len(g) = (1 .. Len(h)) \cup {at} /\ at \notin 1 .. Len(h)
    <3>1. 1 .. Len(h) + 1 = (1 .. Len(h)) \cup {Len(h) + 1} /\ Len(h) + 1 \notin 1 .. Len(h)
      BY <1>1, OneMore
    <3>2. QED
      BY <1>5, <3>1
  <2>2. g[at] # Freed /\ \A m \in 1 .. Len(h) : g[m] = h[m]
    BY <1>5, <1>6
  <2> HIDE DEF at
  <2>3. QED
    BY <2>1, <2>2 DEF Live
<1>8. Agree(h, g)
  <2>1. \A m \in 1 .. Len(h) : g[m] # Freed => h[m] # Freed /\ Same(h[m], g[m])
    BY <1>5 DEF Same
  <2>2. QED
    BY <1>1, <1>5, <2>1 DEF Agree
<1> HIDE DEF at
<1>9. M \in SUBSET N /\ N \ {at} = M /\ at \in N /\ M \in SUBSET Live(h) /\ M \in SUBSET M
  BY <1>3, <1>7
<1>10. \A n \in M : g[n] = h[n]
  BY <1>3, <1>5
<1> HIDE DEF M, N
<1>11. \A n \in M : Formed(g, N, n)
  <2> TAKE n \in M
  <2>1. /\ Formed(h, M, n) /\ h[n].left \in M \cup {Null} /\ h[n].right \in M \cup {Null}
    BY HeldFacts DEF M
  <2>2. h[n].left \in N \cup {Null} /\ h[n].right \in N \cup {Null} /\ n \in M \cap N
    BY <1>9, <2>1
  <2>3. N \in SUBSET Live(g)
    BY DEF N
  <2>4. QED
    BY <1>1, <1>5, <1>8, <1>9, <2>1, <2>2, <2>3, FormStays
<1>12. Formed(g, N, at)
  <2>1. \A k \in M : k \in N /\ g[k].len = h[k].len
    BY <1>9, <1>10
  <2>2. WellMade(h, x) /\ M = Live(h)
    BY DEF M
  <2>3. QED
    BY <1>5, <2>1, <2>2 DEF Formed, WellMade
<1>13. \A n : Refs(g, N, n) = Refs(g, M, n) + RefsOf(g, at, n)
  BY <1>5, <1>9, RefsWithout DEF N
<1>14. \A n : Refs(g, M, n) <= Refs(h, M, n) /\ Refs(g, M, n) \in Nat /\ Refs(h, M, n) \in Nat
  <2>1. \A m \in M : g[m].left = h[m].left /\ g[m].right = h[m].right
    BY <1>10
  <2>2. QED
    BY <1>1, <1>5, <1>9, <2>1, FewerRefs
<1>15. \A n : RefsOf(g, at, n) = (IF x.left = n THEN 1 ELSE 0) + (IF x.right = n THEN 1 ELSE 0)
  BY <1>5 DEF RefsOf
<1>16. \A n \in M : g[n].ref_count >= Refs(g, N, n) + F[n]
  <2> TAKE n \in M
  <2> DEFINE a == (IF x.left = n THEN 1 ELSE 0) + (IF x.right = n THEN 1 ELSE 0)
  <2>1. /\ h[n].ref_count >= Refs(h, M, n) + E[n] /\ E[n] \in Nat /\ h[n].ref_count \in Nat
    BY <1>1, HeldFacts, LiveFacts DEF M
  <2>2. F[n] + a <= E[n] /\ F[n] \in Nat /\ a \in Nat
    <3>1. n \in Live(h) /\ n \in Nat
      BY <1>3 DEF M
    <3>2. F[n] + a <= E[n]
      BY <1>0, <3>1
    <3>3. F[n] \in Nat
      BY ONLY <1>0, <3>1
    <3>4. a \in Nat
      OBVIOUS
    <3> HIDE DEF a
    <3>5. QED
      BY ONLY <3>2, <3>3, <3>4
  <2>3. Refs(g, N, n) = Refs(g, M, n) + a
    BY <1>13, <1>15
  <2>4. g[n].ref_count = h[n].ref_count
    BY <1>10
  <2>5. Refs(g, M, n) <= Refs(h, M, n) /\ Refs(g, M, n) \in Nat /\ Refs(h, M, n) \in Nat
    BY <1>14
  <2> HIDE DEF a
  <2>6. QED
    BY <2>1, <2>2, <2>3, <2>4, <2>5, Room
<1>17. g[at].ref_count >= Refs(g, N, at) + F[at]
  <2>1. Refs(g, M, at) = 0
    <3>1. Lefts(g, M, at) = {} /\ Rights(g, M, at) = {}
      <4>1. \A n \in M : g[n].left # at /\ g[n].right # at
        <5> TAKE n \in M
        <5>1. h[n].left \in M \cup {Null} /\ h[n].right \in M \cup {Null}
          BY HeldFacts DEF M
        <5>2. \A k \in M \cup {Null} : k # at
          BY <1>1, <1>3 DEF M
        <5>3. QED
          BY <1>10, <5>1, <5>2
      <4>2. QED
        BY <4>1 DEF Lefts, Rights
    <3>2. QED
      BY <3>1, FS_EmptySet DEF Refs
  <2>2. RefsOf(g, at, at) = 0
    <3>1. x.left # at /\ x.right # at
      BY <1>4 DEF at
    <3>2. QED
      BY <1>15, <3>1
  <2>3. Refs(g, N, at) = 0
    BY <1>13, <2>1, <2>2
  <2>4. F[at] <= x.ref_count /\ F[at] \in Nat /\ x.ref_count \in Nat
    BY <1>0, <1>1 DEF at, Nodes
  <2>5. QED
    BY <1>5, <2>3, <2>4
<1>18. \A n \in N : Formed(g, N, n) /\ g[n].ref_count >= Refs(g, N, n) + F[n]
  BY <1>7, <1>11, <1>12, <1>16, <1>17 DEF M, N
<1>19. \A k \in Nat \ {Null} : F[k] > 0 => k \in N
  BY <1>0, <1>7 DEF M, N, at
<1>20. Held(g, F)
  BY <1>0, <1>5, <1>18, <1>19 DEF Held, Sound, Counts, N
<1>21. QED
  BY <1>1, <1>3, <1>5, <1>7, <1>8, <1>20 DEF g, at, M, N

\* What a function gives that makes node r.at: one reference to it, the caller's.
Given(h, E, r) ==
  /\ Held(r.heap, Plus(E, r.at)) /\ Agree(h, r.heap)
  /\ r.at = Len(h) + 1 /\ r.at \in Live(r.heap) /\ Live(h) \subseteq Live(r.heap)

\* Nobody refers to an address that there is not.
LEMMA NewIsFree ==
  ASSUME NEW h, NEW E, Held(h, E)
  PROVE  /\ Len(h) + 1 \in Nat \ {Null} /\ Len(h) + 1 \notin Live(h) /\ E[Len(h) + 1] = 0
         /\ Plus(E, Len(h) + 1) \in [Nat -> Nat] /\ Plus(E, Len(h) + 1)[Len(h) + 1] = 1
         /\ \A k \in Live(h) : k \in Nat /\ Plus(E, Len(h) + 1)[k] = E[k]
         /\ \A k \in Nat \ {Null} :
              Plus(E, Len(h) + 1)[k] > 0 => k \in Live(h) \cup {Len(h) + 1}
<1> DEFINE at == Len(h) + 1
<1>1. h \in Heap /\ E \in [Nat -> Nat] /\ Len(h) \in Nat
      /\ \A n \in Nat \ {Null} : E[n] > 0 => n \in Live(h)
  BY HeldFacts
<1>2. at \in Nat \ {Null} /\ at \notin 1 .. Len(h)
  BY <1>1, OneMore
<1>3. \A k \in Live(h) : k \in Nat /\ k \in 1 .. Len(h)
  BY <1>1, LiveFacts
<1> HIDE DEF at
<1>4. at \notin Live(h)
  BY <1>2, <1>3
<1>5. E[at] = 0
  <2>1. E[at] \in Nat /\ ~(E[at] > 0)
    BY <1>1, <1>2, <1>4
  <2>2. QED
    BY <2>1
<1>6. /\ Plus(E, at) \in [Nat -> Nat] /\ Plus(E, at)[at] = E[at] + 1
      /\ \A k \in Nat : k # at => Plus(E, at)[k] = E[k]
  BY <1>1, <1>2, PlusType
<1>7. /\ at \in Nat \ {Null} /\ at \notin Live(h) /\ E[at] = 0
      /\ Plus(E, at) \in [Nat -> Nat] /\ Plus(E, at)[at] = 1
      /\ \A k \in Live(h) : k \in Nat /\ Plus(E, at)[k] = E[k]
      /\ \A k \in Nat \ {Null} : Plus(E, at)[k] > 0 => k \in Live(h) \cup {at}
  <2>1. \A k \in Live(h) : k \in Nat /\ Plus(E, at)[k] = E[k]
    BY <1>3, <1>4, <1>6
  <2>2. ASSUME NEW k \in Nat \ {Null}, Plus(E, at)[k] > 0 PROVE k \in Live(h) \cup {at}
    BY <1>1, <1>6, <2>2
  <2>3. QED
    BY <1>2, <1>4, <1>5, <1>6, <2>1, <2>2
<1>8. QED
  BY <1>7, Zenon DEF at

\* String_make_leaf.
LEMMA LeafMade ==
  ASSUME NEW h, NEW E, Held(h, E), NEW s \in Seq(Char), Len(s) \in 1 .. MAX_SIZE_LEAF
  PROVE  /\ Given(h, E, String_make_leaf(h, s))
         /\ String_make_leaf(h, s).heap[Len(h) + 1].leaf
         /\ String_make_leaf(h, s).heap[Len(h) + 1].str = s
         /\ String_make_leaf(h, s).heap[Len(h) + 1].len = Len(s)
<1> DEFINE x == Node(TRUE, Len(s), Len(s), Null, Null, s, 1)
           at == Len(h) + 1
           F == Plus(E, at)
           g == Append(h, x)
<1>1. /\ x \in Nodes /\ x.leaf = TRUE /\ x.len = Len(s) /\ x.weight = Len(s) /\ x.left = Null
      /\ x.right = Null /\ x.str = s /\ x.ref_count = 1
  BY DEF Node, Nodes, Null
<1>2. String_make_leaf(h, s) = [heap |-> g, at |-> at]
  BY DEF String_make_leaf, Alloc
<1>3. /\ E \in [Nat -> Nat] /\ Null \notin Live(h)
  BY HeldFacts, LiveFacts
<1>4. /\ at \in Nat \ {Null} /\ at \notin Live(h) /\ E[at] = 0
      /\ F \in [Nat -> Nat] /\ F[at] = 1
      /\ \A k \in Live(h) : k \in Nat /\ F[k] = E[k]
      /\ \A k \in Nat \ {Null} : F[k] > 0 => k \in Live(h) \cup {at}
  BY NewIsFree
<1> HIDE DEF x, F
<1>5. WellMade(h, x)
  BY <1>1 DEF WellMade
<1>6. F[at] <= x.ref_count
  BY <1>1, <1>4
<1>7. \A k \in Live(h) :
        F[k] + ((IF x.left = k THEN 1 ELSE 0) + (IF x.right = k THEN 1 ELSE 0)) <= E[k]
  <2> TAKE k \in Live(h)
  <2>1. F[k] = E[k] /\ E[k] \in Nat /\ x.left # k /\ x.right # k
    BY <1>1, <1>3, <1>4
  <2>2. QED
    BY <2>1
<1>8. /\ Held(g, F) /\ Agree(h, g) /\ Live(g) = Live(h) \cup {at} /\ g[at] = x
  <2>1. Paid(h, E, x, F)
    BY <1>4, <1>6, <1>7, Zenon DEF Paid
  <2>2. QED
    BY <1>1, <1>5, <2>1, Made
<1> HIDE DEF g, at
<1>9. Given(h, E, [heap |-> g, at |-> at])
  BY <1>8 DEF Given, F, at
<1>10. QED
  BY <1>1, <1>2, <1>8, <1>9 DEF at

\* String_new.
LEMMA EmptyMade ==
  ASSUME NEW h, NEW E, Held(h, E)
  PROVE  LET r == String_new(h)
         IN  /\ Held(r.heap, E) /\ Agree(h, r.heap) /\ Live(h) \subseteq Live(r.heap)
             /\ r.at = Len(h) + 1 /\ r.at \in Live(r.heap)
             /\ r.heap[r.at].len = 0 /\ ~r.heap[r.at].leaf
             /\ r.heap[r.at].left = Null /\ r.heap[r.at].right = Null
<1> DEFINE x == Node(FALSE, 0, 0, Null, Null, <<>>, 0)
           at == Len(h) + 1
           g == Append(h, x)
<1>1. /\ x \in Nodes /\ x.leaf = FALSE /\ x.len = 0 /\ x.weight = 0 /\ x.left = Null
      /\ x.right = Null /\ x.str = <<>> /\ x.ref_count = 0
  BY DEF Node, Nodes, Null
<1>2. String_new(h) = [heap |-> g, at |-> at]
  BY DEF String_new, Alloc
<1>3. /\ E \in [Nat -> Nat] /\ Null \notin Live(h)
      /\ \A n \in Nat \ {Null} : E[n] > 0 => n \in Live(h)
  BY HeldFacts, LiveFacts
<1>4. /\ at \in Nat \ {Null} /\ at \notin Live(h) /\ E[at] = 0
      /\ \A k \in Live(h) : k \in Nat
  BY NewIsFree
<1> HIDE DEF x
<1>5. WellMade(h, x)
  BY <1>1 DEF WellMade
<1>6. E[at] <= x.ref_count
  BY <1>1, <1>4
<1>7. \A k \in Live(h) :
        E[k] + ((IF x.left = k THEN 1 ELSE 0) + (IF x.right = k THEN 1 ELSE 0)) <= E[k]
  <2> TAKE k \in Live(h)
  <2>1. E[k] \in Nat /\ x.left # k /\ x.right # k
    BY <1>1, <1>3, <1>4
  <2>2. QED
    BY <2>1
<1>8. /\ Held(g, E) /\ Agree(h, g) /\ Live(g) = Live(h) \cup {at} /\ g[at] = x
  <2>1. Paid(h, E, x, E)
    BY <1>3, <1>6, <1>7 DEF Paid
  <2>2. QED
    BY <1>1, <1>5, <2>1, Made
<1> HIDE DEF g, at
<1>9. QED
  BY <1>1, <1>2, <1>8 DEF at

\* String_concat of two that are not empty.
LEMMA Joined ==
  ASSUME NEW h, NEW E, Held(h, E), NEW left \in Live(h), NEW right \in Live(h),
         h[left].len > 0, h[right].len > 0
  PROVE  LET r == String_concat(h, left, right)
         IN  /\ Given(h, E, r) /\ ~r.heap[r.at].leaf
             /\ r.heap[r.at].left = left /\ r.heap[r.at].right = right
             /\ r.heap[r.at].len = h[left].len + h[right].len
<1> DEFINE one == String_retain(h, left)
           two == String_retain(one, right)
           x == Node(FALSE, h[left].len + h[right].len, h[left].len, left, right, <<>>, 1)
           at == Len(h) + 1
           F == Plus(E, at)
           D == Plus(Plus(E, left), right)
           g == Append(two, x)
<1>1. /\ h \in Heap /\ E \in [Nat -> Nat] /\ left \in Nat \ {Null} /\ right \in Nat \ {Null}
      /\ h[left].len \in Nat /\ h[right].len \in Nat
      /\ left \in 1 .. Len(h) /\ right \in 1 .. Len(h)
  BY HeldFacts, LiveFacts
<1>2. /\ x \in Nodes /\ x.leaf = FALSE /\ x.len = h[left].len + h[right].len
      /\ x.weight = h[left].len /\ x.left = left
      /\ x.right = right /\ x.str = <<>> /\ x.ref_count = 1
  <2>1. h[left].len + h[right].len \in Nat /\ left \in Nat /\ right \in Nat /\ <<>> \in Seq(Char)
    <3>1. \A a, b \in Nat : a + b \in Nat
      OBVIOUS
    <3>2. QED
      BY <1>1, <3>1, EmptySeq
  <2> DEFINE len == h[left].len + h[right].len
             weight == h[left].len
  <2>2. len \in Nat /\ weight \in Nat
    BY <1>1, <2>1
  <2> HIDE DEF len, weight
  <2>3. LET y == Node(FALSE, len, weight, left, right, <<>>, 1)
        IN  /\ y \in Nodes /\ y.leaf = FALSE /\ y.len = len /\ y.weight = weight
            /\ y.left = left /\ y.right = right /\ y.str = <<>> /\ y.ref_count = 1
    BY <2>1, <2>2 DEF Node, Nodes
  <2>4. QED
    BY <2>3 DEF len, weight
<1>3. /\ Held(one, Plus(E, left)) /\ Agree(h, one) /\ Len(one) = Len(h) /\ Live(one) = Live(h)
  BY Retained
<1> HIDE DEF one
<1>4. /\ Held(two, D) /\ Agree(one, two) /\ Len(two) = Len(one) /\ Live(two) = Live(one)
  BY <1>3, Retained
<1>5. Agree(h, two) /\ Len(two) = Len(h) /\ Live(two) = Live(h)
  <2>1. one \in Heap /\ two \in Heap
    BY <1>3, <1>4, HeldFacts
  <2>2. QED
    BY <1>1, <1>3, <1>4, <2>1, AgreeTrans
<1>6. String_concat(h, left, right) = [heap |-> g, at |-> at]
  <2>1. left # Null /\ right # Null
    BY <1>1
  <2>2. String_concat(h, left, right) = Alloc(two, x)
    BY <2>1 DEF String_concat, String_len, one
  <2>3. QED
    BY <1>5, <2>2 DEF Alloc
<1> HIDE DEF two
<1>7. /\ Plus(E, left) \in [Nat -> Nat]
      /\ Plus(E, left)[left] = E[left] + 1 /\ \A k \in Nat : k # left => Plus(E, left)[k] = E[k]
  BY <1>1, PlusType
<1>8. /\ D[right] = Plus(E, left)[right] + 1
      /\ \A k \in Nat : k # right => D[k] = Plus(E, left)[k]
  BY <1>1, <1>7, PlusType
<1>9. /\ at \in Nat \ {Null} /\ at \notin Live(h) /\ E[at] = 0
      /\ F \in [Nat -> Nat] /\ F[at] = 1
      /\ \A k \in Live(h) : k \in Nat /\ F[k] = E[k]
      /\ \A k \in Nat \ {Null} : F[k] > 0 => k \in Live(h) \cup {at}
  BY NewIsFree
<1> HIDE DEF x, F, D
<1>10. WellMade(two, x)
  <2>1. Same(h[left], two[left]) /\ Same(h[right], two[right])
    BY <1>1, <1>5 DEF Agree, Live
  <2>2. QED
    BY <1>2, <1>5, <2>1 DEF WellMade, Same
<1>11. F[at] <= x.ref_count
  BY <1>2, <1>9
<1>12. \A k \in Live(two) :
        F[k] + ((IF x.left = k THEN 1 ELSE 0) + (IF x.right = k THEN 1 ELSE 0)) <= D[k]
  <2> TAKE k \in Live(two)
  <2>1. F[k] = E[k] /\ E[k] \in Nat /\ k \in Nat
    BY <1>1, <1>5, <1>9
  <2>2. D[k] = E[k] + ((IF left = k THEN 1 ELSE 0) + (IF right = k THEN 1 ELSE 0))
    <3>1. D[k] = Plus(E, left)[k] + (IF right = k THEN 1 ELSE 0)
      <4>1. Plus(E, left)[k] \in Nat
        BY <1>7, <2>1
      <4>2. QED
        BY <1>8, <2>1, <4>1
    <3>2. Plus(E, left)[k] = E[k] + (IF left = k THEN 1 ELSE 0)
      BY <1>7, <2>1
    <3>3. QED
      BY <2>1, <3>1, <3>2
  <2>3. QED
    BY <1>2, <2>1, <2>2
<1>13. /\ Held(g, F) /\ Agree(two, g) /\ Live(g) = Live(two) \cup {at} /\ g[at] = x
  <2>1. at = Len(two) + 1
    BY <1>5
  <2>2. F[Len(two) + 1] <= x.ref_count
    BY <1>11, <2>1
  <2>3. \A k \in Nat \ {Null} : F[k] > 0 => k \in Live(two) \cup {Len(two) + 1}
    BY <1>5, <1>9, <2>1
  <2> HIDE DEF at
  <2>4. /\ Held(g, F) /\ Agree(two, g) /\ Live(g) = Live(two) \cup {Len(two) + 1}
        /\ g[Len(two) + 1] = x
    <3>1. Paid(two, D, x, F)
      BY <1>9, <1>12, <2>2, <2>3, Zenon DEF Paid
    <3>2. QED
      BY <1>2, <1>4, <1>10, <3>1, Made
  <2>5. QED
    BY <2>1, <2>4
<1>14. Agree(h, g)
  <2>1. two \in Heap /\ g \in Heap
    BY <1>4, <1>13, HeldFacts
  <2>2. QED
    BY <1>1, <1>5, <1>13, <2>1, AgreeTrans
<1> HIDE DEF g, at
<1>15. Given(h, E, [heap |-> g, at |-> at])
  BY <1>5, <1>13, <1>14 DEF Given, F, at
<1>16. QED
  BY <1>2, <1>6, <1>13, <1>15

-----------------------------------------------------------------------------
(* Pieces of a sequence: Part(t, i, j) is between the offsets i and j.       *)

Part(t, i, j) == SubSeq(t, i + 1, j)

LEMMA PartFacts ==
  ASSUME NEW S, NEW t \in Seq(S), NEW i \in Nat, NEW j \in Nat, i <= j, j <= Len(t)
  PROVE  /\ Part(t, i, j) \in Seq(S) /\ Len(Part(t, i, j)) = j - i
         /\ \A k \in 1 .. j - i : Part(t, i, j)[k] = t[i + k]
<1>1. \A k \in i + 1 .. j : t[k] \in S
  BY ElementOfSeq, LenProperties
<1>2. i + 1 \in Int /\ j \in Int
  OBVIOUS
<1> DEFINE m == i + 1
           p == SubSeq(t, m, j)
<1>3. /\ p \in Seq(S) /\ Len(p) = IF m <= j THEN j - m + 1 ELSE 0
      /\ \A k \in 1 .. j - m + 1 : p[k] = t[m + k - 1]
  <2> HIDE DEF m
  <2>1. QED
    BY <1>1, <1>2, SubSeqProperties DEF m
<1> HIDE DEF p
<1>4. Len(p) = j - i
  BY <1>3
<1>5. \A k \in 1 .. j - i : p[k] = t[i + k]
  <2> TAKE k \in 1 .. j - i
  <2>1. k \in 1 .. j - m + 1 /\ m + k - 1 = i + k
    OBVIOUS
  <2>2. QED
    BY <1>3, <2>1
<1>6. QED
  BY <1>3, <1>4, <1>5 DEF p, Part

LEMMA PartAll ==
  ASSUME NEW S, NEW t \in Seq(S)
  PROVE  Part(t, 0, Len(t)) = t
<1>1. SubSeq(t, 1, Len(t)) = t
  BY SubSeqFull
<1>2. QED
  BY <1>1 DEF Part

LEMMA PartNone ==
  ASSUME NEW t, NEW i \in Nat
  PROVE  Part(t, i, i) = <<>>
<1>1. i < i + 1 /\ i + 1 \in Int /\ i \in Int
  OBVIOUS
<1>2. QED
  BY <1>1, SubSeqEmpty DEF Part

\* Two that meet.
LEMMA PartCat ==
  ASSUME NEW S, NEW t \in Seq(S), NEW i \in Nat, NEW j \in Nat, NEW k \in Nat,
         i <= j, j <= k, k <= Len(t)
  PROVE  Part(t, i, j) \o Part(t, j, k) = Part(t, i, k)
<1> DEFINE a == Part(t, i, j)
           b == Part(t, j, k)
           c == Part(t, i, k)
<1>0. i <= k /\ j <= Len(t) /\ Len(t) \in Nat
  BY LenProperties
<1>1. a \in Seq(S) /\ Len(a) = j - i /\ \A m \in 1 .. j - i : a[m] = t[i + m]
  BY <1>0, PartFacts
<1>2. b \in Seq(S) /\ Len(b) = k - j /\ \A m \in 1 .. k - j : b[m] = t[j + m]
  BY <1>0, PartFacts
<1>3. c \in Seq(S) /\ Len(c) = k - i /\ \A m \in 1 .. k - i : c[m] = t[i + m]
  BY <1>0, PartFacts
<1> HIDE DEF a, b, c
<1>4. /\ a \o b \in Seq(S) /\ Len(a \o b) = Len(a) + Len(b)
      /\ \A m \in 1 .. Len(a) + Len(b) :
           (a \o b)[m] = IF m <= Len(a) THEN a[m] ELSE b[m - Len(a)]
  BY <1>1, <1>2, ConcatProperties
<1> DEFINE d == a \o b
<1> HIDE DEF d
<1>5. Len(d) = k - i
  BY <1>1, <1>2, <1>4 DEF d
<1>6. \A m \in 1 .. k - i : d[m] = c[m]
  <2> TAKE m \in 1 .. k - i
  <2>1. d[m] = IF m <= j - i THEN a[m] ELSE b[m - (j - i)]
    <3>1. Len(a) = j - i /\ Len(b) = k - j /\ Len(a) + Len(b) = k - i
      BY <1>1, <1>2
    <3>2. QED
      BY ONLY <1>4, <3>1, m \in 1 .. k - i, SMTT(20) DEF d
  <2>2. CASE m <= j - i
    <3>1. m \in 1 .. j - i
      BY <2>2
    <3>2. QED
      BY <1>1, <1>3, <2>1, <2>2, <3>1
  <2>3. CASE ~(m <= j - i)
    <3>1. m - (j - i) \in 1 .. k - j /\ j + (m - (j - i)) = i + m
      BY <2>3
    <3>2. QED
      BY <1>2, <1>3, <2>1, <2>3, <3>1
  <2>4. QED
    BY <2>2, <2>3
<1>7. d = c
  BY <1>3, <1>4, <1>5, <1>6, SeqEqual DEF d
<1>8. QED
  BY <1>7 DEF a, b, c, d

\* One of a piece.
LEMMA PartPart ==
  ASSUME NEW S, NEW t \in Seq(S), NEW i \in Nat, NEW j \in Nat, i <= j, j <= Len(t),
         NEW a \in Nat, NEW b \in Nat, a <= b, b <= j - i
  PROVE  Part(Part(t, i, j), a, b) = Part(t, i + a, i + b)
<1> DEFINE p == Part(t, i, j)
           q == Part(p, a, b)
           r == Part(t, i + a, i + b)
<1>0. Len(t) \in Nat /\ i + a \in Nat /\ i + b \in Nat /\ i + a <= i + b /\ i + b <= Len(t)
  BY LenProperties
<1>1. p \in Seq(S) /\ Len(p) = j - i /\ \A m \in 1 .. j - i : p[m] = t[i + m]
  BY PartFacts
<1> HIDE DEF p
<1>2. q \in Seq(S) /\ Len(q) = b - a /\ \A m \in 1 .. b - a : q[m] = p[a + m]
  <2>1. p \in Seq(S) /\ a \in Nat /\ b \in Nat /\ a <= b /\ b <= Len(p)
    BY <1>1
  <2>2. QED
    BY ONLY <2>1, PartFacts
<1>3. /\ r \in Seq(S) /\ Len(r) = (i + b) - (i + a)
      /\ \A m \in 1 .. (i + b) - (i + a) : r[m] = t[(i + a) + m]
  <2> DEFINE x == i + a
             y == i + b
  <2>1. x \in Nat /\ y \in Nat /\ x <= y /\ y <= Len(t) /\ t \in Seq(S) /\ r = Part(t, x, y)
    BY <1>0
  <2> HIDE DEF r, x, y
  <2>2. /\ Part(t, x, y) \in Seq(S) /\ Len(Part(t, x, y)) = y - x
        /\ \A m \in 1 .. y - x : Part(t, x, y)[m] = t[x + m]
    BY ONLY <2>1, PartFacts
  <2>3. QED
    BY <2>1, <2>2 DEF x, y
<1> HIDE DEF q, r
<1>4. \A m \in 1 .. b - a : q[m] = r[m]
  <2> TAKE m \in 1 .. b - a
  <2>1. /\ a + m \in 1 .. j - i /\ i + (a + m) = (i + a) + m
        /\ m \in 1 .. (i + b) - (i + a)
    OBVIOUS
  <2>2. QED
    BY <1>1, <1>2, <1>3, <2>1
<1>5. Len(r) = b - a
  BY <1>3
<1>6. q = r
  BY <1>2, <1>3, <1>4, <1>5, SeqEqual
<1>7. QED
  BY <1>6 DEF p, q, r

LEMMA CatFront ==
  ASSUME NEW S, NEW s \in Seq(S), NEW t \in Seq(S), NEW i \in Nat, NEW j \in Nat,
         i <= j, j <= Len(s)
  PROVE  Part(s \o t, i, j) = Part(s, i, j)
<1> DEFINE c == s \o t
           p == Part(c, i, j)
           q == Part(s, i, j)
<1>1. /\ c \in Seq(S) /\ Len(c) = Len(s) + Len(t) /\ Len(s) \in Nat /\ Len(t) \in Nat
      /\ \A m \in 1 .. Len(s) + Len(t) : c[m] = IF m <= Len(s) THEN s[m] ELSE t[m - Len(s)]
  BY ConcatProperties, LenProperties
<1> HIDE DEF c
<1>2. p \in Seq(S) /\ Len(p) = j - i /\ \A m \in 1 .. j - i : p[m] = c[i + m]
  <2>1. c \in Seq(S) /\ i \in Nat /\ j \in Nat /\ i <= j /\ j <= Len(c)
    BY <1>1
  <2>2. QED
    BY ONLY <2>1, PartFacts
<1>3. q \in Seq(S) /\ Len(q) = j - i /\ \A m \in 1 .. j - i : q[m] = s[i + m]
  BY PartFacts
<1> HIDE DEF p, q
<1>4. \A m \in 1 .. j - i : p[m] = q[m]
  <2> TAKE m \in 1 .. j - i
  <2>1. i + m \in 1 .. Len(s) + Len(t) /\ i + m <= Len(s)
    BY <1>1
  <2>2. QED
    BY <1>1, <1>2, <1>3, <2>1
<1>5. p = q
  BY <1>2, <1>3, <1>4, SeqEqual
<1>6. QED
  BY <1>5 DEF c, p, q

LEMMA CatBack ==
  ASSUME NEW S, NEW s \in Seq(S), NEW t \in Seq(S), NEW i \in Nat, NEW j \in Nat,
         i <= j, Len(s) <= i, j <= Len(s) + Len(t)
  PROVE  Part(s \o t, i, j) = Part(t, i - Len(s), j - Len(s))
<1> DEFINE c == s \o t
           n == Len(s)
           p == Part(c, i, j)
           q == Part(t, i - n, j - n)
<1>1. /\ c \in Seq(S) /\ Len(c) = n + Len(t) /\ n \in Nat /\ Len(t) \in Nat
      /\ \A m \in 1 .. n + Len(t) : c[m] = IF m <= n THEN s[m] ELSE t[m - n]
  BY ConcatProperties, LenProperties
<1>0. n <= i /\ j <= n + Len(t)
  OBVIOUS
<1> HIDE DEF c, n
<1>2. p \in Seq(S) /\ Len(p) = j - i /\ \A m \in 1 .. j - i : p[m] = c[i + m]
  <2>1. c \in Seq(S) /\ i \in Nat /\ j \in Nat /\ i <= j /\ j <= Len(c)
    BY <1>0, <1>1
  <2>2. QED
    BY ONLY <2>1, PartFacts
<1>3. /\ q \in Seq(S) /\ Len(q) = (j - n) - (i - n)
      /\ \A m \in 1 .. (j - n) - (i - n) : q[m] = t[(i - n) + m]
  <2>1. i - n \in Nat /\ j - n \in Nat /\ i - n <= j - n /\ j - n <= Len(t)
    BY <1>0, <1>1
  <2>2. QED
    BY <2>1, PartFacts
<1> HIDE DEF p, q
<1>4. \A m \in 1 .. j - i : p[m] = q[m]
  <2> TAKE m \in 1 .. j - i
  <2>1. /\ i + m \in 1 .. n + Len(t) /\ ~(i + m <= n) /\ (i + m) - n = (i - n) + m
        /\ m \in 1 .. (j - n) - (i - n)
    BY <1>0, <1>1
  <2>2. QED
    BY <1>1, <1>2, <1>3, <2>1
<1>5. Len(q) = j - i
  BY <1>1, <1>3
<1>6. p = q
  BY <1>2, <1>3, <1>4, <1>5, SeqEqual
<1>7. QED
  BY <1>6 DEF c, n, p, q

LEMMA CatAcross ==
  ASSUME NEW S, NEW s \in Seq(S), NEW t \in Seq(S), NEW i \in Nat, NEW j \in Nat,
         i <= Len(s), Len(s) <= j, j <= Len(s) + Len(t)
  PROVE  Part(s \o t, i, j) = Part(s, i, Len(s)) \o Part(t, 0, j - Len(s))
<1>1. s \o t \in Seq(S) /\ Len(s \o t) = Len(s) + Len(t) /\ Len(s) \in Nat /\ Len(t) \in Nat
  BY ConcatProperties, LenProperties
<1>2. Part(s \o t, i, Len(s)) \o Part(s \o t, Len(s), j) = Part(s \o t, i, j)
  <2> DEFINE c == s \o t
             n == Len(s)
  <2>1. c \in Seq(S) /\ n \in Nat /\ i <= n /\ n <= j /\ j <= Len(c)
    BY <1>1
  <2> HIDE DEF c, n
  <2>2. Part(c, i, n) \o Part(c, n, j) = Part(c, i, j)
    BY <2>1, PartCat
  <2>3. QED
    BY <2>2 DEF c, n
<1>3. Part(s \o t, i, Len(s)) = Part(s, i, Len(s))
  <2>1. Len(s) \in Nat /\ Len(s) <= Len(s)
    BY <1>1
  <2>2. QED
    BY <2>1, CatFront
<1>4. Part(s \o t, Len(s), j) = Part(t, Len(s) - Len(s), j - Len(s))
  <2>1. Len(s) \in Nat /\ Len(s) <= Len(s)
    BY <1>1
  <2>2. QED
    BY <2>1, CatBack
<1>5. Len(s) - Len(s) = 0
  BY <1>1
<1>6. QED
  BY <1>2, <1>3, <1>4, <1>5

-----------------------------------------------------------------------------
(* The text, the height and the leaves of a tree, one node after the other.  *)

FlatNode(h, f, n) ==
  IF h[n].leaf THEN h[n].str ELSE f[h[n].left] \o f[h[n].right]

FlatBody(h, f, n) ==
  IF n = Null THEN <<>> ELSE IF h[n] = Freed THEN <<>> ELSE IF h[n].leaf THEN h[n].str
  ELSE f[h[n].left] \o f[h[n].right]

LEMMA FlatSteps ==
  ASSUME NEW h \in Heap
  PROVE  Flat(h) = [n \in 0 .. Len(h) |-> FlatBody(h, Flat(h), n)]
<1> DEFINE Is(f, k) == f = [n \in 0 .. k |-> FlatBody(h, f, n)]
           S == {k \in 0 .. Len(h) : \E f : Is(f, k)}
<1>1. Len(h) \in Nat
  BY HeapFacts
<1>2. ASSUME NEW m \in 0 .. Len(h), NEW f, NEW g, \A j \in 0 .. m - 1 : f[j] = g[j]
      PROVE  FlatBody(h, f, m) = FlatBody(h, g, m)
  <2>1. CASE m = Null \/ h[m] = Freed
    BY <2>1, Zenon DEF FlatBody
  <2>2. CASE m # Null /\ h[m] # Freed
    <3>1. m \in Live(h)
      BY <1>1, <2>2 DEF Live, Null
    <3>2. f[h[m].left] = g[h[m].left] /\ f[h[m].right] = g[h[m].right]
      BY <1>2, <3>1, LiveFacts
    <3>3. QED
      BY <3>2, Zenon DEF FlatBody
  <2>3. QED
    BY <2>1, <2>2
<1>3. ASSUME NEW k \in 0 .. Len(h), \A j \in 0 .. k - 1 : j \in S
      PROVE  k \in S
  <2>1. PICK f : \A m \in 0 .. k - 1 : f[m] = FlatBody(h, f, m)
    <3>1. CASE k = 0
      BY <3>1
    <3>2. CASE k # 0
      <4>1. k - 1 \in S /\ k - 1 \in 0 .. k - 1
        BY <1>1, <1>3, <3>2
      <4>2. PICK f : Is(f, k - 1)
        BY <4>1
      <4>3. QED
        BY <4>2, Zenon
    <3>3. QED
      BY <3>1, <3>2
  <2> DEFINE g == [m \in 0 .. k |-> FlatBody(h, f, m)]
  <2>2. \A m \in 0 .. k - 1 : g[m] = f[m]
    BY <1>1, <2>1
  <2>3. \A m \in 0 .. k : FlatBody(h, f, m) = FlatBody(h, g, m)
    <3> TAKE m \in 0 .. k
    <3> HIDE DEF g
    <3>1. \A j \in 0 .. m - 1 : f[j] = g[j]
      BY <1>1, <2>2
    <3>2. m \in 0 .. Len(h)
      BY <1>1
    <3>3. QED
      BY <1>2, <3>1, <3>2
  <2>4. Is(g, k)
    BY <2>3, Zenon
  <2> HIDE DEF g, Is
  <2>5. QED
    BY <2>4
<1>4. \E f : Is(f, Len(h))
  <2>1. Len(h) \in S
    <3>1. \A m \in 0 .. Len(h) : (\A k \in 0 .. m - 1 : k \in S) => m \in S
      BY <1>3
    <3> HIDE DEF S
    <3>2. \A m \in 0 .. Len(h) : m \in S
      BY <1>1, <3>1, FromBelow
    <3>3. QED
      BY <1>1, <3>2
  <2>2. QED
    BY <2>1
<1>5. Flat(h) = CHOOSE f : Is(f, Len(h))
  BY Zenon DEF Flat, FlatBody
<1>6. Is(Flat(h), Len(h))
  <2> HIDE DEF Is
  <2>1. QED
    BY <1>4, <1>5, Zenon
<1>7. QED
  BY <1>6, Zenon

\* The same, at the nodes that are there.
LEMMA FlatAt ==
  ASSUME NEW h \in Heap
  PROVE  /\ Flat(h)[Null] = <<>>
         /\ \A n \in 0 .. Len(h) :
              Flat(h)[n] = IF n \in Live(h) THEN FlatNode(h, Flat(h), n) ELSE <<>>
<1>1. Len(h) \in Nat
  BY HeapFacts
<1> DEFINE f == Flat(h)
<1>2. \A n \in 0 .. Len(h) : f[n] = FlatBody(h, f, n)
  <2>1. f = [n \in 0 .. Len(h) |-> FlatBody(h, f, n)]
    BY FlatSteps
  <2> HIDE DEF f
  <2>2. QED
    BY <2>1, Zenon
<1> HIDE DEF f
<1>3. \A n \in 0 .. Len(h) : n \in Live(h) <=> (n # Null /\ h[n] # Freed)
  BY <1>1 DEF Live, Null
<1>4. \A n \in 0 .. Len(h) : f[n] = IF n \in Live(h) THEN FlatNode(h, f, n) ELSE <<>>
  BY <1>2, <1>3, Zenon DEF FlatBody, FlatNode
<1>5. Null \in 0 .. Len(h) /\ Null \notin Live(h)
  BY <1>1 DEF Live, Null
<1>6. QED
  BY <1>4, <1>5 DEF f

HeightNode(h, f, n) ==
  IF h[n].leaf THEN 1 ELSE 1 + (IF f[h[n].left] > f[h[n].right] THEN f[h[n].left] ELSE f[h[n].right])

HeightBody(h, f, n) ==
  IF n = Null THEN 1 ELSE IF h[n] = Freed THEN 1 ELSE IF h[n].leaf THEN 1
  ELSE 1 + (IF f[h[n].left] > f[h[n].right] THEN f[h[n].left] ELSE f[h[n].right])

LEMMA HeightSteps ==
  ASSUME NEW h \in Heap
  PROVE  String_height(h) = [n \in 0 .. Len(h) |-> HeightBody(h, String_height(h), n)]
<1> DEFINE Is(f, k) == f = [n \in 0 .. k |-> HeightBody(h, f, n)]
           S == {k \in 0 .. Len(h) : \E f : Is(f, k)}
<1>1. Len(h) \in Nat
  BY HeapFacts
<1>2. ASSUME NEW m \in 0 .. Len(h), NEW f, NEW g, \A j \in 0 .. m - 1 : f[j] = g[j]
      PROVE  HeightBody(h, f, m) = HeightBody(h, g, m)
  <2>1. CASE m = Null \/ h[m] = Freed
    BY <2>1, Zenon DEF HeightBody
  <2>2. CASE m # Null /\ h[m] # Freed
    <3>1. m \in Live(h)
      BY <1>1, <2>2 DEF Live, Null
    <3>2. f[h[m].left] = g[h[m].left] /\ f[h[m].right] = g[h[m].right]
      BY <1>2, <3>1, LiveFacts
    <3>3. QED
      BY <3>2, Zenon DEF HeightBody
  <2>3. QED
    BY <2>1, <2>2
<1>3. ASSUME NEW k \in 0 .. Len(h), \A j \in 0 .. k - 1 : j \in S
      PROVE  k \in S
  <2>1. PICK f : \A m \in 0 .. k - 1 : f[m] = HeightBody(h, f, m)
    <3>1. CASE k = 0
      BY <3>1
    <3>2. CASE k # 0
      <4>1. k - 1 \in S /\ k - 1 \in 0 .. k - 1
        BY <1>1, <1>3, <3>2
      <4>2. PICK f : Is(f, k - 1)
        BY <4>1
      <4>3. QED
        BY <4>2, Zenon
    <3>3. QED
      BY <3>1, <3>2
  <2> DEFINE g == [m \in 0 .. k |-> HeightBody(h, f, m)]
  <2>2. \A m \in 0 .. k - 1 : g[m] = f[m]
    BY <1>1, <2>1
  <2>3. \A m \in 0 .. k : HeightBody(h, f, m) = HeightBody(h, g, m)
    <3> TAKE m \in 0 .. k
    <3> HIDE DEF g
    <3>1. \A j \in 0 .. m - 1 : f[j] = g[j]
      BY <1>1, <2>2
    <3>2. m \in 0 .. Len(h)
      BY <1>1
    <3>3. QED
      BY <1>2, <3>1, <3>2
  <2>4. Is(g, k)
    BY <2>3, Zenon
  <2> HIDE DEF g, Is
  <2>5. QED
    BY <2>4
<1>4. \E f : Is(f, Len(h))
  <2>1. Len(h) \in S
    <3>1. \A m \in 0 .. Len(h) : (\A k \in 0 .. m - 1 : k \in S) => m \in S
      BY <1>3
    <3> HIDE DEF S
    <3>2. \A m \in 0 .. Len(h) : m \in S
      BY <1>1, <3>1, FromBelow
    <3>3. QED
      BY <1>1, <3>2
  <2>2. QED
    BY <2>1
<1>5. String_height(h) = CHOOSE f : Is(f, Len(h))
  BY Zenon DEF String_height, HeightBody
<1>6. Is(String_height(h), Len(h))
  <2> HIDE DEF Is
  <2>1. QED
    BY <1>4, <1>5, Zenon
<1>7. QED
  BY <1>6, Zenon

\* The same, at the nodes that are there.
LEMMA HeightAt ==
  ASSUME NEW h \in Heap
  PROVE  /\ String_height(h)[Null] = 1
         /\ \A n \in 0 .. Len(h) :
              String_height(h)[n] = IF n \in Live(h) THEN HeightNode(h, String_height(h), n) ELSE 1
<1>1. Len(h) \in Nat
  BY HeapFacts
<1> DEFINE f == String_height(h)
<1>2. \A n \in 0 .. Len(h) : f[n] = HeightBody(h, f, n)
  <2>1. f = [n \in 0 .. Len(h) |-> HeightBody(h, f, n)]
    BY HeightSteps
  <2> HIDE DEF f
  <2>2. QED
    BY <2>1, Zenon
<1> HIDE DEF f
<1>3. \A n \in 0 .. Len(h) : n \in Live(h) <=> (n # Null /\ h[n] # Freed)
  BY <1>1 DEF Live, Null
<1>4. \A n \in 0 .. Len(h) : f[n] = IF n \in Live(h) THEN HeightNode(h, f, n) ELSE 1
  BY <1>2, <1>3, Zenon DEF HeightBody, HeightNode
<1>5. Null \in 0 .. Len(h) /\ Null \notin Live(h)
  BY <1>1 DEF Live, Null
<1>6. QED
  BY <1>4, <1>5 DEF f

LeavesNode(h, f, n) ==
  IF h[n].leaf THEN <<n>> ELSE f[h[n].left] \o f[h[n].right]

LeavesBody(h, f, n) ==
  IF n = Null THEN <<>> ELSE IF h[n] = Freed THEN <<>> ELSE IF h[n].leaf THEN <<n>>
  ELSE f[h[n].left] \o f[h[n].right]

LEMMA LeavesSteps ==
  ASSUME NEW h \in Heap
  PROVE  String_collect_leaves(h) = [n \in 0 .. Len(h) |-> LeavesBody(h, String_collect_leaves(h), n)]
<1> DEFINE Is(f, k) == f = [n \in 0 .. k |-> LeavesBody(h, f, n)]
           S == {k \in 0 .. Len(h) : \E f : Is(f, k)}
<1>1. Len(h) \in Nat
  BY HeapFacts
<1>2. ASSUME NEW m \in 0 .. Len(h), NEW f, NEW g, \A j \in 0 .. m - 1 : f[j] = g[j]
      PROVE  LeavesBody(h, f, m) = LeavesBody(h, g, m)
  <2>1. CASE m = Null \/ h[m] = Freed
    BY <2>1, Zenon DEF LeavesBody
  <2>2. CASE m # Null /\ h[m] # Freed
    <3>1. m \in Live(h)
      BY <1>1, <2>2 DEF Live, Null
    <3>2. f[h[m].left] = g[h[m].left] /\ f[h[m].right] = g[h[m].right]
      BY <1>2, <3>1, LiveFacts
    <3>3. QED
      BY <3>2, Zenon DEF LeavesBody
  <2>3. QED
    BY <2>1, <2>2
<1>3. ASSUME NEW k \in 0 .. Len(h), \A j \in 0 .. k - 1 : j \in S
      PROVE  k \in S
  <2>1. PICK f : \A m \in 0 .. k - 1 : f[m] = LeavesBody(h, f, m)
    <3>1. CASE k = 0
      BY <3>1
    <3>2. CASE k # 0
      <4>1. k - 1 \in S /\ k - 1 \in 0 .. k - 1
        BY <1>1, <1>3, <3>2
      <4>2. PICK f : Is(f, k - 1)
        BY <4>1
      <4>3. QED
        BY <4>2, Zenon
    <3>3. QED
      BY <3>1, <3>2
  <2> DEFINE g == [m \in 0 .. k |-> LeavesBody(h, f, m)]
  <2>2. \A m \in 0 .. k - 1 : g[m] = f[m]
    BY <1>1, <2>1
  <2>3. \A m \in 0 .. k : LeavesBody(h, f, m) = LeavesBody(h, g, m)
    <3> TAKE m \in 0 .. k
    <3> HIDE DEF g
    <3>1. \A j \in 0 .. m - 1 : f[j] = g[j]
      BY <1>1, <2>2
    <3>2. m \in 0 .. Len(h)
      BY <1>1
    <3>3. QED
      BY <1>2, <3>1, <3>2
  <2>4. Is(g, k)
    BY <2>3, Zenon
  <2> HIDE DEF g, Is
  <2>5. QED
    BY <2>4
<1>4. \E f : Is(f, Len(h))
  <2>1. Len(h) \in S
    <3>1. \A m \in 0 .. Len(h) : (\A k \in 0 .. m - 1 : k \in S) => m \in S
      BY <1>3
    <3> HIDE DEF S
    <3>2. \A m \in 0 .. Len(h) : m \in S
      BY <1>1, <3>1, FromBelow
    <3>3. QED
      BY <1>1, <3>2
  <2>2. QED
    BY <2>1
<1>5. String_collect_leaves(h) = CHOOSE f : Is(f, Len(h))
  BY Zenon DEF String_collect_leaves, LeavesBody
<1>6. Is(String_collect_leaves(h), Len(h))
  <2> HIDE DEF Is
  <2>1. QED
    BY <1>4, <1>5, Zenon
<1>7. QED
  BY <1>6, Zenon

\* The same, at the nodes that are there.
LEMMA LeavesAt ==
  ASSUME NEW h \in Heap
  PROVE  /\ String_collect_leaves(h)[Null] = <<>>
         /\ \A n \in 0 .. Len(h) :
              String_collect_leaves(h)[n] = IF n \in Live(h) THEN LeavesNode(h, String_collect_leaves(h), n) ELSE <<>>
<1>1. Len(h) \in Nat
  BY HeapFacts
<1> DEFINE f == String_collect_leaves(h)
<1>2. \A n \in 0 .. Len(h) : f[n] = LeavesBody(h, f, n)
  <2>1. f = [n \in 0 .. Len(h) |-> LeavesBody(h, f, n)]
    BY LeavesSteps
  <2> HIDE DEF f
  <2>2. QED
    BY <2>1, Zenon
<1> HIDE DEF f
<1>3. \A n \in 0 .. Len(h) : n \in Live(h) <=> (n # Null /\ h[n] # Freed)
  BY <1>1 DEF Live, Null
<1>4. \A n \in 0 .. Len(h) : f[n] = IF n \in Live(h) THEN LeavesNode(h, f, n) ELSE <<>>
  BY <1>2, <1>3, Zenon DEF LeavesBody, LeavesNode
<1>5. Null \in 0 .. Len(h) /\ Null \notin Live(h)
  BY <1>1 DEF Live, Null
<1>6. QED
  BY <1>4, <1>5 DEF f


LEMMA FlatType ==
  ASSUME NEW h \in Heap
  PROVE  \A n \in 0 .. Len(h) : Flat(h)[n] \in Seq(Char)
<1> DEFINE f == Flat(h)
           S == {n \in 0 .. Len(h) : f[n] \in Seq(Char)}
<1>1. /\ Len(h) \in Nat
      /\ \A n \in 0 .. Len(h) : f[n] = IF n \in Live(h) THEN FlatNode(h, f, n) ELSE <<>>
  BY FlatAt, HeapFacts
<1> HIDE DEF f
<1>2. ASSUME NEW n \in 0 .. Len(h), \A k \in 0 .. n - 1 : k \in S PROVE n \in S
  <2>1. CASE n \in Live(h)
    <3>1. /\ h[n].str \in Seq(Char) /\ h[n].left \in 0 .. n - 1 /\ h[n].right \in 0 .. n - 1
      BY <2>1, LiveFacts
    <3>2. f[h[n].left] \in Seq(Char) /\ f[h[n].right] \in Seq(Char)
      BY <1>2, <3>1
    <3>3. f[h[n].left] \o f[h[n].right] \in Seq(Char)
      BY <3>2, ConcatProperties
    <3>4. QED
      BY <1>1, <2>1, <3>1, <3>3 DEF FlatNode
  <2>2. CASE n \notin Live(h)
    <3>1. <<>> \in Seq(Char)
      BY EmptySeq
    <3>2. QED
      BY <1>1, <2>2, <3>1
  <2>3. QED
    BY <2>1, <2>2
<1>3. \A m \in 0 .. Len(h) : (\A k \in 0 .. m - 1 : k \in S) => m \in S
  BY <1>2
<1>4. \A m \in 0 .. Len(h) : m \in S
  <2> HIDE DEF S
  <2>1. QED
    BY <1>1, <1>3, FromBelow
<1>5. QED
  BY <1>4 DEF f

LEMMA HeightType ==
  ASSUME NEW h \in Heap
  PROVE  \A n \in 0 .. Len(h) : String_height(h)[n] \in Nat /\ String_height(h)[n] >= 1
<1> DEFINE f == String_height(h)
           S == {n \in 0 .. Len(h) : f[n] \in Nat /\ f[n] >= 1}
<1>1. /\ Len(h) \in Nat
      /\ \A n \in 0 .. Len(h) : f[n] = IF n \in Live(h) THEN HeightNode(h, f, n) ELSE 1
  BY HeightAt, HeapFacts
<1> HIDE DEF f
<1>2. ASSUME NEW n \in 0 .. Len(h), \A k \in 0 .. n - 1 : k \in S PROVE n \in S
  <2>1. CASE n \in Live(h)
    <3>1. h[n].left \in 0 .. n - 1 /\ h[n].right \in 0 .. n - 1
      BY <2>1, LiveFacts
    <3>2. /\ f[h[n].left] \in Nat /\ f[h[n].right] \in Nat
      BY <1>2, <3>1
    <3>3. QED
      BY <1>1, <2>1, <3>2 DEF HeightNode
  <2>2. CASE n \notin Live(h)
    BY <1>1, <2>2
  <2>3. QED
    BY <2>1, <2>2
<1>3. \A m \in 0 .. Len(h) : (\A k \in 0 .. m - 1 : k \in S) => m \in S
  BY <1>2
<1>4. \A m \in 0 .. Len(h) : m \in S
  <2> HIDE DEF S
  <2>1. QED
    BY <1>1, <1>3, FromBelow
<1>5. QED
  BY <1>4 DEF f

Leaves(h) == {n \in Live(h) : h[n].leaf}

LEMMA LeavesType ==
  ASSUME NEW h \in Heap
  PROVE  \A n \in 0 .. Len(h) : String_collect_leaves(h)[n] \in Seq(Leaves(h))
<1> DEFINE f == String_collect_leaves(h)
           S == {n \in 0 .. Len(h) : f[n] \in Seq(Leaves(h))}
<1>1. /\ Len(h) \in Nat
      /\ \A n \in 0 .. Len(h) : f[n] = IF n \in Live(h) THEN LeavesNode(h, f, n) ELSE <<>>
  BY LeavesAt, HeapFacts
<1> HIDE DEF f
<1>2. ASSUME NEW n \in 0 .. Len(h), \A k \in 0 .. n - 1 : k \in S PROVE n \in S
  <2>1. CASE n \in Live(h)
    <3>1. h[n].left \in 0 .. n - 1 /\ h[n].right \in 0 .. n - 1
      BY <2>1, LiveFacts
    <3>2. f[h[n].left] \in Seq(Leaves(h)) /\ f[h[n].right] \in Seq(Leaves(h))
      BY <1>2, <3>1
    <3>3. f[h[n].left] \o f[h[n].right] \in Seq(Leaves(h))
      BY <3>2, ConcatProperties
    <3>4. h[n].leaf => <<n>> \in Seq(Leaves(h))
      BY <2>1 DEF Leaves
    <3>5. QED
      BY <1>1, <2>1, <3>3, <3>4 DEF LeavesNode
  <2>2. CASE n \notin Live(h)
    <3>1. <<>> \in Seq(Leaves(h))
      BY EmptySeq
    <3>2. QED
      BY <1>1, <2>2, <3>1
  <2>3. QED
    BY <2>1, <2>2
<1>3. \A m \in 0 .. Len(h) : (\A k \in 0 .. m - 1 : k \in S) => m \in S
  BY <1>2
<1>4. \A m \in 0 .. Len(h) : m \in S
  <2> HIDE DEF S
  <2>1. QED
    BY <1>1, <1>3, FromBelow
<1>5. QED
  BY <1>4 DEF f

\* What is below a node does not change while the node is there.
LEMMA SameTree ==
  ASSUME NEW h \in Heap, NEW g, NEW E, Held(g, E), Agree(h, g)
  PROVE  \A n \in 0 .. Len(h) : n \in Live(g) \cup {Null} =>
           /\ Flat(g)[n] = Flat(h)[n]
           /\ String_height(g)[n] = String_height(h)[n]
           /\ String_collect_leaves(g)[n] = String_collect_leaves(h)[n]
<1> DEFINE Alike(n) == /\ Flat(g)[n] = Flat(h)[n]
                       /\ String_height(g)[n] = String_height(h)[n]
                       /\ String_collect_leaves(g)[n] = String_collect_leaves(h)[n]
           S == {n \in 0 .. Len(h) : n \in Live(g) \cup {Null} => Alike(n)}
<1>1. /\ g \in Heap /\ Len(g) \in Nat /\ Len(h) \in Nat /\ Len(h) <= Len(g)
  BY HeldFacts, HeapFacts DEF Agree
<1>2. ASSUME NEW n \in 0 .. Len(h), \A k \in 0 .. n - 1 : k \in S PROVE n \in S
  <2>1. CASE n = Null
    <3>1. Alike(Null)
      BY <1>1, FlatAt, HeightAt, LeavesAt
    <3>2. QED
      BY <2>1, <3>1
  <2>2. CASE n \in Live(g)
    <3>1. /\ n \in 1 .. Len(h) /\ n \in 0 .. Len(g) /\ g[n] # Freed
          /\ g[n].left \in 0 .. n - 1 /\ g[n].right \in 0 .. n - 1
      BY <1>1, <2>2, LiveFacts
    <3>2. Same(h[n], g[n]) /\ n \in Live(h)
      BY <3>1 DEF Agree, Live
    <3>3. g[n].left \in Live(g) \cup {Null} /\ g[n].right \in Live(g) \cup {Null}
      BY <2>2, HeldFacts
    <3>4. Alike(g[n].left) /\ Alike(g[n].right)
      BY <1>2, <3>1, <3>3
    <3>5. h[n].left = g[n].left /\ h[n].right = g[n].right /\ h[n].leaf = g[n].leaf
          /\ h[n].str = g[n].str
      BY <3>2 DEF Same
    <3>6. Flat(g)[n] = Flat(h)[n]
      <4>1. Flat(g)[n] = FlatNode(g, Flat(g), n) /\ Flat(h)[n] = FlatNode(h, Flat(h), n)
        BY <1>1, <2>2, <3>1, <3>2, FlatAt
      <4>2. QED
        BY <3>4, <3>5, <4>1 DEF FlatNode
    <3>7. String_height(g)[n] = String_height(h)[n]
      <4>1. /\ String_height(g)[n] = HeightNode(g, String_height(g), n)
            /\ String_height(h)[n] = HeightNode(h, String_height(h), n)
        BY <1>1, <2>2, <3>1, <3>2, HeightAt
      <4>2. QED
        BY <3>4, <3>5, <4>1 DEF HeightNode
    <3>8. String_collect_leaves(g)[n] = String_collect_leaves(h)[n]
      <4>1. /\ String_collect_leaves(g)[n] = LeavesNode(g, String_collect_leaves(g), n)
            /\ String_collect_leaves(h)[n] = LeavesNode(h, String_collect_leaves(h), n)
        BY <1>1, <2>2, <3>1, <3>2, LeavesAt
      <4>2. QED
        BY <3>4, <3>5, <4>1 DEF LeavesNode
    <3>9. QED
      BY <3>6, <3>7, <3>8
  <2>3. QED
    BY <2>1, <2>2
<1>3. \A m \in 0 .. Len(h) : (\A k \in 0 .. m - 1 : k \in S) => m \in S
  BY <1>2
<1>4. \A m \in 0 .. Len(h) : m \in S
  <2> HIDE DEF S
  <2>1. QED
    BY <1>1, <1>3, FromBelow
<1>5. QED
  BY <1>4

\* A length is that of the text.
LEMMA Lengths ==
  ASSUME NEW h, NEW E, Held(h, E)
  PROVE  \A n \in Live(h) :
           /\ Flat(h)[n] \in Seq(Char) /\ h[n].len = Len(Flat(h)[n])
           /\ ~h[n].leaf => /\ Flat(h)[n] = Flat(h)[h[n].left] \o Flat(h)[h[n].right]
                            /\ h[n].weight = Len(Flat(h)[h[n].left])
           /\ h[n].leaf => Flat(h)[n] = h[n].str /\ h[n].weight = h[n].len
<1> DEFINE f == Flat(h)
           Right(n) == h[n].len = Len(f[n])
           S == {n \in 0 .. Len(h) : n \in Live(h) => Right(n)}
<1>1. /\ h \in Heap /\ Len(h) \in Nat /\ Len(<<>>) = 0
      /\ \A n \in 0 .. Len(h) : f[n] = IF n \in Live(h) THEN FlatNode(h, f, n) ELSE <<>>
      /\ \A n \in 0 .. Len(h) : f[n] \in Seq(Char)
      /\ f[Null] = <<>>
  BY HeldFacts, FlatAt, FlatType
<1> HIDE DEF f
<1>2. ASSUME NEW n \in Live(h)
      PROVE  /\ n \in 0 .. Len(h) /\ Formed(h, Live(h), n)
             /\ h[n].left \in 0 .. n - 1 /\ h[n].right \in 0 .. n - 1
             /\ f[n] \in Seq(Char) /\ f[n] = FlatNode(h, f, n)
             /\ f[h[n].left] \in Seq(Char) /\ f[h[n].right] \in Seq(Char)
  <2>1. /\ n \in 0 .. Len(h) /\ h[n].left \in 0 .. n - 1 /\ h[n].right \in 0 .. n - 1
    BY <1>1, LiveFacts
  <2>2. h[n].left \in 0 .. Len(h) /\ h[n].right \in 0 .. Len(h)
    BY <1>1, <2>1
  <2>3. QED
    BY <1>1, <2>1, <2>2, HeldFacts
<1>3. ASSUME NEW n \in 0 .. Len(h), \A k \in 0 .. n - 1 : k \in S PROVE n \in S
  <2> SUFFICES ASSUME n \in Live(h) PROVE Right(n)
    OBVIOUS
  <2>1. CASE h[n].leaf
    BY <1>2, <2>1 DEF Formed, FlatNode
  <2>2. CASE ~h[n].leaf
    <3>1. f[n] = f[h[n].left] \o f[h[n].right]
      BY <1>2, <2>2 DEF FlatNode
    <3>2. Len(f[n]) = Len(f[h[n].left]) + Len(f[h[n].right])
      <4>1. f[h[n].left] \in Seq(Char) /\ f[h[n].right] \in Seq(Char)
        BY <1>2
      <4>2. QED
        BY <3>1, <4>1, ConcatProperties
    <3>3. CASE h[n].left = Null
      <4>1. h[n].right = Null /\ h[n].len = 0
        <5>1. Null \notin Live(h)
          BY <1>1, LiveFacts
        <5>2. QED
          BY <1>2, <2>2, <3>3, <5>1 DEF Formed
      <4>2. QED
        BY <1>1, <3>2, <3>3, <4>1
    <3>4. CASE h[n].left # Null
      <4>1. /\ h[n].left \in Live(h) /\ h[n].right \in Live(h)
            /\ h[n].len = h[h[n].left].len + h[h[n].right].len
        BY <1>2, <2>2, <3>4 DEF Formed
      <4>2. Right(h[n].left) /\ Right(h[n].right)
        BY <1>2, <1>3, <4>1
      <4>3. QED
        BY <3>2, <4>1, <4>2
    <3>5. QED
      BY <3>3, <3>4
  <2>3. QED
    BY <2>1, <2>2
<1>4. \A m \in 0 .. Len(h) : (\A k \in 0 .. m - 1 : k \in S) => m \in S
  BY <1>3
<1>5. \A m \in 0 .. Len(h) : m \in S
  <2> HIDE DEF S
  <2>1. QED
    BY <1>1, <1>4, FromBelow
<1>6. \A n \in Live(h) : Right(n)
  BY <1>2, <1>5
<1>7. ASSUME NEW n \in Live(h), ~h[n].leaf
      PROVE  f[n] = f[h[n].left] \o f[h[n].right] /\ h[n].weight = Len(f[h[n].left])
  <2>1. f[n] = f[h[n].left] \o f[h[n].right]
    BY <1>2, <1>7 DEF FlatNode
  <2>2. CASE h[n].left = Null
    <3>1. h[n].weight = 0
      <4>1. Null \notin Live(h)
        BY <1>1, LiveFacts
      <4>2. QED
        BY <1>2, <1>7, <2>2, <4>1 DEF Formed
    <3>2. QED
      BY <1>1, <2>1, <2>2, <3>1
  <2>3. CASE h[n].left # Null
    <3>1. h[n].left \in Live(h) /\ h[n].weight = h[h[n].left].len
      BY <1>2, <1>7, <2>3 DEF Formed
    <3>2. QED
      BY <1>6, <2>1, <3>1
  <2>4. QED
    BY <2>2, <2>3
<1>8. ASSUME NEW n \in Live(h), h[n].leaf
      PROVE  f[n] = h[n].str /\ h[n].weight = h[n].len
  BY <1>2, <1>8 DEF Formed, FlatNode
<1>9. QED
  BY <1>2, <1>6, <1>7, <1>8 DEF f

-----------------------------------------------------------------------------
(* Nodes that stay as long as no reference from outside is given up: those   *)
(* that have one, and those below them.                                      *)

Safe(h, E, n) ==
  \E K \in SUBSET Live(h) :
    /\ n \in K
    /\ \A k \in K : E[k] > 0 \/ \E p \in K : h[p].left = k \/ h[p].right = k

LEMMA SafeRoot ==
  ASSUME NEW h, NEW E, Held(h, E), NEW n \in Nat \ {Null}, E[n] > 0
  PROVE  Safe(h, E, n) /\ n \in Live(h)
<1>1. n \in Live(h)
  BY HeldFacts
<1>2. {n} \in SUBSET Live(h) /\ n \in {n} /\ \A k \in {n} : E[k] > 0
  BY <1>1
<1>3. QED
  BY <1>1, <1>2 DEF Safe

LEMMA SafeChild ==
  ASSUME NEW h, NEW E, Held(h, E), NEW n, Safe(h, E, n), NEW c \in {h[n].left, h[n].right},
         c # Null
  PROVE  Safe(h, E, c) /\ c \in Live(h)
<1>1. PICK K \in SUBSET Live(h) :
        /\ n \in K
        /\ \A k \in K : E[k] > 0 \/ \E p \in K : h[p].left = k \/ h[p].right = k
  BY DEF Safe
<1>2. c \in Live(h)
  BY <1>1, HeldFacts, SMTT(20)
<1> DEFINE J == K \cup {c}
<1>3. \A k \in J : E[k] > 0 \/ \E p \in J : h[p].left = k \/ h[p].right = k
  BY <1>1
<1>4. J \in SUBSET Live(h) /\ c \in J
  BY <1>1, <1>2
<1> HIDE DEF J
<1>5. QED
  BY <1>2, <1>3, <1>4 DEF Safe

LEMMA SafeStays ==
  ASSUME NEW h, NEW E, Held(h, E), NEW g, NEW F, Held(g, F), Agree(h, g),
         \A k \in Nat \ {Null} : E[k] <= F[k],
         NEW n, Safe(h, E, n)
  PROVE  Safe(g, F, n) /\ n \in Live(g) /\ n \in Live(h)
<1>1. PICK K \in SUBSET Live(h) :
        /\ n \in K
        /\ \A k \in K : E[k] > 0 \/ \E p \in K : h[p].left = k \/ h[p].right = k
  BY DEF Safe
<1> DEFINE N == Len(h)
           S == {j \in 0 .. N : \A k \in K : k = N - j => k \in Live(g)}
<1>2. /\ h \in Heap /\ g \in Heap /\ N \in Nat /\ E \in [Nat -> Nat] /\ F \in [Nat -> Nat]
  BY HeldFacts
<1>3. ASSUME NEW k \in K
      PROVE  /\ k \in 1 .. N /\ k \in Nat \ {Null} /\ h[k].left \in 0 .. k - 1
             /\ h[k].right \in 0 .. k - 1
  BY <1>1, <1>2, LiveFacts
<1>4. ASSUME NEW k \in K, k \in Live(g)
      PROVE  /\ g[k].left = h[k].left /\ g[k].right = h[k].right
             /\ g[k].left \in Live(g) \cup {Null} /\ g[k].right \in Live(g) \cup {Null}
  <2>1. Same(h[k], g[k])
    BY <1>3, <1>4, LiveFacts DEF Agree, Live
  <2>2. QED
    BY <1>4, <2>1, HeldFacts DEF Same
<1>5. ASSUME NEW j \in 0 .. N, \A i \in 0 .. j - 1 : i \in S PROVE j \in S
  <2> SUFFICES ASSUME NEW k \in K, k = N - j PROVE k \in Live(g)
    OBVIOUS
  <2>1. CASE E[k] > 0
    <3>1. F[k] > 0
      <4>1. k \in Nat \ {Null} /\ E[k] <= F[k] /\ E[k] \in Nat /\ F[k] \in Nat
        BY <1>2, <1>3
      <4>2. QED
        BY <2>1, <4>1
    <3>2. QED
      BY <1>3, <3>1, HeldFacts
  <2>2. CASE ~(E[k] > 0)
    <3>1. PICK p \in K : h[p].left = k \/ h[p].right = k
      BY <1>1, <2>2
    <3>2. k < p /\ p \in 1 .. N
      BY <1>3, <3>1
    <3>3. N - p \in 0 .. j - 1 /\ p = N - (N - p)
      BY <1>2, <3>2
    <3>4. p \in Live(g)
      BY <1>5, <3>3
    <3>5. QED
      BY <1>3, <1>4, <3>1, <3>4
  <2>3. QED
    BY <2>1, <2>2
<1>6. \A j \in 0 .. N : (\A i \in 0 .. j - 1 : i \in S) => j \in S
  BY <1>5
<1>7. \A j \in 0 .. N : j \in S
  <2> HIDE DEF S
  <2>1. QED
    BY <1>2, <1>6, FromBelow
<1>8. \A k \in K : k \in Live(g)
  <2> TAKE k \in K
  <2>1. N - k \in 0 .. N /\ k = N - (N - k)
    <3>1. k \in 1 .. N /\ N \in Nat
      BY <1>2, <1>3
    <3> HIDE DEF N
    <3>2. QED
      BY <3>1
  <2>2. QED
    BY <1>7, <2>1
<1>9. \A k \in K : F[k] > 0 \/ \E p \in K : g[p].left = k \/ g[p].right = k
  <2> TAKE k \in K
  <2>1. CASE E[k] > 0
    <3>1. k \in Nat \ {Null} /\ E[k] <= F[k] /\ E[k] \in Nat /\ F[k] \in Nat
      BY <1>2, <1>3
    <3>2. QED
      BY <2>1, <3>1
  <2>2. CASE ~(E[k] > 0)
    <3>1. PICK p \in K : h[p].left = k \/ h[p].right = k
      BY <1>1, <2>2
    <3>2. g[p].left = k \/ g[p].right = k
      BY <1>4, <1>8, <3>1
    <3>3. QED
      BY <3>2
  <2>3. QED
    BY <2>1, <2>2
<1>10. QED
  BY <1>1, <1>8, <1>9 DEF Safe

-----------------------------------------------------------------------------
(* What a function returns: node n of heap g, which has text t.              *)

Holds(g, n, t) == n \in Live(g) /\ Flat(g)[n] = t /\ g[n].len = Len(t) /\ Len(t) > 0

\* A text stays while its node does.
LEMMA HoldsOn ==
  ASSUME NEW h, NEW E, Held(h, E), NEW g, NEW F, Held(g, F), Agree(h, g),
         NEW n, NEW t, Holds(h, n, t), n \in Live(g)
  PROVE  Holds(g, n, t)
<1>1. h \in Heap /\ g \in Heap
  BY HeldFacts
<1>2. n \in 1 .. Len(h) /\ n \in 0 .. Len(h)
  BY <1>1, LiveFacts DEF Holds
<1>3. Flat(g)[n] = t
  BY <1>1, <1>2, SameTree DEF Holds
<1>4. Same(h[n], g[n])
  BY <1>1, <1>2, LiveFacts DEF Agree
<1>5. QED
  BY <1>3, <1>4 DEF Holds, Same

LEMMA HoldsText ==
  ASSUME NEW h, NEW E, Held(h, E), NEW n \in Live(h), h[n].len > 0
  PROVE  Holds(h, n, Flat(h)[n]) /\ Flat(h)[n] \in Seq(Char)
BY Lengths DEF Holds

\* A new parent holds both texts.
LEMMA JoinHolds ==
  ASSUME NEW h, NEW E, Held(h, E), NEW a, NEW b, NEW s, NEW t, Holds(h, a, s), Holds(h, b, t)
  PROVE  LET r == String_concat(h, a, b)
         IN  /\ Given(h, E, r) /\ Holds(r.heap, r.at, s \o t) /\ s \o t \in Seq(Char)
             /\ s \in Seq(Char) /\ t \in Seq(Char)
<1> DEFINE r == String_concat(h, a, b)
           g == r.heap
           at == r.at
<1>1. /\ a \in Live(h) /\ b \in Live(h) /\ h[a].len > 0 /\ h[b].len > 0
  BY DEF Holds
<1>2. /\ Given(h, E, r) /\ ~g[at].leaf /\ g[at].left = a /\ g[at].right = b
      /\ g[at].len = h[a].len + h[b].len
  BY <1>1, Joined
<1> HIDE DEF r
<1>3. Held(g, Plus(E, at)) /\ at \in Live(g) /\ Agree(h, g) /\ a \in Live(g) /\ b \in Live(g)
  BY <1>1, <1>2 DEF Given
<1>4. Holds(g, a, s) /\ Holds(g, b, t)
  BY <1>3, HoldsOn
<1>5. s \in Seq(Char) /\ t \in Seq(Char) /\ Len(s) > 0 /\ Len(t) > 0
  BY <1>1, HoldsText DEF Holds
<1>6. Flat(g)[at] = s \o t
  <2>1. Flat(g)[at] = Flat(g)[g[at].left] \o Flat(g)[g[at].right]
    BY <1>2, <1>3, Lengths
  <2>2. Flat(g)[a] = s /\ Flat(g)[b] = t
    BY <1>4 DEF Holds
  <2>3. QED
    BY <1>2, <2>1, <2>2
<1>7. /\ s \o t \in Seq(Char) /\ Len(s \o t) = Len(s) + Len(t)
      /\ Len(s) \in Nat /\ Len(t) \in Nat
  BY <1>5, ConcatProperties, LenProperties
<1>8. g[at].len = Len(s \o t) /\ Len(s \o t) > 0
  <2>1. g[at].len = Len(Flat(g)[at])
    BY <1>3, Lengths
  <2>2. QED
    BY <1>5, <1>6, <1>7, <2>1
<1>9. QED
  BY <1>2, <1>3, <1>5, <1>6, <1>7, <1>8 DEF Holds, r

\* String_concat, and the caller lets go of c, which it joined or does not need.
LEMMA JoinRelease ==
  ASSUME NEW h, NEW E, Held(h, E), NEW a, NEW b, NEW s, NEW t, Holds(h, a, s), Holds(h, b, t),
         NEW c \in Nat, E[c] > 0
  PROVE  LET r == String_concat(h, a, b)
             g == String_release(r.heap, c)
         IN  /\ Held(g, Plus(Minus(E, c), r.at)) /\ Agree(h, g)
             /\ r.at \in Nat \ {Null} /\ Holds(g, r.at, s \o t)
<1> DEFINE r == String_concat(h, a, b)
           g == String_release(r.heap, c)
           at == Len(h) + 1
           F == Plus(E, at)
<1>1. /\ Given(h, E, r) /\ Holds(r.heap, r.at, s \o t)
  BY JoinHolds
<1> HIDE DEF r
<1>2. /\ Held(r.heap, F) /\ Agree(h, r.heap) /\ r.at = at
  BY <1>1 DEF Given
<1>3. /\ at \in Nat \ {Null} /\ E[at] = 0 /\ E \in [Nat -> Nat] /\ h \in Heap
  BY NewIsFree, HeldFacts
<1> HIDE DEF at, F
<1>4. F \in [Nat -> Nat] /\ F[at] = E[at] + 1 /\ \A k \in Nat : k # at => F[k] = E[k]
  BY <1>3, PlusType DEF F
<1>5. c # at /\ F[c] > 0
  BY <1>3, <1>4
<1>6. Held(g, Minus(F, c)) /\ Agree(r.heap, g)
  BY <1>2, <1>5, Released
<1>7. /\ Minus(F, c)[c] = F[c] - 1 /\ \A k \in Nat : k # c => Minus(F, c)[k] = F[k]
  BY <1>4, <1>5, MinusType
<1> HIDE DEF g
<1>8. at \in Live(g)
  <2>1. Minus(F, c)[at] > 0
    BY <1>3, <1>4, <1>5, <1>7
  <2>2. QED
    BY <1>3, <1>6, <2>1, HeldFacts
<1>9. Held(g, Plus(Minus(E, c), at))
  <2>1. /\ Minus(E, c) \in [Nat -> Nat] /\ Minus(E, c)[c] = E[c] - 1
        /\ \A k \in Nat : k # c => Minus(E, c)[k] = E[k]
    BY <1>3, MinusType
  <2>2. /\ Plus(Minus(E, c), at) \in [Nat -> Nat] /\ Plus(Minus(E, c), at)[at] = Minus(E, c)[at] + 1
        /\ \A k \in Nat : k # at => Plus(Minus(E, c), at)[k] = Minus(E, c)[k]
    BY <1>3, <2>1, PlusType
  <2>3. \A k \in Nat \ {Null} : Plus(Minus(E, c), at)[k] <= Minus(F, c)[k]
    <3> TAKE k \in Nat \ {Null}
    <3>1. E[k] \in Nat
      BY <1>3
    <3>2. CASE k = c
      BY <1>4, <1>5, <1>7, <2>1, <2>2, <3>1, <3>2
    <3>3. CASE k # c
      BY <1>3, <1>4, <1>5, <1>7, <2>1, <2>2, <3>1, <3>3
    <3>4. QED
      BY <3>2, <3>3
  <2>4. QED
    BY <1>6, <2>2, <2>3, HeldLess
<1>10. Agree(h, g)
  <2>1. r.heap \in Heap /\ g \in Heap
    BY <1>2, <1>6, HeldFacts
  <2>2. QED
    BY <1>2, <1>3, <1>6, <2>1, AgreeTrans
<1>11. Holds(g, at, s \o t)
  BY <1>1, <1>2, <1>6, <1>8, HoldsOn
<1>12. QED
  BY <1>2, <1>3, <1>9, <1>10, <1>11 DEF g, r

\* One reference more and one less, in numbers.
LEMMA PlusIs ==
  ASSUME NEW E \in [Nat -> Nat], NEW n \in Nat
  PROVE  /\ Plus(E, n) \in [Nat -> Nat]
         /\ \A k \in Nat : E[k] \in Nat /\ Plus(E, n)[k] = IF k = n THEN E[k] + 1 ELSE E[k]
BY PlusType DEF Plus

\* Of two references the one to b is given up for one to c.
LEMMA Exchange ==
  ASSUME NEW E \in [Nat -> Nat], NEW a \in Nat, NEW b \in Nat, NEW c \in Nat,
         NEW D, D = Plus(Plus(E, a), b)
  PROVE  /\ D \in [Nat -> Nat] /\ D[a] > 0 /\ D[b] > 0
         /\ \A k \in Nat \ {Null} : E[k] <= D[k]
         /\ Plus(Plus(E, a), c) \in [Nat -> Nat]
         /\ Plus(Plus(E, a), c)[a] > 0 /\ Plus(Plus(E, a), c)[c] > 0
         /\ \A k \in Nat \ {Null} : Plus(Plus(E, a), c)[k] <= Plus(Minus(D, b), c)[k]
<1> DEFINE A == Plus(E, a)
           G == Plus(A, c)
<1>0. D = Plus(A, b)
  OBVIOUS
<1>1. A \in [Nat -> Nat] /\ \A k \in Nat : E[k] \in Nat /\ A[k] = IF k = a THEN E[k] + 1 ELSE E[k]
  BY PlusIs
<1> HIDE DEF A
<1>2. /\ D \in [Nat -> Nat]
      /\ \A k \in Nat : A[k] \in Nat /\ D[k] = IF k = b THEN A[k] + 1 ELSE A[k]
  <2>1. A \in [Nat -> Nat]
    BY <1>1
  <2>2. /\ Plus(A, b) \in [Nat -> Nat]
        /\ \A k \in Nat : A[k] \in Nat /\ Plus(A, b)[k] = IF k = b THEN A[k] + 1 ELSE A[k]
    BY <2>1, PlusIs, Zenon
  <2>3. QED
    BY <1>0, <2>2
<1>3. /\ G \in [Nat -> Nat] /\ \A k \in Nat : G[k] = IF k = c THEN A[k] + 1 ELSE A[k]
  BY <1>1, PlusIs, ZenonT(40)
<1>4. D[b] > 0 /\ D[a] > 0
  BY <1>1, <1>2
<1>5. /\ Minus(D, b) \in [Nat -> Nat] /\ \A k \in Nat : Minus(D, b)[k] = A[k]
  <2>1. /\ Minus(D, b) \in [Nat -> Nat] /\ Minus(D, b)[b] = D[b] - 1
        /\ \A k \in Nat : k # b => Minus(D, b)[k] = D[k]
    BY <1>2, <1>4, MinusType
  <2>2. QED
    BY <1>2, <2>1
<1>6. \A k \in Nat : Plus(Minus(D, b), c)[k] = IF k = c THEN A[k] + 1 ELSE A[k]
  <2> DEFINE B == Minus(D, b)
  <2>1. B \in [Nat -> Nat] /\ \A k \in Nat : B[k] = A[k]
    BY <1>5
  <2> HIDE DEF B
  <2>2. \A k \in Nat : Plus(B, c)[k] = IF k = c THEN B[k] + 1 ELSE B[k]
    BY <2>1, PlusIs, ZenonT(40)
  <2>3. QED
    BY <2>1, <2>2 DEF B
<1>7. \A k \in Nat \ {Null} : G[k] <= Plus(Minus(D, b), c)[k]
  <2> TAKE k \in Nat \ {Null}
  <2>1. G[k] = Plus(Minus(D, b), c)[k] /\ G[k] \in Nat
    BY <1>3, <1>6
  <2> HIDE DEF G
  <2>2. QED
    BY <2>1
<1>8. G[a] > 0 /\ G[c] > 0
  BY <1>1, <1>3
<1>9. \A k \in Nat \ {Null} : E[k] <= D[k]
  <2> TAKE k \in Nat \ {Null}
  <2>1. E[k] \in Nat /\ A[k] \in Nat /\ (A[k] = E[k] \/ A[k] = E[k] + 1)
    BY <1>1
  <2>2. D[k] = A[k] \/ D[k] = A[k] + 1
    BY <1>2
  <2>3. QED
    BY ONLY <2>1, <2>2
<1> HIDE DEF G
<1>10. QED
  BY <1>2, <1>3, <1>4, <1>7, <1>8, <1>9 DEF G, A

\* The order of two references is of no account, and those to Null are none.
LEMMA PlusSwap ==
  ASSUME NEW E \in [Nat -> Nat], NEW a \in Nat, NEW b \in Nat
  PROVE  /\ Plus(Plus(E, b), a) = Plus(Plus(E, a), b)
         /\ Plus(Plus(E, a), Null) \in [Nat -> Nat]
         /\ \A k \in Nat \ {Null} : /\ Plus(E, Null)[k] = E[k]
                                    /\ Plus(Plus(E, a), Null)[k] = Plus(E, a)[k]
<1>1. Null \in Nat
  BY DEF Null
<1>2. /\ Plus(E, a) \in [Nat -> Nat] /\ Plus(E, b) \in [Nat -> Nat]
      /\ \A k \in Nat : E[k] \in Nat /\ Plus(E, a)[k] = IF k = a THEN E[k] + 1 ELSE E[k]
      /\ \A k \in Nat : Plus(E, b)[k] = IF k = b THEN E[k] + 1 ELSE E[k]
      /\ \A k \in Nat : Plus(E, Null)[k] = IF k = Null THEN E[k] + 1 ELSE E[k]
  BY ONLY <1>1, E \in [Nat -> Nat], a \in Nat, b \in Nat, PlusIs
<1> DEFINE A == Plus(E, a)
           B == Plus(E, b)
<1> HIDE DEF A, B
<1>3. /\ A \in [Nat -> Nat] /\ B \in [Nat -> Nat]
      /\ \A k \in Nat : E[k] \in Nat /\ A[k] = (IF k = a THEN E[k] + 1 ELSE E[k])
      /\ \A k \in Nat : B[k] = IF k = b THEN E[k] + 1 ELSE E[k]
  BY <1>2 DEF A, B
<1>4. /\ Plus(A, b) \in [Nat -> Nat] /\ Plus(B, a) \in [Nat -> Nat] /\ Plus(A, Null) \in [Nat -> Nat]
      /\ \A k \in Nat : Plus(A, b)[k] = IF k = b THEN A[k] + 1 ELSE A[k]
      /\ \A k \in Nat : Plus(B, a)[k] = IF k = a THEN B[k] + 1 ELSE B[k]
      /\ \A k \in Nat : Plus(A, Null)[k] = IF k = Null THEN A[k] + 1 ELSE A[k]
  <2>1. Plus(A, b) \in [Nat -> Nat] /\ \A k \in Nat : Plus(A, b)[k] = IF k = b THEN A[k] + 1 ELSE A[k]
    BY <1>3, PlusIs, ZenonT(40)
  <2>2. Plus(B, a) \in [Nat -> Nat] /\ \A k \in Nat : Plus(B, a)[k] = IF k = a THEN B[k] + 1 ELSE B[k]
    BY <1>3, PlusIs, ZenonT(40)
  <2>3. /\ Plus(A, Null) \in [Nat -> Nat]
        /\ \A k \in Nat : Plus(A, Null)[k] = IF k = Null THEN A[k] + 1 ELSE A[k]
    <3> DEFINE z == Null
    <3>1. z \in Nat /\ A \in [Nat -> Nat]
      BY <1>1, <1>3
    <3> HIDE DEF z
    <3>2. /\ Plus(A, z) \in [Nat -> Nat]
          /\ \A k \in Nat : Plus(A, z)[k] = IF k = z THEN A[k] + 1 ELSE A[k]
      BY ONLY <3>1, PlusIs
    <3>3. QED
      BY <3>2 DEF z
  <2>4. QED
    BY <2>1, <2>2, <2>3
<1>5. Plus(B, a) = Plus(A, b)
  <2> DEFINE f == Plus(B, a)
             g == Plus(A, b)
  <2>1. \A k \in Nat : f[k] = g[k]
    <3> TAKE k \in Nat
    <3>1. /\ f[k] = (IF k = a THEN B[k] + 1 ELSE B[k]) /\ g[k] = (IF k = b THEN A[k] + 1 ELSE A[k])
          /\ A[k] = (IF k = a THEN E[k] + 1 ELSE E[k]) /\ B[k] = (IF k = b THEN E[k] + 1 ELSE E[k])
          /\ E[k] \in Nat
      BY <1>3, <1>4
    <3> HIDE DEF f, g
    <3>2. QED
      BY <3>1
  <2>2. f \in [Nat -> Nat] /\ g \in [Nat -> Nat]
    BY <1>4
  <2> HIDE DEF f, g
  <2>3. f = g
    BY <2>1, <2>2
  <2>4. QED
    BY <2>3 DEF f, g
<1>6. \A k \in Nat \ {Null} : Plus(E, Null)[k] = E[k] /\ Plus(A, Null)[k] = A[k]
  BY <1>2, <1>4
<1>7. QED
  BY <1>4, <1>5, <1>6 DEF A, B

-----------------------------------------------------------------------------
(* Splitting. *)

\* The step at node m, where a part of the left side is low and one of the right
\* side is high.
SplitStep(low, high, m, g, i) ==
  IF m = Null THEN [heap |-> g, left |-> Null, right |-> Null]
  ELSE IF g[m].leaf THEN
    IF i <= 0 THEN [heap |-> String_retain(g, m), left |-> Null, right |-> m]
    ELSE IF i >= g[m].len THEN [heap |-> String_retain(g, m), left |-> m, right |-> Null]
    ELSE LET first == String_make_leaf(g, SubSeq(g[m].str, 1, i))
             rest == String_make_leaf(first.heap, SubSeq(g[m].str, i + 1, g[m].len))
         IN  [heap |-> rest.heap, left |-> first.at, right |-> rest.at]
  ELSE IF i < g[m].weight THEN
    LET rest == String_concat(low.heap, low.right, g[m].right)
    IN  [heap |-> String_release(rest.heap, low.right), left |-> low.left, right |-> rest.at]
  ELSE
    LET first == String_concat(high.heap, g[m].left, high.left)
    IN  [heap |-> String_release(first.heap, high.left), left |-> first.at, right |-> high.right]

SplitNode(split, m, g, i) ==
  SplitStep(split[g[m].left][g][i], split[g[m].right][g][i - g[m].weight], m, g, i)

SplitBody(split, m) == [g \in With(m) |-> [i \in Nat |-> SplitNode(split, m, g, i)]]

LEMMA SplitLocal ==
  ASSUME NEW m \in Nat, NEW f, NEW g, \A k \in 0 .. m - 1 : f[k] = g[k]
  PROVE  SplitBody(f, m) = SplitBody(g, m)
<1>1. \A h \in With(m), i \in Nat : SplitNode(f, m, h, i) = SplitNode(g, m, h, i)
  <2> TAKE h \in With(m), i \in Nat
  <2>1. CASE m = Null
    BY <2>1 DEF SplitNode, SplitStep
  <2>2. CASE m # Null
    <3>1. h \in Heap /\ m \in Live(h)
      BY <2>2, HeapFacts DEF With, Usable, Live
    <3>2. f[h[m].left] = g[h[m].left] /\ f[h[m].right] = g[h[m].right]
      BY <3>1, HeapFacts
    <3>3. QED
      BY <3>2, Zenon DEF SplitNode
  <2>3. QED
    BY <2>1, <2>2
<1>2. QED
  BY <1>1, Zenon DEF SplitBody

LEMMA SplitSteps ==
  ASSUME NEW n \in Nat
  PROVE  \E f : /\ f = [m \in 0 .. n |-> SplitBody(f, m)]
                /\ \A h, i : String_split(h, n, i) = f[n][h][i]
<1> DEFINE Is(f, k) == f = [m \in 0 .. k |-> SplitBody(f, m)]
           S == {k \in 0 .. n : \E f : Is(f, k)}
<1>1. ASSUME NEW k \in 0 .. n, \A j \in 0 .. k - 1 : j \in S
      PROVE  k \in S
  <2>1. PICK f : \A m \in 0 .. k - 1 : f[m] = SplitBody(f, m)
    <3>1. CASE k = 0
      BY <3>1
    <3>2. CASE k # 0
      <4>1. k - 1 \in S /\ k - 1 \in 0 .. k - 1
        BY <1>1, <3>2
      <4>2. PICK f : Is(f, k - 1)
        BY <4>1
      <4>3. QED
        BY <4>2, Zenon
    <3>3. QED
      BY <3>1, <3>2
  <2> DEFINE g == [m \in 0 .. k |-> SplitBody(f, m)]
  <2>2. \A m \in 0 .. k - 1 : g[m] = f[m]
    BY <2>1
  <2>3. \A m \in 0 .. k : SplitBody(f, m) = SplitBody(g, m)
    <3> TAKE m \in 0 .. k
    <3> HIDE DEF g
    <3>1. \A j \in 0 .. m - 1 : f[j] = g[j]
      BY <2>2
    <3>2. m \in Nat
      OBVIOUS
    <3>3. QED
      BY <3>1, <3>2, SplitLocal
  <2>4. Is(g, k)
    BY <2>3, Zenon
  <2> HIDE DEF g, Is
  <2>5. QED
    BY <2>4
<1>2. n \in S
  <2>1. \A m \in 0 .. n : (\A k \in 0 .. m - 1 : k \in S) => m \in S
    BY <1>1
  <2> HIDE DEF S
  <2>2. QED
    BY <2>1, FromBelow
<1>3. \E f : Is(f, n)
  BY <1>2
<1> DEFINE r == CHOOSE f : Is(f, n)
<1>4. \A h, i : String_split(h, n, i) = r[n][h][i]
  BY Zenon DEF String_split, SplitBody, SplitNode, SplitStep
<1>5. Is(r, n)
  <2> HIDE DEF Is
  <2> QED
    BY <1>3, Zenon
<1>6. QED
  BY <1>4, <1>5, Zenon

\* The two parts of node m, each counted for the caller.
Halves(g, E, m, i, r) ==
  /\ Held(r.heap, Plus(Plus(E, r.left), r.right)) /\ Agree(g, r.heap)
  /\ r.left \in Nat /\ r.right \in Nat
  /\ IF i = 0 THEN r.left = Null ELSE Holds(r.heap, r.left, Part(Flat(g)[m], 0, i))
  /\ IF i = g[m].len THEN r.right = Null
     ELSE Holds(r.heap, r.right, Part(Flat(g)[m], i, g[m].len))

Splits(split, m) ==
  \A g, E, i : Held(g, E) /\ Safe(g, E, m) /\ g[m].len > 0 /\ i \in 0 .. g[m].len
                 => Halves(g, E, m, i, split[m][g][i])

LEMMA SplitLeaf ==
  ASSUME NEW split, NEW m, NEW g, NEW E, Held(g, E), m \in Live(g), g[m].leaf,
         NEW i \in 0 .. g[m].len
  PROVE  Halves(g, E, m, i, SplitBody(split, m)[g][i])
<1> DEFINE t == Flat(g)[m]
           r == SplitBody(split, m)[g][i]
           kept == String_retain(g, m)
           first == String_make_leaf(g, SubSeq(g[m].str, 1, i))
           rest == String_make_leaf(first.heap, SubSeq(g[m].str, i + 1, g[m].len))
<1>1. /\ g \in Heap /\ E \in [Nat -> Nat] /\ m \in Nat /\ m # Null /\ g[m].len \in Nat
      /\ g[m].str = t /\ t \in Seq(Char) /\ g[m].len = Len(t) /\ Len(t) \in 1 .. MAX_SIZE_LEAF
  <2>1. g \in Heap /\ E \in [Nat -> Nat] /\ Formed(g, Live(g), m)
    BY HeldFacts
  <2>2. m \in Nat /\ m # Null /\ g[m].len \in Nat
    BY <2>1, LiveFacts
  <2>3. /\ g[m].str = t /\ t \in Seq(Char) /\ g[m].len = Len(t)
    BY Lengths
  <2>4. QED
    BY <2>1, <2>2, <2>3 DEF Formed
<1>2. r = IF i <= 0 THEN [heap |-> kept, left |-> Null, right |-> m]
          ELSE IF i >= g[m].len THEN [heap |-> kept, left |-> m, right |-> Null]
          ELSE [heap |-> rest.heap, left |-> first.at, right |-> rest.at]
  <2>1. g \in With(m)
    BY <1>1, HeapFacts DEF With, Usable, Live
  <2>2. i \in Nat
    BY <1>1
  <2>3. r = SplitNode(split, m, g, i)
    BY <2>1, <2>2, Zenon DEF SplitBody
  <2> HIDE DEF r
  <2>4. QED
    BY <1>1, <2>3, Zenon DEF SplitNode, SplitStep
<1> HIDE DEF t, r
<1>3. /\ Held(kept, Plus(E, m)) /\ Agree(g, kept) /\ Live(kept) = Live(g)
  BY Retained
<1>4. Holds(kept, m, t)
  <2>1. Holds(g, m, t)
    BY <1>1 DEF Holds, t
  <2>2. QED
    BY <1>3, <2>1, HoldsOn
<1>5. CASE i = 0
  <2>1. r = [heap |-> kept, left |-> Null, right |-> m]
    BY <1>2, <1>5
  <2>2. Held(kept, Plus(Plus(E, Null), m))
    <3>1. Null \in Nat
      BY DEF Null
    <3>2. /\ Plus(Plus(E, Null), m) = Plus(Plus(E, m), Null)
          /\ Plus(Plus(E, m), Null) \in [Nat -> Nat] /\ Plus(E, m) \in [Nat -> Nat]
          /\ \A k \in Nat \ {Null} : Plus(Plus(E, m), Null)[k] = Plus(E, m)[k]
      <4>1. Plus(E, m) \in [Nat -> Nat]
        BY <1>1, PlusIs
      <4>2. QED
        BY <1>1, <3>1, <4>1, PlusSwap, Zenon
    <3>3. \A k \in Nat \ {Null} : Plus(Plus(E, m), Null)[k] <= Plus(E, m)[k]
      BY <3>2
    <3>4. QED
      BY <1>3, <3>2, <3>3, HeldLess
  <2>3. Part(t, 0, Len(t)) = t
    BY <1>1, PartAll
  <2>4. Null \in Nat /\ i # g[m].len
    BY <1>1, <1>5 DEF Null
  <2> HIDE DEF kept
  <2>5. QED
    BY <1>1, <1>3, <1>4, <1>5, <2>1, <2>2, <2>3, <2>4 DEF Halves, r, t
<1>6. CASE i = g[m].len
  <2>1. r = [heap |-> kept, left |-> m, right |-> Null]
    BY <1>1, <1>2, <1>6
  <2>2. Held(kept, Plus(Plus(E, m), Null))
    <3>1. /\ Plus(Plus(E, m), Null) \in [Nat -> Nat] /\ Plus(E, m) \in [Nat -> Nat]
          /\ \A k \in Nat \ {Null} : Plus(Plus(E, m), Null)[k] = Plus(E, m)[k]
      <4>1. Plus(E, m) \in [Nat -> Nat]
        BY <1>1, PlusIs
      <4>2. QED
        BY <1>1, <4>1, PlusSwap, Zenon
    <3>2. \A k \in Nat \ {Null} : Plus(Plus(E, m), Null)[k] <= Plus(E, m)[k]
      BY <3>1
    <3>3. QED
      BY <1>3, <3>1, <3>2, HeldLess
  <2>3. Part(t, 0, Len(t)) = t
    BY <1>1, PartAll
  <2>4. Null \in Nat /\ i # 0
    BY <1>1, <1>6 DEF Null
  <2> HIDE DEF kept
  <2>5. QED
    BY <1>1, <1>3, <1>4, <1>6, <2>1, <2>2, <2>3, <2>4 DEF Halves, r, t
<1>7. CASE i # 0 /\ i # g[m].len
  <2> DEFINE a == Part(t, 0, i)
             b == Part(t, i, g[m].len)
             D == Plus(E, first.at)
  <2>1. r = [heap |-> rest.heap, left |-> first.at, right |-> rest.at]
    <3>1. i \in Nat /\ ~(i <= 0) /\ ~(i >= g[m].len)
      BY <1>1, <1>7
    <3>2. QED
      BY <1>2, <3>1
  <2>2. /\ a \in Seq(Char) /\ Len(a) = i - 0 /\ Len(a) \in 1 .. MAX_SIZE_LEAF
        /\ b \in Seq(Char) /\ Len(b) = g[m].len - i /\ Len(b) \in 1 .. MAX_SIZE_LEAF
    <3>1. i \in Nat /\ i <= Len(t) /\ 0 <= i /\ 0 \in Nat /\ g[m].len <= Len(t) /\ i <= g[m].len
      BY <1>1
    <3>2. a \in Seq(Char) /\ Len(a) = i - 0
      BY <1>1, <3>1, PartFacts
    <3>3. b \in Seq(Char) /\ Len(b) = g[m].len - i
      <4> DEFINE n == g[m].len
      <4>1. n \in Nat /\ n <= Len(t) /\ i <= n /\ i \in Nat /\ t \in Seq(Char)
        BY <1>1
      <4> HIDE DEF n
      <4>2. Part(t, i, n) \in Seq(Char) /\ Len(Part(t, i, n)) = n - i
        BY <4>1, PartFacts
      <4>3. QED
        BY <4>2 DEF n
    <3> HIDE DEF a, b
    <3>4. i - 0 \in 1 .. MAX_SIZE_LEAF /\ g[m].len - i \in 1 .. MAX_SIZE_LEAF
      <4> DEFINE n == g[m].len
      <4>1. n \in 1 .. MAX_SIZE_LEAF /\ i \in 0 .. n /\ i # 0 /\ i # n
        BY <1>1, <1>7
      <4>2. MAX_SIZE_LEAF \in Nat
        BY Sizes
      <4> HIDE DEF n
      <4>3. i - 0 \in 1 .. MAX_SIZE_LEAF /\ n - i \in 1 .. MAX_SIZE_LEAF
        BY <4>1, <4>2
      <4>4. QED
        BY <4>3 DEF n
    <3>5. QED
      BY <3>2, <3>3, <3>4
  <2>3. first = String_make_leaf(g, a) /\ rest = String_make_leaf(first.heap, b)
    BY <1>1 DEF Part
  <2> HIDE DEF a, b, first, rest
  <2>4. /\ Given(g, E, first) /\ first.heap[first.at].leaf /\ first.heap[first.at].str = a
        /\ first.heap[first.at].len = Len(a)
    <3>1. /\ Given(g, E, String_make_leaf(g, a))
          /\ String_make_leaf(g, a).heap[Len(g) + 1].leaf
          /\ String_make_leaf(g, a).heap[Len(g) + 1].str = a
          /\ String_make_leaf(g, a).heap[Len(g) + 1].len = Len(a)
      BY <2>2, LeafMade
    <3>2. QED
      BY <2>3, <3>1 DEF Given
  <2>5. Held(first.heap, D) /\ Agree(g, first.heap) /\ first.at \in Live(first.heap)
    BY <2>4 DEF Given
  <2>6. /\ Given(first.heap, D, rest) /\ rest.heap[rest.at].leaf /\ rest.heap[rest.at].str = b
        /\ rest.heap[rest.at].len = Len(b)
    <3> DEFINE f == first.heap
    <3> HIDE DEF D
    <3>0. Held(f, D)
      BY <2>5
    <3> HIDE DEF f
    <3>1. /\ Given(f, D, String_make_leaf(f, b))
          /\ String_make_leaf(f, b).heap[Len(f) + 1].leaf
          /\ String_make_leaf(f, b).heap[Len(f) + 1].str = b
          /\ String_make_leaf(f, b).heap[Len(f) + 1].len = Len(b)
      BY <2>2, <3>0, LeafMade
    <3>2. rest = String_make_leaf(f, b)
      BY <2>3 DEF f
    <3>3. Given(f, D, rest) /\ rest.at = Len(f) + 1
      BY <3>1, <3>2 DEF Given
    <3>4. QED
      BY <3>1, <3>2, <3>3 DEF f
  <2>7. /\ Held(rest.heap, Plus(D, rest.at)) /\ Agree(first.heap, rest.heap)
        /\ rest.at \in Live(rest.heap) /\ first.at \in Live(rest.heap)
    BY <2>5, <2>6 DEF Given
  <2>8. Holds(first.heap, first.at, a) /\ Holds(rest.heap, rest.at, b)
    <3>1. Flat(first.heap)[first.at] = a
      BY <2>4, <2>5, Lengths
    <3>2. Flat(rest.heap)[rest.at] = b
      BY <2>6, <2>7, Lengths
    <3>3. QED
      BY <2>2, <2>4, <2>5, <2>6, <2>7, <3>1, <3>2 DEF Holds
  <2>9. Holds(rest.heap, first.at, a)
    BY <2>5, <2>7, <2>8, HoldsOn
  <2>10. Agree(g, rest.heap) /\ first.at \in Nat /\ rest.at \in Nat
    <3>1. first.heap \in Heap /\ rest.heap \in Heap
      BY <2>5, <2>7, HeldFacts
    <3>2. Agree(g, rest.heap)
      BY <1>1, <2>5, <2>7, <3>1, AgreeTrans
    <3>3. QED
      BY <2>5, <2>7, <3>1, <3>2, LiveFacts
  <2>11. QED
    BY <1>7, <2>1, <2>7, <2>8, <2>9, <2>10 DEF Halves, r, t, a, b
<1>8. QED
  BY <1>5, <1>6, <1>7 DEF r

\* What a parent of two that are not empty has.
Parent(g, E, m) ==
  /\ m \in Live(g) /\ m \in Nat \ {Null}
  /\ g[m].left \in 0 .. m - 1 /\ g[m].right \in 0 .. m - 1
  /\ Safe(g, E, g[m].left) /\ Safe(g, E, g[m].right)
  /\ g[m].weight = g[g[m].left].len
  /\ g[m].len = g[g[m].left].len + g[g[m].right].len
  /\ Holds(g, g[m].left, Flat(g)[g[m].left]) /\ Holds(g, g[m].right, Flat(g)[g[m].right])
  /\ Flat(g)[g[m].left] \in Seq(Char) /\ Flat(g)[g[m].right] \in Seq(Char)
  /\ Flat(g)[m] = Flat(g)[g[m].left] \o Flat(g)[g[m].right]

LEMMA ParentFacts ==
  ASSUME NEW g, NEW E, Held(g, E), NEW m, Safe(g, E, m), ~g[m].leaf, g[m].len > 0
  PROVE  Parent(g, E, m)
<1>1. m \in Live(g) /\ Formed(g, Live(g), m) /\ g \in Heap
  BY HeldFacts DEF Safe
<1>2. m \in Nat \ {Null} /\ g[m].left \in 0 .. m - 1 /\ g[m].right \in 0 .. m - 1
  BY <1>1, LiveFacts
<1>3. /\ g[m].left \in Live(g) /\ g[m].right \in Live(g)
      /\ g[g[m].left].len > 0 /\ g[g[m].right].len > 0
      /\ g[m].weight = g[g[m].left].len
      /\ g[m].len = g[g[m].left].len + g[g[m].right].len
  BY <1>1 DEF Formed
<1>4. g[m].left # Null /\ g[m].right # Null
  BY <1>1, <1>3, LiveFacts
<1>5. Safe(g, E, g[m].left) /\ Safe(g, E, g[m].right)
  BY <1>4, SafeChild
<1>6. /\ Holds(g, g[m].left, Flat(g)[g[m].left]) /\ Holds(g, g[m].right, Flat(g)[g[m].right])
      /\ Flat(g)[g[m].left] \in Seq(Char) /\ Flat(g)[g[m].right] \in Seq(Char)
  BY <1>3, HoldsText
<1>7. Flat(g)[m] = Flat(g)[g[m].left] \o Flat(g)[g[m].right]
  BY <1>1, Lengths
<1>8. QED
  BY <1>1, <1>2, <1>3, <1>5, <1>6, <1>7 DEF Parent

LEMMA SplitLow ==
  ASSUME NEW m, NEW g, NEW E, Held(g, E), Safe(g, E, m), ~g[m].leaf, g[m].len > 0,
         NEW i \in 0 .. g[m].len, i < g[m].weight, NEW high,
         NEW low, Halves(g, E, g[m].left, i, low)
  PROVE  Halves(g, E, m, i, SplitStep(low, high, m, g, i))
<1> DEFINE left == g[m].left
           right == g[m].right
           s == Flat(g)[left]
           t == Flat(g)[right]
           n == g[left].len
           l == g[m].len
           joined == String_concat(low.heap, low.right, right)
           done == String_release(joined.heap, low.right)
           D == Plus(Plus(E, low.left), low.right)
           F == Plus(Minus(D, low.right), joined.at)
           G == Plus(Plus(E, low.left), joined.at)
           r == SplitStep(low, high, m, g, i)
<1>1. /\ m \in Live(g) /\ m \in Nat \ {Null} /\ Safe(g, E, right)
      /\ g[m].weight = n /\ l = n + g[right].len
      /\ Holds(g, left, s) /\ Holds(g, right, t)
      /\ s \in Seq(Char) /\ t \in Seq(Char) /\ Flat(g)[m] = s \o t
  <2>1. Parent(g, E, m)
    BY ParentFacts
  <2>2. QED
    BY <2>1 DEF Parent
<1>2. /\ n = Len(s) /\ g[right].len = Len(t) /\ Len(s) \in Nat /\ Len(t) \in Nat
      /\ l = Len(s) + Len(t) /\ i \in Nat /\ i < Len(s) /\ i # l
      /\ l \in Nat /\ Len(s) <= l /\ l <= Len(s) + Len(t) /\ l - Len(s) = Len(t)
  <2>1. n = Len(s) /\ g[right].len = Len(t) /\ Len(s) \in Nat /\ Len(t) \in Nat
    BY <1>1, LenProperties DEF Holds
  <2>2. l = Len(s) + Len(t) /\ i \in Nat /\ i < Len(s)
    BY <1>1, <2>1
  <2> HIDE DEF l, s, t
  <2>3. QED
    BY <2>1, <2>2
<1>3. r = [heap |-> done, left |-> low.left, right |-> joined.at]
  BY <1>1 DEF SplitStep
<1>4. /\ Held(low.heap, D) /\ Agree(g, low.heap) /\ low.left \in Nat /\ low.right \in Nat
      /\ IF i = 0 THEN low.left = Null ELSE Holds(low.heap, low.left, Part(s, 0, i))
      /\ Holds(low.heap, low.right, Part(s, i, n))
  BY <1>2 DEF Halves
<1>5. g \in Heap /\ low.heap \in Heap /\ E \in [Nat -> Nat] /\ D \in [Nat -> Nat]
  BY <1>4, HeldFacts
<1>6. D[low.right] > 0 /\ \A k \in Nat \ {Null} : E[k] <= D[k]
  BY <1>4, <1>5, Exchange
<1> HIDE DEF D
<1>9. Holds(low.heap, right, t)
  <2>1. right \in Live(low.heap)
    BY <1>1, <1>4, <1>6, SafeStays
  <2>2. QED
    BY <1>1, <1>4, <2>1, HoldsOn
<1>10. /\ Held(done, F) /\ Agree(low.heap, done) /\ joined.at \in Nat \ {Null}
       /\ Holds(done, joined.at, Part(s, i, n) \o t)
  BY <1>4, <1>6, <1>9, JoinRelease
<1> DEFINE at == joined.at
<1> HIDE DEF joined, done, at
<1>11. Held(done, G) /\ (low.left # Null => low.left \in Live(done))
  <2>1. at \in Nat
    BY <1>10 DEF at
  <2>2. /\ Plus(Plus(E, low.left), at) \in [Nat -> Nat] /\ Plus(Plus(E, low.left), at)[low.left] > 0
        /\ \A k \in Nat \ {Null} :
             Plus(Plus(E, low.left), at)[k] <= Plus(Minus(D, low.right), at)[k]
    BY <1>4, <1>5, <2>1, Exchange DEF D
  <2>3. Held(done, G)
    BY <1>10, <2>2, HeldLess DEF at
  <2>4. G[low.left] > 0
    BY <2>2 DEF at
  <2> HIDE DEF G
  <2>5. QED
    BY <1>4, <2>3, <2>4, HeldFacts
<1>12. Agree(g, done)
  <2>1. done \in Heap
    BY <1>10, HeldFacts
  <2>2. QED
    BY <1>4, <1>5, <1>10, <2>1, AgreeTrans
<1>13. Part(Flat(g)[m], 0, i) = Part(s, 0, i)
  <2>1. 0 \in Nat /\ 0 <= i /\ i <= Len(s)
    BY <1>2
  <2>2. QED
    BY <1>1, <1>2, <2>1, CatFront
<1>14. Part(Flat(g)[m], i, l) = Part(s, i, n) \o t
  <2>1. i <= Len(s)
    BY <1>2
  <2>2. Part(s \o t, i, l) = Part(s, i, Len(s)) \o Part(t, 0, l - Len(s))
    <3> HIDE DEF l, s, t
    <3>1. QED
      BY <1>1, <1>2, <2>1, CatAcross, SMTT(20)
  <2>3. Part(t, 0, Len(t)) = t
    BY <1>1, PartAll
  <2>4. QED
    BY <1>1, <1>2, <2>2, <2>3
<1>15. i # 0 => Holds(done, low.left, Part(s, 0, i))
  <2> HAVE i # 0
  <2>1. Holds(low.heap, low.left, Part(s, 0, i)) /\ low.left # Null
    <3>1. Holds(low.heap, low.left, Part(s, 0, i))
      BY <1>4
    <3>2. QED
      BY <1>5, <3>1, LiveFacts DEF Holds
  <2>2. Held(done, G) /\ low.left \in Live(done)
    BY <1>11, <2>1
  <2> HIDE DEF G
  <2>3. QED
    BY <1>4, <1>10, <2>1, <2>2, HoldsOn
<1> HIDE DEF r
<1>16. /\ r.heap = done /\ r.left = low.left /\ r.right = at
  BY <1>3 DEF at
<1>17. /\ Held(r.heap, Plus(Plus(E, r.left), r.right)) /\ Agree(g, r.heap)
       /\ r.left \in Nat /\ r.right \in Nat
  BY <1>4, <1>10, <1>11, <1>12, <1>16 DEF at
<1>18. IF i = 0 THEN r.left = Null ELSE Holds(r.heap, r.left, Part(Flat(g)[m], 0, i))
  BY <1>4, <1>13, <1>15, <1>16
<1>19. IF i = l THEN r.right = Null ELSE Holds(r.heap, r.right, Part(Flat(g)[m], i, l))
  BY <1>2, <1>10, <1>14, <1>16 DEF at
<1>20. QED
  BY <1>17, <1>18, <1>19 DEF Halves, r

\* Without a second side, the first is counted once more.
LEMMA JoinOne ==
  ASSUME NEW h, NEW E, Held(h, E), NEW a \in Live(h), NEW x, x = Null
  PROVE  LET r == String_concat(h, a, x)
             g == String_release(r.heap, x)
         IN  E[Null] > 0 => /\ Held(g, Plus(Minus(E, Null), a)) /\ Agree(h, g) /\ r.at = a
                            /\ a \in Live(g)
<1> DEFINE r == String_concat(h, a, x)
           kept == String_retain(h, a)
           g == String_release(kept, Null)
<1>1. /\ h \in Heap /\ E \in [Nat -> Nat] /\ a \in Nat \ {Null} /\ Null \in Nat
  BY HeldFacts, LiveFacts DEF Null
<1>2. r = [heap |-> kept, at |-> a]
  BY <1>1 DEF String_concat
<1>3. SUFFICES ASSUME E[Null] > 0
               PROVE  Held(g, Plus(Minus(E, Null), a)) /\ Agree(h, g) /\ a \in Live(g)
  BY <1>2
<1>4. Held(kept, Plus(E, a)) /\ Agree(h, kept)
  BY Retained
<1>5. /\ Plus(E, a) \in [Nat -> Nat]
      /\ \A k \in Nat : E[k] \in Nat /\ Plus(E, a)[k] = IF k = a THEN E[k] + 1 ELSE E[k]
  BY <1>1, PlusIs
<1>6. Plus(E, a)[Null] > 0
  BY <1>1, <1>3, <1>5
<1> HIDE DEF kept
<1>7. Held(g, Minus(Plus(E, a), Null)) /\ Agree(kept, g)
  BY <1>1, <1>4, <1>6, Released
<1>8. /\ Minus(E, Null) \in [Nat -> Nat] /\ \A k \in Nat : k # Null => Minus(E, Null)[k] = E[k]
  BY <1>1, <1>3, MinusType
<1>9. \A k \in Nat : k # Null => Minus(Plus(E, a), Null)[k] = Plus(E, a)[k]
  <2> DEFINE A == Plus(E, a)
  <2>1. A \in [Nat -> Nat] /\ A[Null] > 0
    BY <1>5, <1>6
  <2> HIDE DEF A
  <2>2. \A k \in Nat : k # Null => Minus(A, Null)[k] = A[k]
    BY <1>1, <2>1, MinusType
  <2>3. QED
    BY <2>2 DEF A
<1>10. /\ Plus(Minus(E, Null), a) \in [Nat -> Nat]
       /\ \A k \in Nat \ {Null} : Plus(Minus(E, Null), a)[k] = Plus(E, a)[k]
  <2> DEFINE B == Minus(E, Null)
  <2>1. B \in [Nat -> Nat] /\ \A k \in Nat : k # Null => B[k] = E[k]
    BY <1>8
  <2> HIDE DEF B
  <2>2. /\ Plus(B, a) \in [Nat -> Nat]
        /\ \A k \in Nat : B[k] \in Nat /\ Plus(B, a)[k] = IF k = a THEN B[k] + 1 ELSE B[k]
    BY <1>1, <2>1, PlusIs
  <2>3. \A k \in Nat \ {Null} : Plus(B, a)[k] = Plus(E, a)[k]
    BY <1>5, <2>1, <2>2
  <2>4. QED
    BY <2>2, <2>3 DEF B
<1>11. \A k \in Nat \ {Null} : Plus(Minus(E, Null), a)[k] <= Minus(Plus(E, a), Null)[k]
  <2> TAKE k \in Nat \ {Null}
  <2>1. /\ Plus(Minus(E, Null), a)[k] = Plus(E, a)[k]
        /\ Minus(Plus(E, a), Null)[k] = Plus(E, a)[k] /\ Plus(E, a)[k] \in Nat
    BY <1>5, <1>9, <1>10
  <2>2. QED
    BY <2>1
<1>12. Held(g, Plus(Minus(E, Null), a))
  BY <1>7, <1>10, <1>11, HeldLess
<1>13. a \in Live(g)
  <2>1. Plus(Minus(E, Null), a)[a] > 0
    BY <1>1, <1>5, <1>10
  <2>2. QED
    BY <1>1, <1>12, <2>1, HeldFacts
<1>14. Agree(h, g)
  <2>1. kept \in Heap /\ g \in Heap
    BY <1>4, <1>7, HeldFacts
  <2>2. QED
    BY <1>1, <1>4, <1>7, <2>1, AgreeTrans
<1>15. QED
  BY <1>12, <1>13, <1>14

\* Where a cut at i falls in the second of two.
LEMMA CatCut ==
  ASSUME NEW S, NEW s \in Seq(S), NEW t \in Seq(S), NEW i \in Nat, Len(s) <= i,
         i <= Len(s) + Len(t), NEW j, j = i - Len(s), NEW l, l = Len(s) + Len(t)
  PROVE  /\ Part(s \o t, 0, i) = s \o Part(t, 0, j)
         /\ Part(s \o t, i, l) = Part(t, j, Len(t))
         /\ i = Len(s) => Part(s \o t, 0, i) = s
<1> DEFINE a == Len(s)
           b == Len(t)
<1>1. /\ a \in Nat /\ b \in Nat /\ 0 \in Nat /\ l \in Nat /\ j \in Nat
      /\ 0 <= a /\ a <= a /\ a <= i /\ i <= a + b /\ i <= l /\ l <= a + b
      /\ j = i - a /\ b = l - a
  <2>1. a \in Nat /\ b \in Nat /\ a <= i /\ i <= a + b /\ j = i - a /\ l = a + b
    BY LenProperties
  <2> HIDE DEF a, b
  <2>2. QED
    BY <2>1
<1>2. Part(s, 0, a) = s
  BY PartAll
<1>3. Part(s \o t, 0, i) = Part(s, 0, a) \o Part(t, 0, i - a)
  BY <1>1, CatAcross
<1>4. Part(s \o t, i, l) = Part(t, i - a, l - a)
  BY <1>1, CatBack
<1>5. Part(s \o t, 0, a) = Part(s, 0, a)
  BY <1>1, CatFront
<1> HIDE DEF a, b
<1>6. QED
  BY <1>1, <1>2, <1>3, <1>4, <1>5 DEF a, b

LEMMA SplitHigh ==
  ASSUME NEW m, NEW g, NEW E, Held(g, E), Safe(g, E, m), ~g[m].leaf, g[m].len > 0,
         NEW i \in 0 .. g[m].len, ~(i < g[m].weight), NEW low,
         NEW high, Halves(g, E, g[m].right, i - g[m].weight, high)
  PROVE  Halves(g, E, m, i, SplitStep(low, high, m, g, i))
<1> DEFINE left == g[m].left
           right == g[m].right
           s == Flat(g)[left]
           t == Flat(g)[right]
           n == g[left].len
           l == g[m].len
           j == i - n
           joined == String_concat(high.heap, left, high.left)
           done == String_release(joined.heap, high.left)
           D == Plus(Plus(E, high.left), high.right)
           at == joined.at
           F == Plus(Minus(D, high.left), at)
           G == Plus(Plus(E, at), high.right)
           r == SplitStep(low, high, m, g, i)
<1>1. /\ m \in Live(g) /\ m \in Nat \ {Null} /\ Safe(g, E, left)
      /\ g[m].weight = n /\ l = n + g[right].len
      /\ Holds(g, left, s) /\ Holds(g, right, t)
      /\ s \in Seq(Char) /\ t \in Seq(Char) /\ Flat(g)[m] = s \o t
  <2>1. Parent(g, E, m)
    BY ParentFacts
  <2>2. QED
    BY <2>1 DEF Parent
<1>2. /\ n = Len(s) /\ g[right].len = Len(t) /\ Len(s) \in Nat /\ Len(t) \in Nat /\ Len(s) > 0
      /\ l = Len(s) + Len(t) /\ i \in Nat /\ j \in Nat /\ j <= Len(t)
      /\ l \in Nat /\ Len(s) <= i /\ i <= l /\ l <= Len(s) + Len(t) /\ l - Len(s) = Len(t)
      /\ i - Len(s) = j /\ i # 0 /\ (i = l <=> j = Len(t))
      /\ i <= Len(s) + Len(t)
  <2>1. n = Len(s) /\ g[right].len = Len(t) /\ Len(s) \in Nat /\ Len(t) \in Nat /\ Len(s) > 0
    BY <1>1, LenProperties DEF Holds
  <2>2. l = Len(s) + Len(t) /\ i \in 0 .. l /\ ~(i < Len(s)) /\ j = i - Len(s)
    BY <1>1, <2>1
  <2> HIDE DEF l, s, t, j
  <2>3. QED
    BY <2>1, <2>2
<1>c. /\ Part(s \o t, 0, i) = s \o Part(t, 0, j)
      /\ Part(s \o t, i, l) = Part(t, j, Len(t))
      /\ i = Len(s) => Part(s \o t, 0, i) = s
  <2>1. j = i - Len(s) /\ l = Len(s) + Len(t) /\ i \in Nat /\ Len(s) <= i
        /\ i <= Len(s) + Len(t) /\ s \in Seq(Char) /\ t \in Seq(Char)
    BY <1>1, <1>2
  <2> HIDE DEF s, t, j, l
  <2>2. QED
    BY ONLY <2>1, CatCut
<1>3. r = [heap |-> done, left |-> at, right |-> high.right]
  BY <1>1 DEF SplitStep
<1>4. /\ Held(high.heap, D) /\ Agree(g, high.heap) /\ high.left \in Nat /\ high.right \in Nat
      /\ IF j = 0 THEN high.left = Null ELSE Holds(high.heap, high.left, Part(t, 0, j))
      /\ IF j = Len(t) THEN high.right = Null
         ELSE Holds(high.heap, high.right, Part(t, j, Len(t)))
  <2>1. Halves(g, E, right, j, high)
    BY <1>1
  <2> HIDE DEF j
  <2>2. QED
    BY <1>2, <2>1 DEF Halves
<1>5. g \in Heap /\ high.heap \in Heap /\ E \in [Nat -> Nat] /\ D \in [Nat -> Nat]
  BY <1>4, HeldFacts
<1>6. D[high.left] > 0 /\ \A k \in Nat \ {Null} : E[k] <= D[k]
  BY <1>4, <1>5, Exchange
<1> HIDE DEF D, j
<1>7. Holds(high.heap, left, s)
  <2>1. left \in Live(high.heap)
    BY <1>1, <1>4, <1>6, SafeStays
  <2>2. QED
    BY <1>1, <1>4, <2>1, HoldsOn
<1>8. /\ Held(done, F) /\ Agree(high.heap, done) /\ at \in Nat \ {Null}
      /\ Holds(done, at, Part(s \o t, 0, i))
  <2>1. CASE j = 0
    <3>1. high.left = Null
      BY <1>4, <2>1
    <3>2. /\ Held(done, Plus(Minus(D, Null), left)) /\ Agree(high.heap, done) /\ at = left
          /\ left \in Live(done)
      <4>1. left \in Live(high.heap)
        BY <1>7 DEF Holds
      <4>2. QED
        BY <1>4, <1>6, <3>1, <4>1, JoinOne
    <3>3. Holds(done, left, s)
      BY <1>4, <1>7, <3>2, HoldsOn
    <3>4. Part(s \o t, 0, i) = s
      <4>1. i = Len(s)
        BY <1>2, <2>1
      <4>2. QED
        BY <1>c, <4>1
    <3>5. left \in Nat \ {Null}
      BY <1>5, <1>1, LiveFacts DEF Holds
    <3>6. QED
      BY <3>1, <3>2, <3>3, <3>4, <3>5
  <2>2. CASE j # 0
    <3>1. Holds(high.heap, high.left, Part(t, 0, j))
      BY <1>4, <2>2
    <3>2. /\ Held(done, F) /\ Agree(high.heap, done) /\ at \in Nat \ {Null}
          /\ Holds(done, at, s \o Part(t, 0, j))
      <4> HIDE DEF s, t
      <4>1. QED
        BY <1>4, <1>6, <1>7, <3>1, JoinRelease
    <3>3. Part(s \o t, 0, i) = s \o Part(t, 0, j)
      BY <1>c
    <3>4. QED
      BY <3>2, <3>3
  <2>3. QED
    BY <2>1, <2>2
<1> HIDE DEF joined, done, at
<1>9. Held(done, G) /\ (high.right # Null => high.right \in Live(done))
  <2>1. /\ Plus(Plus(E, high.right), at) \in [Nat -> Nat]
        /\ Plus(Plus(E, high.right), at)[high.right] > 0
        /\ \A k \in Nat \ {Null} :
             Plus(Plus(E, high.right), at)[k] <= Plus(Minus(D, high.left), at)[k]
    <3>1. D = Plus(Plus(E, high.right), high.left)
      BY <1>4, <1>5, PlusSwap DEF D
    <3>2. QED
      BY <1>4, <1>5, <1>8, <3>1, Exchange
  <2>2. G = Plus(Plus(E, high.right), at)
    <3>1. E \in [Nat -> Nat] /\ at \in Nat /\ high.right \in Nat
      BY <1>4, <1>5, <1>8
    <3>2. Plus(Plus(E, at), high.right) = Plus(Plus(E, high.right), at)
      BY ONLY <3>1, PlusSwap, Zenon
    <3>3. QED
      BY <3>2
  <2> HIDE DEF G
  <2>3. Held(done, G) /\ G[high.right] > 0
    BY <1>8, <2>1, <2>2, HeldLess
  <2>4. QED
    BY <1>4, <2>3, HeldFacts
<1>10. Agree(g, done)
  <2>1. done \in Heap
    BY <1>8, HeldFacts
  <2>2. QED
    BY <1>4, <1>5, <1>8, <2>1, AgreeTrans
<1>11. i # l => Holds(done, high.right, Part(s \o t, i, l))
  <2> HAVE i # l
  <2>1. Holds(high.heap, high.right, Part(t, j, Len(t)))
    BY <1>2, <1>4
  <2>2. high.right # Null
    BY <1>5, <2>1, LiveFacts DEF Holds
  <2>3. Part(s \o t, i, l) = Part(t, j, Len(t))
    BY <1>c
  <2>4. Held(done, G) /\ high.right \in Live(done)
    BY <1>9, <2>2
  <2> HIDE DEF G
  <2>5. Holds(done, high.right, Part(t, j, Len(t)))
    <3> HIDE DEF t
    <3>1. QED
      BY <1>4, <1>8, <2>1, <2>4, HoldsOn
  <2>6. QED
    BY <2>3, <2>5
<1> HIDE DEF r
<1>12. /\ r.heap = done /\ r.left = at /\ r.right = high.right
  BY <1>3
<1>13. /\ Held(r.heap, Plus(Plus(E, r.left), r.right)) /\ Agree(g, r.heap)
       /\ r.left \in Nat /\ r.right \in Nat
  BY <1>4, <1>8, <1>9, <1>10, <1>12
<1>14. IF i = 0 THEN r.left = Null ELSE Holds(r.heap, r.left, Part(Flat(g)[m], 0, i))
  BY <1>1, <1>2, <1>8, <1>12
<1>15. IF i = l THEN r.right = Null ELSE Holds(r.heap, r.right, Part(Flat(g)[m], i, l))
  BY <1>1, <1>2, <1>4, <1>11, <1>12
<1>16. QED
  BY <1>13, <1>14, <1>15 DEF Halves, r

\* String_split gives two parts that are the text before the offset and the one
\* from it on, and counts both for the caller.
LEMMA SplitKeeps ==
  ASSUME NEW h, NEW E, Held(h, E), NEW n, Safe(h, E, n), h[n].len > 0, NEW i \in 0 .. h[n].len
  PROVE  Halves(h, E, n, i, String_split(h, n, i))
<1>0. n \in Live(h) /\ n \in Nat
  BY HeldFacts, LiveFacts DEF Safe
<1>1. PICK f : /\ f = [m \in 0 .. n |-> SplitBody(f, m)]
               /\ \A g, j : String_split(g, n, j) = f[n][g][j]
  BY <1>0, SplitSteps
<1> DEFINE S == {m \in 0 .. n : Splits(f, m)}
<1>2. ASSUME NEW m \in 0 .. n, \A k \in 0 .. m - 1 : k \in S
      PROVE  m \in S
  <2>1. \A k \in 0 .. m - 1 : Splits(f, k)
    BY <1>2
  <2>2. f[m] = SplitBody(f, m)
    BY <1>1
  <2>3. ASSUME NEW g, NEW D, NEW j, Held(g, D), Safe(g, D, m), g[m].len > 0, j \in 0 .. g[m].len
        PROVE  Halves(g, D, m, j, f[m][g][j])
    <3>1. m \in Live(g) /\ g \in Heap /\ g[m].len \in Nat /\ j \in Nat
      <4>1. m \in Live(g)
        BY <2>3 DEF Safe
      <4>2. g \in Heap
        BY <2>3, HeldFacts
      <4>3. g[m].len \in Nat
        BY <4>1, <4>2, LiveFacts
      <4>4. QED
        BY <2>3, <4>1, <4>2, <4>3
    <3>2. CASE g[m].leaf
      BY <2>2, <2>3, <3>1, <3>2, SplitLeaf
    <3>3. CASE ~g[m].leaf
      <4> DEFINE low == f[g[m].left][g][j]
                 high == f[g[m].right][g][j - g[m].weight]
      <4>1. g \in With(m)
        BY <3>1, HeapFacts DEF With, Usable, Live
      <4>2. f[m][g][j] = SplitStep(low, high, m, g, j)
        <5>1. f[m][g][j] = SplitNode(f, m, g, j)
          <6>1. SplitBody(f, m)[g][j] = SplitNode(f, m, g, j)
            BY <3>1, <4>1, Zenon DEF SplitBody
          <6>2. QED
            BY <2>2, <6>1, Zenon
        <5>2. QED
          BY <5>1, Zenon DEF SplitNode
      <4>3. Parent(g, D, m)
        BY <2>3, <3>3, ParentFacts
      <4>4. /\ g[m].left \in 0 .. m - 1 /\ g[m].right \in 0 .. m - 1
            /\ Safe(g, D, g[m].left) /\ Safe(g, D, g[m].right)
            /\ g[m].weight = g[g[m].left].len
            /\ g[m].len = g[g[m].left].len + g[g[m].right].len
            /\ g[g[m].left].len > 0 /\ g[g[m].right].len > 0
            /\ g[m].left \in Live(g) /\ g[m].right \in Live(g)
        BY <4>3 DEF Parent, Holds
      <4>5. g[m].weight \in Nat /\ g[g[m].left].len \in Nat /\ g[g[m].right].len \in Nat
        BY <3>1, <4>4, LiveFacts
      <4>6. CASE j < g[m].weight
        <5>1. j \in 0 .. g[g[m].left].len
          BY <3>1, <4>4, <4>5, <4>6
        <5>2. Halves(g, D, g[m].left, j, low)
          BY <2>1, <2>3, <4>4, <5>1 DEF Splits
        <5> HIDE DEF low, high
        <5>3. QED
          BY <2>3, <3>3, <4>2, <4>6, <5>2, SplitLow
      <4>7. CASE ~(j < g[m].weight)
        <5>1. j - g[m].weight \in 0 .. g[g[m].right].len
          <6> DEFINE a == g[m].weight
                     b == g[g[m].right].len
          <6>1. a \in Nat /\ b \in Nat /\ j \in 0 .. a + b /\ ~(j < a)
            BY <2>3, <4>4, <4>5, <4>7
          <6> HIDE DEF a, b
          <6>2. j - a \in 0 .. b
            BY <6>1
          <6>3. QED
            BY <6>2 DEF a, b
        <5>2. Halves(g, D, g[m].right, j - g[m].weight, high)
          BY <2>1, <2>3, <4>4, <5>1 DEF Splits
        <5> HIDE DEF low, high
        <5>3. QED
          BY <2>3, <3>3, <4>2, <4>7, <5>2, SplitHigh
      <4>8. QED
        BY <4>6, <4>7
    <3>4. QED
      BY <3>2, <3>3
  <2>4. Splits(f, m)
    BY <2>3 DEF Splits
  <2>5. QED
    BY <2>4
<1>3. n \in S
  <2>1. \A m \in 0 .. n : (\A k \in 0 .. m - 1 : k \in S) => m \in S
    BY <1>2
  <2> HIDE DEF S
  <2>2. QED
    BY <1>0, <2>1, FromBelow
<1>4. Splits(f, n)
  BY <1>3
<1>5. Halves(h, E, n, i, f[n][h][i])
  BY <1>4 DEF Splits
<1>6. String_split(h, n, i) = f[n][h][i]
  BY <1>1
<1> HIDE DEF S
<1>7. QED
  BY <1>5, <1>6, Zenon

-----------------------------------------------------------------------------
(* The empty rope: nobody's node.                                            *)

\* The empty rope has no parent and no children.
LEMMA EmptyAlone ==
  ASSUME NEW h, NEW E, Held(h, E), NEW n \in Live(h), h[n].len = 0
  PROVE  /\ \A p \in Live(h) : h[p].left # n /\ h[p].right # n
         /\ h[n].left = Null /\ h[n].right = Null /\ ~h[n].leaf
         /\ Lefts(h, Live(h), n) = {} /\ Rights(h, Live(h), n) = {}
<1>1. h \in Heap
  BY HeldFacts
<1>2. n # Null
  BY <1>1, LiveFacts
<1>3. \A p \in Live(h) : h[p].left # n /\ h[p].right # n
  <2> TAKE p \in Live(h)
  <2>1. Formed(h, Live(h), p)
    BY HeldFacts
  <2>2. h[n].len = 0 /\ ~(0 > 0)
    OBVIOUS
  <2>3. QED
    BY <1>2, <2>1, <2>2 DEF Formed
<1>4. Formed(h, Live(h), n)
  BY HeldFacts
<1>5. ~h[n].leaf
  BY <1>4 DEF Formed
<1>6. h[n].left = Null /\ h[n].right = Null
  <2>1. ASSUME h[n].left \in Live(h), h[n].right \in Live(h),
               h[h[n].left].len > 0, h[h[n].right].len > 0,
               h[n].weight = h[h[n].left].len,
               h[n].len = h[n].weight + h[h[n].right].len
        PROVE  FALSE
    <3>1. h[h[n].left].len \in Nat /\ h[h[n].right].len \in Nat
      BY <1>1, <2>1, LiveFacts
    <3> DEFINE a == h[h[n].left].len
               b == h[h[n].right].len
    <3>2. a \in Nat /\ b \in Nat /\ a > 0 /\ b > 0 /\ a + b = 0
      BY <2>1, <3>1
    <3> HIDE DEF a, b
    <3>3. QED
      BY <3>2
  <2>2. QED
    BY <1>4, <1>5, <2>1 DEF Formed
<1>7. QED
  BY <1>3, <1>5, <1>6 DEF Lefts, Rights

\* String_release of the empty rope that a first insertion replaces.
LEMMA ReleasedEmpty ==
  ASSUME NEW h, NEW E, Held(h, E), NEW n \in Live(h), h[n].len = 0, E[n] = 0
  PROVE  Held(String_release(h, n), E) /\ Agree(h, String_release(h, n))
<1>1. h \in Heap /\ E \in [Nat -> Nat] /\ n \in Nat /\ n # Null /\ h[n].ref_count \in Nat
  <2>1. h \in Heap /\ E \in [Nat -> Nat]
    BY HeldFacts
  <2>2. QED
    BY <2>1, LiveFacts
<1>2. CASE h[n].ref_count = 0
  BY <1>2, ReleasedWraps
<1>3. CASE h[n].ref_count # 0
  <2> DEFINE F == Plus(E, n)
  <2>1. F \in [Nat -> Nat] /\ F[n] = E[n] + 1 /\ \A k \in Nat : k # n => F[k] = E[k]
    BY <1>1, PlusType
  <2>2. Refs(h, Live(h), n) = 0
    <3>1. Cardinality({}) = 0
      BY FS_EmptySet
    <3>2. Lefts(h, Live(h), n) = {} /\ Rights(h, Live(h), n) = {}
      BY EmptyAlone
    <3>3. QED
      BY <3>1, <3>2 DEF Refs
  <2> HIDE DEF F
  <2>3. \A m \in Live(h) : h[m].ref_count >= Refs(h, Live(h), m) + F[m]
    <3> TAKE m \in Live(h)
    <3>1. CASE m = n
      BY <1>1, <1>3, <2>1, <2>2, <3>1
    <3>2. CASE m # n
      <4>1. m \in Nat
        BY <1>1, LiveFacts
      <4>2. F[m] = E[m]
        BY <2>1, <3>2, <4>1
      <4>3. QED
        BY <4>2, HeldFacts
    <3>3. QED
      BY <3>1, <3>2
  <2>4. \A m \in Nat \ {Null} : F[m] > 0 => m \in Live(h)
    <3> TAKE m \in Nat \ {Null}
    <3>1. m # n => F[m] = E[m]
      BY <2>1
    <3>2. QED
      BY <3>1, HeldFacts
  <2>5. Held(h, F)
    BY <2>1, <2>3, <2>4 DEF Held, Sound, Counts
  <2>6. F[n] > 0
    BY <2>1
  <2>7. Held(String_release(h, n), Minus(F, n)) /\ Agree(h, String_release(h, n))
    BY <1>1, <2>5, <2>6, Released
  <2>8. /\ Minus(F, n)[n] = F[n] - 1 /\ \A k \in Nat : k # n => Minus(F, n)[k] = F[k]
    BY <1>1, <2>1, <2>6, MinusType
  <2>9. \A k \in Nat \ {Null} : E[k] <= Minus(F, n)[k]
    <3> TAKE k \in Nat \ {Null}
    <3>1. E[k] \in Nat
      BY <1>1
    <3>2. CASE k = n
      BY <2>1, <2>8, <3>1, <3>2
    <3>3. CASE k # n
      <4>1. Minus(F, n)[k] = E[k]
        BY <2>1, <2>8, <3>3
      <4>2. QED
        BY <3>1, <4>1
    <3>4. QED
      BY <3>2, <3>3
  <2>10. QED
    BY <1>1, <2>7, <2>9, HeldLess
<1>4. QED
  BY <1>2, <1>3

\* The empty rope, which has no count, is not freed by the release of others.
LEMMA EmptyStays ==
  ASSUME NEW h, NEW E, Held(h, E), NEW x \in Live(h), h[x].len = 0, E[x] = 0,
         NEW n \in Nat, E[n] > 0
  PROVE  LET g == String_release(h, n)
         IN  Held(g, Minus(E, n)) /\ Agree(h, g) /\ x \in Live(g) /\ g[x].len = 0
             /\ Minus(E, n)[x] = 0 /\ Len(g) = Len(h)
<1> DEFINE g == String_release(h, n)
           L == Live(h) \ {x}
<1>1. h \in Heap /\ E \in [Nat -> Nat] /\ L \in SUBSET Live(h) /\ x \in Nat
  <2>1. h \in Heap /\ E \in [Nat -> Nat]
    BY HeldFacts
  <2>2. QED
    BY <2>1, LiveFacts
<1>2. \A m \in L : Formed(h, L, m)
  <2> TAKE m \in L
  <2>1. /\ Formed(h, Live(h), m) /\ h[m].left \in Live(h) \cup {Null}
        /\ h[m].right \in Live(h) \cup {Null} /\ m \in Live(h)
    BY HeldFacts
  <2>2. h[m].left # x /\ h[m].right # x
    BY <2>1, EmptyAlone
  <2>3. h[m].left \in L \cup {Null} /\ h[m].right \in L \cup {Null}
    BY <2>1, <2>2
  <2>4. Agree(h, h)
    BY <1>1, AgreeSelf
  <2>5. Live(h) \in SUBSET Live(h) /\ m \in Live(h) \cap L
    BY <2>1
  <2> HIDE DEF L
  <2>6. QED
    BY <1>1, <2>1, <2>3, <2>4, <2>5, FormStays
<1>3. Counts(h, E, L)
  <2> SUFFICES ASSUME NEW m \in L PROVE h[m].ref_count >= Refs(h, L, m) + E[m]
    BY DEF Counts
  <2>1. m \in Live(h) /\ L \in SUBSET Live(h) /\ Live(h) \in SUBSET Live(h)
    BY <1>1
  <2>2. h[m].ref_count >= Refs(h, Live(h), m) + E[m] /\ E[m] \in Nat
    BY <2>1, HeldFacts
  <2>3. h[m].ref_count \in Nat
    BY <1>1, <2>1, LiveFacts
  <2> HIDE DEF L
  <2>4. /\ Refs(h, L, m) <= Refs(h, Live(h), m) /\ Refs(h, L, m) \in Nat
        /\ Refs(h, Live(h), m) \in Nat
    BY <1>1, <2>1, FewerRefs
  <2>5. QED
    BY <2>2, <2>3, <2>4
<1>4. \A k \in Nat \ {Null} : E[k] > 0 => k \in L
  <2>1. \A k \in Nat \ {Null} : E[k] > 0 => k \in Live(h)
    BY HeldFacts
  <2>2. QED
    BY <2>1
<1>5. Sound(h, E, L)
  BY <1>1, <1>2, <1>3, <1>4 DEF Sound
<1>6. x \in Live(g)
  <2>1. Live(h) \ L \subseteq Live(g)
    <3> HIDE DEF L
    <3>1. QED
      BY <1>5, ReleaseKeeps DEF Kept
  <2>2. QED
    BY <2>1
<1>7. Held(g, Minus(E, n)) /\ Agree(h, g) /\ Len(g) = Len(h)
  BY Released
<1>8. g[x].len = 0
  <2>1. x \in 1 .. Len(h) /\ g[x] # Freed
    BY <1>6, <1>7 DEF Live
  <2>2. QED
    BY <1>7, <2>1 DEF Agree, Same
<1>9. Minus(E, n)[x] = 0
  <2>1. x # n
    OBVIOUS
  <2>2. QED
    BY <1>1, <2>1, MinusType
<1>10. QED
  BY <1>6, <1>7, <1>8, <1>9

-----------------------------------------------------------------------------
(* String_concat of any two sides.                                           *)

\* No node holds the empty text.
Has(g, n, t) == IF n = Null THEN t = <<>> ELSE Holds(g, n, t)

LEMMA Concatenated ==
  ASSUME NEW h, NEW E, Held(h, E), NEW a, NEW b, NEW s \in Seq(Char), NEW t \in Seq(Char),
         Has(h, a, s), Has(h, b, t), ~(a = Null /\ b = Null)
  PROVE  LET r == String_concat(h, a, b)
         IN  /\ Held(r.heap, Plus(E, r.at)) /\ Agree(h, r.heap) /\ Live(h) \subseteq Live(r.heap)
             /\ r.at \in Nat \ {Null} /\ Holds(r.heap, r.at, s \o t)
<1> DEFINE r == String_concat(h, a, b)
<1>1. h \in Heap /\ \A n \in Live(h) : n \in Nat \ {Null}
  BY HeldFacts, LiveFacts
<1>2. CASE a # Null /\ b # Null
  <2>1. Holds(h, a, s) /\ Holds(h, b, t)
    BY <1>2 DEF Has
  <2>2. Given(h, E, r) /\ Holds(r.heap, r.at, s \o t)
    BY <2>1, JoinHolds
  <2> HIDE DEF r
  <2>3. r.heap \in Heap
    BY <2>2, HeldFacts DEF Given
  <2>4. r.at \in Nat \ {Null}
    BY <2>2, <2>3, LiveFacts DEF Holds
  <2>5. QED
    BY <2>2, <2>4 DEF Given, r
<1>3. ASSUME NEW x \in Live(h), NEW u, Holds(h, x, u), u = s \o t,
             r = [heap |-> String_retain(h, x), at |-> x]
      PROVE  /\ Held(r.heap, Plus(E, r.at)) /\ Agree(h, r.heap) /\ Live(h) \subseteq Live(r.heap)
             /\ r.at \in Nat \ {Null} /\ Holds(r.heap, r.at, s \o t)
  <2> DEFINE k == String_retain(h, x)
  <2>1. Held(k, Plus(E, x)) /\ Agree(h, k) /\ Live(k) = Live(h)
    BY Retained
  <2> HIDE DEF k
  <2>2. x \in Live(k)
    BY <2>1
  <2>3. Holds(k, x, u)
    BY <1>3, <2>1, <2>2, HoldsOn
  <2>4. r.heap = k /\ r.at = x
    BY <1>3 DEF k
  <2> HIDE DEF r
  <2>5. QED
    BY <1>1, <1>3, <2>1, <2>3, <2>4
<1>4. CASE a = Null
  <2>1. b # Null /\ s = <<>> /\ Holds(h, b, t)
    BY <1>4 DEF Has
  <2>2. s \o t = t
    BY <2>1, ConcatEmptySeq
  <2>3. b \in Live(h)
    BY <2>1 DEF Holds
  <2>4. r = [heap |-> String_retain(h, b), at |-> b]
    BY <1>4, <2>1, Zenon DEF String_concat
  <2>5. QED
    BY <1>3, <2>1, <2>2, <2>3, <2>4
<1>5. CASE a # Null /\ b = Null
  <2>1. t = <<>> /\ Holds(h, a, s)
    BY <1>5 DEF Has
  <2>2. s \o t = s
    BY <2>1, ConcatEmptySeq
  <2>3. a \in Live(h)
    BY <2>1 DEF Holds
  <2>4. r = [heap |-> String_retain(h, a), at |-> a]
    BY <1>5, Zenon DEF String_concat
  <2>5. QED
    BY <1>3, <2>1, <2>2, <2>3, <2>4
<1>6. QED
  BY <1>2, <1>4, <1>5

-----------------------------------------------------------------------------
(* The logarithm.                                                            *)

LogBody(f, m) == IF m < 2 THEN 0 ELSE 1 + f[m \div 2]

LEMMA Half ==
  ASSUME NEW m \in Nat, ~(m < 2)
  PROVE  m \div 2 \in Nat /\ m \div 2 \in 0 .. m - 1 /\ m \div 2 \in 1 .. m
OBVIOUS

LEMMA LogSteps ==
  ASSUME NEW n \in Nat
  PROVE  \E f : f = [m \in 0 .. n |-> LogBody(f, m)] /\ log2(n) = f[n]
<1> DEFINE Is(f, k) == f = [m \in 0 .. k |-> LogBody(f, m)]
           S == {k \in 0 .. n : \E f : Is(f, k)}
<1>1. ASSUME NEW k \in 0 .. n, \A j \in 0 .. k - 1 : j \in S
      PROVE  k \in S
  <2>1. PICK f : \A m \in 0 .. k - 1 : f[m] = LogBody(f, m)
    <3>1. CASE k = 0
      BY <3>1
    <3>2. CASE k # 0
      <4>1. k - 1 \in S /\ k - 1 \in 0 .. k - 1
        BY <1>1, <3>2
      <4>2. PICK f : Is(f, k - 1)
        BY <4>1
      <4>3. QED
        BY <4>2, Zenon
    <3>3. QED
      BY <3>1, <3>2
  <2> DEFINE g == [m \in 0 .. k |-> LogBody(f, m)]
  <2>2. \A m \in 0 .. k - 1 : g[m] = f[m]
    BY <2>1
  <2>3. \A m \in 0 .. k : LogBody(f, m) = LogBody(g, m)
    <3> TAKE m \in 0 .. k
    <3> HIDE DEF g
    <3>1. CASE m < 2
      BY <3>1 DEF LogBody
    <3>2. CASE ~(m < 2)
      <4>1. m \in Nat /\ m - 1 <= k - 1
        OBVIOUS
      <4>2. m \div 2 \in 0 .. m - 1
        BY <3>2, <4>1, Half
      <4>3. m \div 2 \in 0 .. k - 1
        BY <4>1, <4>2
      <4>4. g[m \div 2] = f[m \div 2]
        BY <2>2, <4>3
      <4>5. QED
        BY <4>4 DEF LogBody
    <3>3. QED
      BY <3>1, <3>2
  <2>4. Is(g, k)
    BY <2>3, Zenon
  <2> HIDE DEF g, Is
  <2>5. QED
    BY <2>4
<1>2. n \in S
  <2>1. \A m \in 0 .. n : (\A k \in 0 .. m - 1 : k \in S) => m \in S
    BY <1>1
  <2> HIDE DEF S
  <2>2. QED
    BY <2>1, FromBelow
<1>3. \E f : Is(f, n)
  BY <1>2
<1> DEFINE r == CHOOSE f : Is(f, n)
<1>4. log2(n) = r[n]
  BY Zenon DEF log2, LogBody
<1>5. Is(r, n)
  <2> HIDE DEF Is
  <2> QED
    BY <1>3, Zenon
<1>6. QED
  BY <1>4, <1>5, Zenon

\* Half of a number has a logarithm that is one less.
LEMMA LogAt ==
  ASSUME NEW n \in Nat
  PROVE  /\ log2(n) \in Nat /\ (n < 2 => log2(n) = 0)
         /\ (~(n < 2) => log2(n) = 1 + log2(n \div 2))
<1>1. PICK f : f = [m \in 0 .. n |-> LogBody(f, m)] /\ log2(n) = f[n]
  BY LogSteps
<1>2. \A m \in 0 .. n : f[m] = LogBody(f, m)
  BY <1>1, Zenon
<1>3. \A m \in 0 .. n : f[m] \in Nat
  <2> DEFINE S == {m \in 0 .. n : f[m] \in Nat}
  <2>1. ASSUME NEW m \in 0 .. n, \A k \in 0 .. m - 1 : k \in S PROVE m \in S
    <3>1. CASE m < 2
      BY <1>2, <3>1 DEF LogBody
    <3>2. CASE ~(m < 2)
      <4>1. f[m \div 2] \in Nat
        BY <2>1, <3>2, Half
      <4>2. f[m] = 1 + f[m \div 2]
        BY <1>2, <3>2 DEF LogBody
      <4>3. QED
        BY <4>1, <4>2
    <3>3. QED
      BY <3>1, <3>2
  <2>2. \A m \in 0 .. n : (\A k \in 0 .. m - 1 : k \in S) => m \in S
    BY <2>1
  <2>3. \A m \in 0 .. n : m \in S
    <3> HIDE DEF S
    <3>1. QED
      BY <2>2, FromBelow
  <2>4. QED
    BY <2>3
<1>4. n \in 0 .. n
  OBVIOUS
<1>5. CASE n < 2
  <2>1. f[n] = 0
    BY <1>2, <1>4, <1>5 DEF LogBody
  <2>2. QED
    BY <1>1, <1>5, <2>1
<1>6. CASE ~(n < 2)
  <2> DEFINE j == n \div 2
  <2>1. j \in Nat /\ j \in 0 .. n /\ j <= n
    BY <1>6, Half
  <2>2. f[n] = 1 + f[j]
    BY <1>2, <1>4, <1>6 DEF LogBody
  <2> HIDE DEF j
  <2>3. PICK g : g = [m \in 0 .. j |-> LogBody(g, m)] /\ log2(j) = g[j]
    BY <2>1, LogSteps
  <2>4. \A m \in 0 .. j : g[m] = LogBody(g, m)
    BY <2>3, Zenon
  <2> DEFINE S == {m \in 0 .. j : f[m] = g[m]}
  <2>5. ASSUME NEW m \in 0 .. j, \A k \in 0 .. m - 1 : k \in S PROVE m \in S
    <3>1. m \in 0 .. n /\ m \in Nat
      BY <2>1
    <3>2. CASE m < 2
      BY <1>2, <2>4, <3>1, <3>2 DEF LogBody
    <3>3. CASE ~(m < 2)
      <4>1. f[m \div 2] = g[m \div 2]
        BY <2>5, <3>1, <3>3, Half
      <4>2. f[m] = 1 + f[m \div 2] /\ g[m] = 1 + g[m \div 2]
        BY <1>2, <2>4, <3>1, <3>3 DEF LogBody
      <4>3. QED
        BY <4>1, <4>2
    <3>4. QED
      BY <3>2, <3>3
  <2>6. \A m \in 0 .. j : (\A k \in 0 .. m - 1 : k \in S) => m \in S
    BY <2>5
  <2>7. \A m \in 0 .. j : m \in S
    <3> HIDE DEF S
    <3>1. QED
      BY <2>1, <2>6, FromBelow
  <2>8. f[j] = g[j]
    BY <2>1, <2>7
  <2>9. log2(n) \in Nat /\ log2(n) = 1 + log2(j)
    BY <1>1, <1>3, <1>4, <2>2, <2>3, <2>8
  <2>10. QED
    BY <1>6, <2>9 DEF j
<1>7. QED
  BY <1>5, <1>6

-----------------------------------------------------------------------------
(* The leaves of a tree, in a row, and where the text of each begins.        *)

Row(g, E, lv, o, t) ==
  /\ lv \in Seq(Nat) /\ t \in Seq(Char) /\ o \in [1 .. Len(lv) + 1 -> Nat]
  /\ o[1] = 0 /\ o[Len(lv) + 1] = Len(t)
  /\ \A i, j \in 1 .. Len(lv) + 1 : i < j => o[i] < o[j]
  /\ \A j \in 1 .. Len(lv) :
       /\ Safe(g, E, lv[j]) /\ g[lv[j]].leaf
       /\ Holds(g, lv[j], Part(t, o[j], o[j + 1]))

LEMMA RowNone ==
  ASSUME NEW g, NEW E
  PROVE  \E o : Row(g, E, <<>>, o, <<>>)
<1> DEFINE o == [j \in 1 .. 1 |-> 0]
<1>1. <<>> \in Seq(Nat) /\ <<>> \in Seq(Char) /\ Len(<<>>) = 0
  BY EmptySeq
<1>2. o \in [1 .. 1 -> Nat] /\ o[1] = 0 /\ 0 + 1 = 1 /\ 1 .. 0 = {}
      /\ \A i, j \in 1 .. 1 : ~(i < j)
  OBVIOUS
<1> HIDE DEF o
<1>3. Row(g, E, <<>>, o, <<>>)
  BY <1>1, <1>2 DEF Row
<1>4. QED
  BY <1>3

LEMMA RowOne ==
  ASSUME NEW g, NEW E, NEW n, Safe(g, E, n), g[n].leaf, NEW t \in Seq(Char), Holds(g, n, t),
         n \in Nat
  PROVE  \E o : Row(g, E, <<n>>, o, t)
<1> DEFINE l == Len(t)
           o == [j \in 1 .. 2 |-> IF j = 1 THEN 0 ELSE l]
<1>1. <<n>> \in Seq(Nat) /\ Len(<<n>>) = 1 /\ <<n>>[1] = n
  OBVIOUS
<1>2. l \in Nat /\ l > 0
  BY LenProperties DEF Holds
<1>3. Part(t, 0, l) = t
  BY PartAll
<1> HIDE DEF l
<1>4. o \in [1 .. 2 -> Nat] /\ o[1] = 0 /\ o[2] = l
      /\ \A i, j \in 1 .. 2 : i < j => i = 1 /\ j = 2
  BY <1>2
<1>5. 1 + 1 = 2 /\ \A j \in 1 .. 1 : j = 1
  OBVIOUS
<1> HIDE DEF o
<1>6. \A i, j \in 1 .. 2 : i < j => o[i] < o[j]
  BY <1>2, <1>4
<1>7. Row(g, E, <<n>>, o, t)
  BY <1>1, <1>3, <1>4, <1>5, <1>6 DEF Row, l
<1>8. QED
  BY <1>7

LEMMA RowStays ==
  ASSUME NEW h, NEW E, Held(h, E), NEW g, NEW F, Held(g, F), Agree(h, g),
         \A k \in Nat \ {Null} : E[k] <= F[k],
         NEW lv, NEW o, NEW t, Row(h, E, lv, o, t)
  PROVE  Row(g, F, lv, o, t)
<1>1. ASSUME NEW n, NEW u, Safe(h, E, n), h[n].leaf, Holds(h, n, u)
      PROVE  Safe(g, F, n) /\ g[n].leaf /\ Holds(g, n, u)
  <2>1. Safe(g, F, n) /\ n \in Live(g) /\ n \in Live(h)
    BY <1>1, SafeStays
  <2>2. Holds(g, n, u)
    BY <1>1, <2>1, HoldsOn
  <2>3. n \in 1 .. Len(h) /\ g[n] # Freed
    BY <2>1 DEF Live
  <2>4. g[n].leaf
    BY <1>1, <2>3 DEF Agree, Same
  <2>5. QED
    BY <2>1, <2>2, <2>4
<1>2. QED
  BY <1>1 DEF Row

\* The leaves of two texts, one after the other.
LEMMA RowJoin ==
  ASSUME NEW g, NEW E, NEW a, NEW p, NEW s, Row(g, E, a, p, s),
         NEW b, NEW q, NEW t, Row(g, E, b, q, t)
  PROVE  \E o : Row(g, E, a \o b, o, s \o t)
<1> DEFINE m == Len(a)
           n == Len(b)
           l == Len(s)
           k == Len(t)
           o == [j \in 1 .. m + n + 1 |-> IF j <= m + 1 THEN p[j] ELSE l + q[j - m]]
<1>1. /\ a \in Seq(Nat) /\ b \in Seq(Nat) /\ s \in Seq(Char) /\ t \in Seq(Char)
      /\ m \in Nat /\ n \in Nat /\ l \in Nat /\ k \in Nat
      /\ p \in [1 .. m + 1 -> Nat] /\ q \in [1 .. n + 1 -> Nat]
      /\ p[1] = 0 /\ p[m + 1] = l /\ q[1] = 0 /\ q[n + 1] = k
      /\ \A i, j \in 1 .. m + 1 : i < j => p[i] < p[j]
      /\ \A i, j \in 1 .. n + 1 : i < j => q[i] < q[j]
  BY LenProperties DEF Row
<1>2. /\ a \o b \in Seq(Nat) /\ Len(a \o b) = m + n
      /\ \A j \in 1 .. m + n : (a \o b)[j] = IF j <= m THEN a[j] ELSE b[j - m]
      /\ s \o t \in Seq(Char) /\ Len(s \o t) = l + k
  BY <1>1, ConcatProperties
<1>3. /\ \A j \in 1 .. m : /\ Safe(g, E, a[j]) /\ g[a[j]].leaf
                           /\ Holds(g, a[j], Part(s, p[j], p[j + 1]))
      /\ \A j \in 1 .. n : /\ Safe(g, E, b[j]) /\ g[b[j]].leaf
                           /\ Holds(g, b[j], Part(t, q[j], q[j + 1]))
  BY DEF Row
<1> HIDE DEF m, n, l, k
<1>4. /\ m + n + 1 \in Nat /\ 1 \in 1 .. m + n + 1
      /\ \A j \in 1 .. m + 1 : /\ o[j] = p[j] /\ j \in 1 .. m + n + 1
      /\ \A j \in m + 2 .. m + n + 1 : /\ j - m \in 1 .. n + 1 /\ j \in 1 .. m + n + 1
                                       /\ o[j] = l + q[j - m]
  BY <1>1
<1>5. \A j \in m + 1 .. m + n + 1 : o[j] = l + q[j - m] /\ j - m \in 1 .. n + 1 /\ j \in Nat
  <2> HIDE DEF o
  <2> TAKE j \in m + 1 .. m + n + 1
  <2>1. CASE j = m + 1
    <3>1. o[j] = l /\ j - m = 1
      BY <1>1, <1>4, <2>1
    <3>2. QED
      BY <1>1, <2>1, <3>1
  <2>2. CASE j # m + 1
    <3>1. j \in m + 2 .. m + n + 1
      BY <1>1, <2>2
    <3>2. QED
      BY <1>1, <1>4, <3>1
  <2>3. QED
    BY <2>1, <2>2
<1>6. \A j \in 1 .. m + 1 : p[j] \in Nat /\ p[j] <= l
  <2> TAKE j \in 1 .. m + 1
  <2>1. j < m + 1 \/ j = m + 1
    BY <1>1
  <2>2. j < m + 1 => p[j] < p[m + 1]
    BY <1>1
  <2>3. p[j] \in Nat
    BY <1>1
  <2>4. QED
    BY <1>1, <2>1, <2>2, <2>3
<1>7. \A j \in 1 .. n + 1 : q[j] \in Nat /\ q[j] <= k
  <2> TAKE j \in 1 .. n + 1
  <2>1. j < n + 1 \/ j = n + 1
    BY <1>1
  <2>2. j < n + 1 => q[j] < q[n + 1]
    BY <1>1
  <2>3. q[j] \in Nat
    BY <1>1
  <2>4. QED
    BY <1>1, <2>1, <2>2, <2>3
<1>8. \A j \in 1 .. m + n + 1 : o[j] \in Nat
  <2> HIDE DEF o
  <2> TAKE j \in 1 .. m + n + 1
  <2>1. CASE j \in 1 .. m + 1
    BY <1>4, <1>6, <2>1
  <2>2. CASE j \in m + 1 .. m + n + 1
    <3>1. o[j] = l + q[j - m] /\ q[j - m] \in Nat
      BY <1>5, <1>7, <2>2
    <3>2. QED
      BY <1>1, <3>1
  <2>3. QED
    BY <1>1, <2>1, <2>2
<1>9. o \in [1 .. m + n + 1 -> Nat]
  BY <1>8
<1> HIDE DEF o
<1>10. o[1] = 0 /\ o[m + n + 1] = l + k
  <2>1. 1 \in 1 .. m + 1 /\ m + n + 1 \in m + 1 .. m + n + 1 /\ (m + n + 1) - m = n + 1
    BY <1>1
  <2>2. QED
    BY <1>1, <1>4, <1>5, <2>1
<1>11. \A i, j \in 1 .. m + n + 1 : i < j => o[i] < o[j]
  <2> TAKE i \in 1 .. m + n + 1, j \in 1 .. m + n + 1
  <2> HAVE i < j
  <2>1. CASE j <= m + 1
    <3>1. i \in 1 .. m + 1 /\ j \in 1 .. m + 1
      BY <1>1, <2>1
    <3>2. o[i] = p[i] /\ o[j] = p[j] /\ p[i] < p[j]
      BY <1>1, <1>4, <3>1
    <3>3. QED
      BY <3>2
  <2>2. CASE i >= m + 1
    <3>1. i \in m + 1 .. m + n + 1 /\ j \in m + 1 .. m + n + 1
      BY <1>1, <2>2
    <3>2. o[i] = l + q[i - m] /\ o[j] = l + q[j - m] /\ i - m \in 1 .. n + 1 /\ j - m \in 1 .. n + 1
      BY <1>5, <3>1
    <3>3. q[i - m] < q[j - m] /\ q[i - m] \in Nat /\ q[j - m] \in Nat
      <4>1. i - m < j - m
        BY <1>1
      <4>2. QED
        BY <1>1, <1>7, <3>2, <4>1
    <3>4. QED
      BY <1>1, <3>2, <3>3
  <2>3. CASE i < m + 1 /\ j > m + 1
    <3>1. i \in 1 .. m + 1 /\ m + 1 \in 1 .. m + 1 /\ j \in m + 1 .. m + n + 1
      BY <1>1, <2>3
    <3>2. o[i] = p[i] /\ p[i] < p[m + 1] /\ p[i] \in Nat
      BY <1>1, <1>4, <1>6, <2>3, <3>1
    <3>3. o[j] = l + q[j - m] /\ q[j - m] \in Nat
      BY <1>5, <1>7, <3>1
    <3>4. QED
      BY <1>1, <3>2, <3>3, SMTT(20)
  <2>4. QED
    BY <1>1, <2>1, <2>2, <2>3
<1>12. ASSUME NEW j \in 1 .. m + n
       PROVE  /\ Safe(g, E, (a \o b)[j]) /\ g[(a \o b)[j]].leaf
              /\ Holds(g, (a \o b)[j], Part(s \o t, o[j], o[j + 1]))
  <2>1. CASE j <= m
    <3>1. j \in 1 .. m /\ j \in 1 .. m + 1 /\ j + 1 \in 1 .. m + 1 /\ j < j + 1
      BY <1>1, <2>1
    <3>2. o[j] = p[j] /\ o[j + 1] = p[j + 1] /\ (a \o b)[j] = a[j]
      BY <1>2, <1>4, <2>1, <3>1
    <3>3. p[j] \in Nat /\ p[j + 1] \in Nat /\ p[j] < p[j + 1] /\ p[j + 1] <= l
      BY <1>1, <1>6, <3>1
    <3>4. p[j] <= p[j + 1]
      BY <3>3
    <3>5. Part(s \o t, p[j], p[j + 1]) = Part(s, p[j], p[j + 1])
      BY <1>1, <3>3, <3>4, CatFront DEF l
    <3>6. QED
      BY <1>3, <3>1, <3>2, <3>5
  <2>2. CASE j > m
    <3>1. /\ j \in m + 1 .. m + n + 1 /\ j + 1 \in m + 1 .. m + n + 1 /\ j - m \in 1 .. n
          /\ (j + 1) - m = (j - m) + 1 /\ ~(j <= m)
      BY <1>1, <2>2
    <3>2. o[j] = l + q[j - m] /\ o[j + 1] = l + q[(j - m) + 1] /\ (a \o b)[j] = b[j - m]
      BY <1>2, <1>5, <3>1
    <3> DEFINE c == q[j - m]
               d == q[(j - m) + 1]
    <3>3. c \in Nat /\ d \in Nat /\ c < d /\ d <= k
      <4>1. j - m \in 1 .. n + 1 /\ (j - m) + 1 \in 1 .. n + 1 /\ j - m < (j - m) + 1
        BY <1>1, <3>1
      <4>2. QED
        BY <1>1, <1>7, <4>1
    <3>4. o[j] = l + c /\ o[j + 1] = l + d
      BY <3>2
    <3>5. Holds(g, b[j - m], Part(t, c, d)) /\ Safe(g, E, b[j - m]) /\ g[b[j - m]].leaf
      BY <1>3, <3>1
    <3> HIDE DEF c, d
    <3>6. /\ l + c \in Nat /\ l + d \in Nat /\ l + c <= l + d /\ l <= l + c /\ l + d <= l + k
          /\ (l + c) - l = c /\ (l + d) - l = d
      BY <1>1, <3>3
    <3>7. Part(s \o t, l + c, l + d) = Part(t, c, d)
      <4>1. Part(s \o t, l + c, l + d) = Part(t, (l + c) - l, (l + d) - l)
        BY <1>1, <3>6, CatBack DEF l, k
      <4>2. QED
        BY <3>6, <4>1
    <3>8. QED
      BY <3>2, <3>4, <3>5, <3>7
  <2>3. j <= m \/ j > m
    BY <1>1
  <2>4. QED
    BY <2>1, <2>2, <2>3, Zenon
<1>13. Row(g, E, a \o b, o, s \o t)
  <2>1. Len(a \o b) + 1 = m + n + 1
    BY <1>2
  <2>2. QED
    BY <1>2, <1>9, <1>10, <1>11, <1>12, <2>1 DEF Row
<1>14. QED
  BY <1>13

\* The leaves of a tree hold its text.
LEMMA LeavesRow ==
  ASSUME NEW h, NEW E, Held(h, E), NEW n, Safe(h, E, n), h[n].len > 0
  PROVE  \E o : Row(h, E, String_collect_leaves(h)[n], o, Flat(h)[n])
<1> DEFINE lv == String_collect_leaves(h)
           S == {m \in 0 .. n : Safe(h, E, m) /\ h[m].len > 0 => \E o : Row(h, E, lv[m], o, Flat(h)[m])}
<1>1. h \in Heap /\ n \in Live(h) /\ n \in Nat
  BY HeldFacts, LiveFacts DEF Safe
<1>2. ASSUME NEW m \in 0 .. n, \A k \in 0 .. m - 1 : k \in S
      PROVE  m \in S
  <2>1. ASSUME Safe(h, E, m), h[m].len > 0
        PROVE  \E o : Row(h, E, lv[m], o, Flat(h)[m])
    <3>1. m \in Live(h)
      BY <2>1 DEF Safe
    <3>2. m \in 0 .. Len(h) /\ m \in Nat
      BY <1>1, <3>1, LiveFacts
    <3>3. lv[m] = IF h[m].leaf THEN <<m>> ELSE lv[h[m].left] \o lv[h[m].right]
      BY <1>1, <3>1, <3>2, LeavesAt DEF LeavesNode
    <3> HIDE DEF lv
    <3>4. CASE h[m].leaf
      <4>1. Holds(h, m, Flat(h)[m]) /\ Flat(h)[m] \in Seq(Char)
        BY <2>1, <3>1, HoldsText
      <4>2. QED
        BY <2>1, <3>2, <3>3, <3>4, <4>1, RowOne
    <3>5. CASE ~h[m].leaf
      <4> DEFINE x == h[m].left
                 y == h[m].right
      <4>1. Parent(h, E, m)
        BY <2>1, <3>5, ParentFacts
      <4>2. /\ x \in 0 .. m - 1 /\ y \in 0 .. m - 1 /\ Safe(h, E, x) /\ Safe(h, E, y)
            /\ h[x].len > 0 /\ h[y].len > 0 /\ Flat(h)[m] = Flat(h)[x] \o Flat(h)[y]
        BY <4>1 DEF Parent, Holds
      <4> HIDE DEF x, y
      <4>3. (\E p : Row(h, E, lv[x], p, Flat(h)[x])) /\ \E q : Row(h, E, lv[y], q, Flat(h)[y])
        BY <1>2, <4>2
      <4>4. PICK p : Row(h, E, lv[x], p, Flat(h)[x])
        BY <4>3
      <4>5. PICK q : Row(h, E, lv[y], q, Flat(h)[y])
        BY <4>3
      <4>6. \E o : Row(h, E, lv[x] \o lv[y], o, Flat(h)[x] \o Flat(h)[y])
        BY <4>4, <4>5, RowJoin
      <4>7. QED
        BY <3>3, <3>5, <4>2, <4>6 DEF x, y
    <3>6. QED
      BY <3>4, <3>5
  <2>2. QED
    BY <2>1
<1>3. n \in S
  <2>1. \A m \in 0 .. n : (\A k \in 0 .. m - 1 : k \in S) => m \in S
    BY <1>2
  <2> HIDE DEF S
  <2>2. QED
    BY <1>1, <2>1, FromBelow
<1>4. QED
  BY <1>3

-----------------------------------------------------------------------------
(* String_build_balanced.                                                    *)

Middle(from, k) == (from + from + k) \div 2

LEMMA MiddleFacts ==
  ASSUME NEW from \in Nat, NEW k \in Nat, k >= 2
  PROVE  /\ Middle(from, k) \in Nat
         /\ Middle(from, k) - from \in 1 .. k - 1
         /\ from + k - Middle(from, k) \in 1 .. k - 1
         /\ (Middle(from, k) - from) + (from + k - Middle(from, k)) = k
         /\ from + k - Middle(from, k) = (from + k) - Middle(from, k)
         /\ Middle(from, k) - from <= from + k - Middle(from, k)
         /\ from + k - Middle(from, k) <= (Middle(from, k) - from) + 1
         /\ from + (Middle(from, k) - from) = Middle(from, k)
         /\ Middle(from, k) + (from + k - Middle(from, k)) = from + k
BY DEF Middle

BuildNode(build, leaves, k, g, from) ==
  IF k = 0 THEN [heap |-> g, at |-> Null]
  ELSE IF k = 1 THEN [heap |-> g, at |-> leaves[from + 1]]
  ELSE LET mid == (from + from + k) \div 2
           left == build[mid - from][g][from]
           right == build[from + k - mid][left.heap][mid]
       IN  String_concat(right.heap, left.at, right.at)

BuildBody(build, leaves, k) ==
  [g \in Heap |-> [from \in Nat |-> BuildNode(build, leaves, k, g, from)]]

\* What is built of more than one leaf.
Joins(build, k, g, from) ==
  LET left == build[Middle(from, k) - from][g][from]
      right == build[from + k - Middle(from, k)][left.heap][Middle(from, k)]
  IN  String_concat(right.heap, left.at, right.at)

LEMMA BuildMore ==
  ASSUME NEW build, NEW leaves, NEW k, k # 0, k # 1, NEW g, NEW from
  PROVE  BuildNode(build, leaves, k, g, from) = Joins(build, k, g, from)
BY Zenon DEF BuildNode, Joins, Middle

LEMMA BuildLocal ==
  ASSUME NEW k \in Nat, NEW leaves, NEW f, NEW g, \A j \in 0 .. k - 1 : f[j] = g[j]
  PROVE  BuildBody(f, leaves, k) = BuildBody(g, leaves, k)
<1>1. \A h \in Heap, i \in Nat : BuildNode(f, leaves, k, h, i) = BuildNode(g, leaves, k, h, i)
  <2> TAKE h \in Heap, i \in Nat
  <2>1. CASE k = 0 \/ k = 1
    BY <2>1 DEF BuildNode
  <2>2. CASE k # 0 /\ k # 1
    <3>1. k >= 2
      BY <2>2
    <3>2. /\ Middle(i, k) - i \in 0 .. k - 1
          /\ i + k - Middle(i, k) \in 0 .. k - 1
      <4>1. /\ Middle(i, k) - i \in 1 .. k - 1 /\ i + k - Middle(i, k) \in 1 .. k - 1
        BY <3>1, MiddleFacts
      <4>2. QED
        BY <4>1
    <3>3. /\ f[Middle(i, k) - i] = g[Middle(i, k) - i]
          /\ f[i + k - Middle(i, k)] = g[i + k - Middle(i, k)]
      BY <3>2
    <3>4. Joins(f, k, h, i) = Joins(g, k, h, i)
      BY <3>3, Zenon DEF Joins
    <3>5. QED
      BY <2>2, <3>4, BuildMore
  <2>3. QED
    BY <2>1, <2>2
<1>2. QED
  BY <1>1, Zenon DEF BuildBody

LEMMA BuildSteps ==
  ASSUME NEW n \in Nat, NEW leaves
  PROVE  \E f : /\ f = [k \in 0 .. n |-> BuildBody(f, leaves, k)]
                /\ \A h : String_build_balanced(h, leaves, 0, n) = f[n][h][0]
<1> DEFINE Is(f, k) == f = [m \in 0 .. k |-> BuildBody(f, leaves, m)]
           S == {k \in 0 .. n : \E f : Is(f, k)}
<1>1. ASSUME NEW k \in 0 .. n, \A j \in 0 .. k - 1 : j \in S
      PROVE  k \in S
  <2>1. PICK f : \A m \in 0 .. k - 1 : f[m] = BuildBody(f, leaves, m)
    <3>1. CASE k = 0
      BY <3>1
    <3>2. CASE k # 0
      <4>1. k - 1 \in S /\ k - 1 \in 0 .. k - 1
        BY <1>1, <3>2
      <4>2. PICK f : Is(f, k - 1)
        BY <4>1
      <4>3. QED
        BY <4>2, Zenon
    <3>3. QED
      BY <3>1, <3>2
  <2> DEFINE g == [m \in 0 .. k |-> BuildBody(f, leaves, m)]
  <2>2. \A m \in 0 .. k - 1 : g[m] = f[m]
    BY <2>1
  <2>3. \A m \in 0 .. k : BuildBody(f, leaves, m) = BuildBody(g, leaves, m)
    <3> TAKE m \in 0 .. k
    <3> HIDE DEF g
    <3>1. \A j \in 0 .. m - 1 : f[j] = g[j]
      BY <2>2
    <3>2. m \in Nat
      OBVIOUS
    <3>3. QED
      BY <3>1, <3>2, BuildLocal
  <2>4. Is(g, k)
    BY <2>3, Zenon
  <2> HIDE DEF g, Is
  <2>5. QED
    BY <2>4
<1>2. n \in S
  <2>1. \A m \in 0 .. n : (\A k \in 0 .. m - 1 : k \in S) => m \in S
    BY <1>1
  <2> HIDE DEF S
  <2>2. QED
    BY <2>1, FromBelow
<1>3. \E f : Is(f, n)
  BY <1>2
<1> DEFINE d == n - 0
           r == CHOOSE f : Is(f, d)
<1>4. \A h : String_build_balanced(h, leaves, 0, n) = r[d][h][0]
  BY Zenon DEF String_build_balanced, BuildBody, BuildNode
<1> HIDE DEF Is
<1>5. Is(r, d)
  <2>1. d = n
    OBVIOUS
  <2>2. \E f : Is(f, d)
    BY <1>3, <2>1
  <2> QED
    BY <2>2, Zenon
<1> HIDE DEF r
<1>6. d = n
  OBVIOUS
<1> HIDE DEF d
<1>7. QED
  BY <1>4, <1>5, <1>6, Zenon DEF Is

\* What is built of leaves from + 1 .. from + k of a row: their text in k leaves, as
\* low as can be. F also counts the nodes that were made, which nobody lets go of.
BuiltBy(g, E, F, lv, o, t, from, k, r) ==
  /\ Held(r.heap, F) /\ Agree(g, r.heap) /\ \A n \in Nat \ {Null} : E[n] <= F[n]
  /\ Safe(r.heap, F, r.at) /\ Live(g) \subseteq Live(r.heap)
  /\ (k = 1 => r.at = lv[from + 1] /\ String_height(r.heap)[r.at] = 1)
  /\ (k >= 2 => F[r.at] > 0 /\ r.at > Len(g))
  /\ Holds(r.heap, r.at, Part(t, o[from + 1], o[from + k + 1]))
  /\ Len(String_collect_leaves(r.heap)[r.at]) = k
  /\ \A j \in Nat : j >= k /\ j >= 2 => String_height(r.heap)[r.at] <= log2(j - 1) + 2

Built(g, E, lv, o, t, from, k, r) == \E F : BuiltBy(g, E, F, lv, o, t, from, k, r)

\* A parent of two trees that are as low as can be, and as large as each other.
LEMMA LowParent ==
  ASSUME NEW a \in Nat, NEW b \in Nat, a >= 1, b >= 1, a <= b, b <= a + 1,
         NEW x \in Nat, NEW y \in Nat, a = 1 => x = 1, b = 1 => y = 1,
         \A j \in Nat : j >= a /\ j >= 2 => x <= log2(j - 1) + 2,
         \A j \in Nat : j >= b /\ j >= 2 => y <= log2(j - 1) + 2
  PROVE  \A j \in Nat : j >= a + b /\ j >= 2
           => 1 + (IF x > y THEN x ELSE y) <= log2(j - 1) + 2
<1> TAKE j \in Nat
<1> HAVE j >= a + b /\ j >= 2
<1>1. CASE j = 2
  <2>1. a = 1 /\ b = 1
    BY <1>1
  <2>2. log2(1) = 0
    BY LogAt
  <2>3. x = 1 /\ y = 1 /\ j - 1 = 1
    BY <1>1, <2>1
  <2>4. QED
    BY <2>2, <2>3
<1>2. CASE j # 2
  <2> DEFINE m == j - 1
             d == m \div 2
             i == d + 1
  <2>1. m \in Nat /\ ~(m < 2) /\ m >= a + b - 1
    BY <1>2
  <2>2. d \in Nat /\ d >= 1 /\ d + d >= m - 1 /\ d + d <= m
    BY <2>1
  <2>3. log2(m) = 1 + log2(d) /\ log2(d) \in Nat
    BY <2>1, <2>2, LogAt
  <2> HIDE DEF d, m
  <2>4. i \in Nat /\ i >= 2 /\ i >= b /\ i >= a /\ i - 1 = d
    BY <2>1, <2>2
  <2>5. x <= log2(i - 1) + 2 /\ y <= log2(i - 1) + 2
    BY <2>4
  <2>6. x <= log2(d) + 2 /\ y <= log2(d) + 2
    BY <2>4, <2>5
  <2>7. 1 + (IF x > y THEN x ELSE y) <= log2(m) + 2
    BY <2>3, <2>6
  <2>8. QED
    BY <2>7 DEF m
<1>3. QED
  BY <1>1, <1>2

LEMMA BuildOne ==
  ASSUME NEW g, NEW E, Held(g, E), NEW lv, NEW o, NEW t, Row(g, E, lv, o, t),
         NEW from \in Nat, from + 1 <= Len(lv), NEW r, r = [heap |-> g, at |-> lv[from + 1]]
  PROVE  Built(g, E, lv, o, t, from, 1, r)
<1> DEFINE n == lv[from + 1]
<1>1. /\ Safe(g, E, n) /\ g[n].leaf /\ Holds(g, n, Part(t, o[from + 1], o[from + 1 + 1]))
  <2>1. from + 1 \in 1 .. Len(lv)
    BY LenProperties DEF Row
  <2>2. QED
    BY <2>1 DEF Row
<1> HIDE DEF n
<1>2. g \in Heap /\ E \in [Nat -> Nat] /\ n \in Live(g)
  BY <1>1, HeldFacts DEF Holds
<1>3. n \in 0 .. Len(g)
  BY <1>2, LiveFacts
<1>4. String_height(g)[n] = 1
  BY <1>1, <1>2, <1>3, HeightAt DEF HeightNode
<1>5. Len(String_collect_leaves(g)[n]) = 1
  <2>1. String_collect_leaves(g)[n] = <<n>>
    BY <1>1, <1>2, <1>3, LeavesAt DEF LeavesNode
  <2>2. QED
    BY <2>1
<1>6. \A j \in Nat : j >= 2 => 1 <= log2(j - 1) + 2
  <2> TAKE j \in Nat
  <2> HAVE j >= 2
  <2>1. log2(j - 1) \in Nat
    BY LogAt
  <2>2. QED
    BY <2>1
<1>7. r.heap = g /\ r.at = n
  BY DEF n
<1>8. Agree(g, g) /\ Live(g) \subseteq Live(g) /\ \A k \in Nat \ {Null} : E[k] <= E[k]
  BY <1>2, AgreeSelf
<1>9. \A j \in Nat : j >= 1 /\ j >= 2 => String_height(g)[n] <= log2(j - 1) + 2
  BY <1>4, <1>6
<1>10. BuiltBy(g, E, E, lv, o, t, from, 1, r)
  <2>1. ~(1 >= 2)
    OBVIOUS
  <2>2. QED
    BY <1>1, <1>4, <1>5, <1>7, <1>8, <1>9, <2>1 DEF BuiltBy, n
<1>11. QED
  BY <1>10 DEF Built

LEMMA LiveRange ==
  ASSUME NEW h \in Heap, NEW n \in Live(h)
  PROVE  n \in 0 .. Len(h)
<1>1. n \in 1 .. Len(h)
  BY LiveFacts
<1>2. QED
  BY <1>1

\* Two pieces of a row that meet are one.
LEMMA RowPieces ==
  ASSUME NEW g, NEW E, NEW lv, NEW o, NEW t, Row(g, E, lv, o, t),
         NEW i \in Nat, NEW j \in Nat, NEW l \in Nat, 1 <= i, i < j, j < l, l <= Len(lv) + 1
  PROVE  Part(t, o[i], o[j]) \o Part(t, o[j], o[l]) = Part(t, o[i], o[l])
<1> DEFINE n == Len(lv) + 1
           a == o[i]
           b == o[j]
           c == o[l]
<1>1. /\ t \in Seq(Char) /\ o \in [1 .. n -> Nat] /\ o[n] = Len(t)
      /\ (\A x, y \in 1 .. n : x < y => o[x] < o[y]) /\ n \in Nat
  <2>1. /\ lv \in Seq(Nat) /\ t \in Seq(Char) /\ o \in [1 .. n -> Nat] /\ o[n] = Len(t)
        /\ (\A x, y \in 1 .. n : x < y => o[x] < o[y])
    BY DEF Row
  <2>2. Len(lv) \in Nat
    BY <2>1, LenProperties
  <2>3. n \in Nat
    BY <2>2
  <2>4. QED
    BY <2>1, <2>3
<1> HIDE DEF n
<1>2. i \in 1 .. n /\ j \in 1 .. n /\ l \in 1 .. n /\ n \in 1 .. n /\ (l < n \/ l = n)
  <2>1. l <= n
    BY DEF n
  <2>2. QED
    BY <1>1, <2>1
<1>3. a \in Nat /\ b \in Nat /\ c \in Nat /\ a < b /\ b < c /\ (l < n => c < o[n])
      /\ (l = n => c = o[n]) /\ o[n] \in Nat
  BY <1>1, <1>2
<1> HIDE DEF a, b, c
<1>4. a <= b /\ b <= c /\ c <= Len(t)
  BY <1>1, <1>2, <1>3
<1>5. Part(t, a, b) \o Part(t, b, c) = Part(t, a, c)
  BY <1>1, <1>3, <1>4, PartCat, SMTT(20)
<1>6. QED
  BY <1>5 DEF a, b, c

LEMMA BuildJoin ==
  ASSUME NEW g, NEW E, Held(g, E), NEW lv, NEW o, NEW t, Row(g, E, lv, o, t),
         NEW from \in Nat, NEW a \in Nat, NEW b \in Nat, NEW k, k = a + b,
         a >= 1, b >= 1, a <= b, b <= a + 1, from + k <= Len(lv),
         NEW mid, mid = from + a,
         NEW left, NEW F, BuiltBy(g, E, F, lv, o, t, from, a, left),
         NEW right, NEW G, BuiltBy(left.heap, F, G, lv, o, t, mid, b, right),
         NEW r, r = String_concat(right.heap, left.at, right.at)
  PROVE  Built(g, E, lv, o, t, from, k, r)
<1> DEFINE x == left.at
           y == right.at
           h == right.heap
           s == Part(t, o[from + 1], o[mid + 1])
           u == Part(t, o[mid + 1], o[from + k + 1])
           at == r.at
           D == Plus(G, at)
<1>1. /\ Held(left.heap, F) /\ Agree(g, left.heap) /\ (\A n \in Nat \ {Null} : E[n] <= F[n])
      /\ Safe(left.heap, F, x) /\ Holds(left.heap, x, s)
      /\ Len(String_collect_leaves(left.heap)[x]) = a /\ Live(g) \subseteq Live(left.heap)
      /\ (a = 1 => String_height(left.heap)[x] = 1)
      /\ \A j \in Nat : j >= a /\ j >= 2 => String_height(left.heap)[x] <= log2(j - 1) + 2
  <2>1. from + a + 1 = mid + 1
    OBVIOUS
  <2>2. QED
    BY <2>1 DEF BuiltBy
<1>2. /\ Held(h, G) /\ Agree(left.heap, h) /\ (\A n \in Nat \ {Null} : F[n] <= G[n])
      /\ Safe(h, G, y) /\ Holds(h, y, u)
      /\ Len(String_collect_leaves(h)[y]) = b /\ Live(left.heap) \subseteq Live(h)
      /\ (b = 1 => String_height(h)[y] = 1)
      /\ \A j \in Nat : j >= b /\ j >= 2 => String_height(h)[y] <= log2(j - 1) + 2
  <2>1. mid + b + 1 = from + k + 1
    OBVIOUS
  <2>2. QED
    BY <2>1 DEF BuiltBy
<1>3. /\ g \in Heap /\ E \in [Nat -> Nat] /\ left.heap \in Heap /\ F \in [Nat -> Nat]
      /\ h \in Heap /\ G \in [Nat -> Nat]
  BY <1>1, <1>2, HeldFacts
<1> HIDE DEF x, y, h, s, u
<1>4. x \in Live(h) /\ x \in Live(left.heap) /\ y \in Live(h)
  <2>1. x \in Live(h) /\ x \in Live(left.heap)
    BY <1>1, <1>2, SafeStays
  <2>2. QED
    BY <1>2, <2>1 DEF Holds
<1>5. Holds(h, x, s)
  BY <1>1, <1>2, <1>4, HoldsOn
<1>6. /\ String_height(h)[x] = String_height(left.heap)[x]
      /\ String_collect_leaves(h)[x] = String_collect_leaves(left.heap)[x]
  <2>1. x \in 0 .. Len(left.heap)
    BY <1>3, <1>4, LiveRange
  <2>2. QED
    BY <1>2, <1>3, <1>4, <2>1, SameTree
<1>7. /\ Given(h, G, r) /\ ~r.heap[at].leaf /\ r.heap[at].left = x /\ r.heap[at].right = y
  <2>1. h[x].len > 0 /\ h[y].len > 0
    BY <1>2, <1>5 DEF Holds
  <2>2. r = String_concat(h, x, y)
    BY DEF h, x, y
  <2>3. QED
    BY <1>2, <1>4, <2>1, <2>2, Joined
<1>8. Holds(r.heap, at, s \o u)
  <2>1. r = String_concat(h, x, y)
    BY DEF h, x, y
  <2>2. QED
    BY <1>2, <1>5, <2>1, JoinHolds
<1>9. s \o u = Part(t, o[from + 1], o[from + k + 1])
  <2> DEFINE i == from + 1
             j == mid + 1
             l == from + k + 1
             n == Len(lv)
  <2>1. n \in Nat
    BY LenProperties DEF Row
  <2> HIDE DEF n
  <2>2. from + k <= n /\ mid = from + a /\ k = a + b
    BY DEF n
  <2>3. i \in Nat /\ j \in Nat /\ l \in Nat /\ 1 <= i /\ i < j /\ j < l /\ l <= n + 1
    BY <2>1, <2>2
  <2> HIDE DEF i, j, l
  <2>4. Part(t, o[i], o[j]) \o Part(t, o[j], o[l]) = Part(t, o[i], o[l])
    BY <2>3, RowPieces, SMTT(20) DEF n
  <2>5. QED
    BY <2>4 DEF i, j, l, s, u
<1>10. /\ Held(r.heap, D) /\ Agree(h, r.heap) /\ at = Len(h) + 1 /\ at \in Live(r.heap)
       /\ Live(h) \subseteq Live(r.heap)
  BY <1>7 DEF Given
<1>11. r.heap \in Heap /\ at \in Nat \ {Null} /\ at \in 0 .. Len(r.heap)
  <2>1. r.heap \in Heap
    BY <1>10, HeldFacts
  <2>2. QED
    BY <1>10, <2>1, LiveFacts
<1>12. /\ Agree(g, r.heap) /\ at > Len(g)
  <2>1. Agree(g, h)
    BY <1>1, <1>2, <1>3, AgreeTrans
  <2>2. Len(g) <= Len(h) /\ Len(g) \in Nat /\ Len(h) \in Nat
    BY <1>3, <2>1, HeapFacts DEF Agree
  <2>3. Agree(g, r.heap)
    BY <1>3, <1>10, <1>11, <2>1, AgreeTrans
  <2>4. QED
    BY <1>10, <2>2, <2>3
<1>13. /\ D[at] > 0 /\ \A n \in Nat \ {Null} : E[n] <= D[n]
  <2>1. /\ Plus(G, at)[at] > 0
        /\ \A n \in Nat : Plus(G, at)[n] >= G[n] /\ Plus(G, at)[n] \in Nat /\ G[n] \in Nat
    BY <1>3, <1>11, PlusType
  <2>2. \A n \in Nat \ {Null} : E[n] <= F[n] /\ F[n] <= G[n] /\ E[n] \in Nat /\ F[n] \in Nat
    BY <1>1, <1>2, <1>3
  <2>3. \A n \in Nat \ {Null} : E[n] <= D[n]
    <3> TAKE n \in Nat \ {Null}
    <3>1. Plus(G, at)[n] >= G[n] /\ Plus(G, at)[n] \in Nat /\ G[n] \in Nat
      BY <2>1
    <3>2. QED
      BY <2>2, <3>1
  <2>4. QED
    BY <2>1, <2>3
<1> HIDE DEF D
<1>14. Safe(r.heap, D, at)
  BY <1>10, <1>11, <1>13, SafeRoot
<1>15. /\ String_height(r.heap)[x] = String_height(h)[x]
       /\ String_height(r.heap)[y] = String_height(h)[y]
       /\ String_collect_leaves(r.heap)[x] = String_collect_leaves(h)[x]
       /\ String_collect_leaves(r.heap)[y] = String_collect_leaves(h)[y]
  <2>1. x \in 0 .. Len(h) /\ y \in 0 .. Len(h) /\ x \in Live(r.heap) /\ y \in Live(r.heap)
    BY <1>3, <1>4, <1>10, LiveRange
  <2>2. QED
    BY <1>3, <1>10, <2>1, SameTree
<1>16. Len(String_collect_leaves(r.heap)[at]) = k
  <2>1. String_collect_leaves(r.heap)[at]
          = String_collect_leaves(r.heap)[x] \o String_collect_leaves(r.heap)[y]
    BY <1>7, <1>10, <1>11, LeavesAt DEF LeavesNode
  <2> DEFINE p == String_collect_leaves(h)[x]
             q == String_collect_leaves(h)[y]
  <2>2. p \in Seq(Leaves(h)) /\ q \in Seq(Leaves(h))
    <3>1. x \in 0 .. Len(h) /\ y \in 0 .. Len(h)
      BY <1>3, <1>4, LiveRange
    <3>2. QED
      BY <1>3, <3>1, LeavesType
  <2>3. Len(p) = a /\ Len(q) = b
    BY <1>1, <1>2, <1>6
  <2> HIDE DEF p, q
  <2>4. Len(p \o q) = Len(p) + Len(q)
    BY <2>2, ConcatProperties
  <2>5. QED
    BY <1>15, <2>1, <2>3, <2>4 DEF p, q
<1>17. ASSUME NEW j \in Nat, j >= k /\ j >= 2
       PROVE  String_height(r.heap)[at] <= log2(j - 1) + 2
  <2> DEFINE c == String_height(h)[x]
             d == String_height(h)[y]
  <2>1. String_height(r.heap)[at] = 1 + (IF c > d THEN c ELSE d)
    BY <1>7, <1>10, <1>11, <1>15, HeightAt DEF HeightNode
  <2>2. c \in Nat /\ d \in Nat
    <3>1. x \in 0 .. Len(h) /\ y \in 0 .. Len(h)
      BY <1>3, <1>4, LiveRange
    <3>2. QED
      BY <1>3, <3>1, HeightType
  <2>3. /\ (a = 1 => c = 1) /\ (b = 1 => d = 1)
        /\ (\A i \in Nat : i >= a /\ i >= 2 => c <= log2(i - 1) + 2)
        /\ (\A i \in Nat : i >= b /\ i >= 2 => d <= log2(i - 1) + 2)
    BY <1>1, <1>2, <1>6
  <2> HIDE DEF c, d
  <2>4. \A i \in Nat : i >= a + b /\ i >= 2 => 1 + (IF c > d THEN c ELSE d) <= log2(i - 1) + 2
    BY <2>2, <2>3, LowParent
  <2>5. QED
    BY <1>17, <2>1, <2>4
<1>18. ~(k = 1) /\ Live(g) \subseteq Live(r.heap)
  <2>1. Live(g) \subseteq Live(r.heap)
    BY <1>1, <1>2, <1>10
  <2>2. QED
    BY <2>1
<1> HIDE DEF at
<1>19. BuiltBy(g, E, D, lv, o, t, from, k, r)
  BY <1>8, <1>9, <1>10, <1>12, <1>13, <1>14, <1>16, <1>17, <1>18 DEF BuiltBy, at
<1>20. QED
  BY <1>19 DEF Built

Builds(build, lv, o, t, k) ==
  \A g, E, from :
    (k >= 1 /\ Held(g, E) /\ Row(g, E, lv, o, t) /\ from \in Nat /\ from + k <= Len(lv))
      => Built(g, E, lv, o, t, from, k, build[k][g][from])

\* String_build_balanced of all the leaves of a row.
LEMMA BuildKeeps ==
  ASSUME NEW h, NEW D, Held(h, D), NEW lv, NEW o, NEW t, Row(h, D, lv, o, t), Len(lv) >= 1
  PROVE  Built(h, D, lv, o, t, 0, Len(lv), String_build_balanced(h, lv, 0, Len(lv)))
<1> DEFINE n == Len(lv)
<1>1. n \in Nat
  BY LenProperties DEF Row
<1>2. n >= 1 /\ n <= Len(lv)
  BY <1>1
<1> HIDE DEF n
<1>3. PICK f : /\ f = [k \in 0 .. n |-> BuildBody(f, lv, k)]
               /\ \A g : String_build_balanced(g, lv, 0, n) = f[n][g][0]
  BY <1>1, BuildSteps
<1> DEFINE S == {k \in 0 .. n : Builds(f, lv, o, t, k)}
<1>4. ASSUME NEW k \in 0 .. n, \A j \in 0 .. k - 1 : j \in S
      PROVE  k \in S
  <2>1. \A j \in 0 .. k - 1 : Builds(f, lv, o, t, j)
    BY <1>4
  <2>2. f[k] = BuildBody(f, lv, k)
    BY <1>3
  <2>3. ASSUME NEW g, NEW E, NEW from, k >= 1, Held(g, E), Row(g, E, lv, o, t),
               from \in Nat, from + k <= Len(lv)
        PROVE  Built(g, E, lv, o, t, from, k, f[k][g][from])
    <3>1. g \in Heap
      BY <2>3, HeldFacts
    <3>2. f[k][g][from] = BuildNode(f, lv, k, g, from)
      <4>1. BuildBody(f, lv, k)[g][from] = BuildNode(f, lv, k, g, from)
        BY <2>3, <3>1, Zenon DEF BuildBody
      <4>2. QED
        BY <2>2, <4>1, Zenon
    <3>3. CASE k = 1
      <4>1. f[k][g][from] = [heap |-> g, at |-> lv[from + 1]]
        BY <3>2, <3>3 DEF BuildNode
      <4>2. QED
        BY <2>3, <3>3, <4>1, BuildOne
    <3>4. CASE k # 1
      <4> DEFINE a == Middle(from, k) - from
                 b == from + k - Middle(from, k)
                 mid == Middle(from, k)
                 left == f[a][g][from]
                 right == f[b][left.heap][mid]
      <4>1. k >= 2 /\ k \in Nat /\ k # 0
        BY <2>3, <3>4
      <4>2. f[k][g][from] = String_concat(right.heap, left.at, right.at)
        <5>1. f[k][g][from] = Joins(f, k, g, from)
          BY <3>2, <3>4, <4>1, BuildMore
        <5>2. QED
          BY <5>1, Zenon DEF Joins
      <4>3. /\ mid \in Nat /\ a \in 1 .. k - 1 /\ b \in 1 .. k - 1 /\ a + b = k
            /\ a <= b /\ b <= a + 1 /\ from + a = mid /\ mid + b = from + k
        BY <2>3, <4>1, MiddleFacts
      <4> HIDE DEF a, b, mid
      <4>4. /\ a \in Nat /\ b \in Nat /\ a >= 1 /\ b >= 1 /\ a \in 0 .. k - 1 /\ b \in 0 .. k - 1
            /\ k = a + b /\ mid = from + a
        BY <4>3
      <4>5. from + a <= Len(lv) /\ mid + b <= Len(lv)
        <5>1. mid + b <= Len(lv)
          BY <2>3, <4>3
        <5>2. from + a <= Len(lv)
          <6>1. Len(lv) \in Nat
            BY <1>1 DEF n
          <6>2. QED
            BY <2>3, <4>4, <5>1, <6>1
        <5>3. QED
          BY <5>1, <5>2
      <4>6. Built(g, E, lv, o, t, from, a, left)
        BY <2>1, <2>3, <4>4, <4>5 DEF Builds
      <4> HIDE DEF left
      <4>7. PICK F : BuiltBy(g, E, F, lv, o, t, from, a, left)
        BY <4>6 DEF Built
      <4>8. Held(left.heap, F) /\ Row(left.heap, F, lv, o, t)
        <5>1. Held(left.heap, F) /\ Agree(g, left.heap) /\ \A j \in Nat \ {Null} : E[j] <= F[j]
          BY <4>7 DEF BuiltBy
        <5>2. QED
          BY <2>3, <5>1, RowStays
      <4>9. Built(left.heap, F, lv, o, t, mid, b, right)
        BY <2>1, <4>3, <4>4, <4>5, <4>8 DEF Builds
      <4> HIDE DEF right
      <4>10. PICK G : BuiltBy(left.heap, F, G, lv, o, t, mid, b, right)
        BY <4>9 DEF Built
      <4> DEFINE r == String_concat(right.heap, left.at, right.at)
      <4>11. a <= b /\ b <= a + 1
        BY <4>3
      <4>12. r = String_concat(right.heap, left.at, right.at)
        OBVIOUS
      <4> HIDE DEF r
      <4>13. Built(g, E, lv, o, t, from, k, r)
        BY <2>3, <4>4, <4>7, <4>10, <4>11, <4>12, BuildJoin
      <4>14. QED
        BY <4>2, <4>12, <4>13
    <3>5. QED
      BY <3>3, <3>4
  <2>4. Builds(f, lv, o, t, k)
    BY <2>3 DEF Builds
  <2>5. QED
    BY <2>4
<1>5. n \in S
  <2>1. \A m \in 0 .. n : (\A k \in 0 .. m - 1 : k \in S) => m \in S
    BY <1>4
  <2> HIDE DEF S
  <2>2. \A m \in 0 .. n : m \in S
    BY ONLY <1>1, <2>1, FromBelow
  <2>3. QED
    BY <1>1, <2>2
<1>6. Builds(f, lv, o, t, n)
  BY <1>5
<1>7. Built(h, D, lv, o, t, 0, n, f[n][h][0])
  <2>1. 0 \in Nat /\ 0 + n <= Len(lv)
    BY <1>1, <1>2
  <2>2. QED
    BY <1>2, <1>6, <2>1 DEF Builds
<1>8. String_build_balanced(h, lv, 0, n) = f[n][h][0]
  BY <1>3
<1>9. Built(h, D, lv, o, t, 0, n, String_build_balanced(h, lv, 0, n))
  BY <1>7, <1>8, Zenon
<1>10. QED
  BY <1>9, Zenon DEF n

-----------------------------------------------------------------------------
(* The leaves of a long text.                                                *)

MakeNode(make, s, k, g) ==
  IF k = 0 THEN [heap |-> g, leaves |-> <<>>]
  ELSE LET offset == Len(s) - k
           chunk_len == smaller(k, MAX_SIZE_LEAF)
           leaf == String_make_leaf(g, SubSeq(s, offset + 1, offset + chunk_len))
           rest == make[k - chunk_len][leaf.heap]
       IN  [heap |-> rest.heap, leaves |-> <<leaf.at>> \o rest.leaves]

MakeBody(make, s, k) == [g \in Heap |-> MakeNode(make, s, k, g)]

LEMMA Smaller ==
  ASSUME NEW k \in Nat, k # 0
  PROVE  /\ smaller(k, MAX_SIZE_LEAF) \in 1 .. MAX_SIZE_LEAF
         /\ smaller(k, MAX_SIZE_LEAF) \in 1 .. k
         /\ k - smaller(k, MAX_SIZE_LEAF) \in 0 .. k - 1
BY Sizes DEF smaller

LEMMA MakeLocal ==
  ASSUME NEW k \in Nat, NEW s, NEW f, NEW g, \A j \in 0 .. k - 1 : f[j] = g[j]
  PROVE  MakeBody(f, s, k) = MakeBody(g, s, k)
<1>1. \A h \in Heap : MakeNode(f, s, k, h) = MakeNode(g, s, k, h)
  <2> TAKE h \in Heap
  <2>1. CASE k = 0
    BY <2>1 DEF MakeNode
  <2>2. CASE k # 0
    <3>1. f[k - smaller(k, MAX_SIZE_LEAF)] = g[k - smaller(k, MAX_SIZE_LEAF)]
      BY <2>2, Smaller
    <3>2. QED
      BY <3>1, Zenon DEF MakeNode
  <2>3. QED
    BY <2>1, <2>2
<1>2. QED
  BY <1>1, Zenon DEF MakeBody

LEMMA MakeSteps ==
  ASSUME NEW s, Len(s) \in Nat
  PROVE  \E f : /\ f = [k \in 0 .. Len(s) |-> MakeBody(f, s, k)]
                /\ \A h : make_leaves(h, s) = f[Len(s)][h]
<1> DEFINE n == Len(s)
           Is(f, k) == f = [m \in 0 .. k |-> MakeBody(f, s, m)]
           S == {k \in 0 .. n : \E f : Is(f, k)}
<1> HIDE DEF n
<1>0. n \in Nat
  BY DEF n
<1>1. ASSUME NEW k \in 0 .. n, \A j \in 0 .. k - 1 : j \in S
      PROVE  k \in S
  <2>1. PICK f : \A m \in 0 .. k - 1 : f[m] = MakeBody(f, s, m)
    <3>1. CASE k = 0
      BY <3>1
    <3>2. CASE k # 0
      <4>1. k - 1 \in S /\ k - 1 \in 0 .. k - 1
        BY <1>0, <1>1, <3>2
      <4>2. PICK f : Is(f, k - 1)
        BY <4>1
      <4>3. QED
        BY <4>2, Zenon
    <3>3. QED
      BY <3>1, <3>2
  <2> DEFINE g == [m \in 0 .. k |-> MakeBody(f, s, m)]
  <2>2. \A m \in 0 .. k - 1 : g[m] = f[m]
    BY <1>0, <2>1
  <2>3. \A m \in 0 .. k : MakeBody(f, s, m) = MakeBody(g, s, m)
    <3> TAKE m \in 0 .. k
    <3> HIDE DEF g
    <3>1. \A j \in 0 .. m - 1 : f[j] = g[j]
      BY <1>0, <2>2
    <3>2. m \in Nat
      BY <1>0
    <3>3. QED
      BY <3>1, <3>2, MakeLocal
  <2>4. Is(g, k)
    BY <2>3, Zenon
  <2> HIDE DEF g, Is
  <2>5. QED
    BY <2>4
<1>2. n \in S
  <2>1. \A m \in 0 .. n : (\A k \in 0 .. m - 1 : k \in S) => m \in S
    BY <1>1
  <2> HIDE DEF S
  <2>2. \A m \in 0 .. n : m \in S
    BY ONLY <1>0, <2>1, FromBelow
  <2>3. QED
    BY <1>0, <2>2
<1>3. \E f : Is(f, n)
  BY <1>2
<1> DEFINE r == CHOOSE f : Is(f, n)
<1>4. \A h : make_leaves(h, s) = r[n][h]
  BY Zenon DEF make_leaves, MakeBody, MakeNode, n
<1>5. Is(r, n)
  <2> HIDE DEF Is
  <2> QED
    BY <1>3, Zenon
<1>6. QED
  BY <1>4, <1>5, Zenon DEF n

\* The leaves for the last k characters of s, each counted for the caller.
MadeBy(g, E, F, s, k, r) ==
  /\ Held(r.heap, F) /\ Agree(g, r.heap) /\ \A n \in Nat \ {Null} : E[n] <= F[n]
  /\ Live(g) \subseteq Live(r.heap)
  /\ \E o : Row(r.heap, F, r.leaves, o, Part(s, Len(s) - k, Len(s)))
  /\ \A j \in 1 .. Len(r.leaves) : F[r.leaves[j]] > 0 /\ r.leaves[j] > Len(g)

Makes(make, s, k) ==
  \A g, E : Held(g, E) => \E F : MadeBy(g, E, F, s, k, make[k][g])

LEMMA MakeNone ==
  ASSUME NEW g, NEW E, Held(g, E), NEW s \in Seq(Char)
  PROVE  MadeBy(g, E, E, s, 0, [heap |-> g, leaves |-> <<>>])
<1> DEFINE r == [heap |-> g, leaves |-> <<>>]
<1>1. g \in Heap /\ E \in [Nat -> Nat]
  BY HeldFacts
<1>2. Agree(g, g) /\ Live(g) \subseteq Live(g) /\ \A n \in Nat \ {Null} : E[n] <= E[n]
  BY <1>1, AgreeSelf
<1>3. Part(s, Len(s) - 0, Len(s)) = <<>>
  <2>1. Len(s) \in Nat /\ Len(s) - 0 = Len(s)
    BY LenProperties
  <2>2. QED
    BY <2>1, PartNone
<1>4. \E o : Row(g, E, <<>>, o, Part(s, Len(s) - 0, Len(s)))
  BY <1>3, RowNone
<1>5. r.heap = g /\ r.leaves = <<>> /\ \A j \in 1 .. Len(<<>>) : FALSE
  OBVIOUS
<1> HIDE DEF r
<1>6. MadeBy(g, E, E, s, 0, r)
  BY <1>2, <1>4, <1>5 DEF MadeBy
<1>7. QED
  BY <1>6 DEF r

LEMMA PartCut ==
  ASSUME NEW S, NEW s \in Seq(S), NEW i \in Nat, NEW j \in Nat, i <= j, j <= Len(s)
  PROVE  /\ Part(s, i, j) \in Seq(S) /\ Len(Part(s, i, j)) = j - i
         /\ Part(s, j, Len(s)) \in Seq(S) /\ Len(Part(s, j, Len(s))) = Len(s) - j
         /\ Part(s, i, j) \o Part(s, j, Len(s)) = Part(s, i, Len(s))
<1> DEFINE n == Len(s)
<1>1. n \in Nat /\ n <= n /\ j <= n /\ n <= Len(s)
  BY LenProperties
<1> HIDE DEF n
<1>2. /\ Part(s, i, j) \in Seq(S) /\ Len(Part(s, i, j)) = j - i
      /\ Part(s, j, n) \in Seq(S) /\ Len(Part(s, j, n)) = n - j
  BY <1>1, PartFacts
<1>3. Part(s, i, j) \o Part(s, j, n) = Part(s, i, n)
  BY <1>1, PartCat
<1>4. QED
  BY <1>2, <1>3 DEF n

LEMMA MakeOne ==
  ASSUME NEW g, NEW E, Held(g, E), NEW s \in Seq(Char), NEW k \in Nat, k # 0, k <= Len(s),
         NEW i, i = Len(s) - k, NEW c, c = smaller(k, MAX_SIZE_LEAF), NEW e, e = i + c,
         NEW leaf, leaf = String_make_leaf(g, SubSeq(s, i + 1, i + c)),
         NEW rest, NEW F, MadeBy(leaf.heap, Plus(E, leaf.at), F, s, k - c, rest)
  PROVE  MadeBy(g, E, F, s, k, [heap |-> rest.heap, leaves |-> <<leaf.at>> \o rest.leaves])
<1> DEFINE at == leaf.at
           D == Plus(E, at)
           u == Part(s, i, e)
           v == Part(s, e, Len(s))
           a == rest.leaves
           r == [heap |-> rest.heap, leaves |-> <<at>> \o a]
<1>1. /\ Len(s) \in Nat /\ i \in Nat /\ c \in 1 .. MAX_SIZE_LEAF /\ c \in Nat /\ e \in Nat
      /\ i <= e /\ e <= Len(s) /\ e - i = c /\ Len(s) - (k - c) = e
  <2>1. Len(s) \in Nat
    BY LenProperties
  <2>2. c \in 1 .. MAX_SIZE_LEAF /\ c \in 1 .. k
    BY Smaller
  <2>3. QED
    BY <2>1, <2>2
<1>2. u \in Seq(Char) /\ Len(u) = c /\ v \in Seq(Char) /\ u \o v = Part(s, i, Len(s))
  <2>1. s \in Seq(Char) /\ i \in Nat /\ e \in Nat /\ i <= e /\ e <= Len(s)
    BY <1>1
  <2>2. /\ Part(s, i, e) \in Seq(Char) /\ Len(Part(s, i, e)) = e - i
        /\ Part(s, e, Len(s)) \in Seq(Char)
        /\ Part(s, i, e) \o Part(s, e, Len(s)) = Part(s, i, Len(s))
    BY ONLY <2>1, PartCut, ZenonT(40)
  <2>3. QED
    BY <1>1, <2>2
<1>3. u \o v = Part(s, i, Len(s))
  BY <1>2
<1>4. leaf = String_make_leaf(g, u)
  BY DEF Part
<1> HIDE DEF u, v
<1>5. /\ Given(g, E, leaf) /\ leaf.heap[Len(g) + 1].leaf
      /\ leaf.heap[Len(g) + 1].str = u /\ leaf.heap[Len(g) + 1].len = Len(u)
  <2>1. u \in Seq(Char) /\ Len(u) \in 1 .. MAX_SIZE_LEAF
    BY <1>1, <1>2
  <2>2. /\ Given(g, E, String_make_leaf(g, u)) /\ String_make_leaf(g, u).heap[Len(g) + 1].leaf
        /\ String_make_leaf(g, u).heap[Len(g) + 1].str = u
        /\ String_make_leaf(g, u).heap[Len(g) + 1].len = Len(u)
    BY <2>1, LeafMade
  <2>3. QED
    BY <1>4, <2>2
<1>6. /\ Held(leaf.heap, D) /\ Agree(g, leaf.heap) /\ at = Len(g) + 1 /\ at \in Live(leaf.heap)
      /\ Live(g) \subseteq Live(leaf.heap)
  BY <1>5 DEF Given
<1>7. g \in Heap /\ E \in [Nat -> Nat] /\ leaf.heap \in Heap /\ D \in [Nat -> Nat]
      /\ Len(g) \in Nat /\ at \in Nat \ {Null} /\ Len(leaf.heap) \in Nat
      /\ at \in 1 .. Len(leaf.heap)
  <2>1. g \in Heap /\ E \in [Nat -> Nat] /\ leaf.heap \in Heap /\ D \in [Nat -> Nat] /\ Len(g) \in Nat
    BY <1>6, HeldFacts
  <2>2. QED
    BY <1>6, <2>1, LiveFacts
<1>8. /\ D[at] > 0 /\ \A n \in Nat : D[n] >= E[n] /\ D[n] \in Nat /\ E[n] \in Nat
  BY <1>7, PlusType
<1> HIDE DEF D, at
<1>9. /\ Held(rest.heap, F) /\ Agree(leaf.heap, rest.heap) /\ \A n \in Nat \ {Null} : D[n] <= F[n]
      /\ Live(leaf.heap) \subseteq Live(rest.heap)
      /\ \E o : Row(rest.heap, F, a, o, v)
      /\ \A j \in 1 .. Len(a) : F[a[j]] > 0 /\ a[j] > Len(leaf.heap)
  <2>1. MadeBy(leaf.heap, D, F, s, k - c, rest)
    BY DEF D, at
  <2>2. QED
    BY <1>1, <2>1 DEF MadeBy, v
<1>10. rest.heap \in Heap /\ F \in [Nat -> Nat]
  BY <1>9, HeldFacts
<1>11. F[at] > 0 /\ \A n \in Nat \ {Null} : E[n] <= F[n]
  <2>1. \A n \in Nat \ {Null} : D[n] >= E[n] /\ D[n] \in Nat /\ E[n] \in Nat /\ D[n] <= F[n] /\ F[n] \in Nat
    BY <1>8, <1>9, <1>10
  <2>2. at \in Nat \ {Null} /\ D[at] > 0
    BY <1>7, <1>8
  <2>3. F[at] > 0
    <3>1. D[at] <= F[at] /\ D[at] \in Nat /\ F[at] \in Nat
      BY <2>1, <2>2
    <3>2. QED
      BY <2>2, <3>1
  <2>4. \A n \in Nat \ {Null} : E[n] <= F[n]
    <3> TAKE n \in Nat \ {Null}
    <3>1. D[n] >= E[n] /\ D[n] \in Nat /\ E[n] \in Nat /\ D[n] <= F[n] /\ F[n] \in Nat
      BY <2>1
    <3>2. QED
      BY <3>1
  <2>5. QED
    BY <2>3, <2>4
<1>12. Safe(rest.heap, F, at) /\ at \in Live(rest.heap)
  BY <1>7, <1>9, <1>11, SafeRoot
<1>13. Holds(leaf.heap, at, u)
  <2>1. leaf.heap[at].leaf /\ leaf.heap[at].str = u /\ leaf.heap[at].len = Len(u)
    BY <1>5, <1>6
  <2>2. Flat(leaf.heap)[at] = u
    <3>1. leaf.heap[at].leaf => Flat(leaf.heap)[at] = leaf.heap[at].str
      BY <1>6, Lengths, ZenonT(40)
    <3>2. QED
      BY <2>1, <3>1
  <2>3. Len(u) > 0
    BY <1>1, <1>2
  <2>4. QED
    BY <1>6, <2>1, <2>2, <2>3 DEF Holds
<1>14. Holds(rest.heap, at, u)
  BY <1>6, <1>9, <1>12, <1>13, HoldsOn
<1>15. rest.heap[at].leaf
  <2>1. rest.heap[at] # Freed
    BY <1>12 DEF Live
  <2>2. leaf.heap[at].leaf
    BY <1>5, <1>6
  <2>3. QED
    BY <1>7, <1>9, <2>1, <2>2 DEF Agree, Same
<1>16. PICK p : Row(rest.heap, F, <<at>>, p, u)
  BY <1>2, <1>7, <1>12, <1>14, <1>15, RowOne
<1>17. PICK q : Row(rest.heap, F, a, q, v)
  BY <1>9
<1>18. \E o : Row(rest.heap, F, <<at>> \o a, o, u \o v)
  BY <1>16, <1>17, RowJoin
<1>19. Agree(g, rest.heap) /\ Live(g) \subseteq Live(rest.heap)
  <2>1. Agree(g, rest.heap)
    BY <1>6, <1>7, <1>9, <1>10, AgreeTrans
  <2>2. Live(g) \subseteq Live(rest.heap)
    BY <1>6, <1>9
  <2>3. QED
    BY <2>1, <2>2
<1>20. \A j \in 1 .. Len(<<at>> \o a) : F[(<<at>> \o a)[j]] > 0 /\ (<<at>> \o a)[j] > Len(g)
  <2>1. a \in Seq(Nat) /\ Len(a) \in Nat
    BY <1>17, LenProperties DEF Row
  <2>2. Len(<<at>>) = 1 /\ <<at>>[1] = at /\ <<at>> \in Seq(Nat)
    <3>1. at \in Nat
      BY <1>7
    <3>2. QED
      BY <3>1
  <2>3. /\ Len(<<at>> \o a) = 1 + Len(a)
        /\ \A j \in 1 .. 1 + Len(a) : (<<at>> \o a)[j] = IF j <= 1 THEN <<at>>[j] ELSE a[j - 1]
    BY <2>1, <2>2, ConcatProperties
  <2>4. Len(leaf.heap) >= Len(g)
    BY <1>6 DEF Agree
  <2> TAKE j \in 1 .. Len(<<at>> \o a)
  <2>5. CASE j = 1
    <3>1. (<<at>> \o a)[j] = at
      BY <2>1, <2>2, <2>3, <2>5
    <3>2. F[at] > 0 /\ at > Len(g)
      BY <1>6, <1>7, <1>11
    <3>3. QED
      BY <3>1, <3>2
  <2>6. CASE j # 1
    <3>1. (<<at>> \o a)[j] = a[j - 1] /\ j - 1 \in 1 .. Len(a)
      BY <2>1, <2>3, <2>6, SMTT(20)
    <3>2. F[a[j - 1]] > 0 /\ a[j - 1] > Len(leaf.heap) /\ a[j - 1] \in Nat
      BY <1>9, <2>1, <3>1, ElementOfSeq
    <3>3. a[j - 1] > Len(g)
      <4> DEFINE x == a[j - 1]
                 y == Len(leaf.heap)
                 z == Len(g)
      <4>1. x \in Nat /\ y \in Nat /\ z \in Nat /\ x > y /\ y >= z
        BY <1>7, <2>4, <3>2
      <4> HIDE DEF x, y, z
      <4>2. x > z
        BY <4>1
      <4>3. QED
        BY <4>2 DEF x, z
    <3>4. QED
      BY <3>1, <3>2, <3>3
  <2>7. QED
    BY <2>5, <2>6
<1>21. r.heap = rest.heap /\ r.leaves = <<at>> \o a
  OBVIOUS
<1> HIDE DEF r, a
<1>22. \E o : Row(r.heap, F, r.leaves, o, Part(s, Len(s) - k, Len(s)))
  BY <1>3, <1>18, <1>21
<1>23. MadeBy(g, E, F, s, k, r)
  BY <1>9, <1>11, <1>19, <1>20, <1>21, <1>22 DEF MadeBy
<1>24. QED
  BY <1>23 DEF r, a, at

\* make_leaves gives the text of s in leaves, each of which it counts.
LEMMA MakeKeeps ==
  ASSUME NEW h, NEW D, Held(h, D), NEW s \in Seq(Char)
  PROVE  \E F : MadeBy(h, D, F, s, Len(s), make_leaves(h, s))
<1> DEFINE n == Len(s)
<1>1. n \in Nat
  BY LenProperties
<1>2. PICK f : /\ f = [k \in 0 .. n |-> MakeBody(f, s, k)]
               /\ \A g : make_leaves(g, s) = f[n][g]
  BY <1>1, MakeSteps
<1> HIDE DEF n
<1> DEFINE S == {k \in 0 .. n : Makes(f, s, k)}
<1>3. ASSUME NEW k \in 0 .. n, \A j \in 0 .. k - 1 : j \in S
      PROVE  k \in S
  <2>1. \A j \in 0 .. k - 1 : Makes(f, s, j)
    BY <1>3
  <2>2. f[k] = MakeBody(f, s, k)
    BY <1>2
  <2>3. ASSUME NEW g, NEW E, Held(g, E)
        PROVE  \E F : MadeBy(g, E, F, s, k, f[k][g])
    <3>1. g \in Heap
      BY <2>3, HeldFacts
    <3>2. f[k][g] = MakeNode(f, s, k, g)
      <4>1. MakeBody(f, s, k)[g] = MakeNode(f, s, k, g)
        BY <3>1, Zenon DEF MakeBody
      <4>2. QED
        BY <2>2, <4>1, Zenon
    <3>3. CASE k = 0
      <4>1. f[k][g] = [heap |-> g, leaves |-> <<>>]
        BY <3>2, <3>3 DEF MakeNode
      <4>2. MadeBy(g, E, E, s, 0, [heap |-> g, leaves |-> <<>>])
        BY <2>3, MakeNone
      <4>3. QED
        BY <3>3, <4>1, <4>2
    <3>4. CASE k # 0
      <4> DEFINE i == Len(s) - k
                 c == smaller(k, MAX_SIZE_LEAF)
                 e == i + c
                 leaf == String_make_leaf(g, SubSeq(s, i + 1, i + c))
                 rest == f[k - c][leaf.heap]
      <4>1. k \in Nat /\ k <= Len(s)
        BY <1>1 DEF n
      <4>2. k - c \in 0 .. k - 1
        BY <3>4, <4>1, Smaller
      <4>3. f[k][g] = [heap |-> rest.heap, leaves |-> <<leaf.at>> \o rest.leaves]
        BY <3>2, <3>4, Zenon DEF MakeNode
      <4>4. c \in 1 .. MAX_SIZE_LEAF /\ c \in 1 .. k /\ i \in Nat /\ i + c <= Len(s) /\ Len(s) \in Nat
        <5>1. c \in 1 .. MAX_SIZE_LEAF /\ c \in 1 .. k
          BY <3>4, <4>1, Smaller
        <5>2. Len(s) \in Nat
          BY <1>1 DEF n
        <5> HIDE DEF c
        <5>3. QED
          BY <4>1, <5>1, <5>2
      <4>5. Given(g, E, leaf)
        <5> DEFINE u == Part(s, i, e)
        <5>1. s \in Seq(Char) /\ i \in Nat /\ e \in Nat /\ i <= e /\ e <= Len(s) /\ e - i = c
          <6> HIDE DEF c, i
          <6>1. QED
            BY <4>4
        <5> HIDE DEF e
        <5>2. u \in Seq(Char) /\ Len(u) = e - i
          BY ONLY <5>1, PartCut, ZenonT(40) DEF u
        <5>3. Len(u) \in 1 .. MAX_SIZE_LEAF
          BY <4>4, <5>1, <5>2
        <5>4. leaf = String_make_leaf(g, u)
          BY DEF Part, e
        <5> HIDE DEF u
        <5>5. Given(g, E, String_make_leaf(g, u))
          BY <2>3, <5>2, <5>3, LeafMade
        <5>6. QED
          BY <5>4, <5>5
      <4>6. Held(leaf.heap, Plus(E, leaf.at))
        BY <4>5 DEF Given
      <4>7. PICK F : MadeBy(leaf.heap, Plus(E, leaf.at), F, s, k - c, rest)
        <5>1. Makes(f, s, k - c)
          BY <2>1, <4>2
        <5> HIDE DEF leaf, c
        <5>2. QED
          BY <4>6, <5>1 DEF Makes
      <4> HIDE DEF rest
      <4>8. /\ i = Len(s) - k /\ c = smaller(k, MAX_SIZE_LEAF) /\ e = i + c
            /\ leaf = String_make_leaf(g, SubSeq(s, i + 1, i + c))
        OBVIOUS
      <4> HIDE DEF leaf, e, c, i
      <4>9. MadeBy(g, E, F, s, k, [heap |-> rest.heap, leaves |-> <<leaf.at>> \o rest.leaves])
        BY <2>3, <3>4, <4>1, <4>7, <4>8, MakeOne
      <4>10. QED
        BY <4>3, <4>9
    <3>5. QED
      BY <3>3, <3>4
  <2>4. Makes(f, s, k)
    BY <2>3, Zenon DEF Makes
  <2>5. QED
    BY <2>4
<1>4. n \in S
  <2>1. \A m \in 0 .. n : (\A k \in 0 .. m - 1 : k \in S) => m \in S
    BY <1>3
  <2> HIDE DEF S
  <2>2. \A m \in 0 .. n : m \in S
    BY ONLY <1>1, <2>1, FromBelow
  <2>3. QED
    BY <1>1, <2>2
<1>5. Makes(f, s, n)
  BY <1>4
<1>6. \E F : MadeBy(h, D, F, s, n, f[n][h])
  BY <1>5, Zenon DEF Makes
<1>7. make_leaves(h, s) = f[n][h]
  BY <1>2
<1>8. QED
  BY <1>6, <1>7, Zenon DEF n

-----------------------------------------------------------------------------
(* A tree that is low, and what makes one.                                   *)

Low(g, n) ==
  Len(String_collect_leaves(g)[n]) > 2
    => String_height(g)[n] <= Threshold(Len(String_collect_leaves(g)[n]))

LEMMA BuiltLow ==
  ASSUME NEW g, NEW E, NEW F, NEW lv, NEW o, NEW t, NEW from, NEW k \in Nat, k >= 1, NEW r,
         BuiltBy(g, E, F, lv, o, t, from, k, r)
  PROVE  Low(r.heap, r.at)
<1> DEFINE x == String_height(r.heap)[r.at]
           l == Len(String_collect_leaves(r.heap)[r.at])
<1>1. l = k /\ \A j \in Nat : j >= k /\ j >= 2 => x <= log2(j - 1) + 2
  BY DEF BuiltBy
<1>2. x \in Nat
  <2>1. r.heap \in Heap /\ r.at \in Live(r.heap)
    BY HeldFacts DEF BuiltBy, Holds
  <2>2. QED
    BY <2>1, LiveRange, HeightType
<1> HIDE DEF x, l
<1>3. k + 1 \in Nat /\ k + 1 >= k /\ k + 1 >= 2 /\ (k + 1) - 1 = k
  OBVIOUS
<1>4. x <= log2(k) + 2
  <2>1. x <= log2((k + 1) - 1) + 2
    BY <1>1, <1>3
  <2>2. QED
    BY <1>3, <2>1
<1>5. log2(k) \in Nat
  BY LogAt
<1>6. x <= Threshold(k)
  BY <1>2, <1>4, <1>5 DEF Threshold
<1>7. QED
  BY <1>1, <1>6 DEF Low, x, l

\* A tree stays as low as it is.
LEMMA LowStays ==
  ASSUME NEW h \in Heap, NEW g, NEW E, Held(g, E), Agree(h, g), NEW n \in Live(h), n \in Live(g)
  PROVE  Low(h, n) <=> Low(g, n)
<1>1. n \in 0 .. Len(h)
  BY LiveRange
<1>2. /\ String_height(g)[n] = String_height(h)[n]
      /\ String_collect_leaves(g)[n] = String_collect_leaves(h)[n]
  BY <1>1, SameTree
<1>3. QED
  BY <1>2 DEF Low

\* What an insertion makes of its text: a node that is new.
LEMMA InsertedKeeps ==
  ASSUME NEW h, NEW E, Held(h, E), NEW s \in Seq(Char), s # <<>>
  PROVE  LET r == Inserted(h, s)
         IN  /\ Held(r.heap, Plus(E, r.at)) /\ Agree(h, r.heap) /\ r.at \in Nat \ {Null}
             /\ r.at > Len(h) /\ Holds(r.heap, r.at, s) /\ Low(r.heap, r.at)
             /\ Live(h) \subseteq Live(r.heap)
<1> DEFINE r == Inserted(h, s)
<1>1. h \in Heap /\ E \in [Nat -> Nat] /\ Len(h) \in Nat /\ Len(s) \in Nat /\ Len(s) > 0
  <2>1. Len(s) \in Nat \ {0}
    BY EmptySeq
  <2>2. QED
    BY <2>1, HeldFacts
<1>2. CASE Len(s) <= MAX_SIZE_LEAF
  <2>1. r = String_make_leaf(h, s)
    BY <1>2 DEF Inserted
  <2>2. Len(s) \in 1 .. MAX_SIZE_LEAF
    BY <1>1, <1>2, Sizes
  <2>3. /\ Given(h, E, String_make_leaf(h, s))
        /\ String_make_leaf(h, s).heap[Len(h) + 1].leaf
        /\ String_make_leaf(h, s).heap[Len(h) + 1].str = s
        /\ String_make_leaf(h, s).heap[Len(h) + 1].len = Len(s)
    BY <2>2, LeafMade
  <2> HIDE DEF r
  <2>4. /\ Held(r.heap, Plus(E, r.at)) /\ Agree(h, r.heap)
        /\ r.at = Len(h) + 1 /\ r.at \in Live(r.heap) /\ Live(h) \subseteq Live(r.heap)
        /\ r.heap[r.at].leaf /\ r.heap[r.at].str = s /\ r.heap[r.at].len = Len(s)
    BY <2>1, <2>3 DEF Given
  <2>5. r.heap \in Heap
    BY <2>4, HeldFacts
  <2>6. r.at \in Nat \ {Null} /\ r.at > Len(h)
    <3>1. r.at \in Nat \ {Null}
      BY <2>4, <2>5, LiveFacts
    <3>2. QED
      BY <1>1, <2>4, <3>1
  <2>7. Holds(r.heap, r.at, s)
    <3>1. r.heap[r.at].leaf => Flat(r.heap)[r.at] = r.heap[r.at].str
      BY <2>4, Lengths
    <3>2. QED
      BY <1>1, <2>4, <3>1 DEF Holds
  <2>8. Low(r.heap, r.at)
    <3>1. r.at \in 0 .. Len(r.heap)
      BY <2>4, <2>5, LiveRange
    <3>2. String_collect_leaves(r.heap)[r.at] = <<r.at>>
      BY <2>4, <2>5, <3>1, LeavesAt DEF LeavesNode
    <3>3. ~(Len(<<r.at>>) > 2)
      OBVIOUS
    <3>4. QED
      BY <3>2, <3>3 DEF Low
  <2>9. QED
    BY <2>4, <2>6, <2>7, <2>8 DEF r
<1>3. CASE ~(Len(s) <= MAX_SIZE_LEAF)
  <2> DEFINE made == make_leaves(h, s)
             lv == made.leaves
             n == Len(lv)
  <2>1. r = String_build_balanced(made.heap, lv, 0, n)
    BY <1>3 DEF Inserted
  <2>2. PICK D : MadeBy(h, E, D, s, Len(s), made)
    BY MakeKeeps
  <2> HIDE DEF made
  <2>3. /\ Held(made.heap, D) /\ Agree(h, made.heap) /\ \A k \in Nat \ {Null} : E[k] <= D[k]
        /\ Live(h) \subseteq Live(made.heap)
        /\ \A j \in 1 .. Len(lv) : D[lv[j]] > 0 /\ lv[j] > Len(h)
    BY <2>2 DEF MadeBy
  <2>4. PICK o : Row(made.heap, D, lv, o, s)
    <3>1. Len(s) - Len(s) = 0
      BY <1>1
    <3>2. Part(s, Len(s) - Len(s), Len(s)) = s
      BY <3>1, PartAll
    <3>3. QED
      BY <2>2, <3>2 DEF MadeBy
  <2> HIDE DEF lv
  <2>5. lv \in Seq(Nat) /\ n \in Nat
    <3>1. lv \in Seq(Nat)
      BY <2>4 DEF Row
    <3>2. QED
      BY <3>1, LenProperties
  <2>6. n >= 1 /\ o[0 + 1] = 0 /\ o[0 + n + 1] = Len(s)
    <3>1. o[1] = 0 /\ o[n + 1] = Len(s)
      BY <2>4 DEF Row
    <3> HIDE DEF n
    <3>2. n # 0
      BY <1>1, <3>1, SMTT(20)
    <3>3. QED
      BY <2>5, <3>1, <3>2
  <2>7. Built(made.heap, D, lv, o, s, 0, n, r)
    <3> HIDE DEF r
    <3>1. Built(made.heap, D, lv, o, s, 0, Len(lv), String_build_balanced(made.heap, lv, 0, Len(lv)))
      BY <2>3, <2>4, <2>6, BuildKeeps
    <3>2. QED
      BY <2>1, <3>1
  <2> HIDE DEF n, r
  <2>8. PICK F : BuiltBy(made.heap, D, F, lv, o, s, 0, n, r)
    BY <2>7 DEF Built
  <2>9. /\ Held(r.heap, F) /\ Agree(made.heap, r.heap) /\ \A k \in Nat \ {Null} : D[k] <= F[k]
        /\ Safe(r.heap, F, r.at) /\ Live(made.heap) \subseteq Live(r.heap)
        /\ (n = 1 => r.at = lv[0 + 1])
        /\ (n >= 2 => F[r.at] > 0 /\ r.at > Len(made.heap))
        /\ Holds(r.heap, r.at, Part(s, 0, Len(s)))
    BY <2>6, <2>8 DEF BuiltBy
  <2>10. made.heap \in Heap /\ r.heap \in Heap /\ D \in [Nat -> Nat] /\ F \in [Nat -> Nat]
         /\ Len(made.heap) \in Nat /\ Len(h) <= Len(made.heap)
    BY <2>3, <2>9, HeldFacts DEF Agree
  <2>11. r.at \in Live(r.heap) /\ r.at \in Nat \ {Null}
    <3>1. r.at \in Live(r.heap)
      BY <2>9 DEF Holds
    <3>2. QED
      BY <2>10, <3>1, LiveFacts
  <2>12. r.at > Len(h) /\ F[r.at] > 0
    <3>1. CASE n = 1
      <4>1. r.at = lv[1] /\ 1 \in 1 .. Len(lv)
        BY <2>9, <3>1 DEF n
      <4>2. D[r.at] > 0 /\ r.at > Len(h)
        BY <2>3, <4>1
      <4>3. D[r.at] <= F[r.at] /\ D[r.at] \in Nat /\ F[r.at] \in Nat
        BY <2>9, <2>10, <2>11
      <4>4. QED
        BY <4>2, <4>3
    <3>2. CASE n # 1
      <4>1. F[r.at] > 0 /\ r.at > Len(made.heap)
        BY <2>5, <2>6, <2>9, <3>2
      <4>2. QED
        <5> DEFINE x == r.at
                   y == Len(made.heap)
                   z == Len(h)
        <5>1. x \in Nat /\ y \in Nat /\ z \in Nat /\ x > y /\ z <= y
          BY <1>1, <2>10, <2>11, <4>1
        <5> HIDE DEF x, y, z
        <5>2. x > z
          BY <5>1
        <5>3. QED
          BY <4>1, <5>2 DEF x, z
    <3>3. QED
      BY <3>1, <3>2
  <2>13. Held(r.heap, Plus(E, r.at))
    <3>1. E[r.at] = 0
      <4>1. r.at \notin Live(h)
        <5> DEFINE x == r.at
                   z == Len(h)
        <5>1. x \in Live(h) => x \in 1 .. z
          BY DEF Live
        <5>2. x \in Nat /\ z \in Nat /\ x > z
          BY <1>1, <2>11, <2>12
        <5> HIDE DEF x, z
        <5>3. x \notin 1 .. z
          BY <5>2
        <5>4. QED
          BY <5>1, <5>3 DEF x
      <4>2. ~(E[r.at] > 0)
        BY <2>11, <4>1, HeldFacts
      <4>3. E[r.at] \in Nat
        BY <1>1, <2>11
      <4>4. QED
        BY <4>2, <4>3
    <3>2. /\ Plus(E, r.at) \in [Nat -> Nat]
          /\ \A k \in Nat : E[k] \in Nat /\ Plus(E, r.at)[k] = IF k = r.at THEN E[k] + 1 ELSE E[k]
      <4>1. r.at \in Nat
        BY <2>11
      <4>2. QED
        BY <1>1, <4>1, PlusIs
    <3>3. \A k \in Nat \ {Null} : Plus(E, r.at)[k] <= F[k]
      <4> TAKE k \in Nat \ {Null}
      <4>1. E[k] <= D[k] /\ D[k] <= F[k] /\ E[k] \in Nat /\ D[k] \in Nat /\ F[k] \in Nat
        BY <1>1, <2>3, <2>9, <2>10
      <4>2. Plus(E, r.at)[k] = IF k = r.at THEN E[k] + 1 ELSE E[k]
        BY <3>2
      <4>3. k = r.at => E[k] = 0 /\ F[k] > 0
        BY <2>12, <3>1
      <4>4. QED
        BY <4>1, <4>2, <4>3
    <3>4. QED
      BY <2>9, <3>2, <3>3, HeldLess
  <2>14. Agree(h, r.heap)
    BY <1>1, <2>3, <2>9, <2>10, AgreeTrans
  <2>15. Holds(r.heap, r.at, s)
    <3>1. Part(s, 0, Len(s)) = s
      BY PartAll
    <3>2. QED
      BY <2>9, <3>1
  <2>16. Low(r.heap, r.at) /\ Live(h) \subseteq Live(r.heap)
    <3>1. Low(r.heap, r.at)
      BY <2>5, <2>6, <2>8, BuiltLow
    <3>2. Live(h) \subseteq Live(r.heap)
      BY <2>3, <2>9
    <3>3. QED
      BY <3>1, <3>2
  <2>17. QED
    BY <2>11, <2>12, <2>13, <2>14, <2>15, <2>16 DEF r
<1>4. QED
  BY <1>2, <1>3

\* String_rebalance: the same text in a tree that is low, in exchange for the
\* caller's reference to the old one.
LEMMA RebalanceKeeps ==
  ASSUME NEW h, NEW E, Held(h, E), NEW n \in Nat \ {Null}, E[n] > 0, NEW t, Holds(h, n, t)
  PROVE  LET r == String_rebalance(h, n)
         IN  /\ Held(r.heap, Plus(Minus(E, n), r.at)) /\ Agree(h, r.heap)
             /\ r.at \in Nat \ {Null} /\ Holds(r.heap, r.at, t) /\ Low(r.heap, r.at)
<1> DEFINE leaves == String_collect_leaves(h)[n]
           k == Len(leaves)
           built == String_build_balanced(h, leaves, 0, k)
           g == String_release(built.heap, n)
           stays == \/ n = Null
                    \/ k <= 2
                    \/ String_height(h)[n] <= Threshold(k) /\ String_height(h)[n] < 28
           r == String_rebalance(h, n)
<1>1. r = IF stays THEN [heap |-> h, at |-> n] ELSE [heap |-> g, at |-> built.at]
  BY Zenon DEF String_rebalance
<1>2. /\ h \in Heap /\ E \in [Nat -> Nat] /\ n \in Live(h) /\ n \in 0 .. Len(h) /\ Len(h) \in Nat
      /\ E[n] \in Nat
  <2>1. h \in Heap /\ E \in [Nat -> Nat] /\ n \in Live(h) /\ Len(h) \in Nat
    BY HeldFacts DEF Holds
  <2>2. QED
    BY <2>1, LiveRange
<1>3. Safe(h, E, n)
  BY SafeRoot
<1>4. /\ Minus(E, n) \in [Nat -> Nat] /\ Minus(E, n)[n] = E[n] - 1
      /\ \A j \in Nat : j # n => Minus(E, n)[j] = E[j]
  BY <1>2, MinusType
<1> DEFINE M == Minus(E, n)
<1> HIDE DEF M
<1>5. ASSUME NEW x \in Nat
      PROVE  /\ Plus(M, x) \in [Nat -> Nat]
             /\ \A j \in Nat : M[j] \in Nat /\ Plus(M, x)[j] = IF j = x THEN M[j] + 1 ELSE M[j]
  BY <1>4, PlusIs DEF M
<1>6. CASE stays
  <2>1. r.heap = h /\ r.at = n
    BY <1>1, <1>6
  <2> HIDE DEF r
  <2>2. \A j \in Nat \ {Null} : Plus(M, n)[j] <= E[j]
    <3> TAKE j \in Nat \ {Null}
    <3>1. Plus(M, n)[j] = (IF j = n THEN M[j] + 1 ELSE M[j]) /\ E[j] \in Nat
      BY <1>2, <1>5
    <3>2. M[j] = IF j = n THEN E[n] - 1 ELSE E[j]
      BY <1>4 DEF M
    <3>3. CASE j = n
      <4>1. Plus(M, n)[j] = M[j] + 1 /\ M[j] = E[j] - 1
        BY <3>1, <3>2, <3>3
      <4>2. QED
        BY <3>1, <4>1
    <3>4. CASE j # n
      <4>1. Plus(M, n)[j] = E[j]
        BY <3>1, <3>2, <3>4
      <4>2. QED
        BY <3>1, <4>1
    <3>5. QED
      BY <3>3, <3>4
  <2>3. Plus(M, n) \in [Nat -> Nat]
    BY <1>5
  <2>4. Held(h, Plus(M, n))
    BY <2>2, <2>3, HeldLess
  <2>5. Low(h, n)
    <3>1. k > 2 => String_height(h)[n] <= Threshold(k)
      <4>1. k \in Nat
        BY <1>2, LeavesType, LenProperties
      <4>2. QED
        BY <1>6, <4>1
    <3>2. QED
      BY <3>1, Zenon DEF Low
  <2>6. Agree(h, h)
    BY <1>2, AgreeSelf
  <2>7. QED
    BY <2>1, <2>4, <2>5, <2>6 DEF M, r
<1>7. CASE ~stays
  <2>1. r.heap = g /\ r.at = built.at
    BY <1>1, <1>7
  <2>2. k \in Nat /\ ~(k <= 2)
    <3>1. k \in Nat
      BY <1>2, LeavesType, LenProperties
    <3>2. QED
      BY <1>7, <3>1
  <2>3. Flat(h)[n] = t /\ h[n].len > 0 /\ h[n].len = Len(t)
    BY DEF Holds
  <2>4. PICK o : Row(h, E, leaves, o, t)
    BY <1>3, <2>3, LeavesRow
  <2>5. k >= 1 /\ k >= 2 /\ ~(k = 1)
    <3> HIDE DEF k
    <3>1. QED
      BY <2>2
  <2> HIDE DEF leaves
  <2>6. Built(h, E, leaves, o, t, 0, k, built)
    <3>1. Built(h, E, leaves, o, t, 0, Len(leaves), String_build_balanced(h, leaves, 0, Len(leaves)))
      BY <2>4, <2>5, BuildKeeps
    <3>2. QED
      BY <3>1
  <2>7. o[0 + 1] = 0 /\ o[0 + k + 1] = Len(t) /\ t \in Seq(Char)
    <3>1. o[1] = 0 /\ o[k + 1] = Len(t) /\ t \in Seq(Char)
      BY <2>4 DEF Row
    <3> HIDE DEF k
    <3>2. QED
      BY <2>2, <3>1
  <2> DEFINE x == built.at
             b == built.heap
  <2> HIDE DEF k, built
  <2>8. PICK F : BuiltBy(h, E, F, leaves, o, t, 0, k, built)
    BY <2>6 DEF Built
  <2>9. /\ Held(b, F) /\ Agree(h, b) /\ \A j \in Nat \ {Null} : E[j] <= F[j]
        /\ F[x] > 0 /\ x > Len(h) /\ Holds(b, x, Part(t, 0, Len(t)))
    BY <2>5, <2>7, <2>8 DEF BuiltBy
  <2>10. Low(b, x)
    BY <2>2, <2>5, <2>8, BuiltLow
  <2> HIDE DEF x, b
  <2>11. b \in Heap /\ F \in [Nat -> Nat] /\ x \in Live(b)
    BY <2>9, HeldFacts DEF Holds
  <2>12. x \in Nat \ {Null}
    BY <2>11, LiveFacts
  <2>13. x \notin Live(h) /\ x # n
    <3>1. x \in Live(h) => x \in 0 .. Len(h)
      BY <1>2, LiveRange
    <3>2. x \notin 0 .. Len(h)
      BY <1>2, <2>9, <2>12
    <3>3. QED
      BY <1>2, <3>1, <3>2
  <2>14. E[x] = 0
    <3>1. E[x] \in Nat /\ ~(E[x] > 0)
      BY <1>2, <2>12, <2>13, HeldFacts
    <3>2. QED
      BY <3>1
  <2>15. F[n] > 0 /\ F[n] \in Nat
    <3>1. E[n] \in Nat /\ E[n] > 0
      BY <1>2
    <3>2. E[n] <= F[n] /\ F[n] \in Nat
      BY <2>9, <2>11
    <3>3. QED
      BY ONLY <3>1, <3>2
  <2>16. g = String_release(b, n)
    BY DEF b
  <2> HIDE DEF g
  <2>17. Held(g, Minus(F, n)) /\ Agree(b, g)
    BY <2>9, <2>15, <2>16, Released
  <2>18. /\ Minus(F, n) \in [Nat -> Nat] /\ Minus(F, n)[n] = F[n] - 1
         /\ \A j \in Nat : j # n => Minus(F, n)[j] = F[j]
    BY <2>11, <2>15, MinusType
  <2>19. Held(g, Plus(M, x))
    <3>1. Plus(M, x) \in [Nat -> Nat]
      BY <1>5, <2>12
    <3>2. \A j \in Nat \ {Null} : Plus(M, x)[j] <= Minus(F, n)[j]
      <4> TAKE j \in Nat \ {Null}
      <4>1. Plus(M, x)[j] = (IF j = x THEN M[j] + 1 ELSE M[j])
        BY <1>5, <2>12
      <4>2. M[j] = IF j = n THEN E[n] - 1 ELSE E[j]
        BY <1>4 DEF M
      <4>3. Minus(F, n)[j] = IF j = n THEN F[n] - 1 ELSE F[j]
        BY <2>18
      <4>4. E[j] \in Nat /\ F[j] \in Nat /\ E[j] <= F[j] /\ E[n] <= F[n]
        BY <1>2, <2>9, <2>11
      <4>5. j = x => E[j] = 0 /\ F[j] > 0 /\ j # n
        BY <2>9, <2>13, <2>14
      <4>6. CASE j = x
        <5>1. Plus(M, x)[j] = E[j] + 1 /\ Minus(F, n)[j] = F[j]
          BY <4>1, <4>2, <4>3, <4>5, <4>6
        <5>2. QED
          BY <4>4, <4>5, <4>6, <5>1
      <4>7. CASE j # x /\ j = n
        <5>1. Plus(M, x)[j] = E[j] - 1 /\ Minus(F, n)[j] = F[j] - 1
          BY <4>1, <4>2, <4>3, <4>7
        <5>2. QED
          BY <4>4, <5>1
      <4>8. CASE j # x /\ j # n
        <5>1. Plus(M, x)[j] = E[j] /\ Minus(F, n)[j] = F[j]
          BY <4>1, <4>2, <4>3, <4>8
        <5>2. QED
          BY <4>4, <5>1
      <4>9. QED
        BY <4>6, <4>7, <4>8
    <3>3. QED
      BY <2>17, <3>1, <3>2, HeldLess
  <2>20. g \in Heap /\ x \in Live(g)
    <3>1. Minus(F, n)[x] > 0
      BY <2>9, <2>12, <2>13, <2>18
    <3>2. QED
      BY <2>12, <2>17, <3>1, HeldFacts
  <2>21. Agree(h, g)
    BY <1>2, <2>9, <2>11, <2>17, <2>20, AgreeTrans
  <2>22. Holds(g, x, t)
    <3>1. Part(t, 0, Len(t)) = t
      BY <2>7, PartAll
    <3>2. Holds(b, x, t)
      BY <2>9, <3>1
    <3>3. QED
      BY <2>9, <2>17, <2>20, <3>2, HoldsOn
  <2>23. Low(g, x)
    BY <2>10, <2>11, <2>17, <2>20, LowStays
  <2>24. r.heap = g /\ r.at = x
    BY <2>1 DEF x
  <2> HIDE DEF r
  <2>25. QED
    BY <2>12, <2>19, <2>21, <2>22, <2>23, <2>24 DEF M, r
<1>8. QED
  BY <1>6, <1>7

-----------------------------------------------------------------------------
(* References that an operation holds, to up to six nodes; a reference to    *)
(* Null is none.                                                             *)

One(x, k) == IF k = x THEN 1 ELSE 0

Owe(a, b, c, d, e, f) ==
  [k \in Nat |-> One(a, k) + One(b, k) + One(c, k) + One(d, k) + One(e, k) + One(f, k)]

LEMMA OweIs ==
  ASSUME NEW a, NEW b, NEW c, NEW d, NEW e, NEW f
  PROVE  /\ Owe(a, b, c, d, e, f) \in [Nat -> Nat]
         /\ \A k \in Nat : Owe(a, b, c, d, e, f)[k]
              = One(a, k) + One(b, k) + One(c, k) + One(d, k) + One(e, k) + One(f, k)
<1>1. \A x, k : One(x, k) \in Nat
  BY DEF One
<1>2. QED
  BY <1>1 DEF Owe

LEMMA OweSwap ==
  ASSUME NEW a, NEW b, NEW c, NEW d, NEW e, NEW f
  PROVE  /\ Owe(a, b, c, d, e, f) = Owe(b, a, c, d, e, f)
         /\ Owe(a, b, c, d, e, f) = Owe(c, b, a, d, e, f)
         /\ Owe(a, b, c, d, e, f) = Owe(d, b, c, a, e, f)
         /\ Owe(a, b, c, d, e, f) = Owe(e, b, c, d, a, f)
         /\ Owe(a, b, c, d, e, f) = Owe(f, b, c, d, e, a)
<1>1. \A x, k : One(x, k) \in Nat
  BY DEF One
<1>2. QED
  BY <1>1 DEF Owe

LEMMA OweHas ==
  ASSUME NEW a \in Nat, NEW b \in Nat, NEW c \in Nat, NEW d \in Nat, NEW e \in Nat, NEW f \in Nat
  PROVE  \A x \in {a, b, c, d, e, f} : x \in Nat /\ Owe(a, b, c, d, e, f)[x] > 0
<1>1. \A x, k : One(x, k) \in Nat
  BY DEF One
<1>2. \A x : One(x, x) = 1
  BY DEF One
<1> TAKE x \in {a, b, c, d, e, f}
<1>3. Owe(a, b, c, d, e, f)[x]
        = One(a, x) + One(b, x) + One(c, x) + One(d, x) + One(e, x) + One(f, x)
  BY OweIs
<1>4. One(a, x) = 1 \/ One(b, x) = 1 \/ One(c, x) = 1 \/ One(d, x) = 1 \/ One(e, x) = 1 \/ One(f, x) = 1
  BY <1>2
<1>5. QED
  BY <1>1, <1>3, <1>4

\* One more.
LEMMA OweMore ==
  ASSUME NEW h, NEW b, NEW c, NEW d, NEW e, NEW f, NEW x \in Nat,
         Held(h, Plus(Owe(Null, b, c, d, e, f), x))
  PROVE  Held(h, Owe(x, b, c, d, e, f))
<1> DEFINE E == Owe(Null, b, c, d, e, f)
           F == Owe(x, b, c, d, e, f)
<1>1. E \in [Nat -> Nat] /\ F \in [Nat -> Nat]
  BY OweIs
<1>2. \A k \in Nat \ {Null} : F[k] <= Plus(E, x)[k]
  <2> TAKE k \in Nat \ {Null}
  <2> DEFINE rest == One(b, k) + One(c, k) + One(d, k) + One(e, k) + One(f, k)
  <2>1. rest \in Nat
    BY DEF One
  <2>2. E[k] = One(Null, k) + rest /\ F[k] = One(x, k) + rest
    <3>1. \A y : One(y, k) \in Nat
      BY DEF One
    <3>2. /\ E[k] = One(Null, k) + One(b, k) + One(c, k) + One(d, k) + One(e, k) + One(f, k)
          /\ F[k] = One(x, k) + One(b, k) + One(c, k) + One(d, k) + One(e, k) + One(f, k)
      BY OweIs
    <3>3. QED
      BY <3>1, <3>2
  <2> HIDE DEF rest, E, F
  <2>3. E[k] \in Nat /\ Plus(E, x)[k] = IF k = x THEN E[k] + 1 ELSE E[k]
    BY <1>1, PlusIs
  <2>4. One(Null, k) = 0 /\ One(x, k) = IF k = x THEN 1 ELSE 0
    BY DEF One
  <2>5. QED
    BY <2>1, <2>2, <2>3, <2>4
<1> HIDE DEF F
<1>3. Held(h, F)
  <2>1. Held(h, Plus(E, x))
    OBVIOUS
  <2> DEFINE P == Plus(E, x)
  <2>2. Held(h, P) /\ \A k \in Nat \ {Null} : F[k] <= P[k]
    BY <1>2, <2>1
  <2> HIDE DEF P
  <2>3. QED
    BY <1>1, <2>2, HeldLess
<1>4. QED
  BY <1>3 DEF F

\* One less, in numbers.
LEMMA OweMinus ==
  ASSUME NEW a \in Nat, NEW b, NEW c, NEW d, NEW e, NEW f, Owe(a, b, c, d, e, f)[a] > 0
  PROVE  \A k \in Nat \ {Null} : Owe(Null, b, c, d, e, f)[k] <= Minus(Owe(a, b, c, d, e, f), a)[k]
<1> DEFINE E == Owe(Null, b, c, d, e, f)
           F == Owe(a, b, c, d, e, f)
<1>1. E \in [Nat -> Nat] /\ F \in [Nat -> Nat]
  BY OweIs
<1> TAKE k \in Nat \ {Null}
<1> DEFINE rest == One(b, k) + One(c, k) + One(d, k) + One(e, k) + One(f, k)
<1>2. rest \in Nat
  BY DEF One
<1>3. E[k] = One(Null, k) + rest /\ F[k] = One(a, k) + rest
  <2>1. \A y : One(y, k) \in Nat
    BY DEF One
  <2>2. /\ E[k] = One(Null, k) + One(b, k) + One(c, k) + One(d, k) + One(e, k) + One(f, k)
        /\ F[k] = One(a, k) + One(b, k) + One(c, k) + One(d, k) + One(e, k) + One(f, k)
    BY OweIs
  <2>3. QED
    BY <2>1, <2>2
<1>4. One(Null, k) = 0 /\ One(a, k) = IF k = a THEN 1 ELSE 0
  BY DEF One
<1>5. F[a] > 0
  OBVIOUS
<1> HIDE DEF rest, E, F
<1>6. Minus(F, a)[k] = IF k = a THEN F[k] - 1 ELSE F[k]
  BY <1>1, <1>5, MinusType
<1>7. E[k] <= Minus(F, a)[k]
  BY <1>2, <1>3, <1>4, <1>6
<1>8. QED
  BY <1>7 DEF E, F

\* String_release of the first.
LEMMA OweRelease ==
  ASSUME NEW h, NEW a \in Nat, NEW b \in Nat, NEW c \in Nat, NEW d \in Nat, NEW e \in Nat,
         NEW f \in Nat, Held(h, Owe(a, b, c, d, e, f))
  PROVE  /\ Held(String_release(h, a), Owe(Null, b, c, d, e, f))
         /\ Agree(h, String_release(h, a))
<1> DEFINE E == Owe(Null, b, c, d, e, f)
           F == Owe(a, b, c, d, e, f)
<1>1. E \in [Nat -> Nat] /\ F \in [Nat -> Nat]
  BY OweIs
<1>2. F[a] > 0
  BY OweHas
<1>3. \A k \in Nat \ {Null} : E[k] <= Minus(F, a)[k]
  BY <1>2, OweMinus
<1>4. Held(h, F)
  OBVIOUS
<1> HIDE DEF E, F
<1>5. /\ Held(String_release(h, a), Minus(F, a)) /\ Agree(h, String_release(h, a))
  BY <1>2, <1>4, Released
<1> DEFINE M == Minus(F, a)
<1>6. Held(String_release(h, a), M) /\ \A k \in Nat \ {Null} : E[k] <= M[k]
  BY <1>3, <1>5
<1> HIDE DEF M
<1>7. Held(String_release(h, a), E)
  BY <1>1, <1>6, HeldLess
<1>8. QED
  BY <1>5, <1>7 DEF E

\* The same, beside an empty rope, which stays.
LEMMA OweStray ==
  ASSUME NEW h, NEW a \in Nat, NEW b \in Nat, NEW c \in Nat, NEW d \in Nat, NEW e \in Nat,
         NEW f \in Nat, Held(h, Owe(a, b, c, d, e, f)),
         NEW x \in Live(h), h[x].len = 0, x \notin {a, b, c, d, e, f}
  PROVE  LET g == String_release(h, a)
         IN  /\ Held(g, Owe(Null, b, c, d, e, f)) /\ x \in Live(g) /\ g[x].len = 0
             /\ x \notin {Null, b, c, d, e, f}
<1> DEFINE g == String_release(h, a)
           F == Owe(a, b, c, d, e, f)
<1>1. Held(g, Owe(Null, b, c, d, e, f))
  BY OweRelease
<1>2. F[a] > 0
  BY OweHas
<1>3. x \in Nat /\ x # Null
  BY HeldFacts, LiveFacts
<1>4. F[x] = 0
  <2>1. F[x] = One(a, x) + One(b, x) + One(c, x) + One(d, x) + One(e, x) + One(f, x)
    BY <1>3, OweIs
  <2>2. QED
    BY <2>1 DEF One
<1>5. Held(h, F)
  OBVIOUS
<1> HIDE DEF F
<1>6. x \in Live(g) /\ g[x].len = 0
  BY <1>2, <1>4, <1>5, EmptyStays
<1>7. QED
  BY <1>1, <1>3, <1>6

-----------------------------------------------------------------------------
(* The steps of an operation, and the references it holds.                   *)

\* A node that an operation still refers to holds what it held.
LEMMA OweStays ==
  ASSUME NEW h, NEW E, Held(h, E), NEW g, Agree(h, g),
         NEW a \in Nat, NEW b \in Nat, NEW c \in Nat, NEW d \in Nat, NEW e \in Nat,
         NEW f \in Nat, Held(g, Owe(a, b, c, d, e, f)),
         NEW x \in {a, b, c, d, e, f}, NEW t
  PROVE  (Has(h, x, t) => Has(g, x, t)) /\ (x # Null => x \in Live(g))
<1> DEFINE F == Owe(a, b, c, d, e, f)
<1>1. x \in Nat /\ F[x] > 0
  <2>1. x \in Nat
    OBVIOUS
  <2>2. \A y, k : One(y, k) \in Nat
    BY DEF One
  <2>3. F[x] = One(a, x) + One(b, x) + One(c, x) + One(d, x) + One(e, x) + One(f, x)
    BY ONLY <2>1, OweIs DEF F
  <2>4. One(a, x) = 1 \/ One(b, x) = 1 \/ One(c, x) = 1 \/ One(d, x) = 1 \/ One(e, x) = 1 \/ One(f, x) = 1
    BY DEF One
  <2>5. QED
    BY ONLY <2>1, <2>2, <2>3, <2>4
<1>2. Held(g, F)
  OBVIOUS
<1> HIDE DEF F
<1>3. x # Null => x \in Live(g)
  BY <1>1, <1>2, HeldFacts
<1>4. Holds(h, x, t) /\ x # Null => Holds(g, x, t)
  BY <1>2, <1>3, HoldsOn
<1>5. QED
  BY <1>3, <1>4 DEF Has

\* String_split of a node that is referred to.
LEMMA SplitOwe ==
  ASSUME NEW h, NEW c \in Nat, NEW d \in Nat, NEW e \in Nat, NEW f \in Nat,
         Held(h, Owe(Null, Null, c, d, e, f)), c # Null, NEW t, Holds(h, c, t),
         NEW i \in 0 .. Len(t), NEW r, r = String_split(h, c, i)
  PROVE  /\ Held(r.heap, Owe(r.left, r.right, c, d, e, f)) /\ Agree(h, r.heap)
         /\ r.left \in Nat /\ r.right \in Nat
         /\ Has(r.heap, r.left, Part(t, 0, i)) /\ Has(r.heap, r.right, Part(t, i, Len(t)))
         /\ (i < Len(t) => r.right # Null) /\ (i > 0 => r.left # Null)
         /\ t \in Seq(Char)
<1> DEFINE E == Owe(Null, Null, c, d, e, f)
           F == Owe(r.left, r.right, c, d, e, f)
           P == Plus(E, r.left)
           Q == Plus(P, r.right)
<1>1. E \in [Nat -> Nat] /\ F \in [Nat -> Nat]
  BY OweIs
<1>2. E[c] > 0 /\ Null \in Nat
  BY OweHas DEF Null
<1>3. /\ Flat(h)[c] = t /\ h[c].len = Len(t) /\ h[c].len > 0 /\ c \in Live(h) /\ i \in 0 .. h[c].len
  BY DEF Holds
<1>4. t \in Seq(Char) /\ Len(t) \in Nat
  <2>1. t \in Seq(Char)
    BY <1>3, HoldsText
  <2>2. QED
    BY <2>1, LenProperties
<1>5. Halves(h, E, c, i, r)
  <2>1. Held(h, E)
    OBVIOUS
  <2> HIDE DEF E
  <2>2. Safe(h, E, c)
    BY <1>2, <2>1, SafeRoot
  <2>3. QED
    BY <1>3, <2>1, <2>2, SplitKeeps
<1>6. /\ Held(r.heap, Q) /\ Agree(h, r.heap) /\ r.left \in Nat /\ r.right \in Nat
      /\ IF i = 0 THEN r.left = Null ELSE Holds(r.heap, r.left, Part(t, 0, i))
      /\ IF i = Len(t) THEN r.right = Null ELSE Holds(r.heap, r.right, Part(t, i, Len(t)))
  BY <1>3, <1>5 DEF Halves
<1>6a. r.heap \in Heap
  <2> HIDE DEF Q
  <2>1. QED
    BY <1>6, HeldFacts
<1>7. /\ P \in [Nat -> Nat] /\ Q \in [Nat -> Nat]
      /\ \A k \in Nat : /\ P[k] = IF k = r.left THEN E[k] + 1 ELSE E[k]
                        /\ Q[k] = IF k = r.right THEN P[k] + 1 ELSE P[k]
                        /\ E[k] \in Nat
  <2> HIDE DEF E, P
  <2>1. P \in [Nat -> Nat] /\ \A k \in Nat : E[k] \in Nat /\ P[k] = IF k = r.left THEN E[k] + 1 ELSE E[k]
    BY <1>1, <1>6, PlusIs DEF P
  <2>2. Q \in [Nat -> Nat] /\ \A k \in Nat : Q[k] = IF k = r.right THEN P[k] + 1 ELSE P[k]
    <3> DEFINE z == r.right
    <3>1. P \in [Nat -> Nat] /\ z \in Nat
      BY <1>6, <2>1
    <3>2. Q = Plus(P, z)
      OBVIOUS
    <3> HIDE DEF z, Q
    <3>3. Q \in [Nat -> Nat] /\ \A k \in Nat : Q[k] = IF k = z THEN P[k] + 1 ELSE P[k]
      BY ONLY <3>1, <3>2, PlusIs
    <3>4. QED
      BY <3>3 DEF z
  <2>3. QED
    BY <2>1, <2>2
<1>8. \A k \in Nat \ {Null} : F[k] <= Q[k]
  <2> TAKE k \in Nat \ {Null}
  <2> DEFINE rest == One(c, k) + One(d, k) + One(e, k) + One(f, k)
  <2>1. rest \in Nat
    BY DEF One
  <2>2. E[k] = rest /\ F[k] = One(r.left, k) + One(r.right, k) + rest
    <3>1. \A y : One(y, k) \in Nat
      BY DEF One
    <3>2. One(Null, k) = 0
      BY DEF One
    <3>3. /\ E[k] = One(Null, k) + One(Null, k) + One(c, k) + One(d, k) + One(e, k) + One(f, k)
          /\ F[k] = One(r.left, k) + One(r.right, k) + One(c, k) + One(d, k) + One(e, k) + One(f, k)
      BY OweIs
    <3> DEFINE c1 == One(c, k)
               d1 == One(d, k)
               e1 == One(e, k)
               f1 == One(f, k)
               l1 == One(r.left, k)
               r1 == One(r.right, k)
    <3>4. /\ c1 \in Nat /\ d1 \in Nat /\ e1 \in Nat /\ f1 \in Nat /\ l1 \in Nat /\ r1 \in Nat
          /\ E[k] = 0 + 0 + c1 + d1 + e1 + f1 /\ F[k] = l1 + r1 + c1 + d1 + e1 + f1
          /\ rest = c1 + d1 + e1 + f1
      BY <3>1, <3>2, <3>3
    <3> HIDE DEF c1, d1, e1, f1, l1, r1, rest, E, F
    <3>5. E[k] = rest /\ F[k] = l1 + r1 + rest
      BY ONLY <3>4
    <3>6. QED
      BY <3>5 DEF l1, r1
  <2> HIDE DEF rest, E, F, P, Q
  <2>3. /\ One(r.left, k) = (IF k = r.left THEN 1 ELSE 0)
        /\ One(r.right, k) = (IF k = r.right THEN 1 ELSE 0)
    BY DEF One
  <2>4. /\ P[k] = (IF k = r.left THEN E[k] + 1 ELSE E[k])
        /\ Q[k] = (IF k = r.right THEN P[k] + 1 ELSE P[k])
    BY <1>7
  <2>5. QED
    BY <2>1, <2>2, <2>3, <2>4
<1>9. Held(r.heap, F)
  <2> HIDE DEF F, Q
  <2>1. QED
    BY <1>1, <1>6, <1>8, HeldLess
<1>10. Has(r.heap, r.left, Part(t, 0, i)) /\ (i > 0 => r.left # Null)
  <2>1. CASE i = 0
    <3>1. Part(t, 0, i) = <<>>
      BY <2>1, PartNone
    <3>2. r.left = Null
      BY <1>6, <2>1
    <3>3. QED
      BY <2>1, <3>1, <3>2 DEF Has
  <2>2. CASE i # 0
    <3>1. Holds(r.heap, r.left, Part(t, 0, i))
      BY <1>6, <2>2
    <3>2. r.left # Null
      BY <1>6a, <3>1, LiveFacts DEF Holds
    <3>3. QED
      BY <3>1, <3>2 DEF Has
  <2>3. QED
    BY <2>1, <2>2
<1>11. Has(r.heap, r.right, Part(t, i, Len(t))) /\ (i < Len(t) => r.right # Null)
  <2>1. CASE i = Len(t)
    <3>1. Part(t, i, Len(t)) = <<>>
      BY <1>4, <2>1, PartNone
    <3>2. r.right = Null /\ ~(i < Len(t))
      BY <1>4, <1>6, <2>1
    <3>3. QED
      BY <3>1, <3>2 DEF Has
  <2>2. CASE i # Len(t)
    <3>1. Holds(r.heap, r.right, Part(t, i, Len(t)))
      BY <1>6, <2>2
    <3>2. r.right # Null
      BY <1>6a, <3>1, LiveFacts DEF Holds
    <3>3. QED
      BY <3>1, <3>2 DEF Has
  <2>3. QED
    BY <2>1, <2>2
<1>12. QED
  BY <1>4, <1>6, <1>9, <1>10, <1>11

\* String_concat, whose result is referred to.
LEMMA ConcatOwe ==
  ASSUME NEW h, NEW b \in Nat, NEW c \in Nat, NEW d \in Nat, NEW e \in Nat, NEW f \in Nat,
         Held(h, Owe(Null, b, c, d, e, f)),
         NEW x, NEW y, NEW s \in Seq(Char), NEW t \in Seq(Char),
         Has(h, x, s), Has(h, y, t), ~(x = Null /\ y = Null), NEW r, r = String_concat(h, x, y)
  PROVE  /\ Held(r.heap, Owe(r.at, b, c, d, e, f)) /\ Agree(h, r.heap)
         /\ r.at \in Nat \ {Null} /\ Holds(r.heap, r.at, s \o t)
<1> DEFINE E == Owe(Null, b, c, d, e, f)
<1>1. Held(h, E)
  OBVIOUS
<1> HIDE DEF E
<1>2. /\ Held(r.heap, Plus(E, r.at)) /\ Agree(h, r.heap)
      /\ r.at \in Nat \ {Null} /\ Holds(r.heap, r.at, s \o t)
  BY <1>1, Concatenated
<1>3. Held(r.heap, Owe(r.at, b, c, d, e, f))
  <2>1. Held(r.heap, Plus(Owe(Null, b, c, d, e, f), r.at)) /\ r.at \in Nat
    BY <1>2 DEF E
  <2>2. QED
    BY <2>1, OweMore
<1>4. QED
  BY <1>2, <1>3

\* String_rebalance of a node that is referred to.
LEMMA RebalanceOwe ==
  ASSUME NEW h, NEW a \in Nat, NEW b \in Nat, NEW c \in Nat, NEW d \in Nat, NEW e \in Nat,
         NEW f \in Nat, Held(h, Owe(a, b, c, d, e, f)), a # Null, NEW t, Holds(h, a, t),
         NEW r, r = String_rebalance(h, a)
  PROVE  /\ Held(r.heap, Owe(r.at, b, c, d, e, f)) /\ Agree(h, r.heap)
         /\ r.at \in Nat \ {Null} /\ Holds(r.heap, r.at, t) /\ Low(r.heap, r.at)
<1> DEFINE E == Owe(Null, b, c, d, e, f)
           F == Owe(a, b, c, d, e, f)
           M == Minus(F, a)
<1>1. E \in [Nat -> Nat] /\ F \in [Nat -> Nat]
  BY OweIs
<1>2. F[a] > 0
  BY OweHas
<1>3. \A k \in Nat \ {Null} : E[k] <= M[k]
  BY <1>2, OweMinus
<1>4. Held(h, F)
  OBVIOUS
<1> HIDE DEF E, F
<1>5. /\ Held(r.heap, Plus(M, r.at)) /\ Agree(h, r.heap)
      /\ r.at \in Nat \ {Null} /\ Holds(r.heap, r.at, t) /\ Low(r.heap, r.at)
  BY <1>2, <1>4, RebalanceKeeps
<1>6. M \in [Nat -> Nat]
  BY <1>1, <1>2, MinusType
<1> HIDE DEF M
<1>7. Held(r.heap, Plus(E, r.at))
  <2>1. /\ Plus(E, r.at) \in [Nat -> Nat] /\ Plus(M, r.at) \in [Nat -> Nat]
        /\ \A k \in Nat : E[k] \in Nat /\ Plus(E, r.at)[k] = IF k = r.at THEN E[k] + 1 ELSE E[k]
        /\ \A k \in Nat : M[k] \in Nat /\ Plus(M, r.at)[k] = IF k = r.at THEN M[k] + 1 ELSE M[k]
    BY <1>1, <1>5, <1>6, PlusIs
  <2>2. \A k \in Nat \ {Null} : Plus(E, r.at)[k] <= Plus(M, r.at)[k]
    <3> TAKE k \in Nat \ {Null}
    <3>1. E[k] <= M[k] /\ E[k] \in Nat /\ M[k] \in Nat
      BY <1>3, <2>1
    <3>2. /\ Plus(E, r.at)[k] = (IF k = r.at THEN E[k] + 1 ELSE E[k])
          /\ Plus(M, r.at)[k] = (IF k = r.at THEN M[k] + 1 ELSE M[k])
      BY <2>1
    <3>3. QED
      BY <3>1, <3>2
  <2> DEFINE X == Plus(E, r.at)
             Y == Plus(M, r.at)
  <2>3. Held(r.heap, Y) /\ X \in [Nat -> Nat] /\ \A k \in Nat \ {Null} : X[k] <= Y[k]
    BY <1>5, <2>1, <2>2
  <2> HIDE DEF X, Y
  <2>4. Held(r.heap, X)
    BY <2>3, HeldLess
  <2>5. QED
    BY <2>4 DEF X
<1>8. Held(r.heap, Owe(r.at, b, c, d, e, f))
  <2>1. Held(r.heap, Plus(Owe(Null, b, c, d, e, f), r.at)) /\ r.at \in Nat
    BY <1>5, <1>7 DEF E
  <2>2. QED
    BY <2>1, OweMore
<1>9. QED
  BY <1>5, <1>8

\* String_release, and a tree that is still referred to.
LEMMA KeepTree ==
  ASSUME NEW h, NEW a \in Nat, NEW b \in Nat, NEW c \in Nat, NEW d \in Nat, NEW e \in Nat,
         NEW f \in Nat, Held(h, Owe(a, b, c, d, e, f)), b # Null, NEW t, Holds(h, b, t),
         NEW g, g = String_release(h, a)
  PROVE  /\ Held(g, Owe(Null, b, c, d, e, f)) /\ Agree(h, g) /\ Holds(g, b, t)
         /\ (Low(h, b) => Low(g, b))
<1>1. Held(g, Owe(Null, b, c, d, e, f)) /\ Agree(h, g)
  BY OweRelease
<1>2. Null \in Nat
  BY DEF Null
<1>3. Has(h, b, t)
  BY DEF Has
<1>4. Has(g, b, t) /\ b \in Live(g)
  BY <1>1, <1>2, <1>3, OweStays
<1>5. Holds(g, b, t)
  BY <1>4 DEF Has
<1>6. Low(h, b) => Low(g, b)
  <2>1. h \in Heap /\ b \in Live(h)
    BY HeldFacts DEF Holds
  <2>2. QED
    BY <1>1, <1>4, <2>1, LowStays
<1>7. QED
  BY <1>1, <1>5, <1>6

-----------------------------------------------------------------------------
(* What an operation leaves behind.                                          *)

\* The heap is sound, and the only reference from outside is to n.
Owned(h, n) == Held(h, Owe(n, Null, Null, Null, Null, Null))

\* A tree with a text.
KeptTree(h, n, t) == Owned(h, n) /\ n \in Nat \ {Null} /\ Holds(h, n, t) /\ Low(h, n)

\* The buffer's tree. The empty rope has a count of 0, which covers no reference.
Good(h, n) ==
  /\ n \in Live(h) /\ Low(h, n)
  /\ IF h[n].len = 0 THEN Owned(h, Null) ELSE Owned(h, n)

LEMMA KeptGood ==
  ASSUME NEW h, NEW n, NEW t, KeptTree(h, n, t)
  PROVE  Good(h, n) /\ Flat(h)[n] = t
<1>1. n \in Live(h) /\ h[n].len = Len(t) /\ Len(t) > 0 /\ Flat(h)[n] = t
  BY DEF KeptTree, Holds
<1>2. h \in Heap
  BY HeldFacts DEF KeptTree, Owned
<1>3. h[n].len \in Nat /\ h[n].len # 0
  BY <1>1, <1>2, LiveFacts
<1>4. QED
  BY <1>1, <1>3 DEF Good, KeptTree

LEMMA GoodKept ==
  ASSUME NEW h, NEW n, Good(h, n), h[n].len # 0
  PROVE  KeptTree(h, n, Flat(h)[n]) /\ Flat(h)[n] \in Seq(Char) /\ h[n].len = Len(Flat(h)[n])
<1>1. Owned(h, n) /\ n \in Live(h) /\ Low(h, n)
  BY DEF Good
<1>2. h \in Heap
  BY <1>1, HeldFacts DEF Owned
<1>3. n \in Nat \ {Null} /\ h[n].len \in Nat /\ h[n].len > 0
  BY <1>1, <1>2, LiveFacts
<1>4. Holds(h, n, Flat(h)[n]) /\ Flat(h)[n] \in Seq(Char)
  <2> DEFINE E == Owe(n, Null, Null, Null, Null, Null)
  <2>1. Held(h, E)
    BY <1>1 DEF Owned
  <2> HIDE DEF E
  <2>2. QED
    BY <1>1, <1>3, <2>1, HoldsText
<1>5. QED
  BY <1>1, <1>3, <1>4 DEF KeptTree, Holds

\* The orders in which the operations let their references go.
LEMMA OweOrders ==
  ASSUME NEW a, NEW b, NEW c, NEW d, NEW e, NEW f
  PROVE  /\ Owe(a, b, c, d, e, f) = Owe(c, d, b, a, e, f)
         /\ Owe(a, b, c, d, e, f) = Owe(f, a, b, c, d, e)
         /\ Owe(a, b, c, d, e, f) = Owe(e, a, c, d, b, f)
         /\ Owe(a, b, c, d, e, f) = Owe(b, c, d, e, f, a)
         /\ Owe(a, b, c, d, e, f) = Owe(c, b, d, e, f, a)
<1>1. \A x, k : One(x, k) \in Nat
  BY DEF One
<1>2. QED
  BY <1>1 DEF Owe

\* A reference that is never let go: its node is leaked.
LEMMA OweDrop ==
  ASSUME NEW h, NEW a \in Nat, NEW b \in Nat, NEW c \in Nat, NEW d \in Nat, NEW e \in Nat,
         NEW f \in Nat, Held(h, Owe(a, b, c, d, e, f))
  PROVE  Held(h, Owe(Null, b, c, d, e, f))
<1> DEFINE E == Owe(Null, b, c, d, e, f)
           F == Owe(a, b, c, d, e, f)
<1>1. E \in [Nat -> Nat] /\ F \in [Nat -> Nat] /\ F[a] > 0
  BY OweIs, OweHas
<1>2. \A k \in Nat \ {Null} : E[k] <= Minus(F, a)[k]
  BY <1>1, OweMinus
<1>3. Held(h, F)
  OBVIOUS
<1> HIDE DEF E, F
<1>4. \A k \in Nat : Minus(F, a)[k] <= F[k] /\ Minus(F, a)[k] \in Nat
  BY <1>1, MinusType
<1>5. \A k \in Nat \ {Null} : E[k] <= F[k]
  <2> TAKE k \in Nat \ {Null}
  <2>1. E[k] <= Minus(F, a)[k] /\ Minus(F, a)[k] <= F[k] /\ Minus(F, a)[k] \in Nat
    BY <1>2, <1>4
  <2>2. E[k] \in Nat /\ F[k] \in Nat
    BY <1>1
  <2>3. QED
    BY <2>1, <2>2
<1>6. Held(h, E)
  BY <1>1, <1>3, <1>5, HeldLess
<1>7. QED
  BY <1>6 DEF E

-----------------------------------------------------------------------------
(* Insertion.                                                                *)

LEMMA ConcatText ==
  ASSUME NEW s \in Seq(Char), NEW t \in Seq(Char)
  PROVE  s \o t \in Seq(Char)
BY ConcatProperties

\* The new tree next to the old one.
LEMMA InsertJoins ==
  ASSUME NEW h, NEW n, NEW T, KeptTree(h, n, T),
         NEW s \in Seq(Char), s # <<>>, NEW i \in 0 .. Len(T),
         NEW new, new = Inserted(h, s),
         NEW parts, parts = String_split(new.heap, n, i),
         NEW before, before = String_concat(parts.heap, parts.left, new.at),
         NEW all, all = String_concat(before.heap, before.at, parts.right)
  PROVE  /\ Held(all.heap, Owe(all.at, before.at, parts.left, parts.right, n, new.at))
         /\ all.at \in Nat \ {Null} /\ before.at \in Nat /\ parts.left \in Nat
         /\ parts.right \in Nat /\ new.at \in Nat
         /\ Holds(all.heap, all.at, (Part(T, 0, i) \o s) \o Part(T, i, Len(T)))
<1>0. n \in Nat \ {Null} /\ n \in Nat /\ Null \in Nat
  BY DEF KeptTree, Null
<1>1. /\ Held(new.heap, Owe(new.at, n, Null, Null, Null, Null)) /\ Agree(h, new.heap)
      /\ new.at \in Nat \ {Null} /\ Holds(new.heap, new.at, s)
  <2> DEFINE E == Owe(n, Null, Null, Null, Null, Null)
  <2>1. Held(h, E)
    BY DEF KeptTree, Owned
  <2> HIDE DEF E
  <2>2. /\ Held(new.heap, Plus(E, new.at)) /\ Agree(h, new.heap) /\ new.at \in Nat \ {Null}
        /\ Holds(new.heap, new.at, s)
    BY <2>1, InsertedKeeps
  <2>3. E = Owe(Null, n, Null, Null, Null, Null)
    BY OweSwap DEF E
  <2>4. Held(new.heap, Plus(Owe(Null, n, Null, Null, Null, Null), new.at)) /\ new.at \in Nat
    BY <2>2, <2>3
  <2>5. Held(new.heap, Owe(new.at, n, Null, Null, Null, Null))
    BY ONLY <2>4, OweMore
  <2>6. QED
    BY <2>2, <2>5
<1>2. Holds(new.heap, n, T)
  <2>1. Held(h, Owe(n, Null, Null, Null, Null, Null)) /\ Has(h, n, T)
    BY <1>0 DEF KeptTree, Owned, Has
  <2>2. new.at \in Nat
    BY <1>1
  <2>3. Has(new.heap, n, T)
    BY ONLY <1>0, <1>1, <2>1, <2>2, OweStays
  <2>4. QED
    BY <1>0, <2>3 DEF Has
<1>3. /\ Held(parts.heap, Owe(parts.left, parts.right, n, new.at, Null, Null))
      /\ Agree(new.heap, parts.heap)
      /\ parts.left \in Nat /\ parts.right \in Nat
      /\ Has(parts.heap, parts.left, Part(T, 0, i)) /\ Has(parts.heap, parts.right, Part(T, i, Len(T)))
      /\ T \in Seq(Char)
  <2>1. Owe(new.at, n, Null, Null, Null, Null) = Owe(Null, Null, n, new.at, Null, Null)
    BY OweOrders
  <2>2. Held(new.heap, Owe(Null, Null, n, new.at, Null, Null)) /\ new.at \in Nat /\ n # Null
    BY <1>0, <1>1, <2>1
  <2>3. QED
    BY ONLY <1>0, <1>2, <2>2, i \in 0 .. Len(T), parts = String_split(new.heap, n, i), SplitOwe
<1>4. Has(parts.heap, new.at, s)
  <2>1. Has(new.heap, new.at, s) /\ new.at \in Nat
    BY <1>1 DEF Has
  <2>2. QED
    BY ONLY <1>0, <1>1, <1>3, <2>1, OweStays
<1>5. /\ Part(T, 0, i) \in Seq(Char) /\ Part(T, i, Len(T)) \in Seq(Char)
      /\ Part(T, 0, i) \o s \in Seq(Char)
  <2>1. Len(T) \in Nat
    BY <1>3, LenProperties
  <2>2. 0 \in Nat /\ i \in Nat /\ 0 <= i /\ i <= Len(T)
    BY <2>1
  <2>3. Part(T, 0, i) \in Seq(Char) /\ Part(T, i, Len(T)) \in Seq(Char)
    BY <1>3, <2>1, <2>2, PartCut
  <2>4. QED
    BY <2>3, ConcatText
<1> DEFINE a == Part(T, 0, i)
           z == Part(T, i, Len(T))
<1>6. /\ a \in Seq(Char) /\ z \in Seq(Char) /\ a \o s \in Seq(Char)
      /\ Has(parts.heap, parts.left, a) /\ Has(parts.heap, parts.right, z)
  BY <1>3, <1>5
<1> HIDE DEF a, z
<1>7. /\ Held(before.heap, Owe(before.at, parts.left, parts.right, n, new.at, Null))
      /\ Agree(parts.heap, before.heap)
      /\ before.at \in Nat \ {Null} /\ Holds(before.heap, before.at, a \o s)
  <2>1. Owe(parts.left, parts.right, n, new.at, Null, Null)
          = Owe(Null, parts.left, parts.right, n, new.at, Null)
    BY OweOrders
  <2>2. Held(parts.heap, Owe(Null, parts.left, parts.right, n, new.at, Null)) /\ new.at \in Nat
        /\ ~(parts.left = Null /\ new.at = Null) /\ s \in Seq(Char)
        /\ before = String_concat(parts.heap, parts.left, new.at)
    BY <1>1, <1>3, <2>1
  <2>3. QED
    BY ONLY <1>0, <1>3, <1>4, <1>6, <2>2, ConcatOwe, SMTT(20)
<1>8. Has(before.heap, parts.right, z) /\ Has(before.heap, before.at, a \o s)
  <2>1. before.at \in Nat /\ new.at \in Nat
    BY <1>1, <1>7
  <2>2. Has(before.heap, parts.right, z)
    BY ONLY <1>0, <1>3, <1>6, <1>7, <2>1, OweStays
  <2>3. QED
    BY <1>7, <2>2 DEF Has
<1>9. /\ Held(all.heap, Owe(all.at, before.at, parts.left, parts.right, n, new.at))
      /\ all.at \in Nat \ {Null} /\ Holds(all.heap, all.at, (a \o s) \o z)
  <2>1. Owe(before.at, parts.left, parts.right, n, new.at, Null)
          = Owe(Null, before.at, parts.left, parts.right, n, new.at)
    BY OweOrders
  <2>2. Held(before.heap, Owe(Null, before.at, parts.left, parts.right, n, new.at))
        /\ new.at \in Nat /\ before.at \in Nat
        /\ ~(before.at = Null /\ parts.right = Null)
        /\ all = String_concat(before.heap, before.at, parts.right)
    BY <1>1, <1>7, <2>1
  <2>3. QED
    <3> DEFINE y == parts.left
               w == parts.right
               v == before.at
               u == new.at
               g == before.heap
               c == a \o s
    <3>1. /\ Held(g, Owe(Null, v, y, w, n, u)) /\ v \in Nat /\ y \in Nat /\ w \in Nat /\ n \in Nat
          /\ u \in Nat /\ ~(v = Null /\ w = Null) /\ all = String_concat(g, v, w)
          /\ Has(g, w, z) /\ Has(g, v, c) /\ c \in Seq(Char) /\ z \in Seq(Char)
      BY <1>0, <1>3, <1>6, <1>8, <2>2
    <3> HIDE DEF y, w, v, u, g, c
    <3>2. /\ Held(all.heap, Owe(all.at, v, y, w, n, u)) /\ Agree(g, all.heap)
          /\ all.at \in Nat \ {Null} /\ Holds(all.heap, all.at, c \o z)
      BY ONLY <3>1, ConcatOwe
    <3>3. QED
      BY <3>2 DEF y, w, v, u, g, c
<1>10. QED
  BY <1>1, <1>3, <1>7, <1>9 DEF a, z

\* The new tree alone.
LEMMA InsertSettles ==
  ASSUME NEW h, NEW n \in Nat, NEW t, NEW a \in Nat \ {Null}, NEW b \in Nat, NEW l \in Nat,
         NEW r \in Nat, NEW new \in Nat,
         Held(h, Owe(a, b, l, r, n, new)), Holds(h, a, t),
         NEW bal, bal = String_rebalance(String_release(h, n), a),
         NEW done, done = String_release(String_release(String_release(bal.heap, l), r), new)
  PROVE  KeptTree(done, bal.at, t)
<1>0. Null \in Nat /\ a \in Nat /\ a # Null
  BY DEF Null
<1> DEFINE one == String_release(h, n)
           two == String_release(bal.heap, l)
           three == String_release(two, r)
<1>1. Held(one, Owe(Null, a, l, r, b, new)) /\ Holds(one, a, t)
  <2>1. Owe(a, b, l, r, n, new) = Owe(n, a, l, r, b, new)
    BY OweOrders
  <2>2. Held(h, Owe(n, a, l, r, b, new))
    BY <2>1
  <2>3. QED
    BY ONLY <1>0, <2>2, n \in Nat, b \in Nat, l \in Nat, r \in Nat, new \in Nat,
            Holds(h, a, t), KeepTree DEF one
<1>2. /\ Held(bal.heap, Owe(bal.at, l, r, b, new, Null)) /\ bal.at \in Nat \ {Null}
      /\ Holds(bal.heap, bal.at, t) /\ Low(bal.heap, bal.at)
  <2>1. Owe(Null, a, l, r, b, new) = Owe(a, l, r, b, new, Null)
    BY OweOrders
  <2>2. Held(one, Owe(a, l, r, b, new, Null)) /\ bal = String_rebalance(one, a)
    BY <1>1, <2>1
  <2> HIDE DEF one
  <2>3. QED
    BY ONLY <1>0, <1>1, <2>2, b \in Nat, l \in Nat, r \in Nat, new \in Nat, RebalanceOwe
<1> HIDE DEF one
<1>3. bal.at \in Nat /\ bal.at # Null
  BY <1>2
<1>4. Held(two, Owe(Null, bal.at, r, b, new, Null)) /\ Holds(two, bal.at, t) /\ Low(two, bal.at)
  <2>1. Owe(bal.at, l, r, b, new, Null) = Owe(l, bal.at, r, b, new, Null)
    BY OweSwap
  <2>2. Held(bal.heap, Owe(l, bal.at, r, b, new, Null))
    BY <1>2, <2>1
  <2>3. QED
    BY ONLY <1>0, <1>2, <1>3, <2>2, b \in Nat, l \in Nat, r \in Nat, new \in Nat, KeepTree, SMTT(20) DEF two
<1>5. done = String_release(three, new)
  OBVIOUS
<1> HIDE DEF two
<1>6. Held(three, Owe(Null, bal.at, Null, b, new, Null)) /\ Holds(three, bal.at, t) /\ Low(three, bal.at)
  <2>1. Owe(Null, bal.at, r, b, new, Null) = Owe(r, bal.at, Null, b, new, Null)
    BY OweSwap
  <2>2. Held(two, Owe(r, bal.at, Null, b, new, Null))
    BY <1>4, <2>1
  <2>3. QED
    BY ONLY <1>0, <1>3, <1>4, <2>2, b \in Nat, r \in Nat, new \in Nat, KeepTree DEF three
<1> HIDE DEF three
<1>7. Held(done, Owe(Null, bal.at, Null, b, Null, Null)) /\ Holds(done, bal.at, t) /\ Low(done, bal.at)
  <2>1. Owe(Null, bal.at, Null, b, new, Null) = Owe(new, bal.at, Null, b, Null, Null)
    BY OweSwap
  <2>2. Held(three, Owe(new, bal.at, Null, b, Null, Null))
    BY <1>6, <2>1
  <2>3. QED
    BY ONLY <1>0, <1>3, <1>5, <1>6, <2>2, b \in Nat, new \in Nat, KeepTree
<1>8. Held(done, Owe(Null, bal.at, Null, Null, Null, Null))
  <2>1. Owe(Null, bal.at, Null, b, Null, Null) = Owe(b, bal.at, Null, Null, Null, Null)
    BY OweSwap
  <2>2. Held(done, Owe(b, bal.at, Null, Null, Null, Null))
    BY <1>7, <2>1
  <2>3. QED
    BY ONLY <1>0, <1>3, <2>2, b \in Nat, OweDrop
<1>9. Owe(Null, bal.at, Null, Null, Null, Null) = Owe(bal.at, Null, Null, Null, Null, Null)
  BY OweSwap
<1>10. QED
  BY <1>3, <1>7, <1>8, <1>9 DEF KeptTree, Owned

\* String_insert into an empty rope: the tree of the inserted text.
LEMMA InsertFirst ==
  ASSUME NEW h, NEW n, Good(h, n), h[n].len = 0,
         NEW s \in Seq(Char), s # <<>>, NEW new, new = Inserted(h, s),
         NEW done, done = String_release(new.heap, n)
  PROVE  KeptTree(done, new.at, s) /\ Flat(h)[n] = <<>>
<1> DEFINE E == Owe(Null, Null, Null, Null, Null, Null)
<1>0. Null \in Nat
  BY DEF Null
<1>1. Held(h, E) /\ n \in Live(h)
  BY DEF Good, Owned
<1>2. E = Owe(Null, Null, Null, Null, Null, Null)
  OBVIOUS
<1> HIDE DEF E
<1>3. h \in Heap /\ n \in Nat \ {Null} /\ n \in 0 .. Len(h) /\ Len(h) \in Nat
  BY <1>1, HeldFacts, LiveFacts, LiveRange
<1>4. Flat(h)[n] = <<>>
  <2>1. Flat(h)[n] \in Seq(Char) /\ Len(Flat(h)[n]) = 0
    BY <1>1, Lengths
  <2>2. QED
    BY <2>1, EmptySeq
<1>5. /\ Held(new.heap, Plus(E, new.at)) /\ Agree(h, new.heap) /\ new.at \in Nat \ {Null}
      /\ new.at > Len(h) /\ Holds(new.heap, new.at, s) /\ Low(new.heap, new.at)
      /\ Live(h) \subseteq Live(new.heap)
  BY <1>1, InsertedKeeps
<1>6. Held(new.heap, Owe(new.at, Null, Null, Null, Null, Null))
  <2>1. Held(new.heap, Plus(Owe(Null, Null, Null, Null, Null, Null), new.at)) /\ new.at \in Nat
    BY <1>2, <1>5
  <2>2. QED
    BY ONLY <2>1, OweMore
<1> DEFINE F == Owe(new.at, Null, Null, Null, Null, Null)
<1>7. n \in Live(new.heap) /\ new.heap[n].len = 0 /\ n # new.at
  <2>1. n \in Live(new.heap)
    BY <1>1, <1>5
  <2>2. new.heap[n].len = h[n].len
    BY <1>1, <2>1, <1>5 DEF Agree, Same, Live
  <2>3. n # new.at
    BY <1>3, <1>5
  <2>4. QED
    BY <2>1, <2>2, <2>3
<1>8. F[n] = 0
  <2>1. F[n] = One(new.at, n) + One(Null, n) + One(Null, n) + One(Null, n) + One(Null, n) + One(Null, n)
    <3>1. n \in Nat
      BY <1>3
    <3>2. QED
      BY ONLY <3>1, OweIs DEF F
  <2>2. One(new.at, n) = 0 /\ One(Null, n) = 0
    BY <1>3, <1>7 DEF One
  <2> HIDE DEF F
  <2>3. QED
    BY <2>1, <2>2
<1>9. Held(new.heap, F) /\ F = Owe(new.at, Null, Null, Null, Null, Null)
  BY <1>6
<1> HIDE DEF F
<1>10. Held(done, F) /\ Agree(new.heap, done)
  BY <1>7, <1>8, <1>9, ReleasedEmpty
<1>11. Has(done, new.at, s) /\ new.at \in Live(done)
  <2>1. Has(new.heap, new.at, s) /\ new.at \in Nat /\ new.at # Null
    BY <1>5 DEF Has
  <2>2. Held(done, Owe(new.at, Null, Null, Null, Null, Null))
    BY <1>9, <1>10
  <2>3. QED
    BY ONLY <1>0, <1>9, <1>10, <2>1, <2>2, OweStays
<1>12. Low(done, new.at)
  <2>1. new.heap \in Heap /\ new.at \in Live(new.heap)
    BY <1>5, <1>9, HeldFacts DEF Holds
  <2>2. QED
    BY <1>5, <1>10, <1>11, <2>1, LowStays
<1>13. QED
  BY <1>4, <1>5, <1>9, <1>10, <1>11, <1>12 DEF KeptTree, Owned, Has

-----------------------------------------------------------------------------
(* Deletion.                                                                 *)

\* The range is cut out.
LEMMA DeleteCuts ==
  ASSUME NEW h, NEW n, NEW T, KeptTree(h, n, T),
         NEW pos \in Nat, pos < Len(T), NEW cut \in Nat, cut > 0, pos + cut <= Len(T),
         NEW parts, parts = String_split(h, n, pos),
         NEW rest, rest = String_split(parts.heap, parts.right, cut)
  PROVE  /\ Held(rest.heap, Owe(rest.left, rest.right, parts.right, parts.left, n, Null))
         /\ rest.left \in Nat /\ rest.right \in Nat /\ parts.left \in Nat /\ parts.right \in Nat
         /\ Has(rest.heap, parts.left, Part(T, 0, pos))
         /\ Has(rest.heap, rest.right, Part(T, pos + cut, Len(T)))
         /\ Part(T, 0, pos) \in Seq(Char) /\ Part(T, pos + cut, Len(T)) \in Seq(Char)
<1>0. n \in Nat \ {Null} /\ n \in Nat /\ n # Null /\ Null \in Nat /\ Holds(h, n, T)
  BY DEF KeptTree, Null
<1>1. /\ Held(parts.heap, Owe(parts.left, parts.right, n, Null, Null, Null))
      /\ parts.left \in Nat /\ parts.right \in Nat
      /\ Has(parts.heap, parts.left, Part(T, 0, pos))
      /\ Has(parts.heap, parts.right, Part(T, pos, Len(T)))
      /\ (pos < Len(T) => parts.right # Null) /\ T \in Seq(Char)
  <2>1. Owe(n, Null, Null, Null, Null, Null) = Owe(Null, Null, n, Null, Null, Null)
    BY OweSwap
  <2>2. Held(h, Owe(Null, Null, n, Null, Null, Null))
    BY <2>1 DEF KeptTree, Owned
  <2>3. T \in Seq(Char) /\ Len(T) \in Nat
    <3> DEFINE E == Owe(Null, Null, n, Null, Null, Null)
    <3>1. Held(h, E)
      BY <2>2
    <3> HIDE DEF E
    <3>2. T \in Seq(Char)
      BY <1>0, <3>1, HoldsText DEF Holds
    <3>3. QED
      BY <3>2, LenProperties
  <2>4. pos \in 0 .. Len(T)
    BY <2>3
  <2>5. QED
    BY ONLY <1>0, <2>2, <2>4, parts = String_split(h, n, pos), SplitOwe
<1>2. Len(T) \in Nat /\ pos <= Len(T)
  <2>1. Len(T) \in Nat
    BY <1>1, LenProperties
  <2>2. QED
    BY <2>1
<1>3. parts.right # Null
  BY <1>1
<1> DEFINE p == parts.right
           u == Part(T, pos, Len(T))
<1>4. u \in Seq(Char) /\ Len(u) = Len(T) - pos /\ Part(T, 0, pos) \in Seq(Char)
  <2>1. Part(T, pos, Len(T)) \in Seq(Char) /\ Len(Part(T, pos, Len(T))) = Len(T) - pos
    BY <1>1, <1>2, PartCut
  <2>2. Part(T, 0, pos) \in Seq(Char)
    <3>1. 0 \in Nat /\ 0 <= pos
      OBVIOUS
    <3>2. QED
      BY ONLY <1>1, <1>2, <3>1, pos \in Nat, PartCut
  <2>3. QED
    BY <2>1, <2>2
<1>5. /\ Part(u, cut, Len(u)) = Part(T, pos + cut, Len(T))
      /\ Part(u, cut, Len(u)) \in Seq(Char) /\ cut \in 0 .. Len(u)
  <2>1. cut <= Len(T) - pos /\ Len(T) - pos \in Nat /\ pos + (Len(T) - pos) = Len(T)
        /\ Len(T) - pos <= Len(T) - pos
    BY <1>2
  <2> DEFINE m == Len(T) - pos
  <2>2. Part(Part(T, pos, Len(T)), cut, m) = Part(T, pos + cut, pos + m)
    <3>1. m \in Nat /\ cut <= m /\ m <= Len(T) - pos /\ Len(T) <= Len(T)
      BY <1>2, <2>1
    <3> HIDE DEF m
    <3>2. QED
      BY ONLY <1>1, <1>2, <3>1, pos \in Nat, cut \in Nat, PartPart, SMTT(20)
  <2>3. Len(u) = m /\ pos + m = Len(T) /\ m \in Nat /\ cut <= m
    BY <1>4, <2>1
  <2>4. Part(u, cut, Len(u)) \in Seq(Char)
    <3>1. u \in Seq(Char) /\ cut \in Nat /\ Len(u) \in Nat /\ cut <= Len(u) /\ Len(u) <= Len(u)
      BY <1>4, <2>3
    <3> HIDE DEF u
    <3>2. QED
      BY ONLY <3>1, PartFacts
  <2>5. QED
    BY <2>2, <2>3, <2>4
<1>6. Has(parts.heap, p, u) /\ p = parts.right /\ p \in Nat /\ p # Null
  BY <1>1, <1>3
<1>7. u = Part(T, pos, Len(T))
  OBVIOUS
<1> HIDE DEF u
<1>8. /\ Held(rest.heap, Owe(rest.left, rest.right, p, parts.left, n, Null))
      /\ Agree(parts.heap, rest.heap)
      /\ rest.left \in Nat /\ rest.right \in Nat
      /\ Has(rest.heap, rest.right, Part(u, cut, Len(u)))
  <2>1. Owe(parts.left, parts.right, n, Null, Null, Null)
          = Owe(Null, Null, parts.right, parts.left, n, Null)
    <3>1. \A x, k : One(x, k) \in Nat
      BY DEF One
    <3>2. QED
      BY <3>1 DEF Owe
  <2>2. Held(parts.heap, Owe(Null, Null, p, parts.left, n, Null)) /\ parts.left \in Nat
        /\ rest = String_split(parts.heap, p, cut) /\ Holds(parts.heap, p, u)
    BY <1>1, <1>6, <2>1 DEF Has
  <2> HIDE DEF p
  <2>3. QED
    BY ONLY <1>0, <1>5, <1>6, <2>2, SplitOwe
<1>9. Has(rest.heap, parts.left, Part(T, 0, pos))
  <2> HIDE DEF p
  <2>1. QED
    BY ONLY <1>0, <1>1, <1>6, <1>8, OweStays
<1>10. QED
  BY <1>1, <1>4, <1>5, <1>8, <1>9

\* The tree of what is left.
LEMMA DeleteSettles ==
  ASSUME NEW h, NEW n \in Nat, NEW a \in Nat \ {Null}, NEW t, NEW l \in Nat, NEW r \in Nat,
         NEW k \in Nat, NEW m \in Nat,
         Held(h, Owe(a, k, m, r, l, n)), Holds(h, a, t),
         NEW let, let = String_release(String_release(String_release(String_release(
                          String_release(h, n), k), r), l), m),
         NEW bal, bal = String_rebalance(let, a)
  PROVE  KeptTree(bal.heap, bal.at, t)
<1>0. Null \in Nat /\ a \in Nat /\ a # Null
  BY DEF Null
<1> DEFINE one == String_release(h, n)
           two == String_release(one, k)
           three == String_release(two, r)
           four == String_release(three, l)
<1>5. let = String_release(four, m)
  OBVIOUS
<1>1. Held(one, Owe(Null, a, k, m, r, l)) /\ Holds(one, a, t)
  <2>1. Owe(a, k, m, r, l, n) = Owe(n, a, k, m, r, l)
    BY OweOrders
  <2>2. Held(h, Owe(n, a, k, m, r, l))
    BY <2>1
  <2>3. QED
    BY ONLY <1>0, <2>2, n \in Nat, l \in Nat, r \in Nat, k \in Nat, m \in Nat,
            Holds(h, a, t), KeepTree DEF one
<1> HIDE DEF one
<1>2. Held(two, Owe(Null, a, Null, m, r, l)) /\ Holds(two, a, t)
  <2>1. Owe(Null, a, k, m, r, l) = Owe(k, a, Null, m, r, l)
    BY OweSwap
  <2>2. Held(one, Owe(k, a, Null, m, r, l))
    BY <1>1, <2>1
  <2>3. QED
    BY ONLY <1>0, <1>1, <2>2, l \in Nat, r \in Nat, k \in Nat, m \in Nat, KeepTree DEF two
<1> HIDE DEF two
<1>3. Held(three, Owe(Null, a, Null, m, Null, l)) /\ Holds(three, a, t)
  <2>1. Owe(Null, a, Null, m, r, l) = Owe(r, a, Null, m, Null, l)
    BY OweSwap
  <2>2. Held(two, Owe(r, a, Null, m, Null, l))
    BY <1>2, <2>1
  <2>3. QED
    BY ONLY <1>0, <1>2, <2>2, l \in Nat, r \in Nat, m \in Nat, KeepTree DEF three
<1> HIDE DEF three
<1>4. Held(four, Owe(Null, a, Null, m, Null, Null)) /\ Holds(four, a, t)
  <2>1. Owe(Null, a, Null, m, Null, l) = Owe(l, a, Null, m, Null, Null)
    BY OweSwap
  <2>2. Held(three, Owe(l, a, Null, m, Null, Null))
    BY <1>3, <2>1
  <2>3. QED
    BY ONLY <1>0, <1>3, <2>2, l \in Nat, m \in Nat, KeepTree DEF four
<1> HIDE DEF four
<1>6. Held(let, Owe(Null, a, Null, Null, Null, Null)) /\ Holds(let, a, t)
  <2>1. Owe(Null, a, Null, m, Null, Null) = Owe(m, a, Null, Null, Null, Null)
    BY OweSwap
  <2>2. Held(four, Owe(m, a, Null, Null, Null, Null))
    BY <1>4, <2>1
  <2>3. QED
    BY ONLY <1>0, <1>4, <1>5, <2>2, m \in Nat, KeepTree
<1>7. /\ Held(bal.heap, Owe(bal.at, Null, Null, Null, Null, Null)) /\ bal.at \in Nat \ {Null}
      /\ Holds(bal.heap, bal.at, t) /\ Low(bal.heap, bal.at)
  <2>1. Owe(Null, a, Null, Null, Null, Null) = Owe(a, Null, Null, Null, Null, Null)
    BY OweSwap
  <2>2. Held(let, Owe(a, Null, Null, Null, Null, Null))
    BY <1>6, <2>1
  <2>3. QED
    BY ONLY <1>0, <1>6, <2>2, bal = String_rebalance(let, a), RebalanceOwe
<1>8. QED
  BY <1>7 DEF KeptTree, Owned

\* An empty rope that nobody counts, beside the references of an operation.
Stray(h, x, a, b, c, d, e, f) ==
  /\ Held(h, Owe(a, b, c, d, e, f)) /\ x \in Live(h) /\ h[x].len = 0
  /\ x \notin {a, b, c, d, e, f}

LEMMA StrayStays ==
  ASSUME NEW h, NEW x, NEW a \in Nat, NEW b \in Nat, NEW c \in Nat, NEW d \in Nat, NEW e \in Nat,
         NEW f \in Nat, Stray(h, x, a, b, c, d, e, f)
  PROVE  Stray(String_release(h, a), x, Null, b, c, d, e, f)
BY OweStray, SMTT(20) DEF Stray

LEMMA StraySwap ==
  ASSUME NEW h, NEW x, NEW a, NEW b, NEW c, NEW d, NEW e, NEW f, Stray(h, x, a, b, c, d, e, f)
  PROVE  /\ Stray(h, x, b, a, c, d, e, f)
         /\ Stray(h, x, c, b, a, d, e, f)
         /\ Stray(h, x, d, b, c, a, e, f)
         /\ Stray(h, x, e, b, c, d, a, f)
<1>1. /\ x \notin {b, a, c, d, e, f} /\ x \notin {c, b, a, d, e, f}
      /\ x \notin {d, b, c, a, e, f} /\ x \notin {e, b, c, d, a, f}
  BY DEF Stray
<1>2. QED
  BY <1>1, OweSwap DEF Stray

\* Rebalancing the empty rope does nothing.
LEMMA StrayRests ==
  ASSUME NEW h, NEW x, Stray(h, x, Null, Null, Null, Null, Null, Null)
  PROVE  /\ Good(h, x) /\ Flat(h)[x] = <<>>
         /\ String_rebalance(h, x) = [heap |-> h, at |-> x]
<1> DEFINE E == Owe(Null, Null, Null, Null, Null, Null)
<1>1. Held(h, E) /\ x \in Live(h) /\ h[x].len = 0
  BY DEF Stray
<1>2. E = Owe(Null, Null, Null, Null, Null, Null)
  OBVIOUS
<1> HIDE DEF E
<1>3. h \in Heap /\ x \in 0 .. Len(h) /\ x # Null
  BY <1>1, HeldFacts, LiveFacts, LiveRange
<1>4. h[x].left = Null /\ h[x].right = Null /\ ~h[x].leaf
  BY <1>1, EmptyAlone
<1> DEFINE lv == String_collect_leaves(h)
<1>5. lv[x] = <<>>
  <2>1. lv[x] = LeavesNode(h, lv, x) /\ lv[Null] = <<>>
    BY <1>1, <1>3, LeavesAt
  <2> HIDE DEF lv
  <2>2. lv[x] = lv[Null] \o lv[Null]
    BY <1>4, <2>1 DEF LeavesNode
  <2>3. <<>> \in Seq(Char)
    BY EmptySeq
  <2>4. <<>> \o <<>> = <<>>
    BY <2>3, ConcatEmptySeq
  <2>5. QED
    BY <2>1, <2>2, <2>4
<1>6. Len(lv[x]) = 0
  BY <1>5
<1>7. String_rebalance(h, x) = [heap |-> h, at |-> x]
  <2>1. Len(lv[x]) <= 2
    BY <1>6
  <2>2. QED
    BY <2>1 DEF String_rebalance
<1>8. Low(h, x)
  <2>1. ~(Len(lv[x]) > 2)
    BY <1>6
  <2>2. QED
    BY <2>1 DEF Low
<1>9. Flat(h)[x] = <<>>
  <2>1. Flat(h)[x] \in Seq(Char) /\ Len(Flat(h)[x]) = 0
    BY <1>1, Lengths
  <2>2. QED
    BY <2>1, EmptySeq
<1>10. Good(h, x)
  BY <1>1, <1>2, <1>8 DEF Good, Owned
<1>11. QED
  BY <1>7, <1>9, <1>10

\* Nothing is left.
LEMMA DeleteEmpties ==
  ASSUME NEW h, NEW n \in Nat, NEW l \in Nat, NEW r \in Nat, NEW k \in Nat, NEW m \in Nat,
         Held(h, Owe(k, m, r, l, n, Null)), l = Null, m = Null,
         NEW all, all = String_concat(h, l, m),
         NEW let, let = String_release(String_release(String_release(String_release(
                          String_release(all.heap, n), k), r), l), m),
         NEW bal, bal = String_rebalance(let, all.at)
  PROVE  Good(bal.heap, bal.at) /\ Flat(bal.heap)[bal.at] = <<>>
<1>0. Null \in Nat
  BY DEF Null
<1> DEFINE E == Owe(k, m, r, l, n, Null)
           x == all.at
<1>1. E \in [Nat -> Nat] /\ Held(h, E)
  BY OweIs
<1>2. \A y \in {k, m, r, l, n, Null} : y \in Nat /\ E[y] > 0
  <2> TAKE y \in {k, m, r, l, n, Null}
  <2>1. y \in Nat
    BY <1>0
  <2>2. \A v, w : One(v, w) \in Nat
    BY DEF One
  <2>3. E[y] = One(k, y) + One(m, y) + One(r, y) + One(l, y) + One(n, y) + One(Null, y)
    BY ONLY <2>1, OweIs DEF E
  <2>4. One(k, y) = 1 \/ One(m, y) = 1 \/ One(r, y) = 1 \/ One(l, y) = 1 \/ One(n, y) = 1
        \/ One(Null, y) = 1
    BY DEF One
  <2>5. QED
    BY ONLY <2>1, <2>2, <2>3, <2>4
<1>3. E = Owe(k, m, r, l, n, Null)
  OBVIOUS
<1> HIDE DEF E
<1>4. all = String_new(h)
  BY DEF String_concat
<1>5. /\ Held(all.heap, E) /\ x = Len(h) + 1 /\ x \in Live(all.heap) /\ all.heap[x].len = 0
  BY <1>1, <1>4, EmptyMade
<1>6. \A y \in {k, m, r, l, n, Null} : x # y
  <2> TAKE y \in {k, m, r, l, n, Null}
  <2>1. y \in Nat /\ E[y] > 0
    BY <1>2
  <2>2. h \in Heap /\ Len(h) \in Nat /\ (y # Null => y \in Live(h))
    BY <1>1, <2>1, HeldFacts
  <2>3. y # Null => y \in 1 .. Len(h)
    BY <2>2, LiveFacts
  <2>4. x \in Nat /\ x > Len(h) /\ x # Null
    BY <1>5, <2>2 DEF Null
  <2> HIDE DEF x
  <2>5. QED
    BY <2>2, <2>3, <2>4
<1>7. Stray(all.heap, x, k, m, r, l, n, Null)
  BY <1>3, <1>5, <1>6 DEF Stray
<1> DEFINE one == String_release(all.heap, n)
           two == String_release(one, k)
           three == String_release(two, r)
           four == String_release(three, l)
<1>8. let = String_release(four, m) /\ bal = String_rebalance(let, x)
  OBVIOUS
<1> HIDE DEF x
<1>9. Stray(one, x, Null, m, r, l, k, Null)
  <2>1. Stray(all.heap, x, n, m, r, l, k, Null)
    BY ONLY <1>7, StraySwap
  <2>2. QED
    BY ONLY <1>0, <2>1, n \in Nat, m \in Nat, r \in Nat, l \in Nat, k \in Nat, StrayStays DEF one
<1> HIDE DEF one
<1>10. Stray(two, x, Null, m, r, l, Null, Null)
  <2>1. Stray(one, x, k, m, r, l, Null, Null)
    BY ONLY <1>9, StraySwap
  <2>2. QED
    BY ONLY <1>0, <2>1, m \in Nat, r \in Nat, l \in Nat, k \in Nat, StrayStays DEF two
<1> HIDE DEF two
<1>11. Stray(three, x, Null, m, Null, l, Null, Null)
  <2>1. Stray(two, x, r, m, Null, l, Null, Null)
    BY ONLY <1>10, StraySwap
  <2>2. QED
    BY ONLY <1>0, <2>1, m \in Nat, r \in Nat, l \in Nat, StrayStays DEF three
<1> HIDE DEF three
<1>12. Stray(four, x, Null, m, Null, Null, Null, Null)
  <2>1. Stray(three, x, l, m, Null, Null, Null, Null)
    BY ONLY <1>11, StraySwap
  <2>2. QED
    BY ONLY <1>0, <2>1, m \in Nat, l \in Nat, StrayStays DEF four
<1> HIDE DEF four
<1>13. Stray(let, x, Null, Null, Null, Null, Null, Null)
  <2>1. Stray(four, x, m, Null, Null, Null, Null, Null)
    BY ONLY <1>12, StraySwap
  <2>2. QED
    BY ONLY <1>0, <1>8, <2>1, m \in Nat, StrayStays
<1>14. QED
  <2>1. Good(let, x) /\ Flat(let)[x] = <<>> /\ bal = [heap |-> let, at |-> x]
    BY ONLY <1>8, <1>13, StrayRests
  <2>2. QED
    BY <2>1

-----------------------------------------------------------------------------
(* The buffer's edits. *)

IInv == Good(heap, root)

LEMMA GoodFacts ==
  ASSUME NEW h, NEW n, Good(h, n)
  PROVE  /\ h \in Heap /\ n \in Live(h) /\ h[n].len \in Nat /\ Flat(h)[n] \in Seq(Char)
         /\ h[n].len = Len(Flat(h)[n]) /\ \E E : Held(h, E)
<1>1. PICK E : Held(h, E)
  BY DEF Good, Owned
<1>2. h \in Heap /\ n \in Live(h)
  BY <1>1, HeldFacts DEF Good
<1>3. h[n].len \in Nat
  BY <1>2, LiveFacts
<1>4. Flat(h)[n] \in Seq(Char) /\ h[n].len = Len(Flat(h)[n])
  BY <1>1, <1>2, Lengths
<1>5. QED
  BY <1>1, <1>2, <1>3, <1>4

\* What String_insert does to the text.
Inserts(T, U, i, s) == U = (Part(T, 0, i) \o s) \o Part(T, i, Len(T))

InsertRun(h, n, i, s, new, parts, before, all, bal, done) ==
  /\ new = Inserted(h, s)
  /\ parts = String_split(new.heap, n, i)
  /\ before = String_concat(parts.heap, parts.left, new.at)
  /\ all = String_concat(before.heap, before.at, parts.right)
  /\ bal = String_rebalance(String_release(all.heap, n), all.at)
  /\ done = String_release(String_release(String_release(bal.heap,
               parts.left), parts.right), new.at)

LEMMA InsertKeeps ==
  ASSUME NEW h, NEW n, Good(h, n), NEW i \in 0 .. h[n].len, NEW s \in Seq(Char), s # <<>>,
         h[n].len # 0, NEW new, NEW parts, NEW before, NEW all, NEW bal, NEW done,
         InsertRun(h, n, i, s, new, parts, before, all, bal, done)
  PROVE  Good(done, bal.at) /\ Inserts(Flat(h)[n], Flat(done)[bal.at], i, s)
<1> DEFINE T == Flat(h)[n]
<1>1. KeptTree(h, n, T) /\ i \in 0 .. Len(T)
  BY GoodKept
<1>2. n \in Nat
  BY <1>1 DEF KeptTree
<1>2a. /\ s \in Seq(Char) /\ s # <<>> /\ new = Inserted(h, s)
       /\ parts = String_split(new.heap, n, i)
       /\ before = String_concat(parts.heap, parts.left, new.at)
       /\ all = String_concat(before.heap, before.at, parts.right)
  BY DEF InsertRun
<1> HIDE DEF T
<1>3. /\ Held(all.heap, Owe(all.at, before.at, parts.left, parts.right, n, new.at))
      /\ all.at \in Nat \ {Null} /\ before.at \in Nat /\ parts.left \in Nat
      /\ parts.right \in Nat /\ new.at \in Nat
      /\ Holds(all.heap, all.at, (Part(T, 0, i) \o s) \o Part(T, i, Len(T)))
  BY ONLY <1>1, <1>2a, InsertJoins, SMTT(20)
<1> DEFINE U == (Part(T, 0, i) \o s) \o Part(T, i, Len(T))
           a == all.at
           b == before.at
           l == parts.left
           r == parts.right
           w == new.at
<1>3a. /\ Held(all.heap, Owe(a, b, l, r, n, w)) /\ a \in Nat \ {Null} /\ b \in Nat /\ l \in Nat
       /\ r \in Nat /\ w \in Nat /\ Holds(all.heap, a, U)
       /\ bal = String_rebalance(String_release(all.heap, n), a)
       /\ done = String_release(String_release(String_release(bal.heap, l), r), w)
  BY <1>3 DEF InsertRun
<1> HIDE DEF U, a, b, l, r, w
<1>4. KeptTree(done, bal.at, U)
  BY ONLY <1>2, <1>3a, InsertSettles
<1>5. Good(done, bal.at) /\ Flat(done)[bal.at] = U
  BY ONLY <1>4, KeptGood
<1>6. QED
  BY <1>5 DEF Inserts, T, U

LEMMA InsertStep ==
  ASSUME IInv, NEW i \in 0 .. heap[root].len, NEW s \in Seq(Char), String_insert(i, s)
  PROVE  /\ Good(heap', root')
         /\ \/ UNCHANGED vars
            \/ s # <<>> /\ Inserts(Flat(heap)[root], Flat(heap')[root'], i, s)
<1>1. Good(heap, root)
  BY DEF IInv
<1>2. CASE s = <<>>
  <2>1. UNCHANGED vars
    BY <1>2 DEF String_insert
  <2>2. QED
    BY <1>1, <2>1 DEF vars
<1>3. CASE s # <<>> /\ heap[root].len = 0
  <2> DEFINE new == Inserted(heap, s)
             done == String_release(new.heap, root)
  <2>1. heap' = done /\ root' = new.at
    BY <1>3 DEF String_insert
  <2>2. KeptTree(done, new.at, s) /\ Flat(heap)[root] = <<>>
    BY <1>1, <1>3, InsertFirst
  <2> HIDE DEF done, new
  <2>3. Good(heap', root') /\ Flat(heap')[root'] = s
    BY <2>1, <2>2, KeptGood
  <2>4. Inserts(<<>>, s, i, s)
    <3>1. i = 0
      BY <1>3
    <3>2. Part(<<>>, 0, 0) = <<>> /\ Len(<<>>) = 0
      BY PartNone
    <3>3. <<>> \o s = s /\ s \o <<>> = s
      BY ConcatEmptySeq
    <3>4. QED
      BY <3>1, <3>2, <3>3 DEF Inserts
  <2>5. QED
    BY <1>3, <2>2, <2>3, <2>4
<1>4. CASE s # <<>> /\ heap[root].len # 0
  <2> DEFINE new == Inserted(heap, s)
             parts == String_split(new.heap, root, i)
             before == String_concat(parts.heap, parts.left, new.at)
             all == String_concat(before.heap, before.at, parts.right)
             bal == String_rebalance(String_release(all.heap, root), all.at)
             done == String_release(String_release(String_release(bal.heap,
                       parts.left), parts.right), new.at)
  <2>1. heap' = done /\ root' = bal.at
    BY <1>4 DEF String_insert
  <2>2. InsertRun(heap, root, i, s, new, parts, before, all, bal, done)
    BY DEF InsertRun
  <2> HIDE DEF new, parts, before, all, bal, done
  <2>3. Good(done, bal.at) /\ Inserts(Flat(heap)[root], Flat(done)[bal.at], i, s)
    <3>1. i \in 0 .. heap[root].len /\ s \in Seq(Char) /\ s # <<>> /\ heap[root].len # 0
      BY <1>4
    <3>2. QED
      BY ONLY <1>1, <3>1, <2>2, InsertKeeps
  <2>4. QED
    BY <1>4, <2>1, <2>3
<1>5. QED
  BY <1>2, <1>3, <1>4

\* What String_delete does to the text.
Deletes(T, U, pos, cut) == U = Part(T, 0, pos) \o Part(T, pos + cut, Len(T))

DeleteRun(h, n, pos, cut, parts, rest, all, let, bal) ==
  /\ parts = String_split(h, n, pos)
  /\ rest = String_split(parts.heap, parts.right, cut)
  /\ all = String_concat(rest.heap, parts.left, rest.right)
  /\ let = String_release(String_release(String_release(String_release(
              String_release(all.heap, n), rest.left), parts.right), parts.left), rest.right)
  /\ bal = String_rebalance(let, all.at)

LEMMA DeleteKeeps ==
  ASSUME NEW h, NEW n, Good(h, n), NEW pos \in Nat, pos < h[n].len, NEW cut \in Nat, cut > 0,
         pos + cut <= h[n].len, NEW parts, NEW rest, NEW all, NEW let, NEW bal,
         DeleteRun(h, n, pos, cut, parts, rest, all, let, bal)
  PROVE  Good(bal.heap, bal.at) /\ Deletes(Flat(h)[n], Flat(bal.heap)[bal.at], pos, cut)
<1>0. h[n].len \in Nat /\ h[n].len # 0
  <2>1. h[n].len \in Nat
    BY GoodFacts
  <2>2. QED
    BY <2>1
<1> DEFINE T == Flat(h)[n]
<1>1. KeptTree(h, n, T) /\ h[n].len = Len(T)
  BY <1>0, GoodKept
<1>2. n \in Nat
  BY <1>1 DEF KeptTree
<1> HIDE DEF T
<1> DEFINE l == parts.left
           r == parts.right
           k == rest.left
           m == rest.right
<1>3. /\ Held(rest.heap, Owe(k, m, r, l, n, Null))
      /\ k \in Nat /\ m \in Nat /\ l \in Nat /\ r \in Nat
      /\ Has(rest.heap, l, Part(T, 0, pos)) /\ Has(rest.heap, m, Part(T, pos + cut, Len(T)))
      /\ Part(T, 0, pos) \in Seq(Char) /\ Part(T, pos + cut, Len(T)) \in Seq(Char)
  <2>1. pos < Len(T) /\ pos + cut <= Len(T)
    BY <1>1
  <2>2. QED
    <3>1. parts = String_split(h, n, pos) /\ rest = String_split(parts.heap, parts.right, cut)
      BY DEF DeleteRun
    <3>2. QED
      BY ONLY <1>1, <2>1, <3>1, pos \in Nat, cut \in Nat, cut > 0, DeleteCuts
<1>4. /\ all = String_concat(rest.heap, l, m)
      /\ let = String_release(String_release(String_release(String_release(
                 String_release(all.heap, n), k), r), l), m)
      /\ bal = String_rebalance(let, all.at)
  BY DEF DeleteRun
<1> HIDE DEF l, r, k, m
<1> DEFINE a == Part(T, 0, pos)
           z == Part(T, pos + cut, Len(T))
<1>5. CASE l = Null /\ m = Null
  <2>1. Good(bal.heap, bal.at) /\ Flat(bal.heap)[bal.at] = <<>>
    BY ONLY <1>2, <1>3, <1>4, <1>5, DeleteEmpties
  <2>2. a = <<>> /\ z = <<>>
    BY <1>3, <1>5 DEF Has
  <2>3. <<>> \o <<>> = <<>>
    <3>1. <<>> \in Seq(Char)
      BY EmptySeq
    <3>2. QED
      BY <3>1, ConcatEmptySeq
  <2> HIDE DEF a, z
  <2>4. Flat(bal.heap)[bal.at] = a \o z
    BY <2>1, <2>2, <2>3
  <2>5. QED
    BY <2>1, <2>4 DEF Deletes, a, z, T
<1>6. CASE ~(l = Null /\ m = Null)
  <2>1. Null \in Nat
    BY DEF Null
  <2>2. Held(rest.heap, Owe(Null, k, m, r, l, n))
    <3>1. Owe(k, m, r, l, n, Null) = Owe(Null, k, m, r, l, n)
      BY OweOrders
    <3>2. QED
      BY <1>3, <3>1
  <2>3. a \in Seq(Char) /\ z \in Seq(Char) /\ Has(rest.heap, l, a) /\ Has(rest.heap, m, z)
    BY <1>3
  <2> HIDE DEF a, z
  <2>4. /\ Held(all.heap, Owe(all.at, k, m, r, l, n)) /\ all.at \in Nat \ {Null}
        /\ Holds(all.heap, all.at, a \o z)
    BY ONLY <1>2, <1>3, <1>4, <1>6, <2>1, <2>2, <2>3, ConcatOwe
  <2> DEFINE t == a \o z
             x == all.at
  <2>5. /\ Held(all.heap, Owe(x, k, m, r, l, n)) /\ x \in Nat \ {Null} /\ Holds(all.heap, x, t)
        /\ bal = String_rebalance(let, x)
    BY <1>4, <2>4
  <2> HIDE DEF t, x
  <2>6. KeptTree(bal.heap, bal.at, t)
    BY ONLY <1>2, <1>3, <1>4, <2>5, DeleteSettles
  <2>7. Good(bal.heap, bal.at) /\ Flat(bal.heap)[bal.at] = t
    BY ONLY <2>6, KeptGood
  <2>8. QED
    BY <2>7 DEF Deletes, a, z, t, T
<1>7. QED
  BY <1>5, <1>6

LEMMA DeleteStep ==
  ASSUME IInv, NEW pos \in 0 .. heap[root].len, NEW len \in Nat, String_delete(pos, len)
  PROVE  /\ Good(heap', root')
         /\ \/ UNCHANGED vars
            \/ /\ len > 0 /\ pos < heap[root].len
               /\ Deletes(Flat(heap)[root], Flat(heap')[root'], pos, smaller(len, heap[root].len - pos))
<1>1. Good(heap, root) /\ heap[root].len \in Nat
  BY GoodFacts DEF IInv
<1>2. CASE len = 0 \/ pos >= heap[root].len
  <2>1. UNCHANGED vars
    BY <1>2 DEF String_delete
  <2>2. QED
    BY <1>1, <2>1 DEF vars
<1>3. CASE ~(len = 0 \/ pos >= heap[root].len)
  <2> DEFINE cut == smaller(len, heap[root].len - pos)
             parts == String_split(heap, root, pos)
             rest == String_split(parts.heap, parts.right, cut)
             all == String_concat(rest.heap, parts.left, rest.right)
             let == String_release(String_release(String_release(String_release(
                      String_release(all.heap, root), rest.left), parts.right), parts.left),
                      rest.right)
             bal == String_rebalance(let, all.at)
  <2>1. heap' = bal.heap /\ root' = bal.at
    BY <1>3 DEF String_delete
  <2>2. DeleteRun(heap, root, pos, cut, parts, rest, all, let, bal)
    BY DEF DeleteRun
  <2>3. len > 0 /\ pos < heap[root].len /\ pos \in Nat
    BY <1>1, <1>3
  <2>4. cut \in Nat /\ cut > 0 /\ pos + cut <= heap[root].len
    BY <1>1, <2>3 DEF smaller
  <2>5. cut = smaller(len, heap[root].len - pos)
    OBVIOUS
  <2> HIDE DEF cut, parts, rest, all, let, bal
  <2>6. Good(bal.heap, bal.at) /\ Deletes(Flat(heap)[root], Flat(bal.heap)[bal.at], pos, cut)
    BY ONLY <1>1, <2>2, <2>3, <2>4, DeleteKeeps
  <2>7. QED
    BY <2>1, <2>3, <2>5, <2>6
<1>4. QED
  BY <1>2, <1>3

-----------------------------------------------------------------------------
(* Reading.                                                                  *)

CollectNode(h, f, m, s, k) ==
  IF m = Null \/ k = 0 THEN <<>>
  ELSE IF h[m].leaf THEN SubSeq(h[m].str, s + 1, smaller(h[m].len, s + k))
  ELSE IF s < h[m].weight THEN
    LET there == smaller(h[m].weight - s, k)
    IN  f[h[m].left][s][there] \o f[h[m].right][0][k - there]
  ELSE f[h[m].right][s - h[m].weight][k]

CollectBody(h, f, m) == [s \in Nat |-> [k \in Nat |-> CollectNode(h, f, m, s, k)]]

LEMMA UsableChildren ==
  ASSUME NEW h, NEW E, Held(h, E), NEW m \in Nat, m # Null, Usable(h, m)
  PROVE  /\ m \in Live(h) /\ h[m].left \in 0 .. m - 1 /\ h[m].right \in 0 .. m - 1
         /\ Usable(h, h[m].left) /\ Usable(h, h[m].right)
<1>1. h \in Heap /\ DOMAIN h = 1 .. Len(h)
  BY HeldFacts, HeapFacts
<1>2. m \in Live(h)
  BY <1>1 DEF Usable, Live
<1>3. /\ h[m].left \in 0 .. m - 1 /\ h[m].right \in 0 .. m - 1
      /\ h[m].left \in Live(h) \cup {Null} /\ h[m].right \in Live(h) \cup {Null}
  BY <1>1, <1>2, HeldFacts, LiveFacts
<1>4. \A c \in Live(h) \cup {Null} : Usable(h, c)
  BY <1>1 DEF Usable, Live
<1>5. QED
  BY <1>2, <1>3, <1>4

LEMMA CollectLocal ==
  ASSUME NEW h, NEW E, Held(h, E), NEW m \in Nat, Usable(h, m), NEW f, NEW g,
         \A j \in 0 .. m - 1 : Usable(h, j) => f[j] = g[j]
  PROVE  CollectBody(h, f, m) = CollectBody(h, g, m)
<1>1. \A s \in Nat, k \in Nat : CollectNode(h, f, m, s, k) = CollectNode(h, g, m, s, k)
  <2> TAKE s \in Nat, k \in Nat
  <2>1. CASE m = Null
    BY <2>1, Zenon DEF CollectNode
  <2>2. CASE m # Null
    <3>1. f[h[m].left] = g[h[m].left] /\ f[h[m].right] = g[h[m].right]
      BY <2>2, UsableChildren
    <3>2. QED
      BY <3>1, Zenon DEF CollectNode
  <2>3. QED
    BY <2>1, <2>2
<1>2. QED
  BY <1>1, Zenon DEF CollectBody

CollectRun(h, n, f) ==
  /\ f = [m \in {j \in 0 .. n : Usable(h, j)} |-> CollectBody(h, f, m)]
  /\ \A s, k : String_collect(h, n, s, k) = f[n][s][k]

LEMMA CollectSteps ==
  ASSUME NEW h, NEW E, Held(h, E), NEW n \in Nat
  PROVE  \E f : CollectRun(h, n, f)
<1> DEFINE Is(f, k) == f = [m \in {j \in 0 .. k : Usable(h, j)} |-> CollectBody(h, f, m)]
           S == {k \in 0 .. n : \E f : Is(f, k)}
<1>1. ASSUME NEW k \in 0 .. n, \A j \in 0 .. k - 1 : j \in S
      PROVE  k \in S
  <2>1. PICK f : \A m \in 0 .. k - 1 : Usable(h, m) => f[m] = CollectBody(h, f, m)
    <3>1. CASE k = 0
      BY <3>1
    <3>2. CASE k # 0
      <4>1. k - 1 \in S
        <5>1. k - 1 \in 0 .. k - 1
          BY <3>2
        <5> HIDE DEF S
        <5>2. QED
          BY ONLY <1>1, <5>1
      <4>2. PICK f : Is(f, k - 1)
        BY <4>1
      <4>3. \A m \in {j \in 0 .. k - 1 : Usable(h, j)} : f[m] = CollectBody(h, f, m)
        BY <4>2, Zenon
      <4>4. QED
        BY <4>3, Zenon
    <3>3. QED
      BY <3>1, <3>2
  <2> DEFINE D == {j \in 0 .. k : Usable(h, j)}
             g == [m \in D |-> CollectBody(h, f, m)]
  <2>2. \A m \in 0 .. k - 1 : Usable(h, m) => g[m] = f[m]
    <3> TAKE m \in 0 .. k - 1
    <3> HAVE Usable(h, m)
    <3>1. m \in 0 .. k
      OBVIOUS
    <3>2. m \in D
      BY <3>1
    <3>3. g[m] = CollectBody(h, f, m)
      BY <3>2, Zenon
    <3>4. QED
      BY <2>1, <3>3
  <2>3. \A m \in D : CollectBody(h, f, m) = CollectBody(h, g, m)
    <3> TAKE m \in D
    <3>0. m \in Nat /\ m <= k /\ Usable(h, m)
      OBVIOUS
    <3> HIDE DEF g, D
    <3>1. \A j \in 0 .. m - 1 : Usable(h, j) => f[j] = g[j]
      BY <2>2, <3>0
    <3>2. QED
      BY ONLY Held(h, E), <3>0, <3>1, CollectLocal
  <2>4. Is(g, k)
    BY <2>3, Zenon
  <2> HIDE DEF g, Is, D
  <2>5. QED
    BY <2>4
<1>2. n \in S
  <2>1. \A m \in 0 .. n : (\A k \in 0 .. m - 1 : k \in S) => m \in S
    BY <1>1
  <2> HIDE DEF S
  <2>2. QED
    BY <2>1, FromBelow
<1>3. \E f : Is(f, n)
  BY <1>2
<1> DEFINE r == CHOOSE f : Is(f, n)
<1>4. \A s, k : String_collect(h, n, s, k) = r[n][s][k]
  BY Zenon DEF String_collect, CollectBody, CollectNode
<1>5. Is(r, n)
  <2> HIDE DEF Is
  <2> QED
    BY <1>3, Zenon
<1> HIDE DEF r
<1>6. CollectRun(h, n, r)
  BY <1>4, <1>5, Zenon DEF CollectRun
<1>7. QED
  BY <1>6

\* A part of the text below a node.
CollectIs(h, f, m) ==
  \A s \in Nat, k \in Nat :
    s + k <= Len(Flat(h)[m]) => f[m][s][k] = Part(Flat(h)[m], s, s + k)

\* Reading a tree reads its sides.
LEMMA CollectJoin ==
  ASSUME NEW a \in Seq(Char), NEW b \in Seq(Char), NEW s \in Nat, NEW k \in Nat,
         s + k <= Len(a) + Len(b)
  PROVE  /\ s < Len(a) /\ k <= Len(a) - s =>
              Part(a \o b, s, s + k) = Part(a, s, s + k) \o Part(b, 0, 0)
         /\ s < Len(a) /\ ~(k <= Len(a) - s) =>
              Part(a \o b, s, s + k) = Part(a, s, Len(a)) \o Part(b, 0, k - (Len(a) - s))
         /\ ~(s < Len(a)) => Part(a \o b, s, s + k) = Part(b, s - Len(a), (s - Len(a)) + k)
<1>1. Len(a) \in Nat /\ Len(b) \in Nat
  BY LenProperties
<1> DEFINE e == s + k
           l == Len(a)
<1>2. e \in Nat /\ s <= e /\ e <= l + Len(b) /\ l \in Nat
  BY <1>1
<1>3. CASE s < l /\ k <= l - s
  <2>1. e <= l
    BY <1>1, <1>3
  <2>2. Part(a \o b, s, e) = Part(a, s, e)
    BY <1>2, <2>1, CatFront
  <2>3. Part(a, s, e) \in Seq(Char)
    BY <1>2, <2>1, PartFacts
  <2>4. Part(b, 0, 0) = <<>>
    BY PartNone
  <2>5. Part(a, s, e) \o <<>> = Part(a, s, e)
    BY <2>3, ConcatEmptySeq
  <2>6. QED
    BY <1>3, <2>2, <2>4, <2>5
<1>4. CASE s < l /\ ~(k <= l - s)
  <2>1. s <= l /\ l <= e /\ e - l = k - (l - s)
    BY <1>1, <1>2, <1>4
  <2> HIDE DEF e, l
  <2>2. s <= Len(a) /\ Len(a) <= e /\ e <= Len(a) + Len(b) /\ l = Len(a)
    BY <1>2, <2>1 DEF l
  <2>3. Part(a \o b, s, e) = Part(a, s, Len(a)) \o Part(b, 0, e - Len(a))
    BY ONLY <1>2, <2>2, a \in Seq(Char), b \in Seq(Char), s \in Nat, CatAcross
  <2>4. Part(a \o b, s, e) = Part(a, s, Len(a)) \o Part(b, 0, k - (l - s))
    BY <2>1, <2>2, <2>3
  <2>5. QED
    BY <1>4, <2>4 DEF e, l
<1>5. CASE ~(s < l)
  <2>1. l <= s /\ e - l = (s - l) + k
    BY <1>1, <1>2, <1>5
  <2> HIDE DEF e, l
  <2>2. Len(a) <= s /\ e <= Len(a) + Len(b) /\ l = Len(a)
    BY <1>2, <2>1 DEF l
  <2>3. Part(a \o b, s, e) = Part(b, s - Len(a), e - Len(a))
    BY ONLY <1>2, <2>2, a \in Seq(Char), b \in Seq(Char), s \in Nat, CatBack
  <2>4. Part(a \o b, s, e) = Part(b, s - l, (s - l) + k)
    BY <2>1, <2>2, <2>3
  <2>5. QED
    BY <1>5, <2>4 DEF e, l
<1>6. QED
  BY <1>3, <1>4, <1>5

LEMMA CollectParent ==
  ASSUME NEW h, NEW E, Held(h, E), NEW m \in Live(h), ~h[m].leaf, NEW f,
         CollectIs(h, f, h[m].left), CollectIs(h, f, h[m].right),
         f[m] = CollectBody(h, f, m)
  PROVE  CollectIs(h, f, m)
<1> DEFINE l == h[m].left
           r == h[m].right
           t == Flat(h)[m]
           a == Flat(h)[l]
           b == Flat(h)[r]
           w == h[m].weight
<1>1. h \in Heap /\ m # Null
  BY HeldFacts, LiveFacts
<1>2. l \in 0 .. Len(h) /\ r \in 0 .. Len(h)
  BY <1>1, LiveFacts
<1>3. a \in Seq(Char) /\ b \in Seq(Char)
  BY <1>1, <1>2, FlatType
<1>4. t = a \o b /\ w = Len(a)
  BY Lengths
<1>5. Len(t) = Len(a) + Len(b) /\ Len(a) \in Nat /\ Len(b) \in Nat
  BY <1>3, <1>4, ConcatProperties, LenProperties
<1>6. /\ \A s \in Nat, k \in Nat : s + k <= Len(a) => f[l][s][k] = Part(a, s, s + k)
      /\ \A s \in Nat, k \in Nat : s + k <= Len(b) => f[r][s][k] = Part(b, s, s + k)
  BY DEF CollectIs
<1>7. \A s \in Nat, k \in Nat : f[m][s][k] = CollectNode(h, f, m, s, k)
  BY DEF CollectBody
<1>8. \A s \in Nat, k \in Nat : k # 0 => f[m][s][k] =
         IF s < w
         THEN f[l][s][smaller(w - s, k)] \o f[r][0][k - smaller(w - s, k)]
         ELSE f[r][s - w][k]
  BY <1>1, <1>7 DEF CollectNode
<1>9. \A s \in Nat : f[m][s][0] = <<>>
  BY <1>7 DEF CollectNode
<1> HIDE DEF l, r, t, a, b, w
<1>10. ASSUME NEW s \in Nat, NEW k \in Nat, s + k <= Len(t)
       PROVE  f[m][s][k] = Part(t, s, s + k)
  <2>0. s + k <= Len(a) + Len(b)
    BY <1>5, <1>10
  <2>1. CASE k = 0
    <3>1. Part(t, s, s) = <<>> /\ s + 0 = s
      BY PartNone
    <3>2. QED
      BY <1>9, <2>1, <3>1
  <2>2. CASE k # 0 /\ s < w /\ k <= w - s
    <3>1. smaller(w - s, k) = k /\ k - k = 0 /\ 0 + 0 = 0 /\ s + k <= Len(a)
      BY <1>4, <1>5, <2>2 DEF smaller
    <3>2. f[m][s][k] = f[l][s][k] \o f[r][0][0]
      BY <1>8, <2>2, <3>1
    <3>3. f[l][s][k] = Part(a, s, s + k) /\ f[r][0][0] = Part(b, 0, 0)
      BY <1>5, <1>6, <3>1
    <3>4. Part(a \o b, s, s + k) = Part(a, s, s + k) \o Part(b, 0, 0)
      BY <1>3, <1>4, <2>0, <2>2, CollectJoin
    <3>5. QED
      BY <1>4, <3>2, <3>3, <3>4
  <2>3. CASE k # 0 /\ s < w /\ ~(k <= w - s)
    <3>1. /\ smaller(w - s, k) = w - s /\ w - s \in Nat /\ k - (w - s) \in Nat
          /\ s + (w - s) = Len(a) /\ k - (w - s) <= Len(b) /\ 0 + (k - (w - s)) = k - (w - s)
      BY <1>4, <1>5, <2>0, <2>3 DEF smaller
    <3>2. f[m][s][k] = f[l][s][w - s] \o f[r][0][k - (w - s)]
      BY <1>8, <2>3, <3>1
    <3>3. f[l][s][w - s] = Part(a, s, Len(a))
      <4>1. s + (w - s) <= Len(a)
        BY <1>5, <3>1
      <4>2. f[l][s][w - s] = Part(a, s, s + (w - s))
        BY <1>6, <3>1, <4>1
      <4>3. QED
        BY <3>1, <4>2
    <3>4. f[r][0][k - (w - s)] = Part(b, 0, k - (w - s))
      <4> DEFINE x == k - (w - s)
      <4>1. x \in Nat /\ 0 + x <= Len(b) /\ 0 + x = x
        BY <3>1
      <4> HIDE DEF x
      <4>2. f[r][0][x] = Part(b, 0, x)
        BY <1>6, <4>1
      <4>3. QED
        BY <4>2 DEF x
    <3>5. Part(a \o b, s, s + k) = Part(a, s, Len(a)) \o Part(b, 0, k - (w - s))
      BY <1>3, <1>4, <2>0, <2>3, CollectJoin
    <3>6. QED
      BY <1>4, <3>2, <3>3, <3>4, <3>5
  <2>4. CASE k # 0 /\ ~(s < w)
    <3>1. s - w \in Nat /\ (s - w) + k <= Len(b)
      BY <1>4, <1>5, <2>0, <2>4
    <3>2. f[m][s][k] = f[r][s - w][k]
      BY <1>8, <2>4
    <3>3. f[r][s - w][k] = Part(b, s - w, (s - w) + k)
      <4> DEFINE x == s - w
      <4>1. x \in Nat /\ x + k <= Len(b)
        BY <3>1
      <4> HIDE DEF x
      <4>2. f[r][x][k] = Part(b, x, x + k)
        BY <1>6, <4>1
      <4>3. QED
        BY <4>2 DEF x
    <3>4. Part(a \o b, s, s + k) = Part(b, s - w, (s - w) + k)
      BY <1>3, <1>4, <2>0, <2>4, CollectJoin
    <3>5. QED
      BY <1>4, <3>2, <3>3, <3>4
  <2>5. QED
    BY <2>1, <2>2, <2>3, <2>4
<1>11. \A s \in Nat, k \in Nat : s + k <= Len(t) => f[m][s][k] = Part(t, s, s + k)
  BY <1>10
<1>12. QED
  BY <1>11 DEF CollectIs, t

LEMMA CollectKeeps ==
  ASSUME NEW h, NEW E, Held(h, E), NEW n \in Live(h), NEW s \in Nat, NEW k \in Nat,
         s + k <= Len(Flat(h)[n])
  PROVE  String_collect(h, n, s, k) = Part(Flat(h)[n], s, s + k)
<1>1. h \in Heap /\ DOMAIN h = 1 .. Len(h) /\ n \in Nat /\ Len(h) \in Nat
  BY HeldFacts, HeapFacts, LiveFacts
<1>1a. PICK f : CollectRun(h, n, f)
  BY <1>1, CollectSteps
<1>2. /\ f = [m \in {j \in 0 .. n : Usable(h, j)} |-> CollectBody(h, f, m)]
      /\ \A i, j : String_collect(h, n, i, j) = f[n][i][j]
  BY <1>1a, Zenon DEF CollectRun
<1>3. \A m \in 0 .. n : Usable(h, m) => f[m] = CollectBody(h, f, m)
  <2>1. \A m \in {j \in 0 .. n : Usable(h, j)} : f[m] = CollectBody(h, f, m)
    BY <1>2, Zenon
  <2>2. QED
    BY <2>1, Zenon
<1> DEFINE S == {m \in 0 .. n : Usable(h, m) => CollectIs(h, f, m)}
<1>4. ASSUME NEW m \in 0 .. n, \A j \in 0 .. m - 1 : j \in S
      PROVE  m \in S
  <2>1. SUFFICES ASSUME Usable(h, m) PROVE CollectIs(h, f, m)
    OBVIOUS
  <2>2. \A j \in 0 .. m - 1 : Usable(h, j) => CollectIs(h, f, j)
    BY <1>4
  <2>3. f[m] = CollectBody(h, f, m)
    BY <1>3, <2>1
  <2>4. CASE m = Null
    <3>1. Flat(h)[m] = <<>> /\ Len(<<>>) = 0
      BY <1>1, <2>4, FlatAt
    <3>2. \A i \in Nat, j \in Nat : f[m][i][j] = <<>>
      BY <2>3, <2>4 DEF CollectBody, CollectNode
    <3>3. Part(<<>>, 0, 0) = <<>> /\ 0 + 0 = 0
      BY PartNone
    <3>4. \A i \in Nat, j \in Nat : i + j <= 0 => i = 0 /\ j = 0
      OBVIOUS
    <3>5. QED
      BY <3>1, <3>2, <3>3, <3>4 DEF CollectIs
  <2>5. CASE m # Null
    <3>1. /\ m \in Live(h) /\ h[m].left \in 0 .. m - 1 /\ h[m].right \in 0 .. m - 1
          /\ Usable(h, h[m].left) /\ Usable(h, h[m].right)
      BY <1>1, <2>1, <2>5, UsableChildren
    <3>2. CASE ~h[m].leaf
      <4>1. CollectIs(h, f, h[m].left) /\ CollectIs(h, f, h[m].right)
        BY <2>2, <3>1
      <4>2. QED
        BY <2>3, <3>1, <3>2, <4>1, CollectParent
    <3>3. CASE h[m].leaf
      <4>1. Flat(h)[m] = h[m].str /\ h[m].len = Len(Flat(h)[m]) /\ h[m].len \in Nat
        BY <1>1, <3>1, <3>3, Lengths, LiveFacts
      <4>2. \A i \in Nat, j \in Nat :
              f[m][i][j] = IF j = 0 THEN <<>> ELSE SubSeq(h[m].str, i + 1, smaller(h[m].len, i + j))
        BY <2>3, <2>5, <3>3 DEF CollectBody, CollectNode
      <4>3. \A i \in Nat, j \in Nat : i + j <= h[m].len => smaller(h[m].len, i + j) = i + j
        BY <4>1 DEF smaller
      <4>4. \A i \in Nat : Part(Flat(h)[m], i, i + 0) = <<>>
        <5>1. \A i \in Nat : Part(Flat(h)[m], i, i) = <<>> /\ i + 0 = i
          BY PartNone
        <5>2. QED
          BY <5>1
      <4>5. ASSUME NEW i \in Nat, NEW j \in Nat, i + j <= Len(Flat(h)[m])
            PROVE  f[m][i][j] = Part(Flat(h)[m], i, i + j)
        <5>1. CASE j = 0
          BY <4>2, <4>4, <5>1
        <5>2. CASE j # 0
          <6>1. smaller(h[m].len, i + j) = i + j
            BY <4>1, <4>3, <4>5
          <6>2. f[m][i][j] = SubSeq(h[m].str, i + 1, smaller(h[m].len, i + j))
            BY <4>2, <5>2
          <6>3. QED
            BY <4>1, <6>1, <6>2 DEF Part
        <5>3. QED
          BY <5>1, <5>2
      <4>6. QED
        BY <4>5 DEF CollectIs
    <3>4. QED
      BY <3>2, <3>3
  <2>6. QED
    BY <2>4, <2>5
<1>5. n \in S
  <2>1. \A m \in 0 .. n : (\A j \in 0 .. m - 1 : j \in S) => m \in S
    BY <1>4
  <2> HIDE DEF S
  <2>2. \A m \in 0 .. n : m \in S
    BY ONLY <1>1, <2>1, FromBelow
  <2>3. QED
    BY <1>1, <2>2
<1>6. CollectIs(h, f, n)
  BY <1>1, <1>5 DEF Usable, Live
<1>7. QED
  BY <1>2, <1>6 DEF CollectIs

-----------------------------------------------------------------------------
(* What every state satisfies.                                               *)

LEMMA Start == Init => IInv
<1> SUFFICES ASSUME Init PROVE IInv
  OBVIOUS
<1> DEFINE E == Owe(Null, Null, Null, Null, Null, Null)
           h == <<>>
           new == String_new(h)
           x == new.at
<1>1. heap = new.heap /\ root = x
  BY DEF Init
<1>2. E \in [Nat -> Nat] /\ E = Owe(Null, Null, Null, Null, Null, Null)
  BY OweIs
<1>3. \A n \in Nat \ {Null} : E[n] = 0
  <2> TAKE n \in Nat \ {Null}
  <2>1. E[n] = One(Null, n) + One(Null, n) + One(Null, n) + One(Null, n) + One(Null, n) + One(Null, n)
    <3>1. n \in Nat
      OBVIOUS
    <3>2. QED
      BY ONLY <3>1, OweIs DEF E
  <2>2. One(Null, n) = 0
    BY DEF One
  <2> HIDE DEF E
  <2>3. QED
    BY <2>1, <2>2
<1> HIDE DEF E
<1>4. h \in Heap /\ Live(h) = {}
  <2>1. h \in Seq(Nodes \cup {Freed}) /\ Len(h) = 0 /\ DOMAIN h = {}
    BY EmptySeq
  <2>2. 1 .. 0 = {}
    OBVIOUS
  <2>3. h \in Heap
    BY <2>1 DEF Heap
  <2> HIDE DEF h
  <2>4. QED
    BY <2>1, <2>2, <2>3 DEF Live
<1> HIDE DEF h
<1>5. Held(h, E)
  <2>1. \A n \in Nat \ {Null} : ~(E[n] > 0)
    BY <1>3
  <2>2. QED
    BY <1>2, <1>4, <2>1 DEF Held, Sound, Counts
<1>6. /\ Held(new.heap, E) /\ x \in Live(new.heap) /\ new.heap[x].len = 0 /\ x = Len(h) + 1
  BY <1>5, EmptyMade
<1> HIDE DEF new, x
<1>7. x # Null
  BY <1>6, HeldFacts, LiveFacts
<1>8. Stray(new.heap, x, Null, Null, Null, Null, Null, Null)
  BY <1>2, <1>6, <1>7 DEF Stray
<1>9. Good(new.heap, x)
  BY <1>8, StrayRests
<1>10. QED
  BY <1>1, <1>9 DEF IInv

LEMMA Steps == IInv /\ [Next]_vars => Good(heap', root')
<1> SUFFICES ASSUME IInv, [Next]_vars PROVE Good(heap', root')
  OBVIOUS
<1>1. CASE Insert
  BY <1>1, InsertStep DEF Insert
<1>2. CASE Delete
  BY <1>2, DeleteStep DEF Delete
<1>3. CASE UNCHANGED vars
  BY <1>3 DEF vars, IInv
<1>4. QED
  BY <1>1, <1>2, <1>3 DEF Next

\* The inductive invariant of the rope: the buffer's tree is sound.
THEOREM Invariant == Spec => []IInv
<1>1. Init => IInv
  BY Start
<1>2. IInv /\ [Next]_vars => IInv'
  BY Steps DEF IInv
<1>3. QED
  BY <1>1, <1>2, PTL DEF Spec

LEMMA TypeHolds == IInv => TypeOK
<1> SUFFICES ASSUME IInv PROVE TypeOK
  OBVIOUS
<1>1. PICK E : Held(heap, E)
  BY GoodFacts DEF IInv
<1>2. heap \in Heap /\ root \in Live(heap) /\ DOMAIN heap = 1 .. Len(heap)
  BY <1>1, HeldFacts, HeapFacts, GoodFacts DEF IInv
<1>3. Allocated = Live(heap)
  BY <1>2 DEF Allocated, Live
<1>4. ASSUME NEW n \in Live(heap)
      PROVE  /\ heap[n].leaf => /\ Len(heap[n].str) \in 1 .. MAX_SIZE_LEAF
                                /\ heap[n].left = Null /\ heap[n].right = Null
             /\ ~heap[n].leaf => heap[n].str = <<>> /\ (heap[n].left = Null <=> heap[n].right = Null)
  <2>1. Formed(heap, Live(heap), n)
    BY <1>1, HeldFacts
  <2>2. Null \notin Live(heap)
    BY <1>2, LiveFacts
  <2>3. QED
    BY <2>1, <2>2 DEF Formed
<1>5. QED
  BY <1>2, <1>3, <1>4 DEF TypeOK

LEMMA CountsHold == IInv => CountsCoverReferences
<1> SUFFICES ASSUME IInv PROVE CountsCoverReferences
  OBVIOUS
<1> DEFINE o == IF heap[root].len = 0 THEN Null ELSE root
           E == Owe(o, Null, Null, Null, Null, Null)
<1>1. Held(heap, E)
  BY DEF IInv, Good, Owned
<1>2. \A n \in Nat \ {Null} : E[n] = IF n = o THEN 1 ELSE 0
  <2> TAKE n \in Nat \ {Null}
  <2>1. E[n] = One(o, n) + One(Null, n) + One(Null, n) + One(Null, n) + One(Null, n) + One(Null, n)
    <3>1. n \in Nat
      OBVIOUS
    <3> HIDE DEF o
    <3>2. QED
      BY ONLY <3>1, OweIs DEF E
  <2>2. One(Null, n) = 0 /\ One(o, n) = IF n = o THEN 1 ELSE 0
    BY DEF One
  <2> HIDE DEF E, o
  <2>3. QED
    BY <2>1, <2>2
<1> HIDE DEF E
<1>3. heap \in Heap /\ root \in Live(heap) /\ DOMAIN heap = 1 .. Len(heap)
  BY <1>1, HeldFacts, HeapFacts, GoodFacts DEF IInv
<1>4. Allocated = Live(heap)
  BY <1>3 DEF Allocated, Live
<1>5. ASSUME NEW n \in Live(heap)
      PROVE  /\ {heap[n].left, heap[n].right} \subseteq Live(heap) \cup {Null}
             /\ heap[n].ref_count >= References(n) \/ (n = root /\ heap[n].len = 0)
  <2>1. /\ heap[n].left \in Live(heap) \cup {Null} /\ heap[n].right \in Live(heap) \cup {Null}
        /\ heap[n].ref_count >= Refs(heap, Live(heap), n) + E[n]
        /\ Refs(heap, Live(heap), n) \in Nat
    BY <1>1, HeldFacts
  <2>2. References(n) = Refs(heap, Live(heap), n) + (IF n = root THEN 1 ELSE 0)
    BY <1>4 DEF References, Refs, Lefts, Rights
  <2>3. E[n] = IF n = o THEN 1 ELSE 0
    BY <1>2, <1>3, LiveFacts
  <2>4. CASE n = root /\ heap[n].len = 0
    BY <2>1, <2>4
  <2>5. CASE n = root /\ heap[n].len # 0
    BY <2>1, <2>2, <2>3, <2>5
  <2>6. CASE n # root
    <3>1. n # o
      BY <1>3, <2>6, LiveFacts
    <3>2. E[n] = 0 /\ References(n) = Refs(heap, Live(heap), n) + 0
      BY <2>2, <2>3, <2>6, <3>1
    <3>3. QED
      BY <2>1, <3>2
  <2>7. QED
    BY <2>4, <2>5, <2>6
<1>6. QED
  BY <1>4, <1>5 DEF CountsCoverReferences

LEMMA WeightsHold == IInv => WeightsMeasure
<1> SUFFICES ASSUME IInv PROVE WeightsMeasure
  OBVIOUS
<1>1. PICK E : Held(heap, E)
  BY GoodFacts DEF IInv
<1>2. heap \in Heap /\ DOMAIN heap = 1 .. Len(heap)
  BY <1>1, HeldFacts, HeapFacts
<1>3. Allocated = Live(heap)
  BY <1>2 DEF Allocated, Live
<1>4. QED
  BY <1>1, <1>3, Lengths DEF WeightsMeasure

LEMMA HeightHolds == IInv => HeightBounded
BY DEF IInv, Good, Low, HeightBounded

LEMMA GetHolds == IInv => GetReturnsPiece
<1> SUFFICES ASSUME IInv, NEW i \in 0 .. heap[root].len, NEW n \in 1 .. heap[root].len + 1
             PROVE  String_get(i, n) = Contents!String_get(Flat(heap)[root], i, n)
  BY DEF GetReturnsPiece
<1> DEFINE t == Flat(heap)[root]
           l == heap[root].len
           to == IF i + n > Len(t) THEN Len(t) ELSE i + n
<1>1. PICK E : Held(heap, E)
  BY GoodFacts DEF IInv
<1>2. root \in Live(heap) /\ l \in Nat /\ l = Len(t) /\ t \in Seq(Char)
  BY GoodFacts DEF IInv
<1>3. Contents!String_get(t, i, n) = Part(t, i, to)
  BY DEF Contents!String_get, Part
<1>4. i \in Nat /\ i <= l /\ n \in Nat /\ n >= 1
  BY <1>2
<1>5. CASE i >= l
  <2>1. i = l /\ to = l
    BY <1>2, <1>4, <1>5
  <2>2. Part(t, l, l) = <<>>
    BY <1>2, PartNone
  <2>3. String_get(i, n) = <<>>
    BY <1>5 DEF String_get
  <2>4. QED
    BY <1>3, <2>1, <2>2, <2>3
<1>6. CASE ~(i >= l)
  <2> DEFINE k == smaller(n, l - i)
  <2>1. k \in Nat /\ i + k <= Len(t) /\ i + k = to
    BY <1>2, <1>4, <1>6 DEF smaller
  <2>2. String_get(i, n) = String_collect(heap, root, i, k)
    BY <1>6 DEF String_get
  <2> HIDE DEF k
  <2>3. String_collect(heap, root, i, k) = Part(t, i, i + k)
    BY <1>1, <1>2, <1>4, <2>1, CollectKeeps
  <2>4. QED
    BY <1>3, <2>1, <2>2, <2>3
<1>7. QED
  BY <1>5, <1>6

\* Every address that is used holds a node that is formed as a node must be.
THEOREM TypeCorrect == Spec => []TypeOK
BY Invariant, TypeHolds, PTL

\* No node is freed, whatever the trees share, as long as something refers to it.
THEOREM CountsAreSafe == Spec => []CountsCoverReferences
BY Invariant, CountsHold, PTL

\* Lengths and weights are right in every node.
THEOREM WeightsAreRight == Spec => []WeightsMeasure
BY Invariant, WeightsHold, PTL

\* The tree is never higher than its leaves allow after an edit.
THEOREM HeightIsBounded == Spec => []HeightBounded
BY Invariant, HeightHolds, PTL

\* String_get returns the characters that were asked for.
THEOREM GetIsExact == Spec => []GetReturnsPiece
BY Invariant, GetHolds, PTL

-----------------------------------------------------------------------------
(* The rope implements the text.                                             *)

LEMMA InsertedText ==
  ASSUME NEW T \in Seq(Char), NEW i \in 0 .. Len(T), NEW s \in Seq(Char), s # <<>>,
         NEW U, Inserts(T, U, i, s)
  PROVE  LET n == Len(U) - Len(T)
         IN  n > 0 /\ U = Contents!String_insert(T, i, SubSeq(U, i + 1, i + n))
<1> DEFINE a == Part(T, 0, i)
           z == Part(T, i, Len(T))
           k == Len(s)
           b == a \o s
<1>0. Len(T) \in Nat /\ k \in Nat /\ k # 0
  <2>1. Len(T) \in Nat /\ k \in Nat \ {0}
    BY LenProperties, EmptySeq
  <2>2. QED
    BY <2>1
<1>1. 0 \in Nat /\ i \in Nat /\ 0 <= i /\ i <= Len(T) /\ ~(i > Len(T)) /\ i - 0 = i
  BY <1>0
<1>2. a \in Seq(Char) /\ Len(a) = i - 0 /\ z \in Seq(Char) /\ Len(z) = Len(T) - i
  BY <1>0, <1>1, PartCut
<1>3. U = b \o z
  BY DEF Inserts
<1>4. b \in Seq(Char) /\ Len(b) = i + k
  <2> HIDE DEF a
  <2>1. b \in Seq(Char) /\ Len(b) = Len(a) + k
    BY <1>2, ConcatProperties
  <2>2. QED
    BY <1>1, <1>2, <2>1
<1> HIDE DEF b
<1>5. U \in Seq(Char) /\ Len(U) = (i + k) + (Len(T) - i)
  <2> HIDE DEF z
  <2>1. b \o z \in Seq(Char) /\ Len(b \o z) = Len(b) + Len(z)
    BY <1>2, <1>4, ConcatProperties
  <2>2. QED
    BY <1>2, <1>3, <1>4, <2>1
<1>6. Len(U) - Len(T) = k /\ k > 0
  BY <1>0, <1>1, <1>5
<1>7. Part(U, i, i + k) = s
  <2>1. Part(U, i, i + k) = Part(b, i, i + k)
    <3>1. i + k \in Nat /\ i <= i + k /\ i + k <= Len(b)
      BY <1>0, <1>1, <1>4
    <3> HIDE DEF z
    <3>2. Part(b \o z, i, i + k) = Part(b, i, i + k)
      BY <1>1, <1>2, <1>4, <3>1, CatFront
    <3>3. QED
      BY <1>3, <3>2
  <2>2. Part(b, i, i + k) = Part(s, i - Len(a), (i + k) - Len(a))
    <3>1. i + k \in Nat /\ i <= i + k /\ Len(a) <= i /\ i + k <= Len(a) + Len(s)
      BY <1>0, <1>1, <1>2
    <3> HIDE DEF a
    <3>2. Part(a \o s, i, i + k) = Part(s, i - Len(a), (i + k) - Len(a))
      BY ONLY <1>1, <1>2, <3>1, s \in Seq(Char), CatBack
    <3>3. QED
      BY <3>2 DEF b
  <2>3. i - Len(a) = 0 /\ (i + k) - Len(a) = Len(s)
    <3>1. Len(a) = i /\ k = Len(s) /\ (i + k) - i = k /\ i - i = 0
      BY <1>0, <1>1, <1>2
    <3> HIDE DEF a, k
    <3>2. QED
      BY ONLY <3>1
  <2>4. Part(s, 0, Len(s)) = s
    BY PartAll
  <2>5. QED
    BY <2>1, <2>2, <2>3, <2>4
<1>8. SubSeq(U, i + 1, i + k) = s
  BY <1>7 DEF Part
<1>9. Contents!String_insert(T, i, s) = (a \o s) \o z
  <2>0. ~(i > Len(T))
    BY <1>1
  <2>1. Contents!String_insert(T, i, s) = (SubSeq(T, 1, i) \o s) \o SubSeq(T, i + 1, Len(T))
    BY ONLY <2>0, Zenon DEF Contents!String_insert
  <2>2. 0 + 1 = 1
    OBVIOUS
  <2>3. a = SubSeq(T, 1, i) /\ z = SubSeq(T, i + 1, Len(T))
    BY <2>2 DEF Part
  <2> HIDE DEF a, z
  <2>4. QED
    BY ONLY <2>1, <2>3
<1>10. QED
  BY <1>3, <1>6, <1>8, <1>9 DEF b

LEMMA DeletedText ==
  ASSUME NEW T \in Seq(Char), NEW pos \in Nat, pos < Len(T), NEW len \in Nat, len > 0,
         NEW U, Deletes(T, U, pos, smaller(len, Len(T) - pos))
  PROVE  \E p \in 0 .. Len(T) - 1, n \in 1 .. Len(T) : U = Contents!String_delete(T, p, n)
<1> DEFINE n == smaller(len, Len(T) - pos)
<1>1. Len(T) \in Nat
  BY LenProperties
<1>2. pos \in 0 .. Len(T) - 1 /\ n \in 1 .. Len(T) /\ ~(pos >= Len(T))
      /\ pos + n <= Len(T) /\ ~(pos + n > Len(T))
  BY <1>1 DEF smaller
<1>3. U = Part(T, 0, pos) \o Part(T, pos + n, Len(T))
  BY DEF Deletes
<1> HIDE DEF n
<1>4. Contents!String_delete(T, pos, n) = Part(T, 0, pos) \o Part(T, pos + n, Len(T))
  <2>1. Contents!String_delete(T, pos, n) = SubSeq(T, 1, pos) \o SubSeq(T, (pos + n) + 1, Len(T))
    BY ONLY <1>2, Zenon DEF Contents!String_delete
  <2>2. 0 + 1 = 1
    OBVIOUS
  <2>3. Part(T, 0, pos) = SubSeq(T, 1, pos) /\ Part(T, pos + n, Len(T)) = SubSeq(T, (pos + n) + 1, Len(T))
    BY <2>2 DEF Part
  <2>4. QED
    BY ONLY <2>1, <2>3
<1>5. U = Contents!String_delete(T, pos, n)
  BY <1>3, <1>4
<1>6. QED
  BY <1>2, <1>5

LEMMA TextStart == Init => Contents!Init
<1> SUFFICES ASSUME Init PROVE Flat(heap)[root] = <<>>
  BY DEF Contents!Init
<1>1. heap[root].len = 0 /\ Good(heap, root)
  <2>1. Good(heap, root)
    BY Start DEF IInv
  <2>2. heap = Append(<<>>, Node(FALSE, 0, 0, Null, Null, <<>>, 0)) /\ root = Len(<<>>) + 1
    BY DEF Init, String_new, Alloc
  <2>3. heap[root].len = 0
    BY <2>2 DEF Node
  <2>4. QED
    BY <2>1, <2>3
<1>2. Flat(heap)[root] \in Seq(Char) /\ Len(Flat(heap)[root]) = 0
  BY <1>1, GoodFacts
<1>3. QED
  BY <1>2, EmptySeq

LEMMA TextStep == IInv /\ [Next]_vars => [Contents!Next]_(Flat(heap)[root])
<1> SUFFICES ASSUME IInv, [Next]_vars PROVE [Contents!Next]_(Flat(heap)[root])
  OBVIOUS
<1> DEFINE T == Flat(heap)[root]
           U == Flat(heap')[root']
<1>1. T \in Seq(Char) /\ heap[root].len = Len(T) /\ heap[root].len \in Nat
  BY GoodFacts DEF IInv
<1>2. ASSUME UNCHANGED vars PROVE UNCHANGED (Flat(heap)[root])
  BY <1>2 DEF vars
<1>3. CASE Insert
  <2>1. PICK i \in 0 .. heap[root].len, s \in Seq(Char) : String_insert(i, s)
    BY <1>3 DEF Insert
  <2>2. UNCHANGED vars \/ (s # <<>> /\ Inserts(T, U, i, s))
    BY <2>1, InsertStep
  <2>3. CASE s # <<>> /\ Inserts(T, U, i, s)
    <3>1. i \in 0 .. Len(T)
      BY <1>1
    <3>2. LET n == Len(U) - Len(T)
          IN  n > 0 /\ U = Contents!String_insert(T, i, SubSeq(U, i + 1, i + n))
      BY <1>1, <2>3, <3>1, InsertedText
    <3>3. Contents!Insert
      BY <3>1, <3>2 DEF Contents!Insert
    <3>4. QED
      BY <3>3 DEF Contents!Next
  <2>4. QED
    BY <1>2, <2>2, <2>3
<1>4. CASE Delete
  <2>1. PICK p \in 0 .. heap[root].len, n \in Nat : String_delete(p, n)
    BY <1>4 DEF Delete
  <2>2. \/ UNCHANGED vars
        \/ /\ n > 0 /\ p < heap[root].len
           /\ Deletes(T, U, p, smaller(n, heap[root].len - p))
    BY <2>1, DeleteStep
  <2>3. CASE /\ n > 0 /\ p < heap[root].len
             /\ Deletes(T, U, p, smaller(n, heap[root].len - p))
    <3>1. p \in Nat /\ p < Len(T) /\ Deletes(T, U, p, smaller(n, Len(T) - p))
      BY <1>1, <2>3
    <3>2. \E q \in 0 .. Len(T) - 1, m \in 1 .. Len(T) : U = Contents!String_delete(T, q, m)
      BY <1>1, <2>3, <3>1, DeletedText
    <3>3. Contents!Delete
      BY <3>2 DEF Contents!Delete
    <3>4. QED
      BY <3>3 DEF Contents!Next
  <2>4. QED
    BY <1>2, <2>2, <2>3
<1>5. QED
  BY <1>2, <1>3, <1>4 DEF Next

\* The tree of shared nodes keeps the promise of a plain sequence: every edit of the
\* rope is that edit of the text.
THEOREM RopeIsText == Spec => ImplementsText
<1>1. Init => Contents!Init
  BY TextStart
<1>2. IInv /\ [Next]_vars => [Contents!Next]_(Flat(heap)[root])
  BY TextStep
<1>3. QED
  BY <1>1, <1>2, Invariant, PTL DEF Spec, ImplementsText, Contents!Spec
=============================================================================
