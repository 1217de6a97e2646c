-------------------------- MODULE TextBufferProofs --------------------------
(***************************************************************************)
(* What holds of TextBuffer for all constants: types, the cursor inside    *)
(* the text, the line index equal to a full scan of the text, and what the *)
(* history tells of the text.                                              *)
(*                                                                         *)
(* The index needs to know that undo and redo insert at offsets inside the *)
(* text.  They may leave a text other than the recorded one, so this is    *)
(* shown from the sizes the history implies (HistoryFits).  Where they     *)
(* restored what was recorded, the texts between the actions are known     *)
(* too (Explains).                                                         *)
(*                                                                         *)
(* First come facts about the text and its line index: updating the index  *)
(* in place, as line_index_insert_newlines and line_index_delete_range do, *)
(* gives what scanning the new text gives; and insertions and deletions    *)
(* that meet, or undo each other, are one or none.                         *)
(***************************************************************************)
EXTENDS TextUndo, SequenceTheorems, FiniteSetTheorems, WellFoundedInduction, TLAPS

-----------------------------------------------------------------------------
\* Induction over 0 .. n, stated of a set.
LEMMA UpTo ==
  ASSUME NEW n \in Nat, NEW S, 0 \in S, \A k \in 0 .. n - 1 : k \in S => k + 1 \in S
  PROVE  0 .. n \subseteq S
<1> DEFINE T == (0 .. n) \ S
           Less == {ss \in Nat \X Nat : ss[1] < ss[2]}
<1>1. IsWellFoundedOn(Less, Nat)
  BY NatLessThanWellFounded DEF OpToRel
<1>2. SUFFICES ASSUME T # {} PROVE FALSE
  OBVIOUS
<1>3. T \in SUBSET Nat
  OBVIOUS
<1>4. PICK k \in T : \A j \in T : <<j, k>> \notin Less
  <2> HIDE DEF Less, T
  <2> QED
    BY <1>1, <1>2, <1>3, WFMin
<1>5. k \in 0 .. n /\ k # 0 /\ k - 1 \in 0 .. n - 1 /\ k - 1 \in 0 .. n
  OBVIOUS
<1>6. <<k - 1, k>> \in Less
  BY <1>5
<1>7. k - 1 \notin T
  <2> HIDE DEF Less, T
  <2> QED
    BY <1>4, <1>6
<1>8. k - 1 \in S
  BY <1>5, <1>7
<1> QED
  BY <1>5, <1>8

-----------------------------------------------------------------------------
(* The three operations of the rope, by the characters of their results. *)

LEMMA GetChars ==
  ASSUME NEW t \in Seq(Char), NEW p \in Nat, NEW n \in Nat, p + n <= Len(t)
  PROVE  /\ String_get(t, p, n) \in Seq(Char)
         /\ Len(String_get(t, p, n)) = n
         /\ \A i \in 1 .. n : String_get(t, p, n)[i] = t[p + i]
<1>1. \A i \in p + 1 .. p + n : t[i] \in Char
  BY ElementOfSeq, LenProperties
<1>2. String_get(t, p, n) = SubSeq(t, p + 1, p + n)
  BY LenProperties DEF String_get
<1>3. QED
  BY <1>1, <1>2, SubSeqProperties

LEMMA InsertChars ==
  ASSUME NEW t \in Seq(Char), NEW s \in Seq(Char), NEW p \in Nat, p <= Len(t)
  PROVE  LET r == String_insert(t, p, s)
         IN  /\ r \in Seq(Char)
             /\ Len(r) = Len(t) + Len(s)
             /\ \A i \in 1 .. Len(r) :
                  r[i] = IF i <= p THEN t[i]
                         ELSE IF i <= p + Len(s) THEN s[i - p] ELSE t[i - Len(s)]
<1> DEFINE front == SubSeq(t, 1, p)
           back  == SubSeq(t, p + 1, Len(t))
<1>1. Len(t) \in Nat /\ Len(s) \in Nat
  BY LenProperties
<1>2. String_insert(t, p, s) = (front \o s) \o back
  <2>1. (IF p > Len(t) THEN Len(t) ELSE p) = p
    BY <1>1
  <2>2. QED
    BY <2>1, Zenon DEF String_insert
<1>3. /\ front \in Seq(Char) /\ Len(front) = p
      /\ \A i \in 1 .. p : front[i] = t[i]
  <2>1. \A i \in 1 .. p : t[i] \in Char
    BY <1>1, ElementOfSeq
  <2>2. QED
    BY <2>1, SubSeqProperties
<1>4. /\ back \in Seq(Char) /\ Len(back) = Len(t) - p
      /\ \A i \in 1 .. Len(t) - p : back[i] = t[p + i]
  <2>1. \A i \in p + 1 .. Len(t) : t[i] \in Char
    BY <1>1, ElementOfSeq
  <2>2. QED
    BY <1>1, <2>1, SubSeqProperties
<1> HIDE DEF front, back
<1>5. /\ front \o s \in Seq(Char) /\ Len(front \o s) = p + Len(s)
      /\ \A i \in 1 .. p + Len(s) :
           (front \o s)[i] = IF i <= p THEN t[i] ELSE s[i - p]
  <2>1. /\ front \o s \in Seq(Char)
        /\ Len(front \o s) = Len(front) + Len(s)
        /\ \A i \in 1 .. Len(front) + Len(s) :
             (front \o s)[i] = IF i <= Len(front) THEN front[i] ELSE s[i - Len(front)]
    BY <1>3, ConcatProperties, Zenon
  <2> DEFINE fs == front \o s
  <2> HIDE DEF fs
  <2>2. \A i \in 1 .. p + Len(s) : fs[i] = IF i <= p THEN t[i] ELSE s[i - p]
    BY <1>1, <1>3, <2>1 DEF fs
  <2>3. QED
    BY <1>3, <2>1, <2>2 DEF fs
<1> DEFINE fs == front \o s
           r  == fs \o back
<1>6. /\ r \in Seq(Char)
      /\ Len(r) = Len(fs) + Len(back)
      /\ \A i \in 1 .. Len(fs) + Len(back) :
           r[i] = IF i <= Len(fs) THEN fs[i] ELSE back[i - Len(fs)]
  <2>1. fs \in Seq(Char) /\ back \in Seq(Char)
    BY <1>4, <1>5
  <2> HIDE DEF fs
  <2>2. QED
    BY <2>1, ConcatProperties, Zenon
<1> HIDE DEF fs, r
<1>7. Len(fs) = p + Len(s) /\ \A i \in 1 .. p + Len(s) : fs[i] = IF i <= p THEN t[i] ELSE s[i - p]
  BY <1>5 DEF fs
<1>8. Len(r) = Len(t) + Len(s)
  BY <1>1, <1>4, <1>6, <1>7
<1>9. ASSUME NEW i \in 1 .. Len(r)
      PROVE  r[i] = IF i <= p THEN t[i]
                    ELSE IF i <= p + Len(s) THEN s[i - p] ELSE t[i - Len(s)]
  <2>1. CASE i <= p + Len(s)
    BY <1>1, <1>4, <1>6, <1>7, <1>8, <2>1
  <2>2. CASE i > p + Len(s)
    <3>1. i - (p + Len(s)) \in 1 .. Len(t) - p
      BY <1>1, <1>8, <2>2
    <3>2. back[i - (p + Len(s))] = t[p + (i - (p + Len(s)))]
      BY <1>4, <3>1
    <3>3. p + (i - (p + Len(s))) = i - Len(s) /\ ~(i <= p)
      BY <1>1, <1>8, <2>2
    <3>4. r[i] = back[i - (p + Len(s))]
      <4>1. i \in 1 .. Len(fs) + Len(back) /\ ~(i <= Len(fs))
        BY <1>1, <1>6, <1>7, <2>2
      <4>2. r[i] = back[i - Len(fs)]
        BY ONLY <1>6, <4>1
      <4>3. QED
        BY <1>7, <4>2
    <3>5. QED
      BY <2>2, <3>2, <3>3, <3>4
  <2>3. QED
    BY <1>1, <1>8, <2>1, <2>2
<1>10. String_insert(t, p, s) = r
  BY <1>2 DEF fs, r
<1>11. QED
  BY <1>6, <1>8, <1>9, <1>10

LEMMA DeleteChars ==
  ASSUME NEW t \in Seq(Char), NEW p \in Nat, NEW n \in Nat, p + n <= Len(t)
  PROVE  LET r == String_delete(t, p, n)
         IN  /\ r \in Seq(Char)
             /\ Len(r) = Len(t) - n
             /\ \A i \in 1 .. Len(r) : r[i] = IF i <= p THEN t[i] ELSE t[i + n]
<1>1. Len(t) \in Nat
  BY LenProperties
<1>2. CASE p >= Len(t)
  BY <1>1, <1>2 DEF String_delete
<1>3. CASE p < Len(t)
  <2> DEFINE front == SubSeq(t, 1, p)
             back  == SubSeq(t, p + n + 1, Len(t))
  <2>1. String_delete(t, p, n) = front \o back
    <3>1. (IF p + n > Len(t) THEN Len(t) ELSE p + n) = p + n /\ ~(p >= Len(t))
      BY <1>1, <1>3
    <3>2. QED
      BY <3>1, Zenon DEF String_delete
  <2>2. /\ front \in Seq(Char) /\ Len(front) = p
        /\ \A i \in 1 .. p : front[i] = t[i]
    <3>1. \A i \in 1 .. p : t[i] \in Char
      BY <1>1, ElementOfSeq
    <3>2. QED
      BY <3>1, SubSeqProperties
  <2>3. /\ back \in Seq(Char) /\ Len(back) = Len(t) - (p + n)
        /\ \A i \in 1 .. Len(t) - (p + n) : back[i] = t[p + n + i]
    <3>1. \A i \in p + n + 1 .. Len(t) : t[i] \in Char
      BY <1>1, ElementOfSeq
    <3>2. QED
      BY <1>1, <3>1, SubSeqProperties
  <2> HIDE DEF front, back
  <2> DEFINE r == front \o back
  <2>4. /\ r \in Seq(Char) /\ Len(r) = Len(front) + Len(back)
        /\ \A i \in 1 .. Len(front) + Len(back) :
             r[i] = IF i <= Len(front) THEN front[i] ELSE back[i - Len(front)]
    <3>1. front \in Seq(Char) /\ back \in Seq(Char)
      BY <2>2, <2>3
    <3>2. QED
      BY <3>1, ConcatProperties, Zenon
  <2> HIDE DEF r
  <2>5. Len(r) = Len(t) - n
    BY <1>1, <2>2, <2>3, <2>4
  <2>6. ASSUME NEW i \in 1 .. Len(r)
        PROVE  r[i] = IF i <= p THEN t[i] ELSE t[i + n]
    <3>1. CASE i <= p
      BY <1>1, <2>2, <2>3, <2>4, <2>5, <3>1
    <3>2. CASE i > p
      <4>1. /\ i - p \in 1 .. Len(t) - (p + n)
            /\ p + n + (i - p) = i + n
        BY <1>1, <2>5, <3>2
      <4>2. back[i - p] = t[p + n + (i - p)]
        BY <2>3, <4>1
      <4>3. r[i] = back[i - p]
        BY <1>1, <2>2, <2>3, <2>4, <2>5, <3>2
      <4>4. QED
        BY <3>2, <4>1, <4>2, <4>3
    <3>3. QED
      BY <1>1, <2>5, <3>1, <3>2
  <2>7. String_delete(t, p, n) = r
    BY <2>1 DEF r
  <2>8. QED
    BY <2>4, <2>5, <2>6, <2>7
<1>4. QED
  BY <1>1, <1>2, <1>3

LEMMA InsertLength ==
  ASSUME NEW t \in Seq(Char), NEW s \in Seq(Char), NEW p \in Nat, p <= Len(t)
  PROVE  /\ String_insert(t, p, s) \in Seq(Char)
         /\ Len(String_insert(t, p, s)) = Len(t) + Len(s)
BY InsertChars

LEMMA DeleteLength ==
  ASSUME NEW t \in Seq(Char), NEW p \in Nat, NEW n \in Nat, p + n <= Len(t)
  PROVE  /\ String_delete(t, p, n) \in Seq(Char)
         /\ Len(String_delete(t, p, n)) = Len(t) - n
BY DeleteChars

-----------------------------------------------------------------------------
(* Insertions and deletions that continue or undo one another. *)

\* An insertion right behind another one is one insertion of both.
LEMMA InsertBehind ==
  ASSUME NEW t \in Seq(Char), NEW p \in Nat, p <= Len(t),
         NEW s1 \in Seq(Char), NEW s2 \in Seq(Char)
  PROVE  String_insert(String_insert(t, p, s1), p + Len(s1), s2) = String_insert(t, p, s1 \o s2)
<1> DEFINE s == s1 \o s2
           u == String_insert(t, p, s1)
           q == p + Len(s1)
           l == String_insert(u, q, s2)
           r == String_insert(t, p, s)
<1>1. Len(t) \in Nat /\ Len(s1) \in Nat /\ Len(s2) \in Nat
  BY LenProperties
<1>2. /\ s \in Seq(Char) /\ Len(s) = Len(s1) + Len(s2)
      /\ \A i \in 1 .. Len(s1) + Len(s2) :
           s[i] = IF i <= Len(s1) THEN s1[i] ELSE s2[i - Len(s1)]
  BY ConcatProperties
<1> HIDE DEF s
<1>3. /\ u \in Seq(Char) /\ Len(u) = Len(t) + Len(s1)
      /\ \A i \in 1 .. Len(u) :
           u[i] = IF i <= p THEN t[i] ELSE IF i <= p + Len(s1) THEN s1[i - p] ELSE t[i - Len(s1)]
  BY InsertChars
<1> HIDE DEF u
<1>4. q \in Nat /\ q <= Len(u) /\ q = p + Len(s1)
  BY <1>1, <1>3
<1> HIDE DEF q
<1>5. /\ l \in Seq(Char) /\ Len(l) = Len(u) + Len(s2)
      /\ \A i \in 1 .. Len(l) :
           l[i] = IF i <= q THEN u[i] ELSE IF i <= q + Len(s2) THEN s2[i - q] ELSE u[i - Len(s2)]
  <2>1. u \in Seq(Char) /\ q \in Nat /\ q <= Len(u)
    BY <1>3, <1>4
  <2> QED
    BY <2>1, InsertChars
<1>6. /\ r \in Seq(Char) /\ Len(r) = Len(t) + Len(s)
      /\ \A i \in 1 .. Len(r) :
           r[i] = IF i <= p THEN t[i] ELSE IF i <= p + Len(s) THEN s[i - p] ELSE t[i - Len(s)]
  BY <1>2, InsertChars, SMTT(30)
<1> HIDE DEF l, r
<1>7. Len(l) = Len(r) /\ Len(r) \in Nat
  BY <1>1, <1>2, <1>3, <1>5, <1>6
<1>8. ASSUME NEW i \in 1 .. Len(l) PROVE l[i] = r[i]
  <2>1. CASE i <= p
    <3>1. i \in 1 .. Len(u) /\ i \in 1 .. Len(r) /\ i <= q
      BY <1>1, <1>3, <1>4, <1>7, <2>1
    <3> QED
      BY <1>3, <1>5, <1>6, <2>1, <3>1
  <2>2. CASE i > p /\ i <= q
    <3>1. i - p \in 1 .. Len(s1) + Len(s2) /\ i - p <= Len(s1) /\ i <= p + Len(s)
      BY <1>1, <1>2, <1>4, <2>2
    <3>2. r[i] = s1[i - p]
      BY <1>2, <1>6, <1>7, <2>2, <3>1
    <3>3. i \in 1 .. Len(u)
      BY <1>1, <1>3, <1>4, <2>2
    <3>4. u[i] = s1[i - p]
      BY <1>3, <1>4, <2>2, <3>3
    <3> QED
      BY <1>5, <2>2, <3>2, <3>4
  <2>3. CASE i > q /\ i <= q + Len(s2)
    <3>1. /\ i - p \in 1 .. Len(s1) + Len(s2) /\ ~(i - p <= Len(s1)) /\ i <= p + Len(s)
          /\ ~(i <= p) /\ ~(i <= q) /\ (i - p) - Len(s1) = i - q
      BY <1>1, <1>2, <1>4, <2>3
    <3>2. r[i] = s2[i - q]
      BY <1>2, <1>6, <1>7, <3>1
    <3> QED
      BY <1>5, <2>3, <3>1, <3>2
  <2>4. CASE i > q + Len(s2)
    <3>1. /\ i - Len(s2) \in 1 .. Len(u) /\ ~(i - Len(s2) <= p) /\ ~(i - Len(s2) <= p + Len(s1))
          /\ (i - Len(s2)) - Len(s1) = i - Len(s) /\ ~(i <= p) /\ ~(i <= p + Len(s)) /\ ~(i <= q)
      BY <1>1, <1>2, <1>3, <1>4, <1>5, <2>4, SMTT(30)
    <3>2. l[i] = u[i - Len(s2)]
      <4>1. ~(i <= q + Len(s2))
        BY <1>1, <1>4, <2>4
      <4> QED
        BY <1>5, <3>1, <4>1
    <3>3. u[i - Len(s2)] = t[i - Len(s)]
      BY <1>3, <3>1
    <3> QED
      BY <1>6, <1>7, <3>1, <3>2, <3>3
  <2> QED
    BY <1>1, <1>4, <1>7, <2>1, <2>2, <2>3, <2>4
<1>9. l = r
  BY <1>5, <1>6, <1>7, <1>8, SeqEqual
<1> QED
  BY <1>9 DEF l, r, q, u, s

\* So is an insertion right before another one.
LEMMA InsertBefore ==
  ASSUME NEW t \in Seq(Char), NEW p \in Nat, p <= Len(t),
         NEW s1 \in Seq(Char), NEW s2 \in Seq(Char)
  PROVE  String_insert(String_insert(t, p, s2), p, s1) = String_insert(t, p, s1 \o s2)
<1> DEFINE s == s1 \o s2
           u == String_insert(t, p, s2)
           l == String_insert(u, p, s1)
           r == String_insert(t, p, s)
<1>1. Len(t) \in Nat /\ Len(s1) \in Nat /\ Len(s2) \in Nat
  BY LenProperties
<1>2. /\ s \in Seq(Char) /\ Len(s) = Len(s1) + Len(s2)
      /\ \A i \in 1 .. Len(s1) + Len(s2) :
           s[i] = IF i <= Len(s1) THEN s1[i] ELSE s2[i - Len(s1)]
  BY ConcatProperties
<1> HIDE DEF s
<1>3. /\ u \in Seq(Char) /\ Len(u) = Len(t) + Len(s2)
      /\ \A i \in 1 .. Len(u) :
           u[i] = IF i <= p THEN t[i] ELSE IF i <= p + Len(s2) THEN s2[i - p] ELSE t[i - Len(s2)]
  BY InsertChars
<1> HIDE DEF u
<1>4. /\ l \in Seq(Char) /\ Len(l) = Len(u) + Len(s1)
      /\ \A i \in 1 .. Len(l) :
           l[i] = IF i <= p THEN u[i] ELSE IF i <= p + Len(s1) THEN s1[i - p] ELSE u[i - Len(s1)]
  <2>1. u \in Seq(Char) /\ p <= Len(u)
    BY <1>1, <1>3
  <2> QED
    BY <2>1, InsertChars
<1>5. /\ r \in Seq(Char) /\ Len(r) = Len(t) + Len(s)
      /\ \A i \in 1 .. Len(r) :
           r[i] = IF i <= p THEN t[i] ELSE IF i <= p + Len(s) THEN s[i - p] ELSE t[i - Len(s)]
  BY <1>2, InsertChars, SMTT(30)
<1> HIDE DEF l, r
<1>6. Len(l) = Len(r) /\ Len(r) \in Nat
  BY <1>1, <1>2, <1>3, <1>4, <1>5
<1>7. ASSUME NEW i \in 1 .. Len(l) PROVE l[i] = r[i]
  <2>1. CASE i <= p
    <3>1. i \in 1 .. Len(u) /\ i \in 1 .. Len(r)
      BY <1>1, <1>3, <1>6, <2>1
    <3> QED
      BY <1>3, <1>4, <1>5, <2>1, <3>1
  <2>2. CASE i > p /\ i <= p + Len(s1)
    <3>1. i - p \in 1 .. Len(s1) + Len(s2) /\ i - p <= Len(s1) /\ i <= p + Len(s) /\ ~(i <= p)
      BY <1>1, <1>2, <2>2
    <3> QED
      BY <1>2, <1>4, <1>5, <1>6, <2>2, <3>1
  <2>3. CASE i > p + Len(s1)
    <3> DEFINE j == i - Len(s1)
    <3>1. j \in 1 .. Len(u) /\ ~(j <= p) /\ ~(i <= p) /\ ~(i <= p + Len(s1))
      BY <1>1, <1>3, <1>4, <2>3
    <3>2. l[i] = u[j]
      BY <1>4, <3>1
    <3>3. CASE j <= p + Len(s2)
      <4>1. /\ i - p \in 1 .. Len(s1) + Len(s2) /\ ~(i - p <= Len(s1)) /\ i <= p + Len(s)
            /\ (i - p) - Len(s1) = j - p
        BY <1>1, <1>2, <2>3, <3>1, <3>3
      <4>2. r[i] = s2[j - p]
        BY <1>2, <1>5, <1>6, <3>1, <4>1
      <4>3. u[j] = s2[j - p]
        BY <1>3, <3>1, <3>3
      <4> QED
        BY <3>2, <4>2, <4>3
    <3>4. CASE ~(j <= p + Len(s2))
      <4>1. ~(i <= p + Len(s)) /\ j - Len(s2) = i - Len(s)
        BY <1>1, <1>2, <2>3, <3>1, <3>4
      <4> HIDE DEF j
      <4>2. u[j] = t[j - Len(s2)]
        BY <1>3, <3>1, <3>4
      <4>3. r[i] = t[i - Len(s)]
        BY <1>5, <1>6, <3>1, <4>1
      <4> QED
        BY <3>2, <4>1, <4>2, <4>3
    <3> QED
      BY <3>3, <3>4
  <2> QED
    BY <1>1, <1>6, <2>1, <2>2, <2>3
<1>8. l = r
  BY <1>4, <1>5, <1>6, <1>7, SeqEqual
<1> QED
  BY <1>8 DEF l, r, u, s

\* What was deleted, inserted again where it was.
LEMMA InsertDeleted ==
  ASSUME NEW t \in Seq(Char), NEW p \in Nat, NEW n \in Nat, p + n <= Len(t)
  PROVE  t = String_insert(String_delete(t, p, n), p, String_get(t, p, n))
<1> DEFINE s == String_get(t, p, n)
           u == String_delete(t, p, n)
           r == String_insert(u, p, s)
<1>1. Len(t) \in Nat
  BY LenProperties
<1>2. s \in Seq(Char) /\ Len(s) = n /\ \A i \in 1 .. n : s[i] = t[p + i]
  BY GetChars
<1> HIDE DEF s
<1>3. /\ u \in Seq(Char) /\ Len(u) = Len(t) - n
      /\ \A i \in 1 .. Len(u) : u[i] = IF i <= p THEN t[i] ELSE t[i + n]
  BY DeleteChars
<1> HIDE DEF u
<1>4. /\ r \in Seq(Char) /\ Len(r) = Len(u) + Len(s)
      /\ \A i \in 1 .. Len(r) :
           r[i] = IF i <= p THEN u[i] ELSE IF i <= p + Len(s) THEN s[i - p] ELSE u[i - Len(s)]
  <2>1. u \in Seq(Char) /\ s \in Seq(Char) /\ p <= Len(u)
    BY <1>1, <1>2, <1>3
  <2> QED
    BY <2>1, InsertChars
<1> HIDE DEF r
<1>5. Len(r) = Len(t)
  BY <1>1, <1>2, <1>3, <1>4
<1>6. ASSUME NEW i \in 1 .. Len(t) PROVE t[i] = r[i]
  <2>1. CASE i <= p
    BY <1>1, <1>3, <1>4, <1>5, <2>1
  <2>2. CASE i > p /\ i <= p + n
    <3>1. i - p \in 1 .. n /\ p + (i - p) = i
      BY <1>1, <2>2
    <3> QED
      BY <1>2, <1>4, <1>5, <2>2, <3>1
  <2>3. CASE i > p + n
    <3>1. i - n \in 1 .. Len(u) /\ ~(i - n <= p) /\ (i - n) + n = i
      BY <1>1, <1>3, <2>3
    <3> QED
      BY <1>2, <1>3, <1>4, <1>5, <2>3, <3>1, SMTT(30)
  <2> QED
    BY <1>1, <2>1, <2>2, <2>3
<1>7. t = r
  BY <1>4, <1>5, <1>6, SeqEqual
<1> QED
  BY <1>7 DEF r, u, s

\* What was inserted, deleted again.
LEMMA DeleteInserted ==
  ASSUME NEW t \in Seq(Char), NEW p \in Nat, p <= Len(t), NEW s \in Seq(Char)
  PROVE  String_delete(String_insert(t, p, s), p, Len(s)) = t
<1> DEFINE u == String_insert(t, p, s)
           n == Len(s)
           r == String_delete(u, p, n)
<1>1. Len(t) \in Nat /\ n \in Nat
  BY LenProperties
<1>2. /\ u \in Seq(Char) /\ Len(u) = Len(t) + n
      /\ \A i \in 1 .. Len(u) :
           u[i] = IF i <= p THEN t[i] ELSE IF i <= p + n THEN s[i - p] ELSE t[i - n]
  BY InsertChars
<1> HIDE DEF u, n
<1>3. /\ r \in Seq(Char) /\ Len(r) = Len(u) - n
      /\ \A i \in 1 .. Len(r) : r[i] = IF i <= p THEN u[i] ELSE u[i + n]
  <2>1. p + n <= Len(u)
    BY <1>1, <1>2
  <2> QED
    BY <1>1, <1>2, <2>1, DeleteChars
<1> HIDE DEF r
<1>4. Len(r) = Len(t)
  BY <1>1, <1>2, <1>3
<1>5. ASSUME NEW i \in 1 .. Len(r) PROVE r[i] = t[i]
  <2>1. CASE i <= p
    BY <1>1, <1>2, <1>3, <1>4, <2>1
  <2>2. CASE i > p
    <3>1. i + n \in 1 .. Len(u) /\ ~(i + n <= p) /\ ~(i + n <= p + n) /\ (i + n) - n = i
      BY <1>1, <1>2, <1>4, <2>2
    <3> QED
      BY <1>2, <1>3, <2>2, <3>1
  <2> QED
    BY <1>1, <1>4, <2>1, <2>2
<1>6. r = t
  BY <1>3, <1>4, <1>5, SeqEqual
<1> QED
  BY <1>6 DEF r, u, n

-----------------------------------------------------------------------------
(* The line index, kept in place. *)

LEMMA IndexType ==
  ASSUME NEW t \in Seq(Char)
  PROVE  /\ LineIndex_insert(t) \in SUBSET Nat
         /\ 0 \in LineIndex_insert(t)
         /\ \A o \in LineIndex_insert(t) : o <= Len(t)
BY LenProperties DEF LineIndex_insert

\* Inserting s at p: line_index_insert_newlines agrees with the full scan.
LEMMA InsertStarts ==
  ASSUME NEW t \in Seq(Char), NEW s \in Seq(Char), NEW p \in Nat, p <= Len(t)
  PROVE  line_index_insert_newlines(LineIndex_insert(t), p, s)
           = LineIndex_insert(String_insert(t, p, s))
<1> DEFINE r == String_insert(t, p, s)
           new == line_index_insert_newlines(LineIndex_insert(t), p, s)
<1>1. Len(t) \in Nat /\ Len(s) \in Nat
  BY LenProperties
<1>2. /\ Len(r) = Len(t) + Len(s)
      /\ \A i \in 1 .. Len(r) :
           r[i] = IF i <= p THEN t[i]
                  ELSE IF i <= p + Len(s) THEN s[i - p] ELSE t[i - Len(s)]
  BY InsertChars
<1>3. ASSUME NEW o
      PROVE  o \in new <=>
               \/ o \in LineIndex_insert(t) /\ o <= p
               \/ \E q \in LineIndex_insert(t) : q > p /\ o = q + Len(s)
               \/ \E i \in 1 .. Len(s) : s[i] = NL /\ o = p + i
  BY DEF line_index_insert_newlines
<1> HIDE DEF r, new
<1>4. ASSUME NEW o \in new PROVE o \in LineIndex_insert(r)
  <2>1. CASE o \in LineIndex_insert(t) /\ o <= p
    BY <1>1, <1>2, <2>1 DEF LineIndex_insert
  <2>2. ASSUME NEW q \in LineIndex_insert(t), q > p, o = q + Len(s)
        PROVE  o \in LineIndex_insert(r)
    <3>1. q \in 1 .. Len(t) /\ t[q] = NL
      BY <2>2 DEF LineIndex_insert
    <3>2. o \in 1 .. Len(r) /\ o - Len(s) = q /\ ~(o <= p) /\ ~(o <= p + Len(s))
      BY <1>1, <1>2, <2>2, <3>1
    <3>3. r[o] = t[q]
      BY <1>2, <3>2
    <3>4. QED
      BY <3>1, <3>2, <3>3 DEF LineIndex_insert
  <2>3. ASSUME NEW i \in 1 .. Len(s), s[i] = NL, o = p + i
        PROVE  o \in LineIndex_insert(r)
    <3>1. o \in 1 .. Len(r) /\ o - p = i /\ ~(o <= p) /\ o <= p + Len(s)
      BY <1>1, <1>2, <2>3
    <3>2. r[o] = s[i]
      BY <1>2, <3>1
    <3>3. QED
      BY <2>3, <3>1, <3>2 DEF LineIndex_insert
  <2>4. QED
    BY <1>3, <1>4, <2>1, <2>2, <2>3
<1>5. ASSUME NEW o \in LineIndex_insert(r) PROVE o \in new
  <2>1. CASE o = 0
    BY <1>1, <1>3, <2>1 DEF LineIndex_insert
  <2>2. CASE o # 0
    <3>1. o \in 1 .. Len(r) /\ r[o] = NL
      BY <2>2 DEF LineIndex_insert
    <3>2. CASE o <= p
      <4>1. o \in 1 .. Len(t) /\ t[o] = NL
        BY <1>1, <1>2, <3>1, <3>2
      <4>2. QED
        BY <1>3, <3>2, <4>1 DEF LineIndex_insert
    <3>3. CASE p < o /\ o <= p + Len(s)
      <4>1. o - p \in 1 .. Len(s) /\ o = p + (o - p) /\ s[o - p] = NL
        BY <1>1, <1>2, <3>1, <3>3
      <4>2. QED
        BY <1>3, <4>1
    <3>4. CASE p + Len(s) < o
      <4>1. o - Len(s) \in 1 .. Len(t) /\ o - Len(s) > p /\ o = (o - Len(s)) + Len(s)
        BY <1>1, <1>2, <3>1, <3>4
      <4>2. t[o - Len(s)] = NL
        BY <1>1, <1>2, <3>1, <3>4
      <4>3. o - Len(s) \in LineIndex_insert(t)
        BY <4>1, <4>2 DEF LineIndex_insert
      <4>4. QED
        BY <1>3, <4>1, <4>3
    <3>5. QED
      BY <1>1, <3>1, <3>2, <3>3, <3>4
  <2>3. QED
    BY <2>1, <2>2
<1>6. QED
  BY <1>4, <1>5 DEF new, r

\* Deleting n characters at p: line_index_delete_range agrees with the full scan.
LEMMA DeleteStarts ==
  ASSUME NEW t \in Seq(Char), NEW p \in Nat, NEW n \in Nat, p + n <= Len(t)
  PROVE  line_index_delete_range(LineIndex_insert(t), p, n)
           = LineIndex_insert(String_delete(t, p, n))
<1> DEFINE r == String_delete(t, p, n)
           new == line_index_delete_range(LineIndex_insert(t), p, n)
<1>1. Len(t) \in Nat
  BY LenProperties
<1>2. /\ Len(r) = Len(t) - n
      /\ \A i \in 1 .. Len(r) : r[i] = IF i <= p THEN t[i] ELSE t[i + n]
  BY DeleteChars
<1>3. ASSUME NEW o
      PROVE  o \in new <=>
               \/ o \in LineIndex_insert(t) /\ o <= p
               \/ \E q \in LineIndex_insert(t) : q > p + n /\ o = q - n
  BY DEF line_index_delete_range
<1> HIDE DEF r, new
<1>4. ASSUME NEW o \in new PROVE o \in LineIndex_insert(r)
  <2>1. CASE o \in LineIndex_insert(t) /\ o <= p
    BY <1>1, <1>2, <2>1 DEF LineIndex_insert
  <2>2. ASSUME NEW q \in LineIndex_insert(t), q > p + n, o = q - n
        PROVE  o \in LineIndex_insert(r)
    <3>1. q \in 1 .. Len(t) /\ t[q] = NL
      BY <2>2 DEF LineIndex_insert
    <3>2. o \in 1 .. Len(r) /\ o + n = q /\ ~(o <= p)
      BY <1>1, <1>2, <2>2, <3>1
    <3>3. r[o] = t[q]
      BY <1>2, <3>2
    <3>4. QED
      BY <3>1, <3>2, <3>3 DEF LineIndex_insert
  <2>3. QED
    BY <1>3, <1>4, <2>1, <2>2
<1>5. ASSUME NEW o \in LineIndex_insert(r) PROVE o \in new
  <2>1. CASE o = 0
    BY <1>1, <1>3, <2>1 DEF LineIndex_insert
  <2>2. CASE o # 0
    <3>1. o \in 1 .. Len(r) /\ r[o] = NL
      BY <2>2 DEF LineIndex_insert
    <3>2. CASE o <= p
      <4>1. o \in 1 .. Len(t) /\ t[o] = NL
        BY <1>1, <1>2, <3>1, <3>2
      <4>2. QED
        BY <1>3, <3>2, <4>1 DEF LineIndex_insert
    <3>3. CASE p < o
      <4>1. o + n \in 1 .. Len(t) /\ o + n > p + n /\ o = (o + n) - n
        BY <1>1, <1>2, <3>1, <3>3
      <4>2. ~(o <= p) /\ r[o] = IF o <= p THEN t[o] ELSE t[o + n]
        BY <1>1, <1>2, <3>1, <3>3
      <4>3. t[o + n] = NL
        BY <3>1, <4>2
      <4>4. o + n \in LineIndex_insert(t)
        BY <4>1, <4>3 DEF LineIndex_insert
      <4>5. QED
        BY <1>3, <4>1, <4>4
    <3>4. QED
      BY <1>1, <3>1, <3>2, <3>3
  <2>3. QED
    BY <2>1, <2>2
<1>6. QED
  BY <1>4, <1>5 DEF new, r

-----------------------------------------------------------------------------
(* The row of an offset exists. *)

LEMMA LessRelation == \A x, y \in Nat : x < y => <<x, y>> \in OpToRel(<, Nat)
<1> TAKE x, y \in Nat
<1> HAVE x < y
<1>1. <<x, y>> \in Nat \X Nat
  OBVIOUS
<1>2. <<x, y>>[1] < <<x, y>>[2]
  OBVIOUS
<1>3. QED
  BY ONLY <1>1, <1>2, Zenon DEF OpToRel

\* The distances to the bound have a least element, which is that of the maximum.
LEMMA MaxOfBounded ==
  ASSUME NEW S \in SUBSET Nat, NEW b \in Nat, S # {}, \A x \in S : x <= b
  PROVE  Max(S) \in S /\ \A x \in S : x <= Max(S)
<1> DEFINE D == {b - x : x \in S}
<1>1. D \in SUBSET Nat /\ D # {}
  <2>1. ASSUME NEW x \in S PROVE b - x \in Nat
    BY x <= b
  <2>2. QED
    BY <2>1
<1>2. PICK d \in D : \A y \in D : ~(<<y, d>> \in OpToRel(<, Nat))
  BY <1>1, NatLessThanWellFounded, WFMin, Zenon
<1>3. \A y \in D : ~(y < d)
  BY <1>1, <1>2, LessRelation, Zenon
<1>4. PICK m \in S : d = b - m
  BY <1>2
<1>5. \A x \in S : m >= x
  <2> TAKE x \in S
  <2>1. b - x \in D
    OBVIOUS
  <2>2. ~(b - x < b - m)
    BY <1>3, <1>4, <2>1
  <2>3. x \in Nat /\ m \in Nat
    OBVIOUS
  <2>4. QED
    BY <2>2, <2>3
<1>6. QED
  BY <1>5 DEF Max

LEMMA RowExists ==
  ASSUME NEW t \in Seq(Char), NEW p \in Nat
  PROVE  LineOf(LineIndex_insert(t), p) \in LineIndex_insert(t)
         /\ LineOf(LineIndex_insert(t), p) <= p
<1> DEFINE S == {o \in LineIndex_insert(t) : o <= p}
<1>1. S \in SUBSET Nat /\ S # {} /\ \A o \in S : o <= p
  BY IndexType
<1>2. Max(S) \in S
  BY <1>1, MaxOfBounded, Zenon
<1>3. QED
  BY <1>2 DEF LineOf

LEMMA MinOfNats ==
  ASSUME NEW S \in SUBSET Nat, S # {}
  PROVE  Min(S) \in S
<1>1. PICK m \in S : \A y \in S : ~(<<y, m>> \in OpToRel(<, Nat))
  BY NatLessThanWellFounded, WFMin, Zenon
<1>2. \A y \in S : ~(y < m)
  BY <1>1, LessRelation, Zenon
<1>3. \A y \in S : m <= y
  BY <1>2
<1>4. QED
  BY <1>3 DEF Min

\* A line ends inside the text, and behind its newline when it is not the last.
LEMMA LineEndBounds ==
  ASSUME NEW t \in Seq(Char), NEW r \in LineIndex_insert(t)
  PROVE  LET e == LineEnd(t, LineIndex_insert(t), r)
         IN  /\ r \in Nat /\ e \in Nat /\ Len(t) \in Nat
             /\ r <= e /\ e <= Len(t)
             /\ (\E o \in LineIndex_insert(t) : o > r) => r < e
<1> DEFINE S     == LineIndex_insert(t)
           below == {o \in S : o > r}
           e     == LineEnd(t, S, r)
<1>1. Len(t) \in Nat /\ S \in SUBSET Nat /\ \A o \in S : o <= Len(t)
  BY IndexType, LenProperties
<1>2. e = IF below = {} THEN Len(t) ELSE Min(below)
  BY DEF LineEnd
<1> HIDE DEF S, e
<1>3. r \in Nat /\ r <= Len(t)
  BY <1>1 DEF S
<1>4. CASE below = {}
  BY <1>1, <1>2, <1>3, <1>4 DEF S, e
<1>5. CASE below # {}
  <2>1. below \in SUBSET Nat
    BY <1>1
  <2>2. Min(below) \in below
    BY <1>5, <2>1, MinOfNats
  <2>3. e \in S /\ e > r
    BY <1>2, <1>5, <2>2
  <2>4. QED
    BY <1>1, <1>3, <2>3 DEF S, e
<1>6. QED
  BY <1>4, <1>5

-----------------------------------------------------------------------------
(* The buffer and its history. *)

HistoryFits(us, len) ==
  \E size \in [0 .. Len(us.actions) -> Nat] : SizesFit(us, len, size)

\* A buffer whose index and cursor are right.
Sound(b) ==
  /\ b \in BufferType
  /\ b.lines = LineIndex_insert(b.text)
  /\ b.pos <= Len(b.text)
  /\ b.row \in b.lines
  /\ b.undo.current <= Len(b.undo.actions)

\* A sound buffer between two handlers.
Good(b) ==
  /\ Sound(b)
  /\ ~b.undo.is_undoing
  /\ HistoryFits(b.undo, Len(b.text))

\* The inductive invariant.
IInv ==
  /\ Good(buf)
  /\ clip \in Seq(Char)
  /\ named \in BOOLEAN
  /\ disk \in Seq(Char)
  /\ opened \in Seq(Char)

-----------------------------------------------------------------------------
(* The undo history. *)

LEMMA KeptHistory ==
  ASSUME NEW us \in StackType, us.current <= Len(us.actions)
  PROVE  /\ us.current \in Nat /\ Len(us.actions) \in Nat
         /\ Undo_discard_redo(us) \in Seq(ActionType)
         /\ Len(Undo_discard_redo(us)) = us.current
         /\ \A k \in 1 .. us.current : /\ Undo_discard_redo(us)[k] = us.actions[k]
                                       /\ us.actions[k] \in ActionType
<1>1. us.actions \in Seq(ActionType) /\ us.current \in Nat
  BY DEF StackType
<1>2. Len(us.actions) \in Nat /\ \A k \in 1 .. Len(us.actions) : us.actions[k] \in ActionType
  BY <1>1, LenProperties, ElementOfSeq
<1>3. \A k \in 1 .. us.current : us.actions[k] \in ActionType
  BY <1>1, <1>2
<1>4. QED
  BY <1>1, <1>2, <1>3, SubSeqProperties DEF Undo_discard_redo

LEMMA MergedAction ==
  ASSUME NEW last \in ActionType, NEW type \in {UNDO_INSERT, UNDO_DELETE},
         NEW offset \in Nat, NEW text \in Seq(Char), text # <<>>,
         CanMerge(last, type, offset, text)
  PROVE  LET m == Merged(last, type, offset, text)
         IN  /\ m \in ActionType
             /\ m.type = last.type /\ last.type = type
             /\ Len(m.text) = Len(last.text) + Len(text)
             /\ m.offset = IF type = UNDO_INSERT THEN last.offset ELSE offset
<1>1. /\ last.text \in Seq(Char) /\ last.text # <<>> /\ last.offset \in Nat
      /\ last.type \in {UNDO_INSERT, UNDO_DELETE}
  BY DEF ActionType
<1>2. /\ Len(last.text) \in Nat \ {0} /\ Len(text) \in Nat \ {0}
      /\ Len(<<>>) = 0
  BY <1>1, EmptySeq
<1>3. /\ text \o last.text \in Seq(Char) /\ Len(text \o last.text) = Len(text) + Len(last.text)
      /\ last.text \o text \in Seq(Char) /\ Len(last.text \o text) = Len(last.text) + Len(text)
  BY <1>1, ConcatProperties
<1>4. text \o last.text # <<>> /\ last.text \o text # <<>>
  BY <1>2, <1>3
<1>5. UNDO_INSERT # UNDO_DELETE
  BY DEF UNDO_INSERT, UNDO_DELETE
<1>6. last.type = type
  BY DEF CanMerge, ContinuesTyping, ContinuesBackspace, ContinuesDeleteKey
<1>7. CASE ContinuesBackspace(last, type, offset, text)
  <2>1. Merged(last, type, offset, text)
          = [last EXCEPT !.offset = offset, !.text = text \o last.text]
    BY <1>7 DEF Merged
  <2> DEFINE m == [last EXCEPT !.offset = offset, !.text = text \o last.text]
  <2>2. m \in ActionType
    BY <1>3, <1>4 DEF ActionType
  <2>3. m.type = last.type /\ m.offset = offset /\ m.text = text \o last.text
    BY DEF ActionType
  <2>4. Len(m.text) = Len(last.text) + Len(text)
    BY <1>2, <1>3, <2>3
  <2>5. type # UNDO_INSERT
    BY <1>5, <1>7 DEF ContinuesBackspace
  <2>6. QED
    BY <1>6, <2>1, <2>2, <2>3, <2>4, <2>5
<1>8. CASE ~ContinuesBackspace(last, type, offset, text)
  <2>1. Merged(last, type, offset, text) = [last EXCEPT !.text = last.text \o text]
    BY <1>8 DEF Merged
  <2>2. type = UNDO_DELETE => offset = last.offset
    BY <1>5, <1>8 DEF CanMerge, ContinuesTyping, ContinuesDeleteKey
  <2>3. QED
    BY <1>1, <1>2, <1>3, <1>4, <1>5, <1>6, <2>1, <2>2 DEF ActionType
<1>9. QED
  BY <1>7, <1>8

\* Appending an action keeps the others where they were.
LEMMA AppendedAction ==
  ASSUME NEW kept \in Seq(ActionType), NEW act \in ActionType
  PROVE  /\ Append(kept, act) \in Seq(ActionType)
         /\ Len(Append(kept, act)) = Len(kept) + 1
         /\ \A k \in 1 .. Len(kept) : Append(kept, act)[k] = kept[k]
         /\ Append(kept, act)[Len(kept) + 1] = act
BY AppendProperties

\* What Undo_push does to a stack that records: an action is added behind the
\* applied ones, or the last of them is merged with it.
\* What a push makes of the history: new has one more action, or the last one
\* that was applied has been merged with the edit.
Appended(us, new, act) ==
  /\ new.current = us.current + 1 /\ Len(new.actions) = us.current + 1
  /\ \A k \in 1 .. us.current : new.actions[k] = us.actions[k]
  /\ new.actions[us.current + 1] = act

MergedLast(us, new, type, offset, text) ==
  /\ us.current > 0 /\ new.current = us.current /\ Len(new.actions) = us.current
  /\ \A k \in 1 .. us.current - 1 : new.actions[k] = us.actions[k]
  /\ CanMerge(us.actions[us.current], type, offset, text)
  /\ new.actions[us.current] = Merged(us.actions[us.current], type, offset, text)

LEMMA PushCases ==
  ASSUME NEW us \in StackType, us.current <= Len(us.actions), ~us.is_undoing,
         NEW type \in {UNDO_INSERT, UNDO_DELETE}, NEW offset \in Nat,
         NEW text \in Seq(Char), text # <<>>, NEW recent \in BOOLEAN
  PROVE  LET new == Undo_push(us, type, offset, text, recent)
         IN  /\ new \in StackType /\ ~new.is_undoing
             /\ \/ Appended(us, new, UndoAction(type, offset, text))
                \/ MergedLast(us, new, type, offset, text)
<1> DEFINE new  == Undo_push(us, type, offset, text, recent)
           kept == Undo_discard_redo(us)
           n    == us.current
           act  == UndoAction(type, offset, text)
<1>1. /\ n \in Nat /\ kept \in Seq(ActionType) /\ Len(kept) = n
      /\ \A k \in 1 .. n : kept[k] = us.actions[k] /\ us.actions[k] \in ActionType
  BY KeptHistory
<1>2. act \in ActionType
  BY DEF UndoAction, ActionType
<1> HIDE DEF kept, act
<1>3. CASE recent /\ n > 0 /\ CanMerge(kept[n], type, offset, text)
  <2> DEFINE m      == Merged(kept[n], type, offset, text)
             merged == [kept EXCEPT ![n] = m]
  <2>1. n \in 1 .. n
    BY <1>1, <1>3
  <2>2. m \in ActionType
    BY <1>1, <1>3, <2>1, MergedAction, Zenon
  <2> HIDE DEF m
  <2>3. /\ merged \in Seq(ActionType) /\ Len(merged) = n
        /\ \A k \in 1 .. n : merged[k] = IF k = n THEN m ELSE kept[k]
    <3>1. kept \in Seq(ActionType) /\ n \in 1 .. Len(kept) /\ Len(kept) = n
      BY <1>1, <2>1
    <3>2. /\ merged \in Seq(ActionType) /\ Len(merged) = Len(kept)
          /\ \A k \in 1 .. Len(kept) : merged[k] = IF k = n THEN m ELSE kept[k]
      BY <3>1, <2>2, ExceptSeq
    <3>3. QED
      BY <3>1, <3>2, Zenon
  <2>4. new = [us EXCEPT !.actions = [kept EXCEPT ![n] = Merged(kept[n], type, offset, text)]]
    BY <1>1, <1>3 DEF Undo_push, kept
  <2> HIDE DEF merged
  <2>5. new = [us EXCEPT !.actions = merged]
    BY <2>4 DEF m, merged
  <2>6. /\ new \in StackType /\ new.is_undoing = us.is_undoing
        /\ new.actions = merged /\ new.current = n
    BY <2>3, <2>5 DEF StackType
  <2>7. \A k \in 1 .. n - 1 : new.actions[k] = us.actions[k]
    BY <1>1, <2>3, <2>6
  <2>8. new.actions[n] = Merged(us.actions[n], type, offset, text)
    BY <1>1, <2>1, <2>3, <2>6 DEF m
  <2>9. CanMerge(us.actions[n], type, offset, text) /\ Len(new.actions) = n
    BY <1>1, <1>3, <2>1, <2>3, <2>6
  <2>10. MergedLast(us, new, type, offset, text)
    BY <1>3, <2>6, <2>7, <2>8, <2>9 DEF MergedLast
  <2> HIDE DEF new
  <2>11. QED
    BY <2>6, <2>10 DEF new
<1>4. CASE ~(recent /\ n > 0 /\ CanMerge(kept[n], type, offset, text))
  <2>1. new = [us EXCEPT !.actions = Append(kept, act), !.current = n + 1]
    BY <1>1, <1>4 DEF Undo_push, kept, act
  <2>2. /\ Append(kept, act) \in Seq(ActionType)
        /\ Len(Append(kept, act)) = n + 1
        /\ \A k \in 1 .. n : Append(kept, act)[k] = kept[k]
        /\ Append(kept, act)[n + 1] = act
    BY <1>1, <1>2, AppendedAction
  <2>3. /\ new \in StackType /\ new.is_undoing = us.is_undoing
        /\ new.actions = Append(kept, act) /\ new.current = n + 1
    <3> DEFINE added == Append(kept, act)
    <3>1. added \in Seq(ActionType) /\ new = [us EXCEPT !.actions = added, !.current = n + 1]
      BY <2>1, <2>2
    <3> HIDE DEF added, new
    <3>2. n + 1 \in Nat
      BY <1>1
    <3> HIDE DEF n
    <3>3. /\ new \in StackType /\ new.is_undoing = us.is_undoing
          /\ new.actions = added /\ new.current = n + 1
      BY <3>1, <3>2 DEF StackType
    <3>4. QED
      BY <3>3 DEF added
  <2>4. Appended(us, new, UndoAction(type, offset, text))
    BY <1>1, <2>2, <2>3 DEF act, Appended
  <2> HIDE DEF new
  <2>5. QED
    BY <2>3, <2>4 DEF new
<1>5. QED
  BY <1>3, <1>4

\* An action that fits between two sizes fits between them when both grow alike.
LEMMA GrownFit ==
  ASSUME NEW act, act.offset \in Nat, Len(act.text) \in Nat,
         NEW before \in Nat, NEW after \in Nat, NEW gap \in Nat,
         ActionFits(act, before, after)
  PROVE  ActionFits(act, before + gap, after + gap)
<1> DEFINE o == act.offset
           n == Len(act.text)
<1>1. ASSUME NEW b \in Nat, NEW a \in Nat PROVE ActionFits(act, b, a) <=>
        IF act.type = UNDO_INSERT THEN o <= b /\ a = b + n ELSE o <= a /\ b = a + n
  BY DEF ActionFits
<1> HIDE DEF o, n
<1>2. o \in Nat /\ n \in Nat
  BY DEF o, n
<1>3. (o <= before => o <= before + gap) /\ (o <= after => o <= after + gap)
  BY <1>2
<1>4. /\ after = before + n => after + gap = (before + gap) + n
      /\ before = after + n => before + gap = (after + gap) + n
  BY <1>2
<1>5. before + gap \in Nat /\ after + gap \in Nat
  OBVIOUS
<1>6. QED
  BY <1>1, <1>3, <1>4, <1>5

\* An edit inside a text of size len fits between the sizes before and after it,
\* and so does the last action when the edit is merged with it.
EditFits(type, offset, text, len, len2) ==
  IF type = UNDO_INSERT
  THEN offset <= len /\ len2 = len + Len(text)
  ELSE offset <= len2 /\ len = len2 + Len(text)

LEMMA AddedFit ==
  ASSUME NEW type, NEW offset, NEW text, NEW len, NEW len2,
         EditFits(type, offset, text, len, len2)
  PROVE  ActionFits(UndoAction(type, offset, text), len, len2)
BY DEF ActionFits, UndoAction, EditFits

LEMMA MergedFit ==
  ASSUME NEW type, NEW offset \in Nat, NEW text, Len(text) \in Nat,
         NEW len \in Nat, NEW len2 \in Nat, EditFits(type, offset, text, len, len2),
         NEW last, last.offset \in Nat, Len(last.text) \in Nat,
         NEW before \in Nat, ActionFits(last, before, len),
         NEW m, m.type = last.type, last.type = type,
         Len(m.text) = Len(last.text) + Len(text),
         m.offset = IF type = UNDO_INSERT THEN last.offset ELSE offset
  PROVE  ActionFits(m, before, len2)
<1>1. CASE type = UNDO_INSERT
  <2>1. last.offset <= before /\ len = before + Len(last.text) /\ len2 = len + Len(text)
    BY <1>1 DEF ActionFits, EditFits
  <2>2. m.offset = last.offset /\ m.type = UNDO_INSERT
    BY <1>1
  <2>3. len2 = before + Len(m.text)
    BY <2>1
  <2>4. QED
    BY <2>1, <2>2, <2>3 DEF ActionFits
<1>2. CASE type # UNDO_INSERT
  <2>1. before = len + Len(last.text) /\ offset <= len2 /\ len = len2 + Len(text)
    BY <1>2 DEF ActionFits, EditFits
  <2>2. m.offset = offset /\ m.type # UNDO_INSERT
    BY <1>2
  <2>3. \A x, y \in Nat : len = len2 + x /\ before = len + y => before = len2 + (y + x)
    OBVIOUS
  <2>4. before = len2 + (Len(last.text) + Len(text))
    BY <2>1, <2>3
  <2>5. before = len2 + Len(m.text)
    BY <2>4
  <2>6. QED
    BY <2>1, <2>2, <2>5 DEF ActionFits
<1>3. QED
  BY <1>1, <1>2

\* Recording an insertion or a deletion inside the text keeps the history fitting.
LEMMA PushFits ==
  ASSUME NEW us \in StackType, us.current <= Len(us.actions), ~us.is_undoing,
         NEW type \in {UNDO_INSERT, UNDO_DELETE}, NEW offset \in Nat,
         NEW text \in Seq(Char), text # <<>>, NEW recent \in BOOLEAN,
         NEW len \in Nat, HistoryFits(us, len), NEW len2 \in Nat,
         EditFits(type, offset, text, len, len2)
  PROVE  HistoryFits(Undo_push(us, type, offset, text, recent), len2)
<1> DEFINE new == Undo_push(us, type, offset, text, recent)
           n   == us.current
<1>1. PICK size \in [0 .. Len(us.actions) -> Nat] : SizesFit(us, len, size)
  BY DEF HistoryFits
<1>2. /\ n \in Nat /\ Len(us.actions) \in Nat /\ n <= Len(us.actions)
      /\ \A k \in 1 .. n : us.actions[k] \in ActionType
  BY KeptHistory
<1>3. \A k \in 0 .. n : size[k] \in Nat
  BY <1>1, <1>2
<1>4. size[n] <= len /\ \A k \in 1 .. n : ActionFits(us.actions[k], size[k - 1], size[k])
  BY <1>1, <1>2 DEF SizesFit
<1> DEFINE gap == len - size[n]
<1>5. gap \in Nat /\ size[n] + gap = len
  BY <1>2, <1>3, <1>4
<1>6. Len(text) \in Nat
  BY LenProperties
<1> HIDE DEF new, gap, n
\* The sizes before the applied actions, corrected by the gap.
<1>7. ASSUME NEW k \in 1 .. n
      PROVE  ActionFits(us.actions[k], size[k - 1] + gap, size[k] + gap)
  <2>1. /\ size[k] \in Nat /\ size[k - 1] \in Nat /\ us.actions[k].offset \in Nat
        /\ Len(us.actions[k].text) \in Nat
    <3>1. k \in 0 .. n /\ k - 1 \in 0 .. n
      BY <1>2
    <3>2. us.actions[k].offset \in Nat /\ us.actions[k].text \in Seq(Char)
      BY <1>2 DEF ActionType
    <3>3. QED
      BY <1>3, <3>1, <3>2, LenProperties
  <2>2. ActionFits(us.actions[k], size[k - 1], size[k])
    BY <1>4
  <2>3. QED
    BY <1>5, <2>1, <2>2, GrownFit
<1>8. CASE Appended(us, new, UndoAction(type, offset, text))
  <2>0. /\ new.current = n + 1 /\ Len(new.actions) = n + 1
        /\ \A k \in 1 .. n : new.actions[k] = us.actions[k]
        /\ new.actions[n + 1] = UndoAction(type, offset, text)
    BY <1>8 DEF Appended, n
  <2> DEFINE size2 == [k \in 0 .. n + 1 |-> IF k <= n THEN size[k] + gap ELSE len2]
  <2>1. size2 \in [0 .. Len(new.actions) -> Nat] /\ size2[new.current] <= len2
    <3>1. \A k \in 0 .. n + 1 : size2[k] \in Nat
      BY <1>2, <1>3, <1>5
    <3>2. size2[n + 1] = len2
      BY <1>2
    <3>3. size2 \in [0 .. n + 1 -> Nat]
      BY <3>1
    <3> HIDE DEF size2
    <3>4. QED
      BY <2>0, <3>2, <3>3
  <2>2. ASSUME NEW k \in 1 .. Len(new.actions)
        PROVE  ActionFits(new.actions[k], size2[k - 1], size2[k])
    <3>1. CASE k <= n
      <4>1. k \in 1 .. n /\ k \in 0 .. n + 1 /\ k - 1 \in 0 .. n + 1 /\ k - 1 <= n
        BY <1>2, <2>0, <3>1
      <4>2. size2[k] = size[k] + gap /\ size2[k - 1] = size[k - 1] + gap
        BY <3>1, <4>1
      <4>3. QED
        BY <1>7, <2>0, <4>1, <4>2
    <3>2. CASE k = n + 1
      <4>0. k \in 0 .. n + 1 /\ k - 1 \in 0 .. n + 1 /\ k - 1 = n /\ ~(k <= n)
        BY <1>2, <3>2
      <4>1. size2[k] = len2 /\ size2[k - 1] = len
        BY <1>2, <1>5, <4>0
      <4>2. QED
        BY <2>0, <3>2, <4>1, AddedFit
    <3>3. QED
      BY <1>2, <2>0, <3>1, <3>2
  <2> HIDE DEF size2
  <2>3. QED
    BY <2>1, <2>2 DEF HistoryFits, SizesFit, new
<1>9. CASE MergedLast(us, new, type, offset, text)
  <2>0. /\ n > 0 /\ new.current = n /\ Len(new.actions) = n
        /\ \A k \in 1 .. n - 1 : new.actions[k] = us.actions[k]
        /\ CanMerge(us.actions[n], type, offset, text)
        /\ new.actions[n] = Merged(us.actions[n], type, offset, text)
    BY <1>9 DEF MergedLast, n
  <2> DEFINE size2 == [k \in 0 .. n |-> IF k < n THEN size[k] + gap ELSE len2]
             last  == us.actions[n]
             m     == Merged(last, type, offset, text)
  <2>1. size2 \in [0 .. Len(new.actions) -> Nat] /\ size2[new.current] <= len2
    BY <1>2, <1>3, <1>5, <2>0
  <2>2. ASSUME NEW k \in 1 .. Len(new.actions)
        PROVE  ActionFits(new.actions[k], size2[k - 1], size2[k])
    <3>1. CASE k < n
      <4>1. k \in 1 .. n /\ k \in 1 .. n - 1 /\ k \in 0 .. n /\ k - 1 \in 0 .. n /\ k - 1 < n
        BY <1>2, <2>0, <3>1
      <4>2. size2[k] = size[k] + gap /\ size2[k - 1] = size[k - 1] + gap
        BY <3>1, <4>1
      <4>3. QED
        BY <1>7, <2>0, <4>1, <4>2
    <3>2. CASE k = n
      <4>0. n \in 1 .. n /\ n - 1 \in 0 .. n /\ n \in 0 .. n /\ n - 1 < n /\ ~(n < n)
        <5>1. n \in Nat /\ n > 0
          BY <1>2, <2>0
        <5>2. QED
          BY <5>1
      <4>1. /\ n \in 1 .. n /\ last \in ActionType /\ size2[n] = len2
            /\ size2[n - 1] = size[n - 1] + gap /\ size[n - 1] + gap \in Nat
        <5>1. n \in 1 .. n /\ last \in ActionType
          BY <1>2, <4>0
        <5>2. size2[n] = len2 /\ size2[n - 1] = size[n - 1] + gap
          BY <4>0
        <5>3. size[n - 1] \in Nat
          BY <1>3, <4>0
        <5> HIDE DEF last, size2
        <5>4. size[n - 1] + gap \in Nat
          BY <1>5, <5>3
        <5>5. QED
          BY <5>1, <5>2, <5>4
      <4>2. ActionFits(last, size[n - 1] + gap, len)
        BY <1>5, <1>7, <4>1
      <4>3. CanMerge(last, type, offset, text)
        BY <2>0
      <4> HIDE DEF last
      <4>4. /\ m.type = last.type /\ last.type = type
            /\ Len(m.text) = Len(last.text) + Len(text)
            /\ m.offset = IF type = UNDO_INSERT THEN last.offset ELSE offset
        <5> HIDE DEF size2, m
        <5>1. last \in ActionType /\ CanMerge(last, type, offset, text)
          BY <4>1, <4>3
        <5>2. QED
          BY <5>1, MergedAction DEF m
      <4>5. Len(last.text) \in Nat /\ last.offset \in Nat
        BY <4>1, LenProperties DEF ActionType
      <4> HIDE DEF m, size2
      <4>6. ActionFits(m, size[n - 1] + gap, len2)
        <5> DEFINE before == size[n - 1] + gap
        <5>1. before \in Nat /\ ActionFits(last, before, len)
          BY <4>1, <4>2
        <5> HIDE DEF before
        <5>2. ActionFits(m, before, len2)
          BY <1>6, <4>4, <4>5, <5>1, MergedFit
        <5>3. QED
          BY <5>2 DEF before
      <4>7. QED
        BY <2>0, <3>2, <4>1, <4>6 DEF m, last
    <3>3. QED
      BY <1>2, <2>0, <3>1, <3>2
  <2> HIDE DEF size2
  <2>3. QED
    BY <2>1, <2>2 DEF HistoryFits, SizesFit, new
<1>10. \/ Appended(us, new, UndoAction(type, offset, text))
       \/ MergedLast(us, new, type, offset, text)
  BY PushCases DEF new
<1>11. QED
  BY <1>8, <1>9, <1>10 DEF new

\* The action that undo replays is about a place in the text, and undoing it keeps
\* the history fitting, if an insertion loses at least one of its characters and a
\* deletion comes back whole.
LEMMA UndoFits ==
  ASSUME NEW us \in StackType, us.current <= Len(us.actions), CanUndo(us),
         NEW len \in Nat, HistoryFits(us, len)
  PROVE  LET a == UndoneAction(us)
         IN  /\ a \in ActionType /\ Len(a.text) \in Nat \ {0}
             /\ a.type = UNDO_INSERT => a.offset + Len(a.text) <= len
             /\ a.type = UNDO_DELETE => a.offset <= len
             /\ \A len2 \in Nat :
                  (IF a.type = UNDO_INSERT THEN len2 >= len - 1 ELSE len2 = len + Len(a.text))
                  => HistoryFits(Undo_pop(us), len2)
<1> DEFINE a == UndoneAction(us)
           n == us.current
<1>1. PICK size \in [0 .. Len(us.actions) -> Nat] : SizesFit(us, len, size)
  BY DEF HistoryFits
<1>2. n \in 1 .. n /\ n - 1 \in 0 .. Len(us.actions) /\ n \in 0 .. Len(us.actions)
      /\ a \in ActionType
  BY KeptHistory DEF CanUndo, UndoneAction
<1>3. a.offset \in Nat /\ Len(a.text) \in Nat \ {0}
  BY <1>2, EmptySeq DEF ActionType
<1>4. size[n] <= len /\ ActionFits(a, size[n - 1], size[n])
  BY <1>1, <1>2, KeptHistory DEF SizesFit, UndoneAction
<1>5. size[n] \in Nat /\ size[n - 1] \in Nat
  BY <1>1, <1>2
<1> DEFINE before == size[n - 1]
           after  == size[n]
<1>6. /\ a.type = UNDO_INSERT => a.offset <= before /\ after = before + Len(a.text)
      /\ a.type # UNDO_INSERT => a.offset <= after /\ before = after + Len(a.text)
      /\ before \in Nat /\ after \in Nat /\ after <= len
  BY <1>4, <1>5 DEF ActionFits
<1> HIDE DEF before, after, a
<1>7. ASSUME NEW len2 \in Nat,
             IF a.type = UNDO_INSERT THEN len2 >= len - 1 ELSE len2 = len + Len(a.text)
      PROVE  HistoryFits(Undo_pop(us), len2)
  <2>1. before <= len2
    BY <1>3, <1>6, <1>7
  <2>2. /\ Undo_pop(us).actions = us.actions
        /\ Undo_pop(us).current = n - 1
    BY DEF Undo_pop, StackType
  <2>3. SizesFit(Undo_pop(us), len2, size)
    BY <1>1, <2>1, <2>2 DEF SizesFit, before
  <2>4. QED
    BY <1>1, <2>2, <2>3 DEF HistoryFits
<1>8. /\ a.type = UNDO_INSERT => a.offset + Len(a.text) <= len
      /\ a.type # UNDO_INSERT => a.offset <= len
  BY <1>3, <1>6
<1>9. UNDO_INSERT # UNDO_DELETE
  BY DEF UNDO_INSERT, UNDO_DELETE
<1>10. \A len2 \in Nat :
         (IF a.type = UNDO_INSERT THEN len2 >= len - 1 ELSE len2 = len + Len(a.text))
         => HistoryFits(Undo_pop(us), len2)
  BY <1>7, Zenon
<1>11. a.type = UNDO_DELETE => a.type # UNDO_INSERT
  BY <1>9
<1>12. QED
  BY <1>2, <1>3, <1>8, <1>10, <1>11, Zenon DEF a

\* The same for redo.
LEMMA RedoFits ==
  ASSUME NEW us \in StackType, CanRedo(us),
         NEW len \in Nat, HistoryFits(us, len)
  PROVE  LET a == RedoneAction(us)
         IN  /\ a \in ActionType /\ Len(a.text) \in Nat \ {0}
             /\ a.type = UNDO_INSERT => a.offset <= len
             /\ a.type = UNDO_DELETE => a.offset + Len(a.text) <= len
             /\ \A len2 \in Nat :
                  (IF a.type = UNDO_INSERT THEN len2 = len + Len(a.text) ELSE len2 >= len - 1)
                  => HistoryFits(Redo_pop(us), len2)
<1> DEFINE a == RedoneAction(us)
           n == us.current
<1>1. PICK size \in [0 .. Len(us.actions) -> Nat] : SizesFit(us, len, size)
  BY DEF HistoryFits
<1>2. us.actions \in Seq(ActionType) /\ n \in Nat /\ Len(us.actions) \in Nat
  BY LenProperties DEF StackType
<1>3. n + 1 \in 1 .. Len(us.actions) /\ n + 1 \in 0 .. Len(us.actions)
      /\ n \in 0 .. Len(us.actions) /\ (n + 1) - 1 = n
  BY <1>2 DEF CanRedo
<1>4. a \in ActionType
  BY <1>2, <1>3, ElementOfSeq DEF RedoneAction
<1>5. a.offset \in Nat /\ Len(a.text) \in Nat \ {0}
  BY <1>4, EmptySeq DEF ActionType
<1>6. size[n] <= len /\ ActionFits(a, size[n], size[n + 1])
  BY <1>1, <1>3 DEF SizesFit, RedoneAction
<1>7. size[n] \in Nat /\ size[n + 1] \in Nat
  BY <1>1, <1>3
<1> DEFINE before == size[n]
           after  == size[n + 1]
<1>8. /\ a.type = UNDO_INSERT => a.offset <= before /\ after = before + Len(a.text)
      /\ a.type # UNDO_INSERT => a.offset <= after /\ before = after + Len(a.text)
      /\ before \in Nat /\ after \in Nat /\ before <= len
  BY <1>6, <1>7 DEF ActionFits
<1> HIDE DEF before, after, a
<1>9. ASSUME NEW len2 \in Nat,
             IF a.type = UNDO_INSERT THEN len2 = len + Len(a.text) ELSE len2 >= len - 1
      PROVE  HistoryFits(Redo_pop(us), len2)
  <2>1. after <= len2
    BY <1>5, <1>8, <1>9
  <2>2. /\ Redo_pop(us).actions = us.actions
        /\ Redo_pop(us).current = n + 1
    BY DEF Redo_pop, StackType
  <2>3. SizesFit(Redo_pop(us), len2, size)
    BY <1>1, <2>1, <2>2 DEF SizesFit, after
  <2>4. QED
    BY <1>1, <2>2, <2>3 DEF HistoryFits
<1>10. /\ a.type = UNDO_INSERT => a.offset <= len
       /\ a.type # UNDO_INSERT => a.offset + Len(a.text) <= len
  BY <1>5, <1>8
<1>11. UNDO_INSERT # UNDO_DELETE
  BY DEF UNDO_INSERT, UNDO_DELETE
<1>12. \A len2 \in Nat :
         (IF a.type = UNDO_INSERT THEN len2 = len + Len(a.text) ELSE len2 >= len - 1)
         => HistoryFits(Redo_pop(us), len2)
  BY <1>9, Zenon
<1>13. a.type = UNDO_DELETE => a.type # UNDO_INSERT
  BY <1>11
<1>14. QED
  BY <1>4, <1>5, <1>10, <1>12, <1>13, Zenon DEF a

-----------------------------------------------------------------------------
(* The edits. *)

LEMMA BufferFields ==
  ASSUME NEW b \in BufferType
  PROVE  /\ b.text \in Seq(Char) /\ Len(b.text) \in Nat /\ b.lines \in SUBSET Nat
         /\ b.row \in Nat /\ b.x \in Nat /\ b.pos \in Nat /\ b.anchor \in Nat
         /\ b.select \in BOOLEAN /\ b.dirty \in BOOLEAN /\ b.undo \in StackType
BY LenProperties DEF BufferType

\* Synchronising the cursor makes the buffer sound, whatever its offset was.
LEMMA SyncSound ==
  ASSUME NEW b \in BufferType, b.lines = LineIndex_insert(b.text),
         b.undo.current <= Len(b.undo.actions)
  PROVE  LET c == Sync(b)
         IN  /\ Sound(c) /\ c.text = b.text /\ c.undo = b.undo /\ c.select = b.select
             /\ c.pos = IF b.pos > Len(b.text) THEN Len(b.text) ELSE b.pos
<1> DEFINE p == IF b.pos > Len(b.text) THEN Len(b.text) ELSE b.pos
           r == LineOf(b.lines, p)
<1>1. p \in Nat /\ p <= Len(b.text)
  BY BufferFields
<1>2. r \in b.lines /\ r <= p /\ r \in Nat
  BY <1>1, BufferFields, RowExists
<1> HIDE DEF p, r
<1>3. p - r \in Nat
  BY <1>1, <1>2
<1>4. Sync(b) = [b EXCEPT !.pos = p, !.row = r, !.x = p - r]
  BY DEF Sync, p, r
<1>5. /\ Sync(b) \in BufferType /\ Sync(b).text = b.text /\ Sync(b).lines = b.lines
      /\ Sync(b).undo = b.undo /\ Sync(b).select = b.select
      /\ Sync(b).pos = p /\ Sync(b).row = r
  BY <1>1, <1>2, <1>3, <1>4 DEF BufferType
<1>6. QED
  BY <1>1, <1>2, <1>5 DEF Sound, p

\* The range a deletion at the cursor is about.
DeleteStart(b) == IF b.select THEN SelStart(b) ELSE b.pos - 1
DeleteWant(b) == IF b.select THEN SelLen(b) ELSE 1
DeleteLen(b) ==
  IF DeleteStart(b) + DeleteWant(b) > Len(b.text) THEN Len(b.text) - DeleteStart(b)
  ELSE DeleteWant(b)
NothingToDelete(b) == DeleteWant(b) = 0 \/ DeleteStart(b) < 0

LEMMA DeleteRange ==
  ASSUME NEW b, Sound(b), ~NothingToDelete(b)
  PROVE  /\ DeleteStart(b) \in Nat /\ DeleteLen(b) \in Nat
         /\ DeleteStart(b) + DeleteLen(b) <= Len(b.text)
         /\ ~b.select => DeleteLen(b) = 1
<1>1. /\ Len(b.text) \in Nat /\ b.pos \in Nat /\ b.anchor \in Nat /\ b.pos <= Len(b.text)
      /\ b.select \in BOOLEAN
  BY BufferFields DEF Sound
<1>2. CASE b.select
  <2>1. SelStart(b) \in Nat /\ SelLen(b) \in Nat /\ SelStart(b) <= b.pos
    BY <1>1 DEF SelStart, SelLen
  <2>2. QED
    BY <1>1, <1>2, <2>1 DEF DeleteStart, DeleteWant, DeleteLen
<1>3. CASE ~b.select
  BY <1>1, <1>3 DEF DeleteStart, DeleteWant, DeleteLen, NothingToDelete
<1>4. QED
  BY <1>2, <1>3

\* Buffer_delete, by its range.
LEMMA DeleteCases ==
  ASSUME NEW b, NEW recent
  PROVE  LET d == [b EXCEPT !.dirty = TRUE, !.select = FALSE]
             s == DeleteStart(b)
             n == DeleteLen(b)
         IN  Buffer_delete(b, b.pos, recent)
               = IF NothingToDelete(b) THEN d
                 ELSE Sync([d EXCEPT
                        !.undo  = Undo_push(@, UNDO_DELETE, s, String_get(b.text, s, n), recent),
                        !.text  = String_delete(@, s, n),
                        !.lines = line_index_delete_range(@, s, n),
                        !.pos   = s])
BY DEF Buffer_delete, DeleteStart, DeleteWant, DeleteLen, NothingToDelete

LEMMA PushSound ==
  ASSUME NEW us \in StackType, us.current <= Len(us.actions),
         NEW type \in {UNDO_INSERT, UNDO_DELETE}, NEW offset \in Nat,
         NEW text \in Seq(Char), NEW recent \in BOOLEAN
  PROVE  LET new == Undo_push(us, type, offset, text, recent)
         IN  /\ new \in StackType /\ new.current <= Len(new.actions)
             /\ new.is_undoing = us.is_undoing
             /\ us.is_undoing \/ text = <<>> => new = us
<1> DEFINE new == Undo_push(us, type, offset, text, recent)
<1>1. CASE text = <<>> \/ us.is_undoing
  BY <1>1 DEF Undo_push
<1>2. CASE text # <<>> /\ ~us.is_undoing
  <2>1. us.is_undoing = FALSE /\ us.current \in Nat
    BY <1>2 DEF StackType
  <2>2. /\ new \in StackType /\ ~new.is_undoing
        /\ \/ Appended(us, new, UndoAction(type, offset, text))
           \/ MergedLast(us, new, type, offset, text)
    BY <1>2, PushCases
  <2> HIDE DEF new
  <2>3. new.is_undoing = FALSE /\ new.current <= Len(new.actions)
    BY <2>1, <2>2 DEF StackType, Appended, MergedLast
  <2>4. QED
    BY <1>2, <2>1, <2>2, <2>3 DEF new
<1>3. QED
  BY <1>1, <1>2

\* A deletion at the cursor.
LEMMA DeleteSound ==
  ASSUME NEW b, Sound(b), NEW recent \in BOOLEAN
  PROVE  LET d == Buffer_delete(b, b.pos, recent)
         IN  /\ Sound(d) /\ ~d.select
             /\ b.undo.is_undoing => d.undo = b.undo
             /\ ~b.select => Len(d.text) >= Len(b.text) - 1
             /\ Good(b) => Good(d)
<1> DEFINE d0 == [b EXCEPT !.dirty = TRUE, !.select = FALSE]
           d  == Buffer_delete(b, b.pos, recent)
           s  == DeleteStart(b)
           n  == DeleteLen(b)
<1>1. /\ b \in BufferType /\ b.lines = LineIndex_insert(b.text)
      /\ b.pos <= Len(b.text) /\ b.row \in b.lines
      /\ b.undo \in StackType /\ b.undo.current <= Len(b.undo.actions)
      /\ b.text \in Seq(Char) /\ Len(b.text) \in Nat
  BY BufferFields DEF Sound
<1>2. CASE NothingToDelete(b)
  <2>1. d = d0
    BY <1>2, DeleteCases
  <2> HIDE DEF d
  <2>2. /\ d \in BufferType /\ d.text = b.text /\ d.lines = b.lines /\ d.pos = b.pos
        /\ d.row = b.row /\ d.undo = b.undo /\ d.select = FALSE
    BY <1>1, <2>1 DEF BufferType
  <2>3. Sound(d)
    BY <1>1, <2>2 DEF Sound
  <2>4. QED
    BY <1>1, <2>2, <2>3 DEF Good, d
<1>3. CASE ~NothingToDelete(b)
  <2> DEFINE cut   == String_get(b.text, s, n)
             us    == Undo_push(b.undo, UNDO_DELETE, s, cut, recent)
             text  == String_delete(b.text, s, n)
             lines == line_index_delete_range(b.lines, s, n)
             e     == [d0 EXCEPT !.undo = us, !.text = text, !.lines = lines, !.pos = s]
  <2>1. d = Sync(e)
    BY <1>1, <1>3, DeleteCases DEF BufferType
  <2>2. s \in Nat /\ n \in Nat /\ s + n <= Len(b.text) /\ (~b.select => n = 1)
    BY <1>3, DeleteRange
  <2> HIDE DEF s, n
  <2>3. cut \in Seq(Char) /\ Len(cut) = n
    BY <1>1, <2>2, GetChars
  <2>4. text \in Seq(Char) /\ Len(text) = Len(b.text) - n
    BY <1>1, <2>2, DeleteLength
  <2>5. lines = LineIndex_insert(text)
    BY <1>1, <2>2, DeleteStarts
  <2>6. lines \in SUBSET Nat
    BY <2>4, <2>5, IndexType
  <2>7. /\ us \in StackType /\ us.current <= Len(us.actions)
        /\ us.is_undoing = b.undo.is_undoing
        /\ b.undo.is_undoing \/ cut = <<>> => us = b.undo
    <3>1. /\ b.undo \in StackType /\ b.undo.current <= Len(b.undo.actions)
          /\ s \in Nat /\ cut \in Seq(Char)
      BY <1>1, <2>2, <2>3
    <3> HIDE DEF cut
    <3>2. QED
      BY <3>1, PushSound
  <2>8. Good(b) => HistoryFits(us, Len(text))
    <3>1. CASE cut = <<>>
      BY <1>1, <2>2, <2>3, <2>4, <2>7, <3>1, EmptySeq DEF Good
    <3>2. CASE cut # <<>>
      <4> SUFFICES ASSUME Good(b) PROVE HistoryFits(us, Len(text))
        OBVIOUS
      <4>1. EditFits(UNDO_DELETE, s, cut, Len(b.text), Len(text))
        BY <1>1, <2>2, <2>3, <2>4 DEF EditFits, UNDO_INSERT, UNDO_DELETE
      <4>2. Len(text) \in Nat
        BY <1>1, <2>2, <2>4
      <4>3. ~b.undo.is_undoing /\ HistoryFits(b.undo, Len(b.text))
        BY DEF Good
      <4> HIDE DEF cut, text
      <4>4. QED
        BY <1>1, <2>2, <2>3, <3>2, <4>1, <4>2, <4>3, PushFits
    <3>3. QED
      BY <3>1, <3>2
  <2> HIDE DEF us, text, lines, cut
  <2>9. /\ e \in BufferType /\ e.text = text /\ e.lines = lines /\ e.undo = us
        /\ e.select = FALSE /\ e.pos = s
    BY <1>1, <2>2, <2>4, <2>6, <2>7 DEF BufferType
  <2> HIDE DEF e, d
  <2>10. Sound(d) /\ d.text = text /\ d.undo = us /\ d.select = FALSE
    BY <2>1, <2>5, <2>7, <2>9, SyncSound
  <2>11. ~b.select => Len(d.text) >= Len(b.text) - 1
    BY <1>1, <2>2, <2>4, <2>10
  <2>12. Good(b) => Good(d)
    BY <2>7, <2>8, <2>10 DEF Good
  <2>13. QED
    BY <2>7, <2>10, <2>11, <2>12 DEF d
<1>4. QED
  BY <1>2, <1>3

\* An insertion inside the text.
LEMMA InsertSound ==
  ASSUME NEW b, Sound(b), NEW p \in Nat, p <= Len(b.text),
         NEW s \in Seq(Char), NEW recent \in BOOLEAN
  PROVE  LET i == Buffer_insert(b, p, s, recent)
         IN  /\ Sound(i)
             /\ s # <<>> => Len(s) <= i.pos
             /\ b.undo.is_undoing => i.undo = b.undo
             /\ ~b.select => i.select = b.select /\ Len(i.text) = Len(b.text) + Len(s)
             /\ Good(b) => Good(i)
<1> DEFINE d  == [b EXCEPT !.dirty = TRUE]
           c  == IF b.select THEN Buffer_delete(d, d.pos, recent) ELSE d
           at == IF b.select THEN c.pos ELSE p
           i  == Buffer_insert(b, p, s, recent)
<1>1. /\ b \in BufferType /\ b.undo \in StackType /\ b.text \in Seq(Char)
      /\ Len(b.text) \in Nat /\ Len(s) \in Nat /\ b.select \in BOOLEAN
  BY BufferFields, LenProperties DEF Sound
<1>2. /\ d \in BufferType /\ d.text = b.text /\ d.lines = b.lines /\ d.pos = b.pos
      /\ d.row = b.row /\ d.undo = b.undo /\ d.select = b.select
  BY <1>1 DEF BufferType
<1> HIDE DEF d
<1>3. Sound(d) /\ (Good(b) => Good(d))
  BY <1>2 DEF Sound, Good
<1>4. CASE s = <<>>
  <2>1. i = d
    BY <1>4 DEF Buffer_insert, d
  <2>2. Len(s) = 0
    BY <1>4, EmptySeq
  <2> HIDE DEF i
  <2>3. QED
    BY <1>1, <1>2, <1>3, <2>1, <2>2 DEF i
<1>5. CASE s # <<>>
  <2>1. /\ Sound(c) /\ (Good(b) => Good(c))
        /\ b.undo.is_undoing => c.undo = b.undo
        /\ ~b.select => c = d
    BY <1>2, <1>3, DeleteSound
  <2>2. at \in Nat /\ at <= Len(c.text)
    <3>1. CASE b.select
      BY <2>1, <3>1, BufferFields DEF Sound
    <3>2. CASE ~b.select
      BY <1>2, <3>2
    <3>3. QED
      BY <3>1, <3>2
  <2> DEFINE us    == Undo_push(c.undo, UNDO_INSERT, at, s, recent)
             text  == String_insert(c.text, at, s)
             lines == line_index_insert_newlines(c.lines, at, s)
             e     == [c EXCEPT !.undo = us, !.text = text, !.lines = lines, !.pos = c.pos + Len(s)]
  <2>3. i = Sync([c EXCEPT !.undo = Undo_push(@, UNDO_INSERT, at, s, recent),
                          !.text = String_insert(@, at, s),
                          !.lines = line_index_insert_newlines(@, at, s),
                          !.pos = @ + Len(s)])
    BY <1>5 DEF Buffer_insert, d
  <2> HIDE DEF c, at, i
  <2>4. i = Sync(e)
    BY <2>3
  <2>5. /\ c \in BufferType /\ c.lines = LineIndex_insert(c.text)
        /\ c.undo \in StackType /\ c.undo.current <= Len(c.undo.actions)
        /\ c.text \in Seq(Char) /\ Len(c.text) \in Nat /\ c.pos \in Nat
    BY <2>1, BufferFields DEF Sound
  <2>6. text \in Seq(Char) /\ Len(text) = Len(c.text) + Len(s)
    BY <2>2, <2>5, InsertLength
  <2>7. lines = LineIndex_insert(text)
    BY <2>2, <2>5, InsertStarts
  <2>8. lines \in SUBSET Nat
    BY <2>6, <2>7, IndexType
  <2>9. /\ us \in StackType /\ us.current <= Len(us.actions)
        /\ us.is_undoing = c.undo.is_undoing
        /\ c.undo.is_undoing \/ s = <<>> => us = c.undo
    <3>1. /\ c.undo \in StackType /\ c.undo.current <= Len(c.undo.actions)
          /\ UNDO_INSERT \in {UNDO_INSERT, UNDO_DELETE} /\ at \in Nat
      BY <2>2, <2>5
    <3>2. QED
      BY <3>1, PushSound
  <2>10. Good(c) => HistoryFits(us, Len(text))
    <3> SUFFICES ASSUME Good(c) PROVE HistoryFits(us, Len(text))
      OBVIOUS
    <3>1. EditFits(UNDO_INSERT, at, s, Len(c.text), Len(text))
      BY <2>2, <2>6 DEF EditFits, UNDO_INSERT, UNDO_DELETE
    <3>2. Len(text) \in Nat
      BY <1>1, <2>5, <2>6
    <3>3. ~c.undo.is_undoing /\ HistoryFits(c.undo, Len(c.text))
      BY DEF Good
    <3> HIDE DEF text
    <3>4. QED
      BY <1>5, <2>2, <2>5, <3>1, <3>2, <3>3, PushFits
  <2> HIDE DEF us, text, lines
  <2>11. /\ e \in BufferType /\ e.text = text /\ e.lines = lines /\ e.undo = us
         /\ e.select = c.select /\ e.pos = c.pos + Len(s)
    <3>1. c.pos + Len(s) \in Nat
      BY <1>1, <2>5
    <3>2. QED
      BY <2>5, <2>6, <2>8, <2>9, <3>1 DEF BufferType
  <2> HIDE DEF e
  <2>12. /\ Sound(i) /\ i.text = text /\ i.undo = us /\ i.select = c.select
         /\ i.pos = IF e.pos > Len(e.text) THEN Len(e.text) ELSE e.pos
    BY <2>4, <2>7, <2>9, <2>11, SyncSound
  <2>13. b.undo.is_undoing => i.undo = b.undo
    BY <2>1, <2>9, <2>12
  <2>14. ~b.select => i.select = b.select /\ Len(i.text) = Len(b.text) + Len(s)
    BY <1>2, <2>1, <2>6, <2>12
  <2>15. Good(b) => Good(i)
    BY <2>1, <2>9, <2>10, <2>12 DEF Good
  <2>16. Len(s) <= i.pos
    BY <1>1, <2>5, <2>6, <2>11, <2>12
  <2>17. QED
    BY <2>12, <2>13, <2>14, <2>15, <2>16 DEF i
<1>6. QED
  BY <1>4, <1>5

-----------------------------------------------------------------------------
(* Undo and redo. *)

\* The buffer that undo or redo edits, with the cursor sent to p.
LEMMA ReplayingSound ==
  ASSUME NEW b, Sound(b), NEW us \in StackType, us.current <= Len(us.actions), NEW p \in Nat
  PROVE  LET c == Replaying(b, us, p)
         IN  /\ Sound(c) /\ c.text = b.text /\ ~c.select
             /\ c.undo = [us EXCEPT !.is_undoing = TRUE] /\ c.undo.is_undoing
             /\ c.pos = IF p > Len(b.text) THEN Len(b.text) ELSE p
<1> DEFINE us2 == [us EXCEPT !.is_undoing = TRUE]
           e   == [b EXCEPT !.undo = us2, !.select = FALSE, !.pos = p]
<1>1. /\ us2 \in StackType /\ us2.is_undoing = TRUE
      /\ us2.current = us.current /\ us2.actions = us.actions
  BY DEF StackType
<1> HIDE DEF us2
<1>2. /\ e \in BufferType /\ e.text = b.text /\ e.lines = b.lines /\ e.undo = us2
      /\ e.select = FALSE /\ e.pos = p
  BY <1>1 DEF Sound, BufferType
<1>3. Replaying(b, us, p) = Sync(e)
  BY DEF Replaying, us2
<1> HIDE DEF e
<1>4. e.lines = LineIndex_insert(e.text) /\ e.undo.current <= Len(e.undo.actions)
  BY <1>1, <1>2 DEF Sound
<1>5. QED
  BY <1>1, <1>2, <1>3, <1>4, SyncSound DEF us2

\* The end of an undo or redo.
LEMMA ReplayedGood ==
  ASSUME NEW b, Sound(b), NEW us \in StackType, ~us.is_undoing,
         b.undo = [us EXCEPT !.is_undoing = TRUE], HistoryFits(us, Len(b.text))
  PROVE  Good(Replayed(b))
<1> DEFINE c == [b EXCEPT !.undo = us]
<1>1. [b.undo EXCEPT !.is_undoing = FALSE] = us
  BY DEF StackType
<1>2. Replayed(b) = c
  BY <1>1 DEF Replayed
<1>3. us.actions = b.undo.actions /\ us.current = b.undo.current
  BY DEF StackType
<1>4. /\ c \in BufferType /\ c.undo = us /\ c.text = b.text /\ c.lines = b.lines
      /\ c.pos = b.pos /\ c.row = b.row
  BY DEF Sound, BufferType
<1> HIDE DEF c
<1>5. QED
  BY <1>2, <1>3, <1>4 DEF Good, Sound

\* What undo and redo do to a sound buffer, given the stack us they leave behind:
\* delete one character before p, or insert the text s at p.
LEMMA ReplayedDelete ==
  ASSUME NEW b, Sound(b), NEW us \in StackType, us.current <= Len(us.actions), NEW p \in Nat
  PROVE  LET c == Replaying(b, us, p)
             x == Buffer_delete(c, c.pos, FALSE)
         IN  /\ Sound(x) /\ x.undo = [us EXCEPT !.is_undoing = TRUE]
             /\ Len(x.text) \in Nat /\ Len(x.text) >= Len(b.text) - 1
<1> DEFINE c == Replaying(b, us, p)
           x == Buffer_delete(c, c.pos, FALSE)
<1>1. /\ Sound(c) /\ c.text = b.text /\ ~c.select
      /\ c.undo = [us EXCEPT !.is_undoing = TRUE] /\ c.undo.is_undoing
  BY ReplayingSound
<1> HIDE DEF c
<1>2. /\ Sound(x) /\ (c.undo.is_undoing => x.undo = c.undo)
      /\ (~c.select => Len(x.text) >= Len(c.text) - 1)
  BY <1>1, DeleteSound
<1>3. Len(x.text) \in Nat
  BY <1>2, BufferFields DEF Sound
<1>4. QED
  BY <1>1, <1>2, <1>3 DEF c

\* x is b with s inserted, on the undoing stack us.
ReplayedInto(x, b, us, s) ==
  /\ Sound(x)
  /\ x.undo = [us EXCEPT !.is_undoing = TRUE]
  /\ Len(x.text) \in Nat
  /\ Len(x.text) = Len(b.text) + Len(s)

LEMMA ReplayedInsert ==
  ASSUME NEW b, Sound(b), NEW us \in StackType, us.current <= Len(us.actions), NEW p \in Nat,
         p <= Len(b.text), NEW s \in Seq(Char)
  PROVE  ReplayedInto(Buffer_insert(Replaying(b, us, p), p, s, FALSE), b, us, s)
<1> DEFINE c == Replaying(b, us, p)
           x == Buffer_insert(c, p, s, FALSE)
<1>1. /\ Sound(c) /\ c.text = b.text /\ ~c.select
      /\ c.undo = [us EXCEPT !.is_undoing = TRUE] /\ c.undo.is_undoing
  BY ReplayingSound
<1> HIDE DEF c
<1>2. /\ Sound(x) /\ (c.undo.is_undoing => x.undo = c.undo)
      /\ (~c.select => x.select = c.select /\ Len(x.text) = Len(c.text) + Len(s))
  BY <1>1, InsertSound
<1>3. Len(x.text) \in Nat
  BY <1>2, BufferFields DEF Sound
<1>4. QED
  BY <1>1, <1>2, <1>3 DEF c, ReplayedInto

LEMMA UndoGood ==
  ASSUME NEW b, Good(b), CanUndo(b.undo)
  PROVE  Good(Buffer_undo(b))
<1> DEFINE a  == UndoneAction(b.undo)
           us == Undo_pop(b.undo)
           x  == LET c == Replaying(b, us, a.offset + Len(a.text)) IN Buffer_delete(c, c.pos, FALSE)
           y  == Buffer_insert(Replaying(b, us, a.offset), a.offset, a.text, FALSE)
<1>1. /\ Sound(b) /\ ~b.undo.is_undoing /\ HistoryFits(b.undo, Len(b.text))
      /\ b.undo \in StackType /\ b.undo.current <= Len(b.undo.actions) /\ Len(b.text) \in Nat
  BY BufferFields DEF Good, Sound
<1>2. /\ a \in ActionType /\ Len(a.text) \in Nat \ {0}
      /\ a.type = UNDO_DELETE => a.offset <= Len(b.text)
      /\ \A len2 \in Nat :
           (IF a.type = UNDO_INSERT THEN len2 >= Len(b.text) - 1
            ELSE len2 = Len(b.text) + Len(a.text))
           => HistoryFits(us, len2)
  BY <1>1, UndoFits, Zenon
<1>3. us \in StackType /\ us.current <= Len(us.actions) /\ ~us.is_undoing
  <2>1. /\ b.undo.current \in Nat /\ Len(b.undo.actions) \in Nat /\ b.undo.current # 0
    BY <1>1, LenProperties DEF StackType, CanUndo
  <2>2. b.undo.current - 1 \in Nat /\ b.undo.current - 1 <= Len(b.undo.actions)
    BY <1>1, <2>1
  <2>3. QED
    BY <1>1, <2>2 DEF Undo_pop, StackType
<1>4. /\ a.offset \in Nat /\ a.offset + Len(a.text) \in Nat /\ a.text \in Seq(Char)
      /\ a.type \in {UNDO_INSERT, UNDO_DELETE}
  BY <1>2 DEF ActionType
<1>5. Buffer_undo(b) = Replayed(IF a.type = UNDO_INSERT THEN Sync([x EXCEPT !.pos = a.offset]) ELSE y)
  BY DEF Buffer_undo
<1> HIDE DEF us, a
<1>6. CASE a.type = UNDO_INSERT
  <2> DEFINE x2 == [x EXCEPT !.pos = a.offset]
  <2>1. /\ Sound(x) /\ x.undo = [us EXCEPT !.is_undoing = TRUE]
        /\ Len(x.text) \in Nat /\ Len(x.text) >= Len(b.text) - 1
    BY <1>1, <1>3, <1>4, ReplayedDelete
  <2> HIDE DEF x
  <2>2. /\ x2 \in BufferType /\ x2.lines = LineIndex_insert(x2.text)
        /\ x2.undo.current <= Len(x2.undo.actions) /\ x2.text = x.text /\ x2.undo = x.undo
    BY <1>4, <2>1 DEF Sound, BufferType
  <2> HIDE DEF x2
  <2>3. Sound(Sync(x2)) /\ Sync(x2).text = x2.text /\ Sync(x2).undo = x2.undo
    BY <2>2, SyncSound
  <2>4. HistoryFits(us, Len(x.text))
    BY <1>2, <1>6, <2>1
  <2>5. Good(Replayed(Sync(x2)))
    BY <1>3, <2>1, <2>2, <2>3, <2>4, ReplayedGood
  <2>6. QED
    BY <1>5, <1>6, <2>5 DEF x2
<1>7. CASE a.type = UNDO_DELETE
  <2>1. /\ Sound(y) /\ y.undo = [us EXCEPT !.is_undoing = TRUE]
        /\ Len(y.text) \in Nat /\ Len(y.text) = Len(b.text) + Len(a.text)
    <3>1. a.offset <= Len(b.text)
      BY <1>2, <1>7, Zenon
    <3>2. ReplayedInto(y, b, us, a.text)
      BY <1>1, <1>3, <1>4, <3>1, ReplayedInsert
    <3> HIDE DEF y
    <3>3. QED
      BY <3>2 DEF ReplayedInto
  <2> HIDE DEF y
  <2>2. a.type # UNDO_INSERT
    BY <1>7 DEF UNDO_INSERT, UNDO_DELETE
  <2>3. HistoryFits(us, Len(y.text))
    BY <1>2, <2>1, <2>2
  <2>4. QED
    BY <1>3, <1>5, <2>1, <2>2, <2>3, ReplayedGood
<1>8. QED
  BY <1>4, <1>6, <1>7

LEMMA RedoGood ==
  ASSUME NEW b, Good(b), CanRedo(b.undo)
  PROVE  Good(Buffer_redo(b))
<1> DEFINE a  == RedoneAction(b.undo)
           us == Redo_pop(b.undo)
           x  == LET c == Replaying(b, us, a.offset + Len(a.text)) IN Buffer_delete(c, c.pos, FALSE)
           y  == Buffer_insert(Replaying(b, us, a.offset), a.offset, a.text, FALSE)
<1>1. /\ Sound(b) /\ ~b.undo.is_undoing /\ HistoryFits(b.undo, Len(b.text))
      /\ b.undo \in StackType /\ Len(b.text) \in Nat
  BY BufferFields DEF Good, Sound
<1>2. /\ a \in ActionType /\ Len(a.text) \in Nat \ {0}
      /\ a.type = UNDO_INSERT => a.offset <= Len(b.text)
      /\ \A len2 \in Nat :
           (IF a.type = UNDO_INSERT THEN len2 = Len(b.text) + Len(a.text)
            ELSE len2 >= Len(b.text) - 1)
           => HistoryFits(us, len2)
  BY <1>1, RedoFits, Zenon
<1>3. us \in StackType /\ us.current <= Len(us.actions) /\ ~us.is_undoing
  <2>1. /\ b.undo.current \in Nat /\ Len(b.undo.actions) \in Nat
        /\ b.undo.current < Len(b.undo.actions)
    BY <1>1, LenProperties DEF StackType, CanRedo
  <2>2. b.undo.current + 1 \in Nat /\ b.undo.current + 1 <= Len(b.undo.actions)
    BY <1>1, <2>1
  <2>3. QED
    BY <1>1, <2>2 DEF Redo_pop, StackType
<1>4. /\ a.offset \in Nat /\ a.offset + Len(a.text) \in Nat /\ a.text \in Seq(Char)
      /\ a.type \in {UNDO_INSERT, UNDO_DELETE}
  BY <1>2 DEF ActionType
<1>5. Buffer_redo(b) = Replayed(IF a.type = UNDO_INSERT THEN y ELSE x)
  BY DEF Buffer_redo
<1> HIDE DEF us, a
<1>6. CASE a.type = UNDO_INSERT
  <2>1. /\ Sound(y) /\ y.undo = [us EXCEPT !.is_undoing = TRUE]
        /\ Len(y.text) \in Nat /\ Len(y.text) = Len(b.text) + Len(a.text)
    <3>1. a.offset <= Len(b.text)
      BY <1>2, <1>6, Zenon
    <3>2. ReplayedInto(y, b, us, a.text)
      BY <1>1, <1>3, <1>4, <3>1, ReplayedInsert
    <3> HIDE DEF y
    <3>3. QED
      BY <3>2 DEF ReplayedInto
  <2> HIDE DEF y
  <2>2. HistoryFits(us, Len(y.text))
    BY <1>2, <1>6, <2>1
  <2>3. QED
    BY <1>3, <1>5, <1>6, <2>1, <2>2, ReplayedGood
<1>7. CASE a.type = UNDO_DELETE
  <2>1. /\ Sound(x) /\ x.undo = [us EXCEPT !.is_undoing = TRUE]
        /\ Len(x.text) \in Nat /\ Len(x.text) >= Len(b.text) - 1
    BY <1>1, <1>3, <1>4, ReplayedDelete
  <2> HIDE DEF x
  <2>2. a.type # UNDO_INSERT
    BY <1>7 DEF UNDO_INSERT, UNDO_DELETE
  <2>3. HistoryFits(us, Len(x.text))
    BY <1>2, <2>1, <2>2
  <2>4. QED
    BY <1>3, <1>5, <2>1, <2>2, <2>3, ReplayedGood
<1>8. QED
  BY <1>4, <1>6, <1>7

-----------------------------------------------------------------------------
(* Moving. *)

LEMMA SameTextGood ==
  ASSUME NEW b, Good(b), NEW c \in BufferType, c.text = b.text, c.lines = b.lines,
         c.undo = b.undo, c.pos <= Len(b.text), c.row \in b.lines
  PROVE  Good(c)
BY DEF Good, Sound

\* A cursor put on a row of the index and an offset of the text.
LEMMA PlacedGood ==
  ASSUME NEW b, Good(b), NEW r \in b.lines, NEW x \in Nat, NEW p \in Nat, p <= Len(b.text)
  PROVE  Good([b EXCEPT !.row = r, !.x = x, !.pos = p])
<1> DEFINE c == [b EXCEPT !.row = r, !.x = x, !.pos = p]
<1>1. r \in Nat /\ b \in BufferType
  BY BufferFields DEF Good, Sound
<1>2. /\ c \in BufferType /\ c.text = b.text /\ c.lines = b.lines /\ c.undo = b.undo
      /\ c.pos = p /\ c.row = r
  BY <1>1 DEF BufferType
<1> HIDE DEF c
<1>3. Good(c)
  BY <1>2, SameTextGood
<1>4. QED
  BY <1>3 DEF c

LEMMA SelectedGood ==
  ASSUME NEW b, Good(b), NEW q \in Nat, NEW s \in BOOLEAN
  PROVE  Good([b EXCEPT !.anchor = q, !.select = s])
<1> DEFINE c == [b EXCEPT !.anchor = q, !.select = s]
<1>1. b \in BufferType /\ b.pos <= Len(b.text) /\ b.row \in b.lines
  BY DEF Good, Sound
<1>2. /\ c \in BufferType /\ c.text = b.text /\ c.lines = b.lines /\ c.undo = b.undo
      /\ c.pos = b.pos /\ c.row = b.row
  BY <1>1 DEF BufferType
<1> HIDE DEF c
<1>3. Good(c)
  BY <1>1, <1>2, SameTextGood
<1>4. QED
  BY <1>3 DEF c

LEMMA FlagsGood ==
  ASSUME NEW b, Good(b), NEW s \in BOOLEAN, NEW d \in BOOLEAN
  PROVE  Good([b EXCEPT !.select = s]) /\ Good([b EXCEPT !.dirty = d])
<1> DEFINE c == [b EXCEPT !.select = s]
           e == [b EXCEPT !.dirty = d]
<1>1. b \in BufferType /\ b.pos <= Len(b.text) /\ b.row \in b.lines
  BY DEF Good, Sound
<1>2. /\ c \in BufferType /\ c.text = b.text /\ c.lines = b.lines /\ c.undo = b.undo
      /\ c.pos = b.pos /\ c.row = b.row
  BY <1>1 DEF BufferType
<1>3. /\ e \in BufferType /\ e.text = b.text /\ e.lines = b.lines /\ e.undo = b.undo
      /\ e.pos = b.pos /\ e.row = b.row
  BY <1>1 DEF BufferType
<1> HIDE DEF c, e
<1>4. Good(c) /\ Good(e)
  BY <1>1, <1>2, <1>3, SameTextGood
<1>5. QED
  BY <1>4 DEF c, e

LEMMA SentGood ==
  ASSUME NEW b, Good(b), NEW p \in Nat
  PROVE  Good(Sync([b EXCEPT !.pos = p]))
<1> DEFINE e == [b EXCEPT !.pos = p]
<1>1. b \in BufferType /\ b.lines = LineIndex_insert(b.text) /\ b.undo.current <= Len(b.undo.actions)
  BY DEF Good, Sound
<1>2. e \in BufferType /\ e.text = b.text /\ e.lines = b.lines /\ e.undo = b.undo
  BY <1>1 DEF BufferType
<1> HIDE DEF e
<1>3. Sound(Sync(e)) /\ Sync(e).text = e.text /\ Sync(e).undo = e.undo
  BY <1>1, <1>2, SyncSound
<1>4. Good(Sync(e))
  BY <1>2, <1>3 DEF Good
<1>5. QED
  BY <1>4 DEF e

LEMMA ShiftGood ==
  ASSUME NEW b, Good(b), NEW shift \in BOOLEAN
  PROVE  Good(CHECK_SELECTION(b, shift))
<1>1. b.pos \in Nat
  BY BufferFields DEF Good, Sound
<1>2. Good([b EXCEPT !.select = FALSE]) /\ Good([b EXCEPT !.anchor = b.pos, !.select = TRUE])
  BY <1>1, FlagsGood, SelectedGood
<1>3. QED
  BY <1>2 DEF CHECK_SELECTION

LEMMA OnRowGood ==
  ASSUME NEW b, Good(b), NEW r \in b.lines
  PROVE  Good(OnRow(b, r))
<1> DEFINE e   == LineEnd(b.text, b.lines, r)
           col == IF b.x > e - r THEN e - r ELSE b.x
           p   == r + col
<1>1. b.x \in Nat /\ b.text \in Seq(Char) /\ b.lines = LineIndex_insert(b.text)
  BY BufferFields DEF Good, Sound
<1>2. r \in Nat /\ e \in Nat /\ Len(b.text) \in Nat /\ r <= e /\ e <= Len(b.text)
  BY <1>1, LineEndBounds
<1>3. OnRow(b, r) = [b EXCEPT !.row = r, !.x = col, !.pos = p]
  BY DEF OnRow
<1> HIDE DEF e
<1>4. col \in Nat /\ p \in Nat /\ p <= Len(b.text)
  BY <1>1, <1>2
<1> HIDE DEF col, p
<1>5. Good([b EXCEPT !.row = r, !.x = col, !.pos = p])
  BY <1>4, PlacedGood
<1>6. QED
  BY <1>3, <1>5, Zenon

LEMMA LineStopBounds ==
  ASSUME NEW b, Good(b), NEW r \in b.lines
  PROVE  /\ r \in Nat /\ LineStop(b, r) \in Nat /\ Len(b.text) \in Nat
         /\ r <= LineStop(b, r) /\ LineStop(b, r) <= Len(b.text)
<1> DEFINE e == LineEnd(b.text, b.lines, r)
<1>1. b.text \in Seq(Char) /\ b.lines = LineIndex_insert(b.text) /\ b.lines \in SUBSET Nat
  BY BufferFields DEF Good, Sound
<1>2. /\ r \in Nat /\ e \in Nat /\ Len(b.text) \in Nat /\ r <= e /\ e <= Len(b.text)
      /\ (\E o \in b.lines : o > r) => r < e
  BY <1>1, LineEndBounds
<1> HIDE DEF e
<1>3. CASE IsLastRow(b, r)
  BY <1>2, <1>3 DEF LineStop
<1>4. CASE ~IsLastRow(b, r)
  <2>1. r < e
    BY <1>1, <1>2, <1>4 DEF IsLastRow
  <2>2. LineStop(b, r) = e - 1
    BY <1>4 DEF LineStop, e
  <2>3. QED
    BY <1>2, <2>1, <2>2
<1>5. QED
  BY <1>3, <1>4

LEMMA FromMouseGood ==
  ASSUME NEW b, Good(b), NEW c \in FromMouse(b)
  PROVE  Good(c)
<1>1. CASE c = b
  BY <1>1
<1>2. ASSUME NEW r \in b.lines, NEW p \in r .. LineStop(b, r),
             c = [b EXCEPT !.row = r, !.x = p - r, !.pos = p]
      PROVE  Good(c)
  <2>1. p \in Nat /\ p - r \in Nat /\ p <= Len(b.text)
    BY LineStopBounds
  <2>2. QED
    BY <1>2, <2>1, PlacedGood
<1>3. QED
  BY <1>1, <1>2 DEF FromMouse

-----------------------------------------------------------------------------
(* Typing. *)

LEMMA InsertAtCursorGood ==
  ASSUME NEW b, Good(b), NEW s \in Seq(Char), NEW recent \in BOOLEAN
  PROVE  /\ Good(Buffer_insert(b, b.pos, s, recent))
         /\ s # <<>> => Len(s) <= Buffer_insert(b, b.pos, s, recent).pos
<1>1. Sound(b) /\ b.pos \in Nat /\ b.pos <= Len(b.text)
  BY BufferFields DEF Good, Sound
<1>2. QED
  BY <1>1, InsertSound

LEMMA DeleteAtCursorGood ==
  ASSUME NEW b, Good(b), NEW recent \in BOOLEAN
  PROVE  Good(Buffer_delete(b, b.pos, recent))
BY DeleteSound DEF Good

LEMMA PairGood ==
  ASSUME NEW b, Good(b), NEW recent \in BOOLEAN
  PROVE  Good(Sync([Buffer_insert(b, b.pos, <<Open, Close>>, recent) EXCEPT !.pos = @ - 1]))
<1> DEFINE s == <<Open, Close>>
           i == Buffer_insert(b, b.pos, s, recent)
           p == i.pos - 1
<1>1. s \in Seq(Char) /\ s # <<>> /\ Len(s) = 2
  BY CharsAreChars
<1> HIDE DEF s
<1>2. Good(i) /\ Len(s) <= i.pos
  BY <1>1, InsertAtCursorGood
<1> HIDE DEF i
<1>3. i.pos \in Nat
  BY <1>2, BufferFields DEF Good, Sound
<1>4. p \in Nat
  BY <1>1, <1>2, <1>3
<1> HIDE DEF p
<1>5. Good(Sync([i EXCEPT !.pos = p]))
  BY <1>2, <1>4, SentGood
<1>6. QED
  BY <1>5 DEF i, p, s

LEMMA IndentationType ==
  ASSUME NEW b, Good(b)
  PROVE  Indentation(b) \in Nat
<1> DEFINE I == 1 .. LineEnd(b.text, b.lines, b.row) - b.row
           J == {i \in I : \A j \in 1 .. i : b.text[b.row + j] = Blank}
<1>1. /\ b.text \in Seq(Char) /\ b.lines = LineIndex_insert(b.text) /\ b.row \in b.lines
  BY BufferFields DEF Good, Sound
<1>2. LineEnd(b.text, b.lines, b.row) - b.row \in Int
  BY <1>1, LineEndBounds
<1>3. IsFiniteSet(I)
  BY <1>2, FS_Interval
<1> HIDE DEF I
<1>4. J \in SUBSET I
  OBVIOUS
<1> HIDE DEF J
<1>5. Cardinality(J) \in Nat
  BY <1>3, <1>4, FS_Subset, FS_CardinalityType
<1>6. get_current_line_indent(b) \in Nat
  BY <1>5 DEF get_current_line_indent, I, J
<1>7. QED
  BY <1>6, NumbersAreNumbers DEF Indentation

LEMMA EnterGood ==
  ASSUME NEW b, Good(b), NEW recent \in BOOLEAN
  PROVE  LET s == <<NL>> \o [i \in 1 .. Indentation(b) |-> Blank]
         IN  Good(Sync([Buffer_insert(b, b.pos, s, recent) EXCEPT !.pos = b.pos + Len(s)]))
<1> DEFINE n == Indentation(b)
           blanks == [j \in 1 .. n |-> Blank]
           s == <<NL>> \o blanks
           i == Buffer_insert(b, b.pos, s, recent)
           p == b.pos + Len(s)
<1>1. n \in Nat
  BY IndentationType
<1> HIDE DEF n
<1>2. blanks \in Seq(Char) /\ <<NL>> \in Seq(Char)
  BY <1>1, CharsAreChars, NLIsChar
<1> HIDE DEF blanks
<1>3. s \in Seq(Char) /\ Len(s) \in Nat
  BY <1>2, ConcatProperties, LenProperties
<1> HIDE DEF s
<1>4. Good(i)
  BY <1>3, InsertAtCursorGood
<1>5. b.pos \in Nat
  BY BufferFields DEF Good, Sound
<1>6. p \in Nat
  BY <1>3, <1>5
<1> HIDE DEF i, p
<1>7. Good(Sync([i EXCEPT !.pos = p]))
  BY <1>4, <1>6, SentGood
<1>8. QED
  BY <1>7 DEF i, p, s, blanks, n

-----------------------------------------------------------------------------
(* Clipboard and disk. *)

LEMMA CopiedChars ==
  ASSUME NEW b, Good(b)
  PROVE  Copied(b) \in Seq(Char)
<1> DEFINE p == SelStart(b)
           n == SelLen(b)
           to == IF p + n > Len(b.text) THEN Len(b.text) ELSE p + n
           m == to - p
<1>1. /\ b.text \in Seq(Char) /\ Len(b.text) \in Nat /\ b.pos \in Nat /\ b.anchor \in Nat
      /\ b.pos <= Len(b.text)
  BY BufferFields DEF Good, Sound
<1>2. p \in Nat /\ n \in Nat /\ p <= Len(b.text)
  BY <1>1 DEF SelStart, SelLen
<1>3. Copied(b) = SubSeq(b.text, p + 1, to)
  BY DEF Copied, String_get
<1> HIDE DEF p, n
<1>4. m \in Nat /\ p + m <= Len(b.text) /\ p + m = to
  BY <1>1, <1>2
<1> HIDE DEF to, m
<1>5. String_get(b.text, p, m) = SubSeq(b.text, p + 1, to)
  BY <1>1, <1>2, <1>4 DEF String_get
<1>6. String_get(b.text, p, m) \in Seq(Char)
  BY <1>1, <1>2, <1>4, GetChars
<1>7. QED
  BY <1>3, <1>5, <1>6

LEMMA CopyGood ==
  ASSUME NEW b, Good(b)
  PROVE  Good(Buffer_copy(b))
<1>1. (b.select /\ SelLen(b) > 0) \in BOOLEAN
  OBVIOUS
<1>2. Good([b EXCEPT !.select = b.select /\ SelLen(b) > 0])
  BY <1>1, FlagsGood, Zenon
<1>3. QED
  BY <1>2 DEF Buffer_copy

LEMMA SavedGood ==
  ASSUME NEW b, Good(b), NEW outcome
  PROVE  Good(Saved(b, outcome))
<1>1. (b.dirty /\ NothingWritten(b, outcome)) \in BOOLEAN
  OBVIOUS
<1>2. Good([b EXCEPT !.dirty = b.dirty /\ NothingWritten(b, outcome)])
  BY <1>1, FlagsGood, Zenon
<1>3. QED
  BY <1>2 DEF Saved

LEMMA WrittenChars ==
  ASSUME NEW b, Good(b), NEW outcome, NEW before \in Seq(Char),
         NEW d \in Fs_savefile(b, outcome, before)
  PROVE  d \in Seq(Char)
<1>1. b.text \in Seq(Char) /\ Len(b.text) \in Nat
  BY BufferFields DEF Good, Sound
<1>2. ASSUME NEW k \in 0 .. Len(b.text) - 1 PROVE SubSeq(b.text, 1, k) \in Seq(Char)
  <2>1. k \in Nat /\ k <= Len(b.text)
    BY <1>1
  <2>2. \A i \in 1 .. k : b.text[i] \in Char
    BY <1>1, <2>1, ElementOfSeq
  <2>3. QED
    BY <1>1, <2>1, <2>2, SubSeqProperties
<1>3. QED
  BY <1>1, <1>2 DEF Fs_savefile

-----------------------------------------------------------------------------
(* The invariant. *)

LEMMA FreshGood ==
  ASSUME NEW t \in Seq(Char)
  PROVE  Good(FreshBuffer(t))
<1> DEFINE b    == FreshBuffer(t)
           none == <<>>
           size == [k \in 0 .. 0 |-> 0]
<1>1. none \in Seq(ActionType) /\ Len(none) = 0
  OBVIOUS
<1> HIDE DEF none
<1>2. Undo_init = [actions |-> none, current |-> 0, is_undoing |-> FALSE]
  BY DEF Undo_init, none
<1>3. /\ Undo_init \in StackType /\ Undo_init.current = 0 /\ ~Undo_init.is_undoing
      /\ Undo_init.actions = none
  BY <1>1, <1>2 DEF StackType
<1>4. LineIndex_insert(t) \in SUBSET Nat /\ 0 \in LineIndex_insert(t) /\ Len(t) \in Nat
  BY IndexType, LenProperties
<1>5. /\ b \in BufferType /\ b.text = t /\ b.lines = LineIndex_insert(t) /\ b.pos = 0
      /\ b.row = 0 /\ b.undo = Undo_init
  <2>1. b = [text |-> t, lines |-> LineIndex_insert(t), row |-> 0, x |-> 0, pos |-> 0,
             anchor |-> 0, select |-> FALSE, dirty |-> FALSE, undo |-> Undo_init]
    BY DEF FreshBuffer
  <2> HIDE DEF b
  <2>2. QED
    BY <1>3, <1>4, <2>1 DEF BufferType
<1>6. size \in [0 .. Len(none) -> Nat] /\ size[0] = 0
  BY <1>1
<1> HIDE DEF size, b
<1>7. SizesFit(Undo_init, Len(t), size)
  BY <1>1, <1>3, <1>4, <1>6 DEF SizesFit
<1>8. HistoryFits(Undo_init, Len(t))
  BY <1>3, <1>6, <1>7 DEF HistoryFits
<1>9. Sound(b)
  BY <1>1, <1>3, <1>4, <1>5 DEF Sound
<1>10. QED
  BY <1>3, <1>5, <1>8, <1>9 DEF Good, b

LEMMA InitIInv == Init => IInv
<1> SUFFICES ASSUME Init PROVE IInv
  OBVIOUS
<1>1. <<>> \in Seq(Char)
  OBVIOUS
<1>2. named \in BOOLEAN /\ opened \in Seq(Char) /\ disk = opened /\ clip = <<>>
  BY <1>1, TextsAreTexts DEF Init
<1>3. Good(buf)
  BY <1>2, FreshGood DEF Init
<1>4. QED
  BY <1>1, <1>2, <1>3 DEF IInv

LEMMA NextIInv == IInv /\ [Next]_vars => IInv'
<1> SUFFICES ASSUME IInv, [Next]_vars PROVE IInv'
  OBVIOUS
<1>0. /\ Good(buf) /\ clip \in Seq(Char) /\ named \in BOOLEAN /\ disk \in Seq(Char)
      /\ opened \in Seq(Char)
  BY DEF IInv
\* What every action but the two saves leaves alone.
<1>1. ASSUME Good(buf'), clip' \in Seq(Char), UNCHANGED <<named, disk, opened>>
      PROVE  IInv'
  BY <1>0, <1>1 DEF IInv
<1>2. ASSUME NEW b, Good(b), Move(b) PROVE IInv'
  BY <1>0, <1>1, <1>2 DEF Move
<1>3. ASSUME NEW b, Good(b), Edit(b), clip' \in Seq(Char) PROVE IInv'
  BY <1>1, <1>3 DEF Edit
<1>4. ASSUME EditNext PROVE IInv'
  <2>1. PICK recent \in Pacing : \/ \E c \in Keys : Type(c, recent)
                                 \/ TypePair(recent)
                                 \/ PressEnter(recent)
                                 \/ PressBackspace(recent)
    BY <1>4 DEF EditNext
  <2>2. recent \in BOOLEAN
    BY PacingIsBoolean
  <2>3. ASSUME NEW c \in Keys, Type(c, recent) PROVE IInv'
    <3> DEFINE s == <<c>>
    <3>1. s \in Seq(Char)
      BY CharsAreChars
    <3> HIDE DEF s
    <3>2. Good(Buffer_insert(buf, buf.pos, s, recent))
      BY <1>0, <2>2, <3>1, InsertAtCursorGood
    <3>3. QED
      BY <1>0, <1>3, <2>3, <3>2 DEF Type, s
  <2>4. CASE TypePair(recent)
    BY <1>0, <1>3, <2>2, <2>4, PairGood DEF TypePair
  <2>5. CASE PressEnter(recent)
    BY <1>0, <1>3, <2>2, <2>5, EnterGood DEF PressEnter
  <2>6. CASE PressBackspace(recent)
    BY <1>0, <1>3, <2>2, <2>6, DeleteAtCursorGood DEF PressBackspace
  <2>7. QED
    BY <2>1, <2>3, <2>4, <2>5, <2>6
<1>5. ASSUME HistoryNext PROVE IInv'
  <2>1. CASE Nav_undo
    BY <1>0, <1>3, <2>1, UndoGood DEF Nav_undo
  <2>2. CASE Nav_redo
    BY <1>0, <1>3, <2>2, RedoGood DEF Nav_redo
  <2>3. QED
    BY <1>5, <2>1, <2>2 DEF HistoryNext
<1>6. ASSUME Clipboard_set(Copied(buf)) PROVE clip' \in Seq(Char)
  BY <1>0, <1>6, CopiedChars DEF Clipboard_set
<1>7. ASSUME CopyNext PROVE IInv'
  <2>1. Good(Buffer_copy(buf))
    BY <1>0, CopyGood
  <2>2. CASE Nav_copy
    <3>1. Good([Buffer_copy(buf) EXCEPT !.select = FALSE])
      BY <2>1, FlagsGood
    <3>2. QED
      BY <1>1, <1>6, <2>2, <3>1 DEF Nav_copy
  <2>3. ASSUME NEW recent \in Pacing, Nav_cut(recent) PROVE IInv'
    <3> DEFINE c == Buffer_copy(buf)
               d == Buffer_delete(c, c.pos, recent)
    <3>1. c.pos = buf.pos
      BY <1>0 DEF Buffer_copy, Good, Sound, BufferType
    <3>2. recent \in BOOLEAN
      BY PacingIsBoolean
    <3>3. Good(d)
      BY <2>1, <3>2, DeleteAtCursorGood
    <3> HIDE DEF c, d
    <3>4. Good([d EXCEPT !.select = FALSE])
      BY <3>3, FlagsGood
    <3>5. Clipboard_set(Copied(buf)) /\ Edit([d EXCEPT !.select = FALSE])
      BY <2>3, <3>1 DEF Nav_cut, c, d
    <3>6. QED
      BY <1>3, <1>6, <3>4, <3>5
  <2>4. QED
    BY <1>7, <2>2, <2>3 DEF CopyNext
<1>8. ASSUME PasteNext PROVE IInv'
  <2>1. ASSUME NEW s \in ForeignClips, ForeignCopy(s) PROVE IInv'
    BY <1>0, <2>1, TextsAreTexts DEF ForeignCopy, IInv
  <2>2. ASSUME NEW recent \in Pacing, Nav_paste(recent) PROVE IInv'
    <3> DEFINE b == IF buf.select THEN Buffer_delete(buf, buf.pos, recent) ELSE buf
    <3>1. recent \in BOOLEAN
      BY PacingIsBoolean
    <3>2. Good(b)
      BY <1>0, <3>1, DeleteAtCursorGood
    <3>3. Edit(Buffer_insert(b, b.pos, clip, recent)) /\ clip' = clip
      BY <2>2 DEF Nav_paste
    <3> HIDE DEF b
    <3>4. Good(Buffer_insert(b, b.pos, clip, recent))
      BY <1>0, <3>1, <3>2, InsertAtCursorGood
    <3>5. QED
      BY <1>0, <1>3, <3>3, <3>4
  <2>3. QED
    BY <1>8, <2>1, <2>2 DEF PasteNext
<1>9. ASSUME MoveNext PROVE IInv'
  <2>1. /\ buf.pos \in Nat /\ buf.row \in buf.lines /\ buf.row \in Nat /\ buf.x \in Nat
        /\ buf.pos <= Len(buf.text)
    BY <1>0, BufferFields DEF Good, Sound
  <2>2. ASSUME NEW b, Good(b), NEW r \in b.lines, Move(OnRow(b, r)) PROVE IInv'
    BY <1>2, <2>2, OnRowGood
  <2>3. ASSUME NEW shift \in BOOLEAN, \/ Nav_move_left(shift)
                                      \/ Nav_move_right(shift)
                                      \/ Nav_move_up(shift)
                                      \/ Nav_move_down(shift)
        PROVE  IInv'
    <3> DEFINE b == CHECK_SELECTION(buf, shift)
    <3>1. Good(b)
      BY <1>0, ShiftGood
    <3>2. b.pos \in Nat
      BY <3>1, BufferFields DEF Good, Sound
    <3>3. CASE Nav_move_left(shift)
      <4>1. Move(IF b.pos > 0 THEN Sync([b EXCEPT !.pos = b.pos - 1]) ELSE b)
        BY <3>3 DEF Nav_move_left
      <4> HIDE DEF b
      <4>2. CASE b.pos > 0
        <5> DEFINE p == b.pos - 1
        <5>1. p \in Nat
          BY <3>2, <4>2
        <5>2. Move(Sync([b EXCEPT !.pos = p]))
          BY <4>1, <4>2
        <5> HIDE DEF p
        <5>3. Good(Sync([b EXCEPT !.pos = p]))
          BY <3>1, <5>1, SentGood
        <5>4. QED
          BY <1>2, <5>2, <5>3
      <4>3. CASE ~(b.pos > 0)
        BY <1>2, <3>1, <4>1, <4>3
      <4>4. QED
        BY <4>2, <4>3
    <3>4. CASE Nav_move_right(shift)
      <4>1. Move(IF b.pos < Len(b.text) THEN Sync([b EXCEPT !.pos = b.pos + 1]) ELSE b)
        BY <3>4 DEF Nav_move_right
      <4> HIDE DEF b
      <4>2. CASE b.pos < Len(b.text)
        <5> DEFINE p == b.pos + 1
        <5>1. p \in Nat
          BY <3>2
        <5>2. Move(Sync([b EXCEPT !.pos = p]))
          BY <4>1, <4>2
        <5> HIDE DEF p
        <5>3. Good(Sync([b EXCEPT !.pos = p]))
          BY <3>1, <5>1, SentGood
        <5>4. QED
          BY <1>2, <5>2, <5>3
      <4>3. CASE ~(b.pos < Len(b.text))
        BY <1>2, <3>1, <4>1, <4>3
      <4>4. QED
        BY <4>2, <4>3
    <3>5. CASE Nav_move_up(shift)
      <4>1. Move(b) \/ \E r \in b.lines : Move(OnRow(b, r))
        BY <3>5 DEF Nav_move_up
      <4> HIDE DEF b
      <4>2. QED
        BY <1>2, <2>2, <3>1, <4>1
    <3>6. CASE Nav_move_down(shift)
      <4>1. Move(b) \/ \E r \in b.lines : Move(OnRow(b, r))
        BY <3>6 DEF Nav_move_down
      <4> HIDE DEF b
      <4>2. QED
        BY <1>2, <2>2, <3>1, <4>1
    <3>7. QED
      BY <2>3, <3>3, <3>4, <3>5, <3>6
  <2>4. CASE Nav_jump_up \/ Nav_jump_down
    BY <1>0, <2>2, <2>4 DEF Nav_jump_up, Nav_jump_down
  <2>5. CASE GotoStartOfLine
    <3> DEFINE r == buf.row
               z == 0
               c == [buf EXCEPT !.row = r, !.x = z, !.pos = r]
    <3>1. r \in buf.lines /\ r \in Nat /\ z \in Nat /\ r <= Len(buf.text)
      BY <1>0, <2>1, LineStopBounds
    <3>2. [buf EXCEPT !.x = 0, !.pos = buf.row] = c
      BY <1>0 DEF Good, Sound, BufferType
    <3> HIDE DEF r, z
    <3>3. Good(c)
      BY <1>0, <3>1, PlacedGood
    <3> HIDE DEF c
    <3>4. QED
      BY <1>2, <2>5, <3>2, <3>3 DEF GotoStartOfLine
  <2>6. CASE Nav_goto_end_of_line
    <3> DEFINE r == buf.row
               p == LineStop(buf, buf.row)
               x == p - r
               c == [buf EXCEPT !.row = r, !.x = x, !.pos = p]
    <3>1. r \in buf.lines /\ p \in Nat /\ x \in Nat /\ p <= Len(buf.text)
      BY <1>0, <2>1, LineStopBounds
    <3>2. [buf EXCEPT !.pos = p, !.x = p - buf.row] = c
      BY <1>0 DEF Good, Sound, BufferType
    <3>3. Move([buf EXCEPT !.pos = p, !.x = p - buf.row])
      BY <2>6 DEF Nav_goto_end_of_line
    <3> HIDE DEF r, x, p
    <3>4. Good(c)
      BY <1>0, <3>1, PlacedGood
    <3> HIDE DEF c
    <3>5. QED
      BY <1>2, <3>2, <3>3, <3>4
  <2>7. CASE PressEscape
    <3>1. Good([buf EXCEPT !.select = FALSE])
      BY <1>0, FlagsGood
    <3>2. QED
      BY <1>0, <1>1, <2>7, <3>1 DEF PressEscape
  <2>8. QED
    BY <1>9, <2>3, <2>4, <2>5, <2>6, <2>7 DEF MoveNext
<1>10. ASSUME MouseNext PROVE IInv'
  <2>1. CASE MousePress
    <3>1. PICK b \in FromMouse(buf) : Move([b EXCEPT !.anchor = b.pos, !.select = FALSE])
      BY <2>1 DEF MousePress
    <3>2. Good(b) /\ b.pos \in Nat
      BY <1>0, FromMouseGood, BufferFields DEF Good, Sound
    <3>3. Good([b EXCEPT !.anchor = b.pos, !.select = FALSE])
      BY <3>2, SelectedGood
    <3>4. QED
      BY <1>2, <3>1, <3>3
  <2>2. CASE MouseDrag
    <3>1. PICK b \in FromMouse(buf), scrollbar \in BOOLEAN :
            Move([b EXCEPT !.select = ~scrollbar /\ b.pos # b.anchor])
      BY <2>2 DEF MouseDrag
    <3> DEFINE s == ~scrollbar /\ b.pos # b.anchor
    <3>2. s \in BOOLEAN /\ Good(b)
      BY <1>0, FromMouseGood
    <3>3. Move([b EXCEPT !.select = s])
      BY <3>1
    <3> HIDE DEF s
    <3>4. Good([b EXCEPT !.select = s])
      BY <3>2, FlagsGood, Zenon
    <3>5. QED
      BY <1>2, <3>3, <3>4
  <2>3. CASE Nav_mouse_scroll
    <3>1. PICK r \in buf.lines : Move([buf EXCEPT !.row = r])
      BY <2>3 DEF Nav_mouse_scroll
    <3>2. /\ buf.x \in Nat /\ buf.pos \in Nat /\ buf.pos <= Len(buf.text)
      BY <1>0, BufferFields DEF Good, Sound
    <3> DEFINE x == buf.x
               p == buf.pos
               c == [buf EXCEPT !.row = r, !.x = x, !.pos = p]
    <3>3. [buf EXCEPT !.row = r] = c
      BY <1>0 DEF Good, Sound, BufferType
    <3> HIDE DEF x, p
    <3>4. Good(c)
      BY <1>0, <3>2, PlacedGood DEF x, p
    <3> HIDE DEF c
    <3>5. QED
      BY <1>2, <3>1, <3>3, <3>4
  <2>4. CASE Buffer_goto_search_hit
    <3>1. PICK r \in buf.lines, col \in 0 .. Len(buf.text) :
            /\ r + col < LineEnd(buf.text, buf.lines, r)
            /\ Move([buf EXCEPT !.row = r, !.x = col, !.pos = r + col, !.select = FALSE])
      BY <2>4 DEF Buffer_goto_search_hit
    <3>2. buf.text \in Seq(Char) /\ buf.lines = LineIndex_insert(buf.text)
      BY <1>0, BufferFields DEF Good, Sound
    <3> DEFINE p == r + col
               c == [buf EXCEPT !.row = r, !.x = col, !.pos = p]
    <3>3. col \in Nat /\ p \in Nat /\ p <= Len(buf.text)
      BY <3>1, <3>2, LineEndBounds
    <3>4. [buf EXCEPT !.row = r, !.x = col, !.pos = r + col, !.select = FALSE]
            = [c EXCEPT !.select = FALSE]
      BY <1>0 DEF Good, Sound, BufferType
    <3> HIDE DEF p
    <3>5. Good(c)
      BY <1>0, <3>3, PlacedGood
    <3> HIDE DEF c
    <3>6. Good([c EXCEPT !.select = FALSE])
      BY <3>5, FlagsGood
    <3>7. QED
      BY <1>2, <3>1, <3>4, <3>6
  <2>5. QED
    BY <1>10, <2>1, <2>2, <2>3, <2>4 DEF MouseNext
<1>11. ASSUME DiskNext PROVE IInv'
  <2>1. ASSUME NEW o, Buffer_save(o) PROVE IInv'
    <3>1. Good(buf') /\ disk' \in Seq(Char)
      BY <1>0, <2>1, SavedGood, WrittenChars DEF Buffer_save
    <3>2. QED
      BY <1>0, <2>1, <3>1 DEF Buffer_save, IInv
  <2>2. ASSUME NEW o, Nav_save_as(o) PROVE IInv'
    <3>1. <<>> \in Seq(Char)
      OBVIOUS
    <3>2. Good(buf') /\ disk' \in Seq(Char)
      BY <1>0, <2>2, <3>1, SavedGood, WrittenChars DEF Nav_save_as
    <3>3. QED
      BY <1>0, <2>2, <3>2 DEF Nav_save_as, IInv
  <2>3. QED
    BY <1>11, <2>1, <2>2 DEF DiskNext
<1>12. CASE UNCHANGED vars
  BY <1>0, <1>12 DEF vars, IInv
<1>13. QED
  BY <1>4, <1>5, <1>7, <1>8, <1>9, <1>10, <1>11, <1>12 DEF Next

-----------------------------------------------------------------------------
(* The theorems. *)

LEMMA SpecIInv == Spec => []IInv
BY InitIInv, NextIInv, PTL DEF Spec

LEMMA Consequences ==
  IInv => TypeOK /\ LineIndexMirrorsText /\ CursorInText /\ StoredOffsetsStayInText
<1> SUFFICES ASSUME IInv
             PROVE  TypeOK /\ LineIndexMirrorsText /\ CursorInText /\ StoredOffsetsStayInText
  OBVIOUS
<1>1. Good(buf) /\ Sound(buf) /\ buf \in BufferType
  BY DEF IInv, Good, Sound
<1>2. TypeOK
  BY <1>1 DEF IInv, TypeOK
<1>3. LineIndexMirrorsText /\ CursorInText
  BY <1>1 DEF Sound, LineIndexMirrorsText, CursorInText
<1>4. /\ buf.undo \in StackType /\ buf.undo.current <= Len(buf.undo.actions)
      /\ HistoryFits(buf.undo, Len(buf.text)) /\ Len(buf.text) \in Nat
  BY <1>1, BufferFields DEF Good, Sound
<1>5. CanUndo(buf.undo) /\ UndoneAction(buf.undo).type = UNDO_DELETE
        => UndoneAction(buf.undo).offset <= Len(buf.text)
  BY <1>4, UndoFits
<1>6. CanRedo(buf.undo) /\ RedoneAction(buf.undo).type = UNDO_INSERT
        => RedoneAction(buf.undo).offset <= Len(buf.text)
  BY <1>4, RedoFits
<1>7. QED
  BY <1>2, <1>3, <1>5, <1>6 DEF StoredOffsetsStayInText

\* Every reachable value of the buffer, the clipboard, the path flag and the file
\* content is of its type, whatever the handlers do (the Buffer struct of types.h).
THEOREM TypeCorrect == Spec => []TypeOK
BY SpecIInv, Consequences, PTL

\* The line index kept in place by Buffer_insert and Buffer_delete is always the
\* one LineIndex_insert would build from the text.
THEOREM IndexMirrors == Spec => []LineIndexMirrorsText
BY SpecIInv, Consequences, PTL

\* No handler leaves the cursor behind the end of the text, or on a row that the
\* line index does not have.
THEOREM CursorStays == Spec => []CursorInText
BY SpecIInv, Consequences, PTL

\* Buffer_undo and Buffer_redo never insert behind the end of the text, although
\* they do not always bring back the text an action was recorded in.
THEOREM OffsetsStay == Spec => []StoredOffsetsStayInText
BY SpecIInv, Consequences, PTL

-----------------------------------------------------------------------------
(* The sizes of the history, computed from the size of the text. *)

LEMMA NetIs ==
  ASSUME NEW n \in Nat, NEW act, \A k \in 1 .. n : Grown(act[k]) \in Int,
         NEW g, g = [k \in 0 .. n |-> IF k = 0 THEN 0 ELSE g[k - 1] + Grown(act[k])]
  PROVE  (CHOOSE f : f = [k \in 0 .. n |-> IF k = 0 THEN 0 ELSE f[k - 1] + Grown(act[k])]) = g
<1> DEFINE net == CHOOSE f : f = [k \in 0 .. n |-> IF k = 0 THEN 0 ELSE f[k - 1] + Grown(act[k])]
<1>1. net = [k \in 0 .. n |-> IF k = 0 THEN 0 ELSE net[k - 1] + Grown(act[k])]
  OBVIOUS
<1> HIDE DEF net
<1> DEFINE S == {k \in 0 .. n : net[k] = g[k]}
<1>2. 0 \in S
  BY <1>1
<1>3. ASSUME NEW k \in 0 .. n - 1, k \in S PROVE k + 1 \in S
  <2>1. k + 1 \in 0 .. n /\ k + 1 # 0 /\ (k + 1) - 1 = k
    OBVIOUS
  <2>2. net[k + 1] = net[k] + Grown(act[k + 1]) /\ g[k + 1] = g[k] + Grown(act[k + 1])
    BY <1>1, <2>1
  <2> QED
    BY <1>3, <2>1, <2>2
<1>4. 0 .. n \subseteq S
  <2> HIDE DEF S
  <2> QED
    BY <1>2, <1>3, UpTo
<1>5. \A k \in 0 .. n : net[k] = g[k]
  BY <1>4
<1> QED
  BY <1>1, <1>5 DEF net

LEMMA FitsIsFitsText ==
  ASSUME Good(buf) PROVE HistoryFitsText
<1> DEFINE us == buf.undo
           n == Len(us.actions)
           c == us.current
           len == Len(buf.text)
           act == us.actions
<1>1. PICK size \in [0 .. n -> Nat] : SizesFit(us, len, size)
  BY DEF Good, HistoryFits
<1>2. /\ n \in Nat /\ c \in 0 .. n /\ len \in Nat
      /\ \A k \in 1 .. n : /\ act[k].offset \in Nat /\ Len(act[k].text) \in Nat
                           /\ act[k].type \in {UNDO_INSERT, UNDO_DELETE}
  <2>1. us \in StackType /\ buf.text \in Seq(Char) /\ c <= n
    BY DEF Good, Sound, BufferType
  <2>2. act \in Seq(ActionType) /\ c \in Nat
    BY <2>1 DEF StackType
  <2>3. \A k \in 1 .. n : act[k] \in ActionType
    BY <2>2, ElementOfSeq
  <2>4. n \in Nat /\ len \in Nat
    BY <2>1, <2>2, LenProperties
  <2>5. \A k \in 1 .. n : /\ act[k].offset \in Nat /\ act[k].text \in Seq(Char)
                         /\ act[k].type \in {UNDO_INSERT, UNDO_DELETE}
    BY <2>3 DEF ActionType
  <2>6. \A k \in 1 .. n : Len(act[k].text) \in Nat
    BY <2>5, LenProperties
  <2> QED
    BY <2>1, <2>2, <2>4, <2>5, <2>6
<1>3. \A k \in 1 .. n : Grown(act[k]) \in Int
  BY <1>2 DEF Grown
<1> DEFINE g == [k \in 0 .. n |-> size[k] - size[0]]
<1> HIDE DEF n, c, len, act, us
<1>4. ASSUME NEW k \in 1 .. n PROVE size[k] = size[k - 1] + Grown(act[k])
  <2>1. ActionFits(act[k], size[k - 1], size[k])
    BY <1>1 DEF SizesFit, act, n
  <2>2. size[k] \in Nat /\ size[k - 1] \in Nat
    BY <1>1, <1>2
  <2> QED
    BY <1>2, <2>1, <2>2 DEF ActionFits, Grown
<1>5. g = [k \in 0 .. n |-> IF k = 0 THEN 0 ELSE g[k - 1] + Grown(act[k])]
  <2>1. ASSUME NEW k \in 0 .. n
        PROVE  g[k] = IF k = 0 THEN 0 ELSE g[k - 1] + Grown(act[k])
    <3>1. CASE k = 0
      BY <1>1, <1>2, <3>1
    <3>2. CASE k # 0
      <4>1. k \in 1 .. n /\ k - 1 \in 0 .. n
        BY <1>2, <3>2
      <4>2. /\ size[k] = size[k - 1] + Grown(act[k])
            /\ size[k] \in Nat /\ size[k - 1] \in Nat /\ size[0] \in Nat
        BY <1>1, <1>2, <1>4, <4>1
      <4> QED
        BY <1>3, <3>2, <4>1, <4>2
    <3> QED
      BY <3>1, <3>2
  <2> QED
    BY <2>1
<1> HIDE DEF g
<1> DEFINE net == CHOOSE f : f = [k \in 0 .. n |-> IF k = 0 THEN 0 ELSE f[k - 1] + Grown(act[k])]
           size2 == [k \in 0 .. n |-> len - net[c] + net[k]]
           gap == len - size[c]
<1>6. net = g
  BY <1>2, <1>3, <1>5, NetIs
<1>7. gap \in Nat
  <2>1. size[c] \in Nat /\ size[c] <= len
    BY <1>1, <1>2 DEF SizesFit, c, us
  <2> QED
    BY <1>2, <2>1
<1> HIDE DEF net
<1>8. \A k \in 0 .. n : size2[k] = size[k] + gap /\ size[k] \in Nat
  BY <1>1, <1>2, <1>6 DEF g
<1> HIDE DEF size2, gap
<1>9. \A k \in 0 .. n : size2[k] >= 0
  BY <1>7, <1>8
<1>10. size2[c] <= len
  BY <1>1, <1>2, <1>8 DEF gap
<1>11. ASSUME NEW k \in 1 .. n PROVE ActionFits(act[k], size2[k - 1], size2[k])
  <2>1. ActionFits(act[k], size[k - 1], size[k])
    BY <1>1 DEF SizesFit, act, n
  <2>2. k \in 0 .. n /\ k - 1 \in 0 .. n
    BY <1>2
  <2>3. /\ size2[k] = size[k] + gap /\ size2[k - 1] = size[k - 1] + gap
        /\ size[k] \in Nat /\ size[k - 1] \in Nat
    BY <1>8, <2>2
  <2> QED
    BY <1>2, <1>7, <2>1, <2>3, GrownFit
<1>12. SizesFit(us, len, size2)
  BY <1>10, <1>11 DEF SizesFit, n, act, c
<1> QED
  BY <1>9, <1>12 DEF HistoryFitsText, size2, net, n, act, c, us, len

\* Counted back from the size of the text, the recorded sizes put every action of the
\* history inside a text (the offsets that Buffer_undo and Buffer_redo replay at).
THEOREM HistoryFitsAlways == Spec => []HistoryFitsText
<1>1. IInv => HistoryFitsText
  BY FitsIsFitsText DEF IInv
<1> QED
  BY <1>1, SpecIInv, PTL

-----------------------------------------------------------------------------
(* The dirty flag. *)

\* The fields of a buffer that this is about; the others do not matter here.
Fields(b) == {"dirty", "text", "undo"} \subseteq DOMAIN b

Same(b, c) == c.text = b.text /\ c.dirty = b.dirty /\ c.undo = b.undo

LEMMA PosFields ==
  ASSUME NEW b, Fields(b), NEW p
  PROVE  Fields([b EXCEPT !.pos = p]) /\ Same(b, [b EXCEPT !.pos = p])
BY DEF Fields, Same

LEMMA SelectFields ==
  ASSUME NEW b, Fields(b), NEW q
  PROVE  Fields([b EXCEPT !.select = q]) /\ Same(b, [b EXCEPT !.select = q])
BY DEF Fields, Same

LEMMA PlaceFields ==
  ASSUME NEW b, Fields(b), NEW r, NEW x, NEW p
  PROVE  LET c == [b EXCEPT !.row = r, !.x = x, !.pos = p] IN Fields(c) /\ Same(b, c)
BY DEF Fields, Same

LEMMA SyncFields ==
  ASSUME NEW b, Fields(b)
  PROVE  Fields(Sync(b)) /\ Same(b, Sync(b))
BY DEF Fields, Same, Sync

\* The cursor moves after an edit.
LEMMA SyncedFields ==
  ASSUME NEW b, Fields(b), NEW p
  PROVE  LET c == Sync([b EXCEPT !.pos = p]) IN Fields(c) /\ Same(b, c)
<1> DEFINE m == [b EXCEPT !.pos = p]
<1>1. Fields(m) /\ Same(b, m)
  BY PosFields
<1> HIDE DEF m
<1>2. Fields(Sync(m)) /\ Same(m, Sync(m))
  BY <1>1, SyncFields
<1>3. QED
  BY <1>1, <1>2 DEF Same, m

\* Deleting marks the buffer dirty, also when there was nothing to delete.
LEMMA DeleteDirties ==
  ASSUME NEW b, Fields(b), NEW p, NEW recent
  PROVE  Fields(Buffer_delete(b, p, recent)) /\ Buffer_delete(b, p, recent).dirty
<1> DEFINE d == [b EXCEPT !.dirty = TRUE, !.select = FALSE]
<1>1. Fields(d) /\ d.dirty
  BY DEF Fields
<1>2. \A c : Fields(c) /\ c.dirty => Fields(Sync(c)) /\ Sync(c).dirty
  BY SyncFields DEF Same
<1> DEFINE start == IF b.select THEN SelStart(b) ELSE p - 1
           want  == IF b.select THEN SelLen(b) ELSE 1
           n     == IF start + want > Len(b.text) THEN Len(b.text) - start ELSE want
           u     == Undo_push(d.undo, UNDO_DELETE, start, String_get(b.text, start, n), recent)
           t     == String_delete(d.text, start, n)
           l     == line_index_delete_range(d.lines, start, n)
           c     == [d EXCEPT !.undo = u, !.text = t, !.lines = l, !.pos = start]
<1>3. Buffer_delete(b, p, recent) = IF want = 0 \/ start < 0 THEN d ELSE Sync(c)
  BY DEF Buffer_delete
<1> HIDE DEF d, u, t, l, start, want, n
<1>4. Fields(c) /\ c.dirty
  BY <1>1 DEF Fields
<1> HIDE DEF c
<1>5. Fields(Sync(c)) /\ Sync(c).dirty
  BY <1>2, <1>4
<1>6. QED
  BY <1>1, <1>3, <1>5

\* So does inserting.
LEMMA InsertDirties ==
  ASSUME NEW b, Fields(b), NEW p, NEW s, NEW recent
  PROVE  Fields(Buffer_insert(b, p, s, recent)) /\ Buffer_insert(b, p, s, recent).dirty
<1> DEFINE d == [b EXCEPT !.dirty = TRUE]
           c == IF b.select THEN Buffer_delete(d, d.pos, recent) ELSE d
           at == IF b.select THEN c.pos ELSE p
           e == [c EXCEPT
             !.undo  = Undo_push(@, UNDO_INSERT, at, s, recent),
             !.text  = String_insert(@, at, s),
             !.lines = line_index_insert_newlines(@, at, s),
             !.pos   = @ + Len(s)]
<1>1. Fields(d) /\ d.dirty
  BY DEF Fields
<1>2. Buffer_insert(b, p, s, recent) = IF s = <<>> THEN d ELSE Sync(e)
  BY DEF Buffer_insert
<1> HIDE DEF d
<1>3. Fields(c) /\ c.dirty
  BY <1>1, DeleteDirties
<1> HIDE DEF c, at
<1>4. Fields(e) /\ e.dirty
  BY <1>3 DEF Fields
<1> HIDE DEF e
<1>5. Fields(Sync(e)) /\ Sync(e).dirty
  BY <1>4, SyncFields DEF Same
<1>6. QED
  BY <1>1, <1>2, <1>5

LEMMA ReplayFields ==
  ASSUME NEW b, Fields(b), NEW us, NEW p
  PROVE  Fields(Replaying(b, us, p))
<1> DEFINE c == [b EXCEPT !.undo = [us EXCEPT !.is_undoing = TRUE], !.select = FALSE, !.pos = p]
<1>1. Fields(c)
  BY DEF Fields
<1>2. Replaying(b, us, p) = Sync(c)
  BY DEF Replaying
<1> HIDE DEF c
<1>3. QED
  BY <1>1, <1>2, SyncFields

LEMMA ReplayedFields ==
  ASSUME NEW b, Fields(b)
  PROVE  Fields(Replayed(b)) /\ Replayed(b).dirty = b.dirty
BY DEF Fields, Replayed

LEMMA UndoDirties ==
  ASSUME NEW b, Fields(b)
  PROVE  Buffer_undo(b).dirty
<1> DEFINE a == UndoneAction(b.undo)
           behind == Replaying(b, Undo_pop(b.undo), a.offset + Len(a.text))
           before == Replaying(b, Undo_pop(b.undo), a.offset)
           gone == Buffer_delete(behind, behind.pos, FALSE)
           back == Buffer_insert(before, a.offset, a.text, FALSE)
           moved == Sync([gone EXCEPT !.pos = a.offset])
<1>1. Buffer_undo(b) = Replayed(IF a.type = UNDO_INSERT THEN moved ELSE back)
  BY DEF Buffer_undo
<1>2. Fields(behind) /\ Fields(before)
  BY ReplayFields
<1> HIDE DEF behind, before, a
<1>3. Fields(gone) /\ gone.dirty /\ Fields(back) /\ back.dirty
  BY <1>2, DeleteDirties, InsertDirties
<1> HIDE DEF gone, back
<1>4. Fields(moved) /\ Same(gone, moved)
  BY <1>3, SyncedFields
<1> HIDE DEF moved
<1>5. moved.dirty
  BY <1>3, <1>4 DEF Same
<1>6. QED
  BY <1>1, <1>3, <1>4, <1>5, ReplayedFields

LEMMA RedoDirties ==
  ASSUME NEW b, Fields(b)
  PROVE  Buffer_redo(b).dirty
<1> DEFINE a == RedoneAction(b.undo)
           behind == Replaying(b, Redo_pop(b.undo), a.offset + Len(a.text))
           before == Replaying(b, Redo_pop(b.undo), a.offset)
           gone == Buffer_delete(behind, behind.pos, FALSE)
           back == Buffer_insert(before, a.offset, a.text, FALSE)
<1>1. Buffer_redo(b) = Replayed(IF a.type = UNDO_INSERT THEN back ELSE gone)
  BY DEF Buffer_redo
<1>2. Fields(behind) /\ Fields(before)
  BY ReplayFields
<1> HIDE DEF behind, before, a
<1>3. Fields(gone) /\ gone.dirty /\ Fields(back) /\ back.dirty
  BY <1>2, DeleteDirties, InsertDirties
<1> HIDE DEF gone, back
<1>4. QED
  BY <1>1, <1>3, ReplayedFields

-----------------------------------------------------------------------------
\* Every step but a save edits, and then the buffer is dirty, or leaves text, flag,
\* file and path alone.
Kept == Same(buf, buf') /\ UNCHANGED <<named, disk>>

LEMMA EditNextDirties ==
  ASSUME Fields(buf), EditNext
  PROVE  buf'.dirty
<1>1. ASSUME NEW c \in Keys, NEW recent \in Pacing, Type(c, recent)
      PROVE  buf'.dirty
  BY <1>1, InsertDirties DEF Type, Edit
<1>2. ASSUME NEW recent \in Pacing, TypePair(recent)
      PROVE  buf'.dirty
  <2> DEFINE b == Buffer_insert(buf, buf.pos, <<Open, Close>>, recent)
  <2>1. Fields(b) /\ b.dirty
    BY InsertDirties
  <2>2. buf' = Sync([b EXCEPT !.pos = b.pos - 1])
    BY <1>2 DEF TypePair, Edit
  <2> HIDE DEF b
  <2>3. Same(b, buf')
    BY <2>1, <2>2, SyncedFields
  <2>4. QED
    BY <2>1, <2>3 DEF Same
<1>3. ASSUME NEW recent \in Pacing, PressEnter(recent)
      PROVE  buf'.dirty
  <2> DEFINE s == <<NL>> \o [i \in 1 .. Indentation(buf) |-> Blank]
             b == Buffer_insert(buf, buf.pos, s, recent)
  <2>1. Fields(b) /\ b.dirty
    BY InsertDirties
  <2>2. buf' = Sync([b EXCEPT !.pos = buf.pos + Len(s)])
    BY <1>3 DEF PressEnter, Edit
  <2> HIDE DEF b, s
  <2>3. Same(b, buf')
    BY <2>1, <2>2, SyncedFields
  <2>4. QED
    BY <2>1, <2>3 DEF Same
<1>4. ASSUME NEW recent \in Pacing, PressBackspace(recent)
      PROVE  buf'.dirty
  BY <1>4, DeleteDirties DEF PressBackspace, Edit
<1>5. QED
  BY <1>1, <1>2, <1>3, <1>4 DEF EditNext

LEMMA HistoryNextDirties ==
  ASSUME Fields(buf), HistoryNext
  PROVE  buf'.dirty
BY UndoDirties, RedoDirties DEF HistoryNext, Nav_undo, Nav_redo, Edit

LEMMA CopyFields ==
  ASSUME NEW b, Fields(b)
  PROVE  Fields(Buffer_copy(b)) /\ Same(b, Buffer_copy(b))
BY SelectFields DEF Buffer_copy

LEMMA CopyNextDirties ==
  ASSUME Fields(buf), CopyNext
  PROVE  Kept \/ buf'.dirty
<1>1. ASSUME Nav_copy PROVE Kept
  <2>1. Fields(Buffer_copy(buf)) /\ Same(buf, Buffer_copy(buf))
    BY CopyFields
  <2>2. Same(Buffer_copy(buf), [Buffer_copy(buf) EXCEPT !.select = FALSE])
    BY <2>1, SelectFields
  <2>3. QED
    BY <1>1, <2>1, <2>2 DEF Nav_copy, Kept, Same
<1>2. ASSUME NEW recent \in Pacing, Nav_cut(recent)
      PROVE  buf'.dirty
  <2> DEFINE b == Buffer_delete(Buffer_copy(buf), buf.pos, recent)
  <2>1. Fields(b) /\ b.dirty
    BY CopyFields, DeleteDirties
  <2>2. buf' = [b EXCEPT !.select = FALSE]
    BY <1>2 DEF Nav_cut, Edit
  <2> HIDE DEF b
  <2>3. QED
    BY <2>1, <2>2 DEF Fields
<1>3. QED
  BY <1>1, <1>2 DEF CopyNext

LEMMA PasteNextDirties ==
  ASSUME Fields(buf), PasteNext
  PROVE  Kept \/ buf'.dirty
<1>1. ASSUME NEW s \in ForeignClips, ForeignCopy(s)
      PROVE  Kept
  BY <1>1 DEF ForeignCopy, Kept, Same
<1>2. ASSUME NEW recent \in Pacing, Nav_paste(recent)
      PROVE  buf'.dirty
  <2> DEFINE b == IF buf.select THEN Buffer_delete(buf, buf.pos, recent) ELSE buf
  <2>1. Fields(b)
    BY DeleteDirties
  <2>2. buf' = Buffer_insert(b, b.pos, clip, recent)
    BY <1>2 DEF Nav_paste, Edit
  <2> HIDE DEF b
  <2>3. QED
    BY <2>1, <2>2, InsertDirties
<1>3. QED
  BY <1>1, <1>2 DEF PasteNext

LEMMA CheckFields ==
  ASSUME NEW b, Fields(b), NEW shift
  PROVE  Fields(CHECK_SELECTION(b, shift)) /\ Same(b, CHECK_SELECTION(b, shift))
BY DEF CHECK_SELECTION, Same, Fields

LEMMA RowFields ==
  ASSUME NEW b, Fields(b), NEW r
  PROVE  Same(b, OnRow(b, r))
BY PlaceFields DEF OnRow

LEMMA MoveNextKeeps ==
  ASSUME Fields(buf), MoveNext
  PROVE  Kept
<1>1. ASSUME NEW b, Same(buf, b), Move(b)
      PROVE  Kept
  BY <1>1 DEF Move, Kept
<1> DEFINE checked(shift) == CHECK_SELECTION(buf, shift)
<1>2. \A shift : Fields(checked(shift)) /\ Same(buf, checked(shift))
  BY CheckFields
<1>3. ASSUME NEW shift \in BOOLEAN, NEW p
      PROVE  Same(buf, Sync([checked(shift) EXCEPT !.pos = p]))
  <2> DEFINE m == [checked(shift) EXCEPT !.pos = p]
  <2> HIDE DEF checked
  <2>1. Fields(m) /\ Same(checked(shift), m)
    BY <1>2, PosFields
  <2> HIDE DEF m
  <2>2. Same(m, Sync(m))
    BY <2>1, SyncFields
  <2>3. QED
    BY <1>2, <2>1, <2>2 DEF Same, m
<1>4. ASSUME NEW shift \in BOOLEAN, NEW r
      PROVE  Same(buf, OnRow(checked(shift), r))
  <2> HIDE DEF checked
  <2>1. QED
    BY <1>2, RowFields DEF Same
<1>5. ASSUME NEW shift \in BOOLEAN,
             Nav_move_left(shift) \/ Nav_move_right(shift)
      PROVE  Kept
  <2>1. CASE Nav_move_left(shift)
    BY <1>1, <1>2, <1>3, <2>1 DEF Nav_move_left
  <2>2. CASE Nav_move_right(shift)
    BY <1>1, <1>2, <1>3, <2>2 DEF Nav_move_right
  <2>3. QED
    BY <1>5, <2>1, <2>2
<1>6. ASSUME NEW shift \in BOOLEAN,
             Nav_move_up(shift) \/ Nav_move_down(shift)
      PROVE  Kept
  <2>1. CASE Nav_move_up(shift)
    BY <1>1, <1>2, <1>4, <2>1 DEF Nav_move_up
  <2>2. CASE Nav_move_down(shift)
    BY <1>1, <1>2, <1>4, <2>2 DEF Nav_move_down
  <2>3. QED
    BY <1>6, <2>1, <2>2
<1>7. ASSUME Nav_jump_up \/ Nav_jump_down
      PROVE  Kept
  BY <1>1, <1>7, RowFields DEF Nav_jump_up, Nav_jump_down
<1>8. ASSUME GotoStartOfLine \/ Nav_goto_end_of_line
      PROVE  Kept
  BY <1>8 DEF GotoStartOfLine, Nav_goto_end_of_line, Move, Kept, Same, Fields
<1>9. ASSUME PressEscape
      PROVE  Kept
  BY <1>9 DEF PressEscape, Kept, Same, Fields
<1>10. QED
  BY <1>5, <1>6, <1>7, <1>8, <1>9 DEF MoveNext

LEMMA MouseNextKeeps ==
  ASSUME Fields(buf), MouseNext
  PROVE  Kept
<1>1. ASSUME NEW b \in FromMouse(buf)
      PROVE  Fields(b) /\ Same(buf, b)
  <2>1. CASE b = buf
    BY <2>1 DEF Same
  <2>2. CASE \E r \in buf.lines : \E p \in r .. LineStop(buf, r) :
               b = [buf EXCEPT !.row = r, !.x = p - r, !.pos = p]
    <3>1. PICK r \in buf.lines : \E p \in r .. LineStop(buf, r) :
            b = [buf EXCEPT !.row = r, !.x = p - r, !.pos = p]
      BY <2>2
    <3>2. PICK p \in r .. LineStop(buf, r) :
            b = [buf EXCEPT !.row = r, !.x = p - r, !.pos = p]
      BY <3>1
    <3>3. QED
      BY <3>2 DEF Fields, Same
  <2>3. QED
    BY <1>1, <2>1, <2>2 DEF FromMouse
<1>2. ASSUME MousePress
      PROVE  Kept
  <2>1. PICK b \in FromMouse(buf) : Move([b EXCEPT !.anchor = b.pos, !.select = FALSE])
    BY <1>2 DEF MousePress
  <2>2. QED
    BY <1>1, <2>1 DEF Move, Kept, Same, Fields
<1>3. ASSUME MouseDrag
      PROVE  Kept
  <2>1. PICK b \in FromMouse(buf), scrollbar \in BOOLEAN :
          Move([b EXCEPT !.select = ~scrollbar /\ b.pos # b.anchor])
    BY <1>3 DEF MouseDrag
  <2>2. QED
    BY <1>1, <2>1 DEF Move, Kept, Same, Fields
<1>4. ASSUME Nav_mouse_scroll
      PROVE  Kept
  BY <1>4 DEF Nav_mouse_scroll, Move, Kept, Same, Fields
<1>5. ASSUME Buffer_goto_search_hit
      PROVE  Kept
  BY <1>5 DEF Buffer_goto_search_hit, Move, Kept, Same, Fields
<1>6. QED
  BY <1>2, <1>3, <1>4, <1>5 DEF MouseNext

-----------------------------------------------------------------------------
\* What a save does when the disk stores all of a text or refuses the file, and a
\* file just created can be written.
DiskHonest == SaveOutcomes \subseteq {"ok", "fail"} /\ SaveAsOutcomes \subseteq {"ok"}

\* A new file that stays empty holds an empty text, and any other one the text.
LEMMA DiskNextSaves ==
  ASSUME DiskHonest, Fields(buf), UnsavedIsDirty, buf.dirty \in BOOLEAN, DiskNext
  PROVE  UnsavedIsDirty'
<1>1. \A d : LET b == [buf EXCEPT !.dirty = d] IN b.text = buf.text /\ b.dirty = d
  BY DEF Fields
<1>2. ASSUME NEW o \in SaveOutcomes, Buffer_save(o)
      PROVE  UnsavedIsDirty'
  <2>1. o = "ok" \/ o = "fail"
    BY DEF DiskHonest
  <2>2. buf'.text = buf.text /\ buf'.dirty = (buf.dirty /\ NothingWritten(buf, o))
    BY <1>1, <1>2 DEF Buffer_save, Saved
  <2>3. CASE NothingWritten(buf, o)
    BY <1>2, <2>2, <2>3 DEF Buffer_save, Fs_savefile, UnsavedIsDirty
  <2>4. CASE ~NothingWritten(buf, o)
    <3>1. o = "ok"
      BY <2>1, <2>4 DEF NothingWritten
    <3>2. disk' = buf.text
      BY <1>2, <2>4, <3>1 DEF Buffer_save, Fs_savefile
    <3>3. QED
      BY <2>2, <3>2 DEF UnsavedIsDirty
  <2>5. QED
    BY <2>3, <2>4
<1>3. ASSUME NEW o \in SaveAsOutcomes, Nav_save_as(o)
      PROVE  UnsavedIsDirty'
  <2>1. o = "ok"
    BY DEF DiskHonest
  <2>2. buf'.text = buf.text
    BY <1>1, <1>3 DEF Nav_save_as, Saved
  <2>3. disk' = buf.text
    BY <1>3, <2>1 DEF Nav_save_as, Fs_savefile, NothingWritten
  <2>4. QED
    BY <2>2, <2>3 DEF UnsavedIsDirty
<1>4. QED
  BY <1>2, <1>3 DEF DiskNext

\* A buffer whose file holds something else than its text is marked dirty: every
\* edit marks it, and a save drops the mark only when something was written, which
\* is all of the text unless the disk stores a part (Fs_savefile does not notice).
THEOREM UnsavedStaysDirty == DiskHonest => (Spec => []UnsavedIsDirty)
<1> SUFFICES ASSUME DiskHonest PROVE Spec => []UnsavedIsDirty
  OBVIOUS
<1>1. IInv => Fields(buf) /\ buf.dirty \in BOOLEAN
  BY DEF IInv, Good, Sound, BufferType, Fields
<1>2. Init => UnsavedIsDirty
  BY DEF Init, FreshBuffer, UnsavedIsDirty
<1>3. IInv /\ UnsavedIsDirty /\ [Next]_vars => UnsavedIsDirty'
  <2> SUFFICES ASSUME IInv, UnsavedIsDirty, [Next]_vars
               PROVE  UnsavedIsDirty'
    OBVIOUS
  <2>1. Fields(buf) /\ buf.dirty \in BOOLEAN
    BY <1>1
  <2>2. CASE DiskNext
    BY <2>1, <2>2, DiskNextSaves
  <2>3. CASE Kept \/ buf'.dirty
    BY <2>3 DEF Kept, Same, UnsavedIsDirty
  <2>4. CASE UNCHANGED vars
    BY <2>4 DEF vars, UnsavedIsDirty
  <2>5. QED
    BY <2>1, <2>2, <2>3, <2>4, EditNextDirties, HistoryNextDirties, CopyNextDirties,
       PasteNextDirties, MoveNextKeeps, MouseNextKeeps DEF Next
<1>4. QED
  BY <1>2, <1>3, SpecIInv, PTL DEF Spec

-----------------------------------------------------------------------------
(* The texts that the history passes through. *)

\* The action a makes the text u of the text t.
Does(a, t, u) ==
  IF a.type = UNDO_INSERT
  THEN a.offset <= Len(t) /\ u = String_insert(t, a.offset, a.text)
  ELSE a.offset <= Len(u) /\ t = String_insert(u, a.offset, a.text)

\* after[k] is the text when k actions are applied.
PassesThrough(us, from, t, after) ==
  /\ after[0] = from
  /\ after[us.current] = t
  /\ \A k \in 1 .. Len(us.actions) : Does(us.actions[k], after[k - 1], after[k])

Explains(us, from, t) ==
  \E after \in [0 .. Len(us.actions) -> Seq(Char)] : PassesThrough(us, from, t, after)

\* A merged action does what the last one and the edit do one after the other.
LEMMA MergedDoes ==
  ASSUME NEW last \in ActionType, NEW type \in {UNDO_INSERT, UNDO_DELETE},
         NEW offset \in Nat, NEW text \in Seq(Char), text # <<>>,
         CanMerge(last, type, offset, text),
         NEW v \in Seq(Char), NEW t \in Seq(Char), NEW u \in Seq(Char),
         Does(last, v, t), Does(UndoAction(type, offset, text), t, u)
  PROVE  Does(Merged(last, type, offset, text), v, u)
<1> DEFINE m == Merged(last, type, offset, text)
           o == last.offset
           s == last.text
<1>1. /\ o \in Nat /\ s \in Seq(Char) /\ Len(s) \in Nat /\ Len(text) \in Nat
      /\ Len(v) \in Nat /\ Len(t) \in Nat /\ Len(u) \in Nat
  BY LenProperties DEF ActionType
<1>2. IF type = UNDO_INSERT THEN offset <= Len(t) /\ u = String_insert(t, offset, text)
      ELSE offset <= Len(u) /\ t = String_insert(u, offset, text)
  BY DEF Does, UndoAction
<1>3. IF last.type = UNDO_INSERT THEN o <= Len(v) /\ t = String_insert(v, o, s)
      ELSE o <= Len(t) /\ v = String_insert(t, o, s)
  BY DEF Does
<1>4. UNDO_INSERT # UNDO_DELETE
  BY DEF UNDO_INSERT, UNDO_DELETE
<1>5. CASE ContinuesBackspace(last, type, offset, text)
  <2>1. m = [last EXCEPT !.offset = offset, !.text = text \o s]
    BY <1>5 DEF Merged
  <2>2. m.type = last.type /\ m.offset = offset /\ m.text = text \o s
    BY <2>1 DEF ActionType
  <2>3. last.type # UNDO_INSERT /\ type # UNDO_INSERT /\ offset + Len(text) = o
    BY <1>4, <1>5 DEF ContinuesBackspace
  <2>4. offset <= Len(u) /\ t = String_insert(u, offset, text) /\ v = String_insert(t, o, s)
    BY <1>2, <1>3, <2>3
  <2> HIDE DEF m
  <2>5. v = String_insert(u, offset, text \o s)
    BY <1>1, <2>3, <2>4, InsertBehind
  <2> QED
    BY <2>2, <2>3, <2>4, <2>5 DEF Does, m
<1>6. CASE ~ContinuesBackspace(last, type, offset, text)
  <2>1. m = [last EXCEPT !.text = s \o text]
    BY <1>6 DEF Merged
  <2>2. m.type = last.type /\ m.offset = o /\ m.text = s \o text
    BY <2>1 DEF ActionType
  <2> HIDE DEF m
  <2>3. CASE ContinuesTyping(last, type, offset)
    <3>1. last.type = UNDO_INSERT /\ type = UNDO_INSERT /\ o + Len(s) = offset
      BY <2>3 DEF ContinuesTyping
    <3>2. o <= Len(v) /\ t = String_insert(v, o, s) /\ u = String_insert(t, offset, text)
      BY <1>2, <1>3, <3>1
    <3>3. u = String_insert(v, o, s \o text)
      <4>1. u = String_insert(String_insert(v, o, s), o + Len(s), text)
        BY <3>1, <3>2
      <4> QED
        BY <1>1, <3>2, <4>1, InsertBehind
    <3> QED
      BY <2>2, <3>1, <3>2, <3>3 DEF Does, m
  <2>4. CASE ContinuesDeleteKey(last, type, offset)
    <3>1. last.type # UNDO_INSERT /\ type # UNDO_INSERT /\ offset = o
      BY <1>4, <2>4 DEF ContinuesDeleteKey
    <3>2. o <= Len(u) /\ t = String_insert(u, o, text) /\ v = String_insert(t, o, s)
      BY <1>2, <1>3, <3>1
    <3>3. v = String_insert(u, o, s \o text)
      BY <1>1, <3>2, InsertBefore
    <3> QED
      BY <2>2, <3>1, <3>2, <3>3 DEF Does, m
  <2> QED
    BY <1>6, <2>3, <2>4 DEF CanMerge
<1> QED
  BY <1>5, <1>6

\* Recording an edit extends what the history explains by the edit.
LEMMA PushExplains ==
  ASSUME NEW us \in StackType, us.current <= Len(us.actions), ~us.is_undoing,
         NEW type \in {UNDO_INSERT, UNDO_DELETE}, NEW offset \in Nat,
         NEW text \in Seq(Char), text # <<>>, NEW recent \in BOOLEAN,
         NEW from, NEW t \in Seq(Char), NEW u \in Seq(Char), Explains(us, from, t),
         Does(UndoAction(type, offset, text), t, u)
  PROVE  Explains(Undo_push(us, type, offset, text, recent), from, u)
<1> DEFINE new == Undo_push(us, type, offset, text, recent)
           n   == us.current
<1>1. PICK after \in [0 .. Len(us.actions) -> Seq(Char)] : PassesThrough(us, from, t, after)
  BY DEF Explains
<1>2. /\ n \in Nat /\ Len(us.actions) \in Nat /\ n <= Len(us.actions)
      /\ \A k \in 1 .. n : us.actions[k] \in ActionType
  BY KeptHistory
<1>3. /\ after[0] = from /\ after[n] = t
      /\ \A k \in 0 .. n : after[k] \in Seq(Char)
      /\ \A k \in 1 .. n : Does(us.actions[k], after[k - 1], after[k])
  <2>1. after[0] = from /\ after[us.current] = t
    BY <1>1 DEF PassesThrough
  <2>2. \A k \in 1 .. Len(us.actions) : Does(us.actions[k], after[k - 1], after[k])
    BY <1>1 DEF PassesThrough
  <2>3. \A k \in 0 .. n : k \in 0 .. Len(us.actions)
    BY <1>2
  <2>4. \A k \in 1 .. n : k \in 1 .. Len(us.actions)
    BY <1>2
  <2> QED
    BY <1>1, <2>1, <2>2, <2>3, <2>4
<1>4. \/ Appended(us, new, UndoAction(type, offset, text))
      \/ MergedLast(us, new, type, offset, text)
  BY PushCases
<1> HIDE DEF new, n
<1>5. CASE Appended(us, new, UndoAction(type, offset, text))
  <2>1. /\ new.current = n + 1 /\ Len(new.actions) = n + 1
        /\ \A k \in 1 .. n : new.actions[k] = us.actions[k]
        /\ new.actions[n + 1] = UndoAction(type, offset, text)
    BY <1>5 DEF Appended, n
  <2> DEFINE after2 == [k \in 0 .. n + 1 |-> IF k <= n THEN after[k] ELSE u]
  <2>2. /\ \A k \in 0 .. n : after2[k] = after[k]
        /\ after2[n + 1] = u
        /\ after2 \in [0 .. n + 1 -> Seq(Char)]
    BY <1>2, <1>3
  <2> HIDE DEF after2
  <2>3. ASSUME NEW k \in 1 .. n + 1
        PROVE  Does(new.actions[k], after2[k - 1], after2[k])
    <3>1. CASE k \in 1 .. n
      <4>1. k \in 0 .. n /\ k - 1 \in 0 .. n
        BY <1>2, <3>1
      <4> QED
        BY <1>3, <2>1, <2>2, <3>1, <4>1
    <3>2. CASE k = n + 1
      <4>1. n \in Nat
        BY <1>2
      <4>2. k - 1 = n /\ n \in 0 .. n
        BY <3>2, <4>1
      <4> QED
        BY <1>3, <2>1, <2>2, <3>2, <4>2
    <3> QED
      BY <1>2, <3>1, <3>2
  <2>4. after2[0] = from /\ after2[new.current] = u
    BY <1>2, <1>3, <2>1, <2>2
  <2> QED
    BY <2>1, <2>2, <2>3, <2>4 DEF Explains, PassesThrough, new
<1>6. CASE MergedLast(us, new, type, offset, text)
  <2>1. /\ n > 0 /\ new.current = n /\ Len(new.actions) = n
        /\ \A k \in 1 .. n - 1 : new.actions[k] = us.actions[k]
        /\ CanMerge(us.actions[n], type, offset, text)
        /\ new.actions[n] = Merged(us.actions[n], type, offset, text)
    BY <1>6 DEF MergedLast, n
  <2> DEFINE after2 == [k \in 0 .. n |-> IF k < n THEN after[k] ELSE u]
  <2>2. /\ \A k \in 0 .. n - 1 : after2[k] = after[k]
        /\ after2[n] = u
        /\ after2 \in [0 .. n -> Seq(Char)]
    BY <1>2, <1>3
  <2> HIDE DEF after2
  <2>3. ASSUME NEW k \in 1 .. n
        PROVE  Does(new.actions[k], after2[k - 1], after2[k])
    <3>1. CASE k \in 1 .. n - 1
      <4>1. k \in 0 .. n - 1 /\ k - 1 \in 0 .. n - 1
        BY <1>2, <3>1
      <4> QED
        BY <1>3, <2>1, <2>2, <3>1, <4>1
    <3>2. CASE k = n
      <4>1. n \in 1 .. n /\ n - 1 \in 0 .. n - 1 /\ n - 1 \in 0 .. n
        BY <1>2, <2>1
      <4>2. us.actions[n] \in ActionType /\ Does(us.actions[n], after[n - 1], t)
        BY <1>2, <1>3, <4>1
      <4>3. after[n - 1] \in Seq(Char)
        BY <1>3, <4>1
      <4>4. Does(Merged(us.actions[n], type, offset, text), after[n - 1], u)
        BY <2>1, <4>2, <4>3, MergedDoes
      <4> QED
        BY <2>1, <2>2, <3>2, <4>1, <4>4
    <3> QED
      BY <1>2, <3>1, <3>2
  <2>4. after2[0] = from /\ after2[new.current] = u
    BY <1>2, <1>3, <2>1, <2>2
  <2> QED
    BY <2>1, <2>2, <2>3, <2>4 DEF Explains, PassesThrough, new
<1> QED
  BY <1>4, <1>5, <1>6 DEF new

\* Undoing moves back to the text before the action, redoing on to the one behind it.
LEMMA UndoneExplains ==
  ASSUME NEW us \in StackType, us.current <= Len(us.actions), CanUndo(us),
         NEW from, NEW t, Explains(us, from, t)
  PROVE  \E u \in Seq(Char) : Does(UndoneAction(us), u, t) /\ Explains(Undo_pop(us), from, u)
<1> DEFINE n == us.current
<1>1. PICK after \in [0 .. Len(us.actions) -> Seq(Char)] : PassesThrough(us, from, t, after)
  BY DEF Explains
<1>2. n \in 1 .. Len(us.actions) /\ n - 1 \in 0 .. Len(us.actions)
  BY LenProperties DEF StackType, CanUndo
<1>3. Undo_pop(us).actions = us.actions /\ Undo_pop(us).current = n - 1
  BY DEF Undo_pop, StackType
<1>4. Does(UndoneAction(us), after[n - 1], t)
  BY <1>1, <1>2 DEF PassesThrough, UndoneAction
<1>5. PassesThrough(Undo_pop(us), from, after[n - 1], after)
  BY <1>1, <1>3 DEF PassesThrough
<1> QED
  BY <1>1, <1>2, <1>3, <1>4, <1>5 DEF Explains

LEMMA RedoneExplains ==
  ASSUME NEW us \in StackType, CanRedo(us),
         NEW from, NEW t, Explains(us, from, t)
  PROVE  \E u \in Seq(Char) : Does(RedoneAction(us), t, u) /\ Explains(Redo_pop(us), from, u)
<1> DEFINE n == us.current
<1>1. PICK after \in [0 .. Len(us.actions) -> Seq(Char)] : PassesThrough(us, from, t, after)
  BY DEF Explains
<1>2. n + 1 \in 1 .. Len(us.actions) /\ n + 1 \in 0 .. Len(us.actions) /\ (n + 1) - 1 = n
  BY LenProperties DEF StackType, CanRedo
<1>3. Redo_pop(us).actions = us.actions /\ Redo_pop(us).current = n + 1
  BY DEF Redo_pop, StackType
<1>4. Does(RedoneAction(us), t, after[n + 1])
  BY <1>1, <1>2 DEF PassesThrough, RedoneAction
<1>5. PassesThrough(Redo_pop(us), from, after[n + 1], after)
  BY <1>1, <1>3 DEF PassesThrough
<1> QED
  BY <1>1, <1>2, <1>3, <1>4, <1>5 DEF Explains

-----------------------------------------------------------------------------
(* The texts and histories that edits make. *)

LEMMA SoundFields ==
  ASSUME NEW b, Sound(b)
  PROVE  Fields(b)
BY DEF Sound, BufferType, Fields

LEMMA DeleteText ==
  ASSUME NEW b, Sound(b), NEW recent
  PROVE  LET d == Buffer_delete(b, b.pos, recent)
             s == DeleteStart(b)
             n == DeleteLen(b)
         IN  /\ NothingToDelete(b) => d.text = b.text /\ d.undo = b.undo
             /\ ~NothingToDelete(b) =>
                  /\ d.text = String_delete(b.text, s, n)
                  /\ d.undo = Undo_push(b.undo, UNDO_DELETE, s, String_get(b.text, s, n), recent)
<1> DEFINE d0 == [b EXCEPT !.dirty = TRUE, !.select = FALSE]
           d  == Buffer_delete(b, b.pos, recent)
           s  == DeleteStart(b)
           n  == DeleteLen(b)
           us == Undo_push(d0.undo, UNDO_DELETE, s, String_get(b.text, s, n), recent)
           t  == String_delete(d0.text, s, n)
           l  == line_index_delete_range(d0.lines, s, n)
           e  == [d0 EXCEPT !.undo = us, !.text = t, !.lines = l, !.pos = s]
<1>1. d0 \in BufferType /\ d0.text = b.text /\ d0.undo = b.undo
  BY DEF Sound, BufferType
<1>2. CASE NothingToDelete(b)
  <2>1. d = d0
    BY <1>2, DeleteCases
  <2> QED
    BY <1>1, <1>2, <2>1
<1>3. CASE ~NothingToDelete(b)
  <2>1. d = Sync(e)
    BY <1>3, DeleteCases
  <2> HIDE DEF d0, us, t, l, d
  <2>2. Fields(e) /\ e.text = t /\ e.undo = us
    BY <1>1 DEF Fields, BufferType
  <2> HIDE DEF e
  <2>3. d.text = t /\ d.undo = us
    BY <2>1, <2>2, SyncFields DEF Same
  <2> QED
    BY <1>1, <1>3, <2>3 DEF t, us, d
<1> QED
  BY <1>2, <1>3

LEMMA InsertText ==
  ASSUME NEW b, Fields(b), NEW p, NEW s, s # <<>>, NEW recent \in BOOLEAN
  PROVE  LET d  == [b EXCEPT !.dirty = TRUE]
             c  == IF b.select THEN Buffer_delete(d, d.pos, recent) ELSE d
             at == IF b.select THEN c.pos ELSE p
             i  == Buffer_insert(b, p, s, recent)
         IN  /\ i.text = String_insert(c.text, at, s)
             /\ i.undo = Undo_push(c.undo, UNDO_INSERT, at, s, recent)
<1> DEFINE d  == [b EXCEPT !.dirty = TRUE]
           c  == IF b.select THEN Buffer_delete(d, d.pos, recent) ELSE d
           at == IF b.select THEN c.pos ELSE p
           us == Undo_push(c.undo, UNDO_INSERT, at, s, recent)
           t  == String_insert(c.text, at, s)
           e  == [c EXCEPT !.undo = us, !.text = t,
                           !.lines = line_index_insert_newlines(@, at, s), !.pos = @ + Len(s)]
<1>1. Fields(d)
  BY DEF Fields
<1>2. Fields(c)
  <2> HIDE DEF d
  <2> QED
    BY <1>1, DeleteDirties
<1>3. Buffer_insert(b, p, s, recent) = Sync(e)
  BY DEF Buffer_insert
<1> HIDE DEF c, us, t
<1>4. Fields(e) /\ e.text = t /\ e.undo = us
  BY <1>2 DEF Fields
<1> HIDE DEF e
<1>5. Sync(e).text = t /\ Sync(e).undo = us
  BY <1>4, SyncFields DEF Same
<1> QED
  BY <1>3, <1>5 DEF t, us, c

LEMMA PlainInsertText ==
  ASSUME NEW b, Fields(b), ~b.select, NEW p, NEW s, s # <<>>, NEW recent \in BOOLEAN
  PROVE  LET i == Buffer_insert(b, p, s, recent)
         IN  /\ i.text = String_insert(b.text, p, s)
             /\ i.undo = Undo_push(b.undo, UNDO_INSERT, p, s, recent)
<1> DEFINE d  == [b EXCEPT !.dirty = TRUE]
           c  == IF b.select THEN Buffer_delete(d, d.pos, recent) ELSE d
           at == IF b.select THEN c.pos ELSE p
           i  == Buffer_insert(b, p, s, recent)
<1>1. /\ i.text = String_insert(c.text, at, s)
      /\ i.undo = Undo_push(c.undo, UNDO_INSERT, at, s, recent)
  BY InsertText
<1>2. d.text = b.text /\ d.undo = b.undo
  BY DEF Fields
<1> HIDE DEF d, i
<1>3. c = d /\ at = p
  OBVIOUS
<1> HIDE DEF c, at
<1> QED
  BY <1>1, <1>2, <1>3 DEF i

\* The history of b makes its text of from.
Tells(b, from) == Explains(b.undo, from, b.text)

LEMMA SameTells ==
  ASSUME NEW b, NEW c, Same(b, c), NEW from, Tells(b, from)
  PROVE  Tells(c, from)
BY DEF Same, Tells

LEMMA DeleteTells ==
  ASSUME NEW b, Good(b), NEW recent \in BOOLEAN, NEW from, Tells(b, from)
  PROVE  Tells(Buffer_delete(b, b.pos, recent), from)
<1> DEFINE d == Buffer_delete(b, b.pos, recent)
           s == DeleteStart(b)
           n == DeleteLen(b)
           t == String_delete(b.text, s, n)
           cut == String_get(b.text, s, n)
<1>1. /\ Sound(b) /\ b.undo \in StackType /\ b.undo.current <= Len(b.undo.actions)
      /\ ~b.undo.is_undoing /\ b.text \in Seq(Char) /\ Len(b.text) \in Nat
      /\ Explains(b.undo, from, b.text)
  BY BufferFields DEF Good, Sound, Tells
<1>2. CASE NothingToDelete(b)
  BY <1>1, <1>2, DeleteText DEF Tells
<1>3. CASE ~NothingToDelete(b)
  <2>1. d.text = t /\ d.undo = Undo_push(b.undo, UNDO_DELETE, s, cut, recent)
    BY <1>1, <1>3, DeleteText
  <2>2. s \in Nat /\ n \in Nat /\ s + n <= Len(b.text)
    BY <1>1, <1>3, DeleteRange
  <2> HIDE DEF s, n, d
  <2>3. cut \in Seq(Char) /\ Len(cut) = n
    BY <1>1, <2>2, GetChars
  <2>4. t \in Seq(Char) /\ Len(t) = Len(b.text) - n
    BY <1>1, <2>2, DeleteLength
  <2>5. b.text = String_insert(t, s, cut)
    BY <1>1, <2>2, InsertDeleted
  <2> HIDE DEF t, cut
  <2>6. CASE cut = <<>>
    <3>1. n = 0
      BY <2>3, <2>6, EmptySeq
    <3>2. \A i \in 1 .. Len(t) : t[i] = b.text[i]
      <4>1. \A i \in 1 .. Len(t) : t[i] = IF i <= s THEN b.text[i] ELSE b.text[i + n]
        BY <1>1, <2>2, DeleteChars DEF t
      <4> QED
        BY <1>1, <2>4, <3>1, <4>1
    <3>3. Len(t) = Len(b.text)
      BY <1>1, <2>4, <3>1
    <3>4. t = b.text
      BY <1>1, <2>4, <3>2, <3>3, SeqEqual
    <3>5. d.undo = b.undo
      BY <2>1, <2>6 DEF Undo_push
    <3> QED
      BY <1>1, <2>1, <3>4, <3>5 DEF Tells, d
  <2>7. CASE cut # <<>>
    <3>1. s <= Len(t)
      BY <1>1, <2>2, <2>4
    <3>2. Does(UndoAction(UNDO_DELETE, s, cut), b.text, t)
      BY <2>5, <3>1 DEF Does, UndoAction, UNDO_INSERT, UNDO_DELETE
    <3>3. Explains(Undo_push(b.undo, UNDO_DELETE, s, cut, recent), from, t)
      BY <1>1, <2>2, <2>3, <2>4, <2>7, <3>2, PushExplains
    <3> QED
      BY <2>1, <3>3 DEF Tells, d
  <2> QED
    BY <2>6, <2>7
<1> QED
  BY <1>2, <1>3

LEMMA InsertTells ==
  ASSUME NEW b, Good(b), NEW p \in Nat, p <= Len(b.text), NEW s \in Seq(Char),
         NEW recent \in BOOLEAN, NEW from, Tells(b, from)
  PROVE  Tells(Buffer_insert(b, p, s, recent), from)
<1> DEFINE d  == [b EXCEPT !.dirty = TRUE]
           c  == IF b.select THEN Buffer_delete(d, d.pos, recent) ELSE d
           at == IF b.select THEN c.pos ELSE p
           i  == Buffer_insert(b, p, s, recent)
<1>1. Fields(b) /\ Good(d) /\ Same(b, [b EXCEPT !.select = b.select]) /\ Len(b.text) \in Nat
  BY SelectFields, SoundFields, FlagsGood, BufferFields DEF Good, Sound
<1>2. d.text = b.text /\ d.undo = b.undo /\ d.select = b.select
  BY DEF Good, Sound, BufferType
<1> HIDE DEF d
<1>3. Tells(d, from)
  BY <1>2 DEF Tells
<1>4. CASE s = <<>>
  <2>1. i = d
    BY <1>4 DEF Buffer_insert, d
  <2> QED
    BY <1>3, <2>1
<1>5. CASE s # <<>>
  <2>1. Good(c) /\ Tells(c, from)
    BY <1>1, <1>3, DeleteTells, DeleteAtCursorGood
  <2>2. at \in Nat /\ at <= Len(c.text)
    <3>1. CASE b.select
      BY <2>1, <3>1, BufferFields DEF Good, Sound
    <3>2. CASE ~b.select
      BY <1>2, <3>2
    <3> QED
      BY <3>1, <3>2
  <2>3. i.text = String_insert(c.text, at, s) /\ i.undo = Undo_push(c.undo, UNDO_INSERT, at, s, recent)
    BY <1>1, <1>5, InsertText DEF d
  <2> HIDE DEF c, at, i
  <2>4. /\ c.undo \in StackType /\ c.undo.current <= Len(c.undo.actions)
        /\ ~c.undo.is_undoing /\ c.text \in Seq(Char)
        /\ Explains(c.undo, from, c.text)
    BY <2>1, BufferFields DEF Good, Sound, Tells
  <2> DEFINE t == String_insert(c.text, at, s)
  <2>5. t \in Seq(Char)
    BY <2>2, <2>4, InsertLength
  <2>6. Does(UndoAction(UNDO_INSERT, at, s), c.text, t)
    BY <2>2 DEF Does, UndoAction
  <2> HIDE DEF t
  <2>7. UNDO_INSERT \in {UNDO_INSERT, UNDO_DELETE}
    OBVIOUS
  <2>8. Explains(Undo_push(c.undo, UNDO_INSERT, at, s, recent), from, t)
    BY <1>5, <2>2, <2>4, <2>5, <2>6, <2>7, PushExplains
  <2> QED
    BY <2>3, <2>8 DEF Tells, t, i
<1> QED
  BY <1>4, <1>5

\* x has the text t, on the undoing stack us.
ReplayedTo(x, us, t) ==
  Fields(x) /\ x.text = t /\ x.undo = [us EXCEPT !.is_undoing = TRUE]

\* Replaying an insertion whole, or a deletion of one character.
LEMMA ReplayedInsertText ==
  ASSUME NEW b, Sound(b), NEW us \in StackType, us.current <= Len(us.actions), NEW p \in Nat,
         NEW s \in Seq(Char), s # <<>>
  PROVE  ReplayedTo(Buffer_insert(Replaying(b, us, p), p, s, FALSE), us,
                    String_insert(b.text, p, s))
<1> DEFINE c == Replaying(b, us, p)
           x == Buffer_insert(c, p, s, FALSE)
<1>1. /\ Sound(c) /\ c.text = b.text /\ ~c.select
      /\ c.undo = [us EXCEPT !.is_undoing = TRUE] /\ c.undo.is_undoing
  BY ReplayingSound
<1> HIDE DEF c
<1>2. Fields(c)
  BY <1>1, SoundFields
<1>3. x.text = String_insert(c.text, p, s) /\ x.undo = Undo_push(c.undo, UNDO_INSERT, p, s, FALSE)
  BY <1>1, <1>2, PlainInsertText
<1>4. Fields(x)
  BY <1>2, InsertDirties
<1> HIDE DEF x
<1>5. x.undo = c.undo
  BY <1>1, <1>3 DEF Undo_push
<1> QED
  BY <1>1, <1>3, <1>4, <1>5 DEF ReplayedTo, x, c

LEMMA ReplayedDeleteText ==
  ASSUME NEW b, Sound(b), NEW us \in StackType, us.current <= Len(us.actions),
         NEW p \in Nat \ {0}, p <= Len(b.text)
  PROVE  LET c == Replaying(b, us, p)
             x == Buffer_delete(c, c.pos, FALSE)
         IN  ReplayedTo(x, us, String_delete(b.text, p - 1, 1))
<1> DEFINE c == Replaying(b, us, p)
           x == Buffer_delete(c, c.pos, FALSE)
           o == p - 1
<1>1. /\ Sound(c) /\ c.text = b.text /\ ~c.select
      /\ c.undo = [us EXCEPT !.is_undoing = TRUE] /\ c.undo.is_undoing
      /\ c.pos = IF p > Len(b.text) THEN Len(b.text) ELSE p
  BY ReplayingSound
<1>2. c.pos = p /\ Len(b.text) \in Nat
  BY <1>1, BufferFields DEF Sound
<1> HIDE DEF c
<1>3. Fields(c) /\ Fields(x)
  BY <1>1, SoundFields, DeleteDirties
<1>4. DeleteStart(c) = o /\ DeleteWant(c) = 1 /\ DeleteLen(c) = 1 /\ ~NothingToDelete(c)
  <2>1. DeleteStart(c) = o /\ DeleteWant(c) = 1
    BY <1>1, <1>2 DEF DeleteStart, DeleteWant
  <2> QED
    BY <1>1, <1>2, <2>1 DEF DeleteLen, NothingToDelete
<1> HIDE DEF o
<1>5. /\ x.text = String_delete(c.text, DeleteStart(c), DeleteLen(c))
      /\ x.undo = Undo_push(c.undo, UNDO_DELETE, DeleteStart(c),
                            String_get(c.text, DeleteStart(c), DeleteLen(c)), FALSE)
  BY <1>1, <1>4, DeleteText, Zenon
<1> HIDE DEF x
<1>6. x.undo = c.undo
  BY <1>1, <1>5 DEF Undo_push
<1> QED
  BY <1>1, <1>3, <1>4, <1>5, <1>6 DEF ReplayedTo, x, c, o

\* The end of an undo or redo that made the text u.
LEMMA ReplayedTells ==
  ASSUME NEW b, NEW us \in StackType, ~us.is_undoing,
         NEW t, ReplayedTo(b, us, t), NEW from, Explains(us, from, t)
  PROVE  Tells(Replayed(b), from)
<1>0. Fields(b) /\ b.text = t /\ b.undo = [us EXCEPT !.is_undoing = TRUE]
  BY DEF ReplayedTo
<1>1. [b.undo EXCEPT !.is_undoing = FALSE] = us
  BY <1>0 DEF StackType
<1>2. Replayed(b) = [b EXCEPT !.undo = us]
  BY <1>1 DEF Replayed
<1>3. Replayed(b).undo = us /\ Replayed(b).text = b.text
  BY <1>0, <1>2 DEF Fields
<1> QED
  BY <1>0, <1>3 DEF Tells

\* Undo restores the text that the history explains, unless it deletes a part.
LEMMA UndoTells ==
  ASSUME NEW b, Good(b), CanUndo(b.undo), NEW from, Tells(b, from),
         ~ReplayedInPart(UndoneAction(b.undo), UNDO_INSERT)
  PROVE  Tells(Buffer_undo(b), from)
<1> DEFINE a  == UndoneAction(b.undo)
           us == Undo_pop(b.undo)
           p  == a.offset + Len(a.text)
           x  == LET c == Replaying(b, us, p) IN Buffer_delete(c, c.pos, FALSE)
           y  == Buffer_insert(Replaying(b, us, a.offset), a.offset, a.text, FALSE)
           z  == Sync([x EXCEPT !.pos = a.offset])
<1>1. /\ Sound(b) /\ ~b.undo.is_undoing /\ HistoryFits(b.undo, Len(b.text))
      /\ b.undo \in StackType /\ b.undo.current <= Len(b.undo.actions)
      /\ b.text \in Seq(Char) /\ Len(b.text) \in Nat
  BY BufferFields DEF Good, Sound
<1>2. a \in ActionType /\ Len(a.text) \in Nat \ {0}
  BY <1>1, UndoFits, Zenon
<1>3. us \in StackType /\ us.current <= Len(us.actions) /\ ~us.is_undoing
  <2>1. /\ b.undo.current \in Nat /\ Len(b.undo.actions) \in Nat /\ b.undo.current # 0
    BY <1>1, LenProperties DEF StackType, CanUndo
  <2>2. b.undo.current - 1 \in Nat /\ b.undo.current - 1 <= Len(b.undo.actions)
    BY <1>1, <2>1
  <2> QED
    BY <1>1, <2>2 DEF Undo_pop, StackType
<1>4. PICK u \in Seq(Char) : Does(a, u, b.text) /\ Explains(us, from, u)
  BY <1>1, UndoneExplains DEF Tells
<1>5. Buffer_undo(b) = Replayed(IF a.type = UNDO_INSERT THEN z ELSE y)
  BY DEF Buffer_undo
<1>6. a.type = UNDO_INSERT => ~(Len(a.text) > 1)
  BY DEF ReplayedInPart
<1>7. a.offset \in Nat /\ a.text \in Seq(Char) /\ a.text # <<>>
  BY <1>2 DEF ActionType
<1> HIDE DEF us, a
<1>8. CASE a.type = UNDO_INSERT
  <2>1. a.offset <= Len(u) /\ b.text = String_insert(u, a.offset, a.text)
    BY <1>4, <1>8 DEF Does
  <2>2. Len(a.text) = 1
    <3>1. \A m \in Nat \ {0} : ~(m > 1) => m = 1
      OBVIOUS
    <3> QED
      BY <1>2, <1>6, <1>8, <3>1, Zenon
  <2>3. p \in Nat \ {0} /\ p <= Len(b.text) /\ p - 1 = a.offset
    <3>1. Len(b.text) = Len(u) + Len(a.text) /\ Len(u) \in Nat
      BY <1>7, <2>1, InsertLength, LenProperties
    <3> QED
      BY <1>7, <2>1, <2>2, <3>1
  <2> HIDE DEF p
  <2>4. ReplayedTo(x, us, String_delete(b.text, p - 1, 1))
    BY <1>1, <1>3, <2>3, ReplayedDeleteText
  <2>5. String_delete(b.text, a.offset, 1) = u
    <3>1. String_delete(String_insert(u, a.offset, a.text), a.offset, Len(a.text)) = u
      BY <1>7, <2>1, DeleteInserted
    <3> QED
      BY <2>1, <2>2, <3>1
  <2> HIDE DEF x
  <2>6. ReplayedTo(z, us, u)
    BY <2>3, <2>4, <2>5, SyncedFields DEF ReplayedTo, Same
  <2> HIDE DEF z
  <2>7. Tells(Replayed(z), from)
    BY <1>3, <1>4, <2>6, ReplayedTells
  <2> QED
    BY <1>5, <1>8, <2>7
<1>9. CASE a.type # UNDO_INSERT
  <2>1. u = String_insert(b.text, a.offset, a.text)
    BY <1>4, <1>9 DEF Does
  <2>2. ReplayedTo(y, us, u)
    BY <1>1, <1>3, <1>7, <2>1, ReplayedInsertText
  <2> HIDE DEF y
  <2>3. Tells(Replayed(y), from)
    BY <1>3, <1>4, <2>2, ReplayedTells
  <2> QED
    BY <1>5, <1>9, <2>3
<1> QED
  BY <1>8, <1>9

\* The same for redo.
LEMMA RedoTells ==
  ASSUME NEW b, Good(b), CanRedo(b.undo), NEW from, Tells(b, from),
         ~ReplayedInPart(RedoneAction(b.undo), UNDO_DELETE)
  PROVE  Tells(Buffer_redo(b), from)
<1> DEFINE a  == RedoneAction(b.undo)
           us == Redo_pop(b.undo)
           p  == a.offset + Len(a.text)
           x  == LET c == Replaying(b, us, p) IN Buffer_delete(c, c.pos, FALSE)
           y  == Buffer_insert(Replaying(b, us, a.offset), a.offset, a.text, FALSE)
<1>1. /\ Sound(b) /\ ~b.undo.is_undoing /\ HistoryFits(b.undo, Len(b.text))
      /\ b.undo \in StackType /\ b.undo.current <= Len(b.undo.actions)
      /\ b.text \in Seq(Char) /\ Len(b.text) \in Nat
  BY BufferFields DEF Good, Sound
<1>2. a \in ActionType /\ Len(a.text) \in Nat \ {0}
  BY <1>1, RedoFits, Zenon
<1>3. us \in StackType /\ us.current <= Len(us.actions) /\ ~us.is_undoing
  <2>1. /\ b.undo.current \in Nat /\ Len(b.undo.actions) \in Nat
        /\ b.undo.current < Len(b.undo.actions)
    BY <1>1, LenProperties DEF StackType, CanRedo
  <2>2. b.undo.current + 1 \in Nat /\ b.undo.current + 1 <= Len(b.undo.actions)
    BY <1>1, <2>1
  <2> QED
    BY <1>1, <2>2 DEF Redo_pop, StackType
<1>4. PICK u \in Seq(Char) : Does(a, b.text, u) /\ Explains(us, from, u)
  BY <1>1, RedoneExplains DEF Tells
<1>5. Buffer_redo(b) = Replayed(IF a.type = UNDO_INSERT THEN y ELSE x)
  BY DEF Buffer_redo
<1>6. a.type = UNDO_DELETE => ~(Len(a.text) > 1)
  BY DEF ReplayedInPart
<1>7. /\ a.offset \in Nat /\ a.text \in Seq(Char) /\ a.text # <<>>
      /\ a.type \in {UNDO_INSERT, UNDO_DELETE}
  BY <1>2 DEF ActionType
<1> HIDE DEF us, a
<1>8. CASE a.type # UNDO_INSERT
  <2>1. a.offset <= Len(u) /\ b.text = String_insert(u, a.offset, a.text)
    BY <1>4, <1>8 DEF Does
  <2>2. Len(a.text) = 1
    <3> DEFINE m == Len(a.text)
    <3>1. a.type = UNDO_DELETE
      BY <1>7, <1>8
    <3>2. m \in Nat /\ m # 0
      BY <1>2
    <3>3. ~(m > 1)
      BY <1>6, <3>1, Zenon
    <3> HIDE DEF m
    <3>4. m = 1
      BY ONLY <3>2, <3>3
    <3>5. QED
      BY <3>4 DEF m
  <2>3. p \in Nat \ {0} /\ p <= Len(b.text) /\ p - 1 = a.offset
    <3>1. Len(b.text) = Len(u) + Len(a.text) /\ Len(u) \in Nat
      BY <1>7, <2>1, InsertLength, LenProperties
    <3> QED
      BY <1>7, <2>1, <2>2, <3>1
  <2> HIDE DEF p
  <2>4. ReplayedTo(x, us, String_delete(b.text, p - 1, 1))
    BY <1>1, <1>3, <2>3, ReplayedDeleteText
  <2>5. String_delete(b.text, a.offset, 1) = u
    <3>1. String_delete(String_insert(u, a.offset, a.text), a.offset, Len(a.text)) = u
      BY <1>7, <2>1, DeleteInserted
    <3> QED
      BY <2>1, <2>2, <3>1
  <2> HIDE DEF x
  <2>6. Tells(Replayed(x), from)
    BY <1>3, <1>4, <2>3, <2>4, <2>5, ReplayedTells
  <2> QED
    BY <1>5, <1>8, <2>6
<1>9. CASE a.type = UNDO_INSERT
  <2>1. u = String_insert(b.text, a.offset, a.text)
    BY <1>4, <1>9 DEF Does
  <2>2. ReplayedTo(y, us, u)
    BY <1>1, <1>3, <1>7, <2>1, ReplayedInsertText
  <2> HIDE DEF y
  <2>3. Tells(Replayed(y), from)
    BY <1>3, <1>4, <2>2, ReplayedTells
  <2> QED
    BY <1>5, <1>9, <2>3
<1> QED
  BY <1>8, <1>9

-----------------------------------------------------------------------------
(* The handlers. *)

LEMMA InsertAtCursorTells ==
  ASSUME NEW b, Good(b), NEW s \in Seq(Char), NEW recent \in BOOLEAN, NEW from, Tells(b, from)
  PROVE  LET i == Buffer_insert(b, b.pos, s, recent) IN Fields(i) /\ Tells(i, from)
<1>1. b.pos \in Nat /\ b.pos <= Len(b.text) /\ Fields(b)
  BY SoundFields, BufferFields DEF Good, Sound
<1> QED
  BY <1>1, InsertTells, InsertDirties

LEMMA EditNextTells ==
  ASSUME Good(buf), EditNext, NEW from, Tells(buf, from)
  PROVE  Tells(buf', from)
<1>1. PICK recent \in Pacing : \/ \E c \in Keys : Type(c, recent)
                               \/ TypePair(recent)
                               \/ PressEnter(recent)
                               \/ PressBackspace(recent)
  BY DEF EditNext
<1>2. recent \in BOOLEAN
  BY PacingIsBoolean
<1>3. ASSUME NEW s \in Seq(Char), NEW p,
             buf' = Sync([Buffer_insert(buf, buf.pos, s, recent) EXCEPT !.pos = p])
      PROVE  Tells(buf', from)
  <2> DEFINE i == Buffer_insert(buf, buf.pos, s, recent)
  <2>1. Fields(i) /\ Tells(i, from)
    BY <1>2, InsertAtCursorTells
  <2> HIDE DEF i
  <2>2. Same(i, Sync([i EXCEPT !.pos = p]))
    BY <2>1, SyncedFields
  <2>3. buf' = Sync([i EXCEPT !.pos = p])
    BY <1>3 DEF i
  <2> QED
    BY <2>1, <2>2, <2>3, SameTells
<1>4. ASSUME NEW c \in Keys, Type(c, recent) PROVE Tells(buf', from)
  <2> DEFINE s == <<c>>
  <2>1. s \in Seq(Char)
    BY CharsAreChars
  <2>2. buf' = Buffer_insert(buf, buf.pos, s, recent)
    BY <1>4 DEF Type, Edit
  <2> HIDE DEF s
  <2> QED
    BY <1>2, <2>1, <2>2, InsertAtCursorTells
<1>5. CASE TypePair(recent)
  <2> DEFINE s == <<Open, Close>>
             p == Buffer_insert(buf, buf.pos, s, recent).pos - 1
  <2>1. s \in Seq(Char)
    BY CharsAreChars
  <2>2. buf' = Sync([Buffer_insert(buf, buf.pos, s, recent) EXCEPT !.pos = p])
    BY <1>5 DEF TypePair, Edit
  <2> HIDE DEF s, p
  <2> QED
    BY <1>3, <2>1, <2>2
<1>6. CASE PressEnter(recent)
  <2> DEFINE n == Indentation(buf)
             blanks == [j \in 1 .. n |-> Blank]
             s == <<NL>> \o blanks
             p == buf.pos + Len(s)
  <2>1. n \in Nat
    BY IndentationType
  <2>2. buf' = Sync([Buffer_insert(buf, buf.pos, s, recent) EXCEPT !.pos = p])
    BY <1>6 DEF PressEnter, Edit
  <2> HIDE DEF n
  <2>3. blanks \in Seq(Char) /\ <<NL>> \in Seq(Char)
    BY <2>1, CharsAreChars, NLIsChar
  <2> HIDE DEF blanks
  <2>4. s \in Seq(Char)
    BY <2>3, ConcatProperties
  <2> HIDE DEF s, p
  <2> QED
    BY <1>3, <2>2, <2>4
<1>7. CASE PressBackspace(recent)
  BY <1>2, <1>7, DeleteTells DEF PressBackspace, Edit
<1> QED
  BY <1>1, <1>4, <1>5, <1>6, <1>7

LEMMA CopyNextTells ==
  ASSUME Good(buf), CopyNext, NEW from, Tells(buf, from)
  PROVE  Tells(buf', from)
<1>1. Fields(buf) /\ Good(Buffer_copy(buf)) /\ Same(buf, Buffer_copy(buf))
  BY SoundFields, CopyGood, CopyFields DEF Good
<1>2. Fields(Buffer_copy(buf)) /\ Tells(Buffer_copy(buf), from)
  BY <1>1, CopyFields, SameTells
<1>3. CASE Nav_copy
  <2>1. Same(Buffer_copy(buf), [Buffer_copy(buf) EXCEPT !.select = FALSE])
    BY <1>2, SelectFields
  <2> QED
    BY <1>2, <1>3, <2>1, SameTells DEF Nav_copy
<1>4. ASSUME NEW recent \in Pacing, Nav_cut(recent) PROVE Tells(buf', from)
  <2> DEFINE c == Buffer_copy(buf)
             d == Buffer_delete(c, c.pos, recent)
  <2>1. c.pos = buf.pos
    BY DEF Buffer_copy, Good, Sound, BufferType
  <2>2. recent \in BOOLEAN
    BY PacingIsBoolean
  <2>3. Fields(d) /\ Tells(d, from)
    BY <1>1, <1>2, <2>2, DeleteTells, DeleteDirties
  <2>4. buf' = [d EXCEPT !.select = FALSE]
    BY <1>4, <2>1 DEF Nav_cut, Edit
  <2> HIDE DEF d
  <2> QED
    BY <2>3, <2>4, SelectFields, SameTells
<1> QED
  BY <1>3, <1>4 DEF CopyNext

LEMMA PasteNextTells ==
  ASSUME Good(buf), clip \in Seq(Char), PasteNext, NEW from, Tells(buf, from)
  PROVE  Tells(buf', from)
<1>1. ASSUME NEW s \in ForeignClips, ForeignCopy(s) PROVE Tells(buf', from)
  BY <1>1 DEF ForeignCopy, Tells
<1>2. ASSUME NEW recent \in Pacing, Nav_paste(recent) PROVE Tells(buf', from)
  <2> DEFINE b == IF buf.select THEN Buffer_delete(buf, buf.pos, recent) ELSE buf
  <2>1. recent \in BOOLEAN
    BY PacingIsBoolean
  <2>2. Good(b) /\ Tells(b, from)
    BY <2>1, DeleteAtCursorGood, DeleteTells
  <2>3. buf' = Buffer_insert(b, b.pos, clip, recent)
    BY <1>2 DEF Nav_paste, Edit
  <2> HIDE DEF b
  <2> QED
    BY <2>1, <2>2, <2>3, InsertAtCursorTells
<1> QED
  BY <1>1, <1>2 DEF PasteNext

LEMMA DiskNextTells ==
  ASSUME Good(buf), DiskNext, NEW from, Tells(buf, from)
  PROVE  Tells(buf', from)
<1>1. ASSUME NEW o, buf' = Saved(buf, o) PROVE Tells(buf', from)
  <2>1. Fields(buf)
    BY SoundFields DEF Good
  <2>2. buf'.text = buf.text /\ buf'.undo = buf.undo
    BY <1>1, <2>1 DEF Saved, Fields
  <2> QED
    BY <2>2 DEF Tells
<1> QED
  BY <1>1 DEF DiskNext, Buffer_save, Nav_save_as

\* No handler changes what the buffer was opened with.
LEMMA OpenedStays == [Next]_vars => opened' = opened
<1>1. EditNext \/ HistoryNext => opened' = opened
  BY DEF EditNext, Type, TypePair, PressEnter, PressBackspace, HistoryNext, Nav_undo,
         Nav_redo, Edit
<1>2. CopyNext \/ PasteNext => opened' = opened
  BY DEF CopyNext, Nav_copy, Nav_cut, PasteNext, ForeignCopy, Nav_paste, Edit
<1>3. MoveNext => opened' = opened
  BY DEF MoveNext, Nav_move_left, Nav_move_right, Nav_move_up, Nav_move_down, Nav_jump_up,
         Nav_jump_down, GotoStartOfLine, Nav_goto_end_of_line, PressEscape, Move
<1>4. MouseNext \/ DiskNext => opened' = opened
  BY DEF MouseNext, MousePress, MouseDrag, Nav_mouse_scroll, Buffer_goto_search_hit, Move,
         DiskNext, Buffer_save, Nav_save_as
<1> QED
  BY <1>1, <1>2, <1>3, <1>4 DEF Next, vars

-----------------------------------------------------------------------------
(* The history explains the text. *)

\* The texts that replaying computes one after the other are the ones of any
\* function that obeys the same recursion.
LEMMA ReplayIs ==
  ASSUME NEW n \in Nat, NEW act, NEW from,
         NEW g, g = [k \in 0 .. n |-> IF k = 0 THEN from ELSE Replayable(act[k], g[k - 1])]
  PROVE  (CHOOSE f : f = [k \in 0 .. n |-> IF k = 0 THEN from ELSE Replayable(act[k], f[k - 1])]) = g
<1> DEFINE f == CHOOSE f : f = [k \in 0 .. n |-> IF k = 0 THEN from ELSE Replayable(act[k], f[k - 1])]
<1>1. f = [k \in 0 .. n |-> IF k = 0 THEN from ELSE Replayable(act[k], f[k - 1])]
  OBVIOUS
<1> HIDE DEF f
<1> DEFINE S == {k \in 0 .. n : f[k] = g[k]}
<1>2. 0 \in S
  BY <1>1
<1>3. ASSUME NEW k \in 0 .. n - 1, k \in S PROVE k + 1 \in S
  <2>1. k + 1 \in 0 .. n /\ k + 1 # 0 /\ (k + 1) - 1 = k
    OBVIOUS
  <2>2. f[k + 1] = Replayable(act[k + 1], f[k]) /\ g[k + 1] = Replayable(act[k + 1], g[k])
    BY <1>1, <2>1
  <2> QED
    BY <1>3, <2>1, <2>2
<1>4. 0 .. n \subseteq S
  <2> HIDE DEF S
  <2> QED
    BY <1>2, <1>3, UpTo
<1>5. \A k \in 0 .. n : f[k] = g[k]
  BY <1>4
<1> QED
  BY <1>1, <1>5 DEF f

LEMMA TellsExplains ==
  ASSUME Good(buf), Tells(buf, opened) PROVE HistoryExplainsText
<1> DEFINE n   == buf.undo.current
           act == buf.undo.actions
<1>1. /\ buf.undo \in StackType /\ n <= Len(act) /\ n \in Nat /\ Len(act) \in Nat
      /\ \A k \in 1 .. n : act[k] \in ActionType
  BY KeptHistory DEF Good, Sound, BufferType
<1>2. PICK after \in [0 .. Len(act) -> Seq(Char)] : PassesThrough(buf.undo, opened, buf.text, after)
  BY DEF Tells, Explains
<1>3. /\ after[0] = opened /\ after[n] = buf.text
      /\ \A k \in 1 .. Len(act) : Does(act[k], after[k - 1], after[k])
  BY <1>2 DEF PassesThrough
<1> DEFINE g == [k \in 0 .. n |-> after[k]]
<1> HIDE DEF n, act
<1>4. ASSUME NEW k \in 1 .. n PROVE after[k] = Replayable(act[k], after[k - 1])
  <2>1. k \in 1 .. Len(act) /\ k \in 0 .. Len(act) /\ k - 1 \in 0 .. Len(act)
    BY <1>1
  <2>2. /\ act[k].offset \in Nat /\ act[k].text \in Seq(Char)
        /\ after[k] \in Seq(Char) /\ Does(act[k], after[k - 1], after[k])
    BY <1>1, <1>2, <1>3, <2>1 DEF ActionType
  <2>3. CASE act[k].type = UNDO_INSERT
    BY <2>2, <2>3 DEF Does, Replayable
  <2>4. CASE act[k].type # UNDO_INSERT
    BY <2>2, <2>4, DeleteInserted DEF Does, Replayable
  <2> QED
    BY <2>3, <2>4
<1>5. g = [k \in 0 .. n |-> IF k = 0 THEN opened ELSE Replayable(act[k], g[k - 1])]
  <2>1. ASSUME NEW k \in 0 .. n
        PROVE  g[k] = IF k = 0 THEN opened ELSE Replayable(act[k], g[k - 1])
    <3>1. CASE k = 0
      BY <1>1, <1>3, <3>1
    <3>2. CASE k # 0
      <4>1. k \in 1 .. n /\ k - 1 \in 0 .. n
        BY <1>1, <3>2
      <4>2. g[k] = after[k] /\ g[k - 1] = after[k - 1]
        BY <4>1
      <4> QED
        BY <1>4, <3>2, <4>1, <4>2
    <3> QED
      BY <3>1, <3>2
  <2> QED
    BY <2>1
<1>6. g[n] = buf.text
  BY <1>1, <1>3
<1> HIDE DEF g
<1>7. (CHOOSE f : f = [k \in 0 .. n |-> IF k = 0 THEN opened ELSE Replayable(act[k], f[k - 1])]) = g
  BY <1>1, <1>5, ReplayIs
<1> QED
  BY <1>6, <1>7 DEF HistoryExplainsText, n, act

\* The inductive invariant, next to IInv.
HistoryTells == restored => Tells(buf, opened)

LEMMA InitTells == UndoInit => HistoryTells
<1> SUFFICES ASSUME Init PROVE Tells(buf, opened)
  BY DEF UndoInit, HistoryTells
<1> DEFINE none  == <<>>
           after == [k \in 0 .. 0 |-> opened]
<1>1. opened \in Seq(Char)
  BY InitIInv DEF IInv
<1>2. buf.text = opened /\ buf.undo.actions = none /\ buf.undo.current = 0
  BY DEF Init, FreshBuffer, Undo_init
<1>3. Len(none) = 0
  OBVIOUS
<1> HIDE DEF none
<1>4. after \in [0 .. Len(none) -> Seq(Char)] /\ after[0] = opened
  BY <1>1, <1>3
<1> HIDE DEF after
<1>5. PassesThrough(buf.undo, opened, buf.text, after)
  BY <1>2, <1>3, <1>4 DEF PassesThrough
<1> QED
  BY <1>2, <1>4, <1>5 DEF Tells, Explains

LEMMA NextTells == IInv /\ HistoryTells /\ [UndoNext]_<<vars, restored>> => HistoryTells'
<1> SUFFICES ASSUME IInv, HistoryTells, [UndoNext]_<<vars, restored>>, restored'
             PROVE  Tells(buf', opened')
  BY DEF HistoryTells, Tells
<1>1. Good(buf) /\ Fields(buf) /\ clip \in Seq(Char)
  BY SoundFields DEF IInv, Good
<1>2. CASE TrackedUndo
  <2>1. Tells(buf, opened) /\ opened' = opened
    BY <1>2 DEF TrackedUndo, HistoryTells, Nav_undo, Edit
  <2> QED
    BY <1>1, <1>2, <2>1, UndoTells DEF TrackedUndo, Nav_undo, Edit
<1>3. CASE TrackedRedo
  <2>1. Tells(buf, opened) /\ opened' = opened
    BY <1>3 DEF TrackedRedo, HistoryTells, Nav_redo, Edit
  <2> QED
    BY <1>1, <1>3, <2>1, RedoTells DEF TrackedRedo, Nav_redo, Edit
<1>4. ASSUME EditNext \/ CopyNext \/ PasteNext \/ MoveNext \/ MouseNext \/ DiskNext,
             UNCHANGED restored
      PROVE  Tells(buf', opened')
  <2>1. Tells(buf, opened)
    BY <1>4 DEF HistoryTells
  <2>2. opened' = opened
    BY <1>4, OpenedStays DEF Next
  <2>3. ASSUME Kept PROVE Tells(buf', opened)
    BY <2>1, <2>3, SameTells DEF Kept
  <2>4. Tells(buf', opened)
    BY <1>1, <1>4, <2>1, <2>3, EditNextTells, CopyNextTells, PasteNextTells, MoveNextKeeps,
       MouseNextKeeps, DiskNextTells
  <2> QED
    BY <2>2, <2>4
<1>5. CASE UNCHANGED <<vars, restored>>
  BY <1>5 DEF vars, HistoryTells, Tells
<1> QED
  BY <1>2, <1>3, <1>4, <1>5 DEF UndoNext

\* A merge loses none of the characters and places of the edits it joins, a push after
\* an undo drops exactly what no longer applies, and undo and redo move between the
\* texts that the history passes through (Undo_push, Undo_perform, Redo_perform), as
\* long as none of them deleted only a part of an action.
THEOREM HistoryExplains == UndoSpec => []UndoneHistoryExplainsText
<1>1. UndoInit => Init
  BY DEF UndoInit
<1>2. [UndoNext]_<<vars, restored>> => [Next]_vars
  BY DEF UndoNext, TrackedUndo, TrackedRedo, Next, HistoryNext, vars
<1>3. UndoSpec => []IInv
  BY <1>1, <1>2, InitIInv, NextIInv, PTL DEF UndoSpec
<1>4. IInv /\ HistoryTells => UndoneHistoryExplainsText
  BY TellsExplains DEF IInv, HistoryTells, UndoneHistoryExplainsText
<1> QED
  BY <1>3, <1>4, InitTells, NextTells, PTL DEF UndoSpec
=============================================================================
