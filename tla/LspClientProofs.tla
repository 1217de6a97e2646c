--------------------------- MODULE LspClientProofs ---------------------------
(***************************************************************************)
(* The popup never goes by completions that it has freed, and what it shows*)
(* was computed on the text in front: for any number of tabs, files, texts *)
(* and items.                                                              *)
(***************************************************************************)
EXTENDS LspClient, SequenceTheorems, TLAPS

Tab == [path : Path \cup {NoPath}, lang : BOOLEAN, text : Text]

Ui == [flags : SUBSET Flag, root : BOOLEAN, uri : Path \cup {NoPath}, timer : BOOLEAN,
       count : 0 .. MaxItems, filtered : Pointees, item_count : 0 .. MaxItems,
       signature : BOOLEAN]

\* A popup that is open has a list, the list is allocated, and its
\* document has been chosen.
HasList(u) ==
  /\ u.filtered = "completion"
  /\ 0 < u.count
  /\ u.item_count <= u.count
  /\ u.uri # NoPath

PopupInv(u) ==
  /\ "HAS_COMP" \in u.flags => HasList(u) /\ {"ENABLE", "VISIBLE"} \subseteq u.flags
  /\ {"ENABLE", "VISIBLE"} \subseteq u.flags => "HAS_COMP" \in u.flags
  /\ "HAS_SIG" \in u.flags => u.signature

\* The same in the middle of an update, when the list has just gone: the popup
\* may be open, but then its document was chosen.
Cleared(u) ==
  /\ "HAS_COMP" \notin u.flags
  /\ {"ENABLE", "VISIBLE"} \subseteq u.flags => u.uri # NoPath
  /\ "HAS_SIG" \in u.flags => u.signature

-----------------------------------------------------------------------------
(* The functions of the popup. *)

LEMMA NoItems == 0 \in 0 .. MaxItems
BY Lists

LEMMA Freed ==
  ASSUME NEW u \in Ui
  PROVE  LET c == lsp_ui_clear_completion(u)
         IN  /\ c \in Ui /\ c.flags = u.flags \ {"HAS_COMP"} /\ c.uri = u.uri
             /\ c.signature = u.signature
<1> DEFINE f == IF u.filtered = "completion" THEN "freed" ELSE u.filtered
           c == [u EXCEPT !.count = 0, !.flags = u.flags \ {"HAS_COMP"}, !.filtered = f]
<1>1. f \in Pointees
  BY DEF Ui, Pointees
<1>2. CASE "HAS_COMP" \in u.flags
  <2>1. lsp_ui_clear_completion(u) = c
    BY <1>2 DEF lsp_ui_clear_completion
  <2> HIDE DEF f
  <2>2. /\ c \in Ui /\ c.flags = u.flags \ {"HAS_COMP"} /\ c.uri = u.uri
        /\ c.signature = u.signature
    BY <1>1, NoItems DEF Ui
  <2> HIDE DEF c
  <2>3. QED
    BY <1>1, <2>1, <2>2
<1>3. CASE "HAS_COMP" \notin u.flags
  BY <1>3 DEF lsp_ui_clear_completion, Ui
<1>4. QED
  BY <1>2, <1>3

LEMMA HidePopup ==
  ASSUME NEW u \in Ui, "HAS_SIG" \in u.flags => u.signature
  PROVE  /\ lsp_ui_hide(u) \in Ui
         /\ PopupInv(lsp_ui_hide(u))
         /\ "HAS_COMP" \notin lsp_ui_hide(u).flags
<1> DEFINE v == ClearFlags(u, {"VISIBLE", "REQUEST_PENDING"})
           c == lsp_ui_clear_completion(v)
<1>1. /\ v \in Ui /\ v.flags = u.flags \ {"VISIBLE", "REQUEST_PENDING"}
      /\ v.signature = u.signature /\ v.filtered = u.filtered
  BY DEF ClearFlags, Ui
<1> HIDE DEF v
<1>2. /\ c \in Ui /\ c.flags = v.flags \ {"HAS_COMP"}
      /\ c.signature = v.signature
  BY <1>1, Freed
<1> HIDE DEF c
<1>3. lsp_ui_hide(u) = [c EXCEPT !.filtered = "nothing", !.item_count = 0]
  BY DEF lsp_ui_hide, c, v
<1> DEFINE h == [c EXCEPT !.filtered = "nothing", !.item_count = 0]
<1>4. h \in Ui /\ h.flags = c.flags /\ h.filtered = "nothing" /\ h.signature = c.signature
  BY <1>2, NoItems DEF Ui, Pointees
<1> HIDE DEF h
<1>5. PopupInv(h) /\ "HAS_COMP" \notin h.flags
  BY <1>1, <1>2, <1>4 DEF PopupInv
<1>6. QED
  BY <1>3, <1>4, <1>5 DEF h

LEMMA ClearCompletion ==
  ASSUME NEW u \in Ui, "HAS_SIG" \in u.flags => u.signature,
         {"ENABLE", "VISIBLE"} \subseteq u.flags => u.uri # NoPath
  PROVE  /\ lsp_ui_clear_completion(u) \in Ui
         /\ Cleared(lsp_ui_clear_completion(u))
         /\ lsp_ui_clear_completion(u).uri = u.uri
<1> DEFINE c == lsp_ui_clear_completion(u)
<1>1. /\ c \in Ui /\ c.flags = u.flags \ {"HAS_COMP"} /\ c.uri = u.uri
      /\ c.signature = u.signature
  BY Freed
<1> HIDE DEF c
<1>2. QED
  BY <1>1 DEF Cleared, c

LEMMA SetOther ==
  ASSUME NEW u \in Ui, PopupInv(u), NEW S \in SUBSET Flag,
         S \cap {"HAS_COMP", "VISIBLE", "ENABLE", "HAS_SIG"} = {}
  PROVE  SetFlags(u, S) \in Ui /\ PopupInv(SetFlags(u, S))
<1> DEFINE v == SetFlags(u, S)
<1>1. /\ v \in Ui /\ v.flags = u.flags \cup S
      /\ v.signature = u.signature /\ v.filtered = u.filtered
      /\ v.count = u.count
      /\ v.item_count = u.item_count /\ v.uri = u.uri
  BY DEF SetFlags, Ui
<1> HIDE DEF v
<1>2. PopupInv(v)
  BY <1>1 DEF PopupInv, HasList
<1>3. QED
  BY <1>1, <1>2 DEF v

LEMMA ClearOther ==
  ASSUME NEW u \in Ui, PopupInv(u), NEW S \in SUBSET Flag,
         S \cap {"HAS_COMP", "VISIBLE", "ENABLE"} = {}
  PROVE  ClearFlags(u, S) \in Ui /\ PopupInv(ClearFlags(u, S))
<1> DEFINE v == ClearFlags(u, S)
<1>1. /\ v \in Ui /\ v.flags = u.flags \ S
      /\ v.signature = u.signature /\ v.filtered = u.filtered
      /\ v.count = u.count
      /\ v.item_count = u.item_count /\ v.uri = u.uri
  BY DEF ClearFlags, Ui
<1> HIDE DEF v
<1>2. PopupInv(v)
  BY <1>1 DEF PopupInv, HasList
<1>3. QED
  BY <1>1, <1>2 DEF v

\* A list has come.
LEMMA ShowList ==
  ASSUME NEW u \in Ui, Cleared(u), "ENABLE" \in u.flags, u.uri # NoPath,
         NEW n \in 0 .. MaxItems, NEW kept \in 0 .. n
  PROVE  /\ ShowCompletion(u, n, kept) \in Ui
         /\ PopupInv(ShowCompletion(u, n, kept))
         /\ ShowCompletion(u, n, kept).uri = u.uri
         /\ "HAS_COMP" \in ShowCompletion(u, n, kept).flags => n > 0
<1> DEFINE v == ShowCompletion(u, n, kept)
<1>1. MaxItems \in Nat
  BY Lists
<1>2. CASE n = 0
  <2>1. v = ClearFlags(u, {"HAS_COMP", "VISIBLE"})
    BY <1>2 DEF ShowCompletion
  <2>2. /\ v \in Ui /\ v.flags = u.flags \ {"HAS_COMP", "VISIBLE"} /\ v.uri = u.uri
        /\ v.signature = u.signature /\ v.filtered = u.filtered
    BY <2>1 DEF ClearFlags, Ui
  <2> HIDE DEF v
  <2>3. PopupInv(v) /\ "HAS_COMP" \notin v.flags
    BY <2>2 DEF PopupInv, Cleared
  <2>4. QED
    BY <2>2, <2>3 DEF v
<1>3. CASE n # 0
  <2> DEFINE w == SetFlags(u, {"HAS_COMP", "VISIBLE"})
  <2>1. /\ w \in Ui /\ w.flags = u.flags \cup {"HAS_COMP", "VISIBLE"} /\ w.uri = u.uri
        /\ w.signature = u.signature /\ w.filtered = u.filtered
    BY DEF SetFlags, Ui, Flag
  <2>2. v = [w EXCEPT !.count = n, !.filtered = "completion", !.item_count = kept]
    BY <1>3 DEF ShowCompletion
  <2> HIDE DEF v, w
  <2>3. n \in Nat /\ n > 0
    BY <1>1, <1>3
  <2>4. kept \in 0 .. MaxItems /\ kept <= n
    BY <1>1
  <2>5. /\ v \in Ui /\ v.flags = w.flags /\ v.uri = w.uri /\ v.signature = w.signature
        /\ v.count = n /\ v.filtered = "completion" /\ v.item_count = kept
    BY <2>1, <2>2, <2>3, <2>4 DEF Ui, Pointees
  <2>6. PopupInv(v)
    BY <1>3, <2>1, <2>3, <2>4, <2>5 DEF PopupInv, HasList, Cleared
  <2>7. QED
    BY <1>3, <2>1, <2>5, <2>6 DEF v
<1>4. QED
  BY <1>2, <1>3

LEMMA Answers ==
  ASSUME NEW u \in Ui, PopupInv(u), NEW some \in BOOLEAN
  PROVE  /\ WithSignature(u, some) \in Ui /\ PopupInv(WithSignature(u, some))
         /\ WithSignature(u, some).uri = u.uri
         /\ "HAS_COMP" \in WithSignature(u, some).flags <=> "HAS_COMP" \in u.flags
         /\ WithHover(u, some) \in Ui /\ PopupInv(WithHover(u, some))
         /\ WithHover(u, some).uri = u.uri
         /\ "HAS_COMP" \in WithHover(u, some).flags <=> "HAS_COMP" \in u.flags
<1>1. /\ ClearFlags(u, {"SIG_PENDING"}) \in Ui /\ PopupInv(ClearFlags(u, {"SIG_PENDING"}))
      /\ ClearFlags(u, {"HOV_PENDING"}) \in Ui /\ PopupInv(ClearFlags(u, {"HOV_PENDING"}))
  BY ClearOther DEF Flag
<1>2. \A S : ClearFlags(u, S).flags = u.flags \ S /\ ClearFlags(u, S).uri = u.uri
  BY DEF ClearFlags, Ui
<1> DEFINE new == (u.flags \ {"SIG_PENDING", "HAS_SIG"})
                    \cup (IF some THEN {"HAS_SIG"} ELSE {})
           sig == [u EXCEPT !.signature = some, !.flags = new]
           hnew == (u.flags \ {"HOV_PENDING", "HAS_HOVE"})
                    \cup (IF some THEN {"HAS_HOVE"} ELSE {})
           hov == [u EXCEPT !.flags = hnew]
<1>3. sig \in Ui /\ PopupInv(sig) /\ sig.uri = u.uri
      /\ ("HAS_COMP" \in sig.flags <=> "HAS_COMP" \in u.flags)
  <2>1. /\ new \in SUBSET Flag
        /\ "HAS_SIG" \in new => some
        /\ \A x \in {"HAS_COMP", "VISIBLE", "ENABLE"} : x \in new <=> x \in u.flags
    BY DEF Ui, Flag
  <2> HIDE DEF new
  <2>2. /\ sig \in Ui /\ sig.flags = new /\ sig.signature = some
        /\ sig.filtered = u.filtered
        /\ sig.count = u.count /\ sig.item_count = u.item_count /\ sig.uri = u.uri
    BY <2>1 DEF Ui
  <2> HIDE DEF sig
  <2>3. PopupInv(sig)
    BY <2>1, <2>2 DEF PopupInv, HasList
  <2>4. QED
    BY <2>1, <2>2, <2>3
<1>4. hov \in Ui /\ PopupInv(hov) /\ hov.uri = u.uri
      /\ ("HAS_COMP" \in hov.flags <=> "HAS_COMP" \in u.flags)
  <2>1. /\ hnew \in SUBSET Flag
        /\ \A x \in {"HAS_COMP", "VISIBLE", "ENABLE", "HAS_SIG"} : x \in hnew <=> x \in u.flags
    BY DEF Ui, Flag
  <2> HIDE DEF hnew
  <2>2. /\ hov \in Ui /\ hov.flags = hnew /\ hov.signature = u.signature
        /\ hov.filtered = u.filtered
        /\ hov.count = u.count /\ hov.item_count = u.item_count /\ hov.uri = u.uri
    BY <2>1 DEF Ui
  <2> HIDE DEF hov
  <2>3. PopupInv(hov)
    BY <2>1, <2>2 DEF PopupInv, HasList
  <2>4. QED
    BY <2>1, <2>2, <2>3
<1>5. WithSignature(u, some) \in {u, ClearFlags(u, {"SIG_PENDING"}), sig}
  BY DEF WithSignature
<1>6. WithHover(u, some) \in {u, ClearFlags(u, {"HOV_PENDING"}), hov}
  BY DEF WithHover
<1> HIDE DEF sig, hov
<1>7. \A v \in {u, ClearFlags(u, {"SIG_PENDING"}), sig, ClearFlags(u, {"HOV_PENDING"}), hov} :
        /\ v \in Ui /\ PopupInv(v) /\ v.uri = u.uri
        /\ "HAS_COMP" \in v.flags <=> "HAS_COMP" \in u.flags
  BY <1>1, <1>2, <1>3, <1>4
<1>8. QED
  BY <1>5, <1>6, <1>7

LEMMA TickedPopup ==
  ASSUME NEW u \in Ui, PopupInv(u), NEW out \in BOOLEAN
  PROVE  /\ Ticked(u, out) \in Ui /\ PopupInv(Ticked(u, out))
         /\ Ticked(u, out).uri = u.uri
         /\ \A x \in Flag \ {"REQUEST_PENDING"} : x \in Ticked(u, out).flags <=> x \in u.flags
<1> DEFINE v == SetFlags(u, {"REQUEST_PENDING"})
           t == [v EXCEPT !.timer = FALSE]
<1>1. v \in Ui /\ PopupInv(v)
  BY SetOther DEF Flag
<1>2. v.uri = u.uri /\ v.flags = u.flags \cup {"REQUEST_PENDING"}
  BY DEF SetFlags, Ui
<1> HIDE DEF v
<1>3. /\ t \in Ui /\ t.flags = v.flags /\ t.signature = v.signature
      /\ t.filtered = v.filtered
      /\ t.count = v.count /\ t.item_count = v.item_count /\ t.uri = v.uri
  BY <1>1 DEF Ui
<1>4. Ticked(u, out) \in {u, t}
  BY DEF Ticked, v
<1> HIDE DEF t
<1>5. PopupInv(t)
  BY <1>1, <1>3 DEF PopupInv, HasList
<1>6. QED
  BY <1>2, <1>3, <1>4, <1>5

-----------------------------------------------------------------------------
(* Tabs and documents. *)

Docs == [Path -> Text \cup {NotOpen}]

LEMMA Document ==
  ASSUME NEW d \in Docs, NEW u \in Path, NEW t \in Text
  PROVE  lsp_did_open(d, u, t) \in Docs /\ lsp_did_change(d, u, t) \in Docs
BY DEF lsp_did_open, lsp_did_change, Docs

LEMMA Closed ==
  ASSUME NEW d \in Docs, NEW u \in Path \cup {NoPath}
  PROVE  lsp_did_close(d, u) \in Docs
BY DEF lsp_did_close, Docs

Types ==
  /\ tabs \in Seq(Tab) /\ front \in 1 .. Len(tabs)
  /\ running \in BOOLEAN
  /\ docs \in Docs
  /\ frame \in {"update", "input", "hotkeys", "typing", "draw", "exited"}
  /\ had \in BOOLEAN
  /\ held \in 0 .. Len(tabs)

LEMMA Typed == TypeOK <=> Types /\ ui \in Ui
<1>1. tabs \in Seq(Tab) => DOMAIN tabs = 1 .. Len(tabs)
  BY LenProperties
<1>2. QED
  BY <1>1 DEF TypeOK, Types, Ui, Docs, Tab

LEMMA TabTypes ==
  ASSUME Types, NEW i \in 1 .. Len(tabs)
  PROVE  /\ tabs[i] \in Tab /\ tabs[i].path \in Path \cup {NoPath}
         /\ tabs[i].lang \in BOOLEAN /\ tabs[i].text \in Text
<1>1. tabs[i] \in Tab
  BY ElementOfSeq, LenProperties DEF Types
<1>2. QED
  BY <1>1 DEF Tab

LEMMA InFront ==
  ASSUME Types
  PROVE  /\ buf \in Tab /\ buf.path \in Path \cup {NoPath} /\ buf.lang \in BOOLEAN
         /\ buf.text \in Text /\ docs \in Docs
<1>1. front \in 1 .. Len(tabs) /\ docs \in Docs
  BY DEF Types
<1>2. /\ tabs[front] \in Tab /\ tabs[front].path \in Path \cup {NoPath}
      /\ tabs[front].lang \in BOOLEAN /\ tabs[front].text \in Text
  BY <1>1, TabTypes
<1>3. QED
  BY <1>1, <1>2 DEF buf

\* A tab that is replaced, added or removed.
LEMMA TabReplaced ==
  ASSUME NEW s \in Seq(Tab), NEW i \in 1 .. Len(s), NEW b \in Tab
  PROVE  [s EXCEPT ![i] = b] \in Seq(Tab) /\ Len([s EXCEPT ![i] = b]) = Len(s)
BY ExceptSeq

LEMMA TabRemoved ==
  ASSUME NEW s \in Seq(Tab), NEW i \in 1 .. Len(s)
  PROVE  /\ RemoveAt(s, i) \in Seq(Tab) /\ Len(RemoveAt(s, i)) = Len(s) - 1
         /\ \A k \in 1 .. Len(s) : k # i =>
               \E j \in 1 .. Len(s) - 1 : RemoveAt(s, i)[j] = s[k]
<1> DEFINE a == SubSeq(s, 1, i - 1)
           b == SubSeq(s, i + 1, Len(s))
<1>1. Len(s) \in Nat /\ \A k \in 1 .. Len(s) : s[k] \in Tab
  BY LenProperties, ElementOfSeq
<1>2. a \in Seq(Tab) /\ Len(a) = i - 1 /\ \A k \in 1 .. i - 1 : a[k] = s[k]
  <2>1. \A k \in 1 .. i - 1 : s[k] \in Tab
    BY <1>1
  <2>2. QED
    BY <1>1, <2>1, SubSeqProperties
<1>3. b \in Seq(Tab) /\ Len(b) = Len(s) - i /\ \A k \in 1 .. Len(s) - i : b[k] = s[i + k]
  <2>1. \A k \in i + 1 .. Len(s) : s[k] \in Tab
    BY <1>1
  <2>2. QED
    BY <1>1, <2>1, SubSeqProperties
<1>4. RemoveAt(s, i) = a \o b
  BY DEF RemoveAt
<1> HIDE DEF a, b
<1> DEFINE r == a \o b
<1>5. /\ r \in Seq(Tab) /\ Len(r) = Len(a) + Len(b)
      /\ \A k \in 1 .. Len(a) + Len(b) : r[k] = IF k <= Len(a) THEN a[k] ELSE b[k - Len(a)]
  BY <1>2, <1>3, ConcatProperties, Zenon
<1> HIDE DEF r
<1>6. ASSUME NEW k \in 1 .. i - 1
      PROVE  r[k] = s[k]
  <2>1. k \in 1 .. Len(a) + Len(b) /\ k <= Len(a)
    BY <1>1, <1>2, <1>3
  <2>2. r[k] = a[k]
    BY <1>5, <2>1
  <2>3. QED
    BY <1>2, <2>2
<1>7. ASSUME NEW k \in i + 1 .. Len(s)
      PROVE  r[k - 1] = s[k]
  <2>1. /\ k - 1 \in 1 .. Len(a) + Len(b) /\ ~(k - 1 <= Len(a))
        /\ (k - 1) - Len(a) = k - i /\ k - i \in 1 .. Len(s) - i /\ i + (k - i) = k
    BY <1>1, <1>2, <1>3
  <2>2. r[k - 1] = b[k - i]
    BY <1>5, <2>1, Zenon
  <2>3. b[k - i] = s[i + (k - i)]
    BY <1>3, <2>1, Zenon
  <2>4. QED
    BY <2>1, <2>2, <2>3, Zenon
<1>8. ASSUME NEW k \in 1 .. Len(s), k # i
      PROVE  \E j \in 1 .. Len(s) - 1 : r[j] = s[k]
  <2>1. CASE k \in 1 .. i - 1
    BY <1>1, <1>6, <2>1
  <2>2. CASE k \in i + 1 .. Len(s)
    <3>1. k - 1 \in 1 .. Len(s) - 1
      BY <1>1, <2>2
    <3>2. QED
      BY <1>7, <2>2, <3>1
  <2>3. QED
    BY <1>1, <1>8, <2>1, <2>2
<1>9. Len(r) = Len(s) - 1
  BY <1>1, <1>2, <1>3, <1>5
<1>10. RemoveAt(s, i) = r
  BY <1>4 DEF r
<1>11. QED
  BY <1>5, <1>8, <1>9, <1>10, Zenon

-----------------------------------------------------------------------------
(* lsp_ui_update. *)

LEMMA DocumentChosen ==
  ASSUME Types, NEW u \in Ui, PopupInv(u)
  PROVE  /\ WithDocument(u) \in Ui /\ PopupInv(WithDocument(u))
         /\ "ENABLE" \in WithDocument(u).flags <=> "ENABLE" \in u.flags
<1> DEFINE c == ClearFlags(u, {"REQUEST_PENDING"})
           s == SetFlags(u, {"REQUEST_PENDING"})
<1>1. /\ c \in Ui /\ PopupInv(c) /\ s \in Ui /\ PopupInv(s)
  BY SetOther, ClearOther DEF Flag
<1>2. c.flags = u.flags \ {"REQUEST_PENDING"} /\ s.flags = u.flags \cup {"REQUEST_PENDING"}
  BY DEF SetFlags, ClearFlags, Ui
<1>3. ASSUME NEW v \in Ui, PopupInv(v), buf.path # NoPath
      PROVE  /\ [v EXCEPT !.uri = buf.path] \in Ui
             /\ PopupInv([v EXCEPT !.uri = buf.path])
             /\ [v EXCEPT !.uri = buf.path].flags = v.flags
  <2> DEFINE w == [v EXCEPT !.uri = buf.path]
  <2>1. /\ w \in Ui /\ w.flags = v.flags /\ w.signature = v.signature
        /\ w.filtered = v.filtered
        /\ w.count = v.count /\ w.item_count = v.item_count /\ w.uri = buf.path
    BY InFront DEF Ui
  <2> HIDE DEF w
  <2>2. PopupInv(w)
    BY <1>3, <2>1 DEF PopupInv, HasList
  <2>3. QED
    BY <2>1, <2>2 DEF w
<1> HIDE DEF c, s
<1>4. CASE ~Retargets(u)
  <2>1. WithDocument(u) = c
    BY <1>4 DEF WithDocument, c
  <2>2. QED
    BY <1>1, <1>2, <2>1
<1>5. CASE Retargets(u)
  <2>1. buf.path # NoPath
    BY <1>5 DEF Retargets
  <2>2. WithDocument(u) \in {[s EXCEPT !.uri = buf.path], [c EXCEPT !.uri = buf.path]}
    BY <1>5 DEF WithDocument, c, s
  <2>3. ASSUME NEW v \in {s, c}
        PROVE  /\ [v EXCEPT !.uri = buf.path] \in Ui
               /\ PopupInv([v EXCEPT !.uri = buf.path])
               /\ "ENABLE" \in [v EXCEPT !.uri = buf.path].flags <=> "ENABLE" \in u.flags
    <3>1. v \in Ui /\ PopupInv(v) /\ ("ENABLE" \in v.flags <=> "ENABLE" \in u.flags)
      BY <1>1, <1>2
    <3>2. [v EXCEPT !.uri = buf.path].flags = v.flags
      BY <1>3, <2>1, <3>1
    <3>3. QED
      BY <1>3, <2>1, <3>1, <3>2
  <2>4. CASE WithDocument(u) = [s EXCEPT !.uri = buf.path]
    BY <2>3, <2>4, Zenon
  <2>5. CASE WithDocument(u) = [c EXCEPT !.uri = buf.path]
    BY <2>3, <2>5, Zenon
  <2>6. QED
    BY <2>2, <2>4, <2>5
<1>6. QED
  BY <1>4, <1>5

\* What a pending request sends. The document it shows a list for has the text
\* in front, if the server holds it.
LEMMA Resynced ==
  ASSUME Types, NEW u \in Ui, PopupInv(u)
  PROVE  /\ Resync(u, docs) \in Docs
         /\ LET p == WithDocument(u).uri
            IN  running /\ buf.text # Empty /\ p # NoPath
                  => Resync(u, docs)[p] \in {NotOpen, buf.text}
<1> DEFINE opened == IF Reopens(u) THEN lsp_did_open(docs, buf.path, buf.text) ELSE docs
           p == WithDocument(u).uri
<1>1. opened \in Docs
  BY InFront, Document DEF Reopens, Retargets
<1>2. p \in Path \cup {NoPath}
  BY DocumentChosen DEF Ui
<1>3. Resync(u, docs) = IF p = NoPath THEN opened ELSE lsp_did_change(opened, p, buf.text)
  BY DEF Resync
<1> HIDE DEF opened, p
<1>4. CASE p = NoPath
  BY <1>1, <1>3, <1>4 DEF p
<1>5. CASE p # NoPath
  <2>1. lsp_did_change(opened, p, buf.text) \in Docs
    BY <1>1, <1>2, <1>5, InFront, Document
  <2>2. running /\ buf.text # Empty
          => lsp_did_change(opened, p, buf.text)[p] \in {NotOpen, buf.text}
    BY <1>1, <1>2, <1>5 DEF lsp_did_change, Docs
  <2>3. QED
    BY <1>3, <1>5, <2>1, <2>2 DEF p
<1>6. QED
  BY <1>4, <1>5

\* A list is shown behind an update only if it was asked for in it.
LEMMA Updated ==
  ASSUME Types, ui \in Ui, PopupInv(ui),
         UpdateOff \/ UpdateIdle \/ UpdateEscape \/ UpdateNoWord \/ UpdateAsk
  PROVE  /\ ui' \in Ui /\ PopupInv(ui') /\ docs' \in Docs
         /\ "HAS_COMP" \in ui'.flags => docs'[ui'.uri] \in {NotOpen, buf.text}
<1>1. CASE UpdateOff
  BY <1>1 DEF UpdateOff, PopupInv, Types
<1>2. CASE UpdateIdle
  <2>1. PICK out \in BOOLEAN : Idle(Ticked(ui, out)) /\ ui' = Ticked(ui, out) /\ docs' = docs
    BY <1>2 DEF UpdateIdle
  <2>2. ui' \in Ui /\ PopupInv(ui')
    BY <2>1, TickedPopup
  <2>3. "VISIBLE" \notin ui'.flags
    BY <2>1 DEF Idle
  <2>4. QED
    BY <2>1, <2>2, <2>3 DEF PopupInv, Types
<1>3. CASE UpdateEscape
  <2>1. PICK out \in BOOLEAN : ui' = lsp_ui_hide(Ticked(ui, out)) /\ docs' = docs
    BY <1>3 DEF UpdateEscape
  <2>2. Ticked(ui, out) \in Ui /\ PopupInv(Ticked(ui, out))
    BY TickedPopup
  <2>3. ui' \in Ui /\ PopupInv(ui') /\ "HAS_COMP" \notin ui'.flags
    BY <2>1, <2>2, HidePopup DEF PopupInv
  <2>4. QED
    BY <2>1, <2>3 DEF Types
<1>4. ASSUME NEW out \in BOOLEAN
      PROVE  LET t == Ticked(ui, out)
                 u == lsp_ui_clear_completion(WithDocument(t))
             IN  /\ u \in Ui /\ Cleared(u)
                 /\ t \in Ui /\ PopupInv(t)
                 /\ u.uri = WithDocument(t).uri
                 /\ "ENABLE" \in ui.flags => "ENABLE" \in u.flags
  <2> DEFINE t == Ticked(ui, out)
             d == WithDocument(t)
  <2>1. /\ t \in Ui /\ PopupInv(t)
        /\ "ENABLE" \in ui.flags => "ENABLE" \in t.flags
    BY TickedPopup DEF Flag
  <2> HIDE DEF t
  <2>2. /\ d \in Ui /\ PopupInv(d)
        /\ "ENABLE" \in t.flags => "ENABLE" \in d.flags
    BY <2>1, DocumentChosen
  <2> HIDE DEF d
  <2>3. /\ lsp_ui_clear_completion(d) \in Ui /\ Cleared(lsp_ui_clear_completion(d))
        /\ lsp_ui_clear_completion(d).uri = d.uri
    BY <2>2, ClearCompletion DEF PopupInv, HasList
  <2>4. lsp_ui_clear_completion(d).flags = d.flags \ {"HAS_COMP"}
    BY <2>2, Freed
  <2>5. QED
    BY <2>1, <2>2, <2>3, <2>4 DEF t, d
<1>5. CASE UpdateNoWord
  <2>1. PICK out \in BOOLEAN :
           /\ ui' = lsp_ui_hide(lsp_ui_clear_completion(WithDocument(Ticked(ui, out))))
           /\ docs' = Resync(Ticked(ui, out), docs)
    BY <1>5 DEF UpdateNoWord
  <2>2. ui' \in Ui /\ PopupInv(ui') /\ "HAS_COMP" \notin ui'.flags
    BY <1>4, <2>1, HidePopup DEF Cleared
  <2>3. docs' \in Docs
    BY <1>4, <2>1, Resynced
  <2>4. QED
    BY <2>2, <2>3
<1>6. CASE UpdateAsk
  <2> DEFINE u(out) == lsp_ui_clear_completion(WithDocument(Ticked(ui, out)))
             shown(out, n, kept) == IF u(out).uri = NoPath THEN u(out)
                                    ELSE ShowCompletion(u(out), n, kept)
  <2>1. PICK out \in BOOLEAN, sig \in BOOLEAN, hov \in BOOLEAN, n \in 0 .. MaxItems,
             kept \in Nat :
           /\ kept \in 0 .. n /\ "ENABLE" \in ui.flags
           /\ u(out).uri # NoPath => buf.text # Empty
           /\ ~running => n = 0
           /\ ui' = WithHover(WithSignature(shown(out, n, kept), sig), hov)
           /\ docs' = Resync(Ticked(ui, out), docs)
    BY <1>6 DEF UpdateAsk
  <2>2. /\ u(out) \in Ui /\ Cleared(u(out)) /\ "ENABLE" \in u(out).flags
        /\ u(out).uri = WithDocument(Ticked(ui, out)).uri
        /\ Ticked(ui, out) \in Ui /\ PopupInv(Ticked(ui, out))
    BY <1>4, <2>1
  <2> DEFINE v == u(out)
             w == shown(out, n, kept)
  <2> HIDE DEF u
  <2>3. /\ w \in Ui /\ PopupInv(w) /\ w.uri = v.uri
        /\ "HAS_COMP" \in w.flags => v.uri # NoPath /\ n > 0
    <3>1. CASE v.uri = NoPath
      <4>1. w = v
        BY <3>1
      <4>2. PopupInv(v) /\ "HAS_COMP" \notin v.flags
        BY <2>2, <3>1 DEF Cleared, PopupInv
      <4>3. QED
        BY <2>2, <4>1, <4>2
    <3>2. CASE v.uri # NoPath
      <4>1. w = ShowCompletion(v, n, kept)
        BY <3>2
      <4> HIDE DEF v, w
      <4>2. QED
        BY <2>1, <2>2, <3>2, <4>1, ShowList DEF v
    <3>3. QED
      BY <3>1, <3>2
  <2> HIDE DEF shown, w
  <2>4. /\ ui' \in Ui /\ PopupInv(ui') /\ ui'.uri = w.uri
        /\ "HAS_COMP" \in ui'.flags => "HAS_COMP" \in w.flags
    <3> DEFINE x == WithSignature(w, sig)
    <3>1. /\ x \in Ui /\ PopupInv(x) /\ x.uri = w.uri
          /\ "HAS_COMP" \in x.flags => "HAS_COMP" \in w.flags
      BY <2>3, Answers
    <3>2. ui' = WithHover(x, hov)
      BY <2>1 DEF w
    <3> HIDE DEF x
    <3>3. QED
      BY <3>1, <3>2, Answers
  <2>5. docs' \in Docs
    BY <2>1, <2>2, Resynced
  <2>6. "HAS_COMP" \in ui'.flags => docs'[ui'.uri] \in {NotOpen, buf.text}
    <3> SUFFICES ASSUME "HAS_COMP" \in ui'.flags
                 PROVE  docs'[ui'.uri] \in {NotOpen, buf.text}
      OBVIOUS
    <3>1. v.uri # NoPath /\ n > 0 /\ ui'.uri = v.uri
      BY <2>3, <2>4
    <3>2. running /\ buf.text # Empty
      BY <2>1, <3>1
    <3>3. QED
      BY <2>1, <2>2, <3>1, <3>2, Resynced
  <2>7. QED
    BY <2>4, <2>5, <2>6
<1>7. QED
  BY <1>1, <1>2, <1>3, <1>5, <1>6

-----------------------------------------------------------------------------
(* Tabs. *)

\* Between the keys of one frame the popup is what it was when they began, as
\* long as it is in its place in the loop.
Seen == frame = "hotkeys" /\ had => "HAS_COMP" \in ui.flags

IInv == Types /\ ui \in Ui /\ PopupInv(ui) /\ Seen

LEMMA StartedPopup ==
  ASSUME ui \in Ui, PopupInv(ui), NEW p \in Path, NEW finds \in BOOLEAN
  PROVE  Started(p, finds) \in Ui /\ PopupInv(Started(p, finds))
<1> DEFINE c == lsp_ui_clear_completion(ui)
           s == [c EXCEPT !.flags = {"ENABLE"}, !.root = TRUE]
<1>1. c \in Ui
  BY Freed
<1>2. Started(p, finds) \in {ui, s}
  BY DEF Started
<1> HIDE DEF c
<1>3. /\ s \in Ui /\ s.flags = {"ENABLE"} /\ s.filtered = c.filtered
  BY <1>1 DEF Ui, Flag
<1> HIDE DEF s
<1>4. PopupInv(s)
  BY <1>1, <1>3 DEF PopupInv
<1>5. QED
  BY <1>2, <1>3, <1>4

LEMMA OpenedPopup ==
  ASSUME NEW u \in Ui, PopupInv(u), NEW d \in Docs, NEW p \in Path, NEW t \in Text,
         NEW up \in BOOLEAN
  PROVE  /\ Opened(u, d, p, t, up).ui \in Ui /\ PopupInv(Opened(u, d, p, t, up).ui)
         /\ Opened(u, d, p, t, up).docs \in Docs
         /\ \A q \in Path : q # p => Opened(u, d, p, t, up).docs[q] = d[q]
<1> DEFINE v == [u EXCEPT !.uri = p]
           s == SetFlags(v, {"REQUEST_PENDING"})
           docs1 == IF up THEN [d EXCEPT ![p] = t] ELSE d
<1>1. /\ v \in Ui /\ v.flags = u.flags /\ v.signature = u.signature
      /\ v.filtered = u.filtered
      /\ v.count = u.count /\ v.item_count = u.item_count /\ v.uri = p
  BY DEF Ui
<1> HIDE DEF v
<1>2. PopupInv(v)
  BY <1>1, Names DEF PopupInv, HasList
<1>3. s \in Ui /\ PopupInv(s)
  BY <1>1, <1>2, SetOther DEF Flag
<1> HIDE DEF s
<1>4. /\ lsp_ui_hide(u) \in Ui /\ PopupInv(lsp_ui_hide(u))
      /\ lsp_ui_hide(s) \in Ui /\ PopupInv(lsp_ui_hide(s))
  BY <1>3, HidePopup DEF PopupInv
<1>5. docs1 \in Docs /\ \A q \in Path : q # p => docs1[q] = d[q]
  BY DEF Docs
<1> HIDE DEF docs1
<1>6. Opened(u, d, p, t, up) \in {[ui |-> u, docs |-> d], [ui |-> lsp_ui_hide(u), docs |-> d],
                                  [ui |-> lsp_ui_hide(s), docs |-> docs1]}
  BY DEF Opened, s, v, docs1
<1>7. QED
  BY <1>4, <1>5, <1>6

\* What opening a file does to the popup, the tabs and the documents.
LEMMA FileOpened ==
  ASSUME Types, ui \in Ui, PopupInv(ui), NEW i \in 1 .. Len(tabs) + 1,
         NEW p \in Path, NEW t \in Text, NEW d \in Docs, OpenAt(i, p, t, d)
  PROVE  /\ ui' \in Ui /\ PopupInv(ui') /\ docs' \in Docs /\ running' \in BOOLEAN
         /\ tabs' \in Seq(Tab) /\ Len(tabs) <= Len(tabs') /\ front' = i /\ i <= Len(tabs')
         /\ tabs'[i].path = p /\ \A k \in 1 .. Len(tabs) : k # i => tabs'[k] = tabs[k]
         /\ \A q \in Path : q # p => docs'[q] = d[q]
<1> DEFINE u(finds) == Started(p, finds)
           up(finds, starts) == running \/ (u(finds).root # ui.root /\ starts)
           b == [path |-> p, lang |-> p \in Lang, text |-> t]
<1>1. PICK finds \in BOOLEAN, starts \in BOOLEAN :
         /\ tabs' = IF i > Len(tabs) THEN Append(tabs, b) ELSE [tabs EXCEPT ![i] = b]
         /\ front' = i
         /\ running' = up(finds, starts)
         /\ ui' = Opened(u(finds), d, p, t, up(finds, starts)).ui
         /\ docs' = Opened(u(finds), d, p, t, up(finds, starts)).docs
  BY DEF OpenAt
<1>2. u(finds) \in Ui /\ PopupInv(u(finds))
  BY StartedPopup
<1>3. up(finds, starts) \in BOOLEAN
  BY DEF Types
<1> HIDE DEF u, up
<1>4. /\ ui' \in Ui /\ PopupInv(ui') /\ docs' \in Docs /\ running' \in BOOLEAN
      /\ \A q \in Path : q # p => docs'[q] = d[q]
  BY <1>1, <1>2, <1>3, OpenedPopup
<1>5. b \in Tab /\ b.path = p
  BY DEF Tab
<1>6. tabs \in Seq(Tab) /\ Len(tabs) \in Nat
  BY LenProperties DEF Types
<1> HIDE DEF b
<1>7. CASE i > Len(tabs)
  <2>1. i = Len(tabs) + 1 /\ tabs' = Append(tabs, b)
    BY <1>1, <1>6, <1>7
  <2>2. /\ tabs' \in Seq(Tab) /\ Len(tabs') = Len(tabs) + 1 /\ tabs'[i] = b
        /\ \A k \in 1 .. Len(tabs) : tabs'[k] = tabs[k]
    BY <1>5, <1>6, <2>1, AppendProperties
  <2>3. QED
    BY <1>1, <1>4, <1>5, <1>6, <2>1, <2>2
<1>8. CASE i <= Len(tabs)
  <2>1. i \in 1 .. Len(tabs) /\ tabs' = [tabs EXCEPT ![i] = b]
    BY <1>1, <1>6, <1>8
  <2>2. /\ tabs' \in Seq(Tab) /\ Len(tabs') = Len(tabs) /\ tabs'[i] = b
        /\ \A k \in 1 .. Len(tabs) : k # i => tabs'[k] = tabs[k]
    BY <1>5, <1>6, <2>1, ExceptSeq
  <2>3. QED
    BY <1>1, <1>4, <1>5, <1>6, <2>1, <2>2
<1>9. QED
  BY <1>6, <1>7, <1>8

LEMMA EmptyTab == Buffer_new \in Tab /\ Buffer_new.path = NoPath
BY Names DEF Buffer_new, Tab

LEMMA NewTabInv == ASSUME IInv, NewTab PROVE IInv'
<1>1. tabs \in Seq(Tab) /\ Len(tabs) \in Nat /\ held \in 0 .. Len(tabs) /\ docs \in Docs
  BY LenProperties DEF IInv, Types
<1>2. CASE frame = "draw" /\ \E p \in Path, t \in Text : OpenAt(Len(tabs) + 1, p, t, docs)
  <2>1. /\ ui' \in Ui /\ PopupInv(ui') /\ docs' \in Docs /\ running' \in BOOLEAN
        /\ tabs' \in Seq(Tab) /\ Len(tabs) <= Len(tabs') /\ front' \in 1 .. Len(tabs')
    <3>1. PICK p \in Path, t \in Text : OpenAt(Len(tabs) + 1, p, t, docs)
      BY <1>2
    <3>2. Len(tabs) + 1 \in 1 .. Len(tabs) + 1
      BY <1>1
    <3>3. /\ ui' \in Ui /\ PopupInv(ui') /\ docs' \in Docs /\ running' \in BOOLEAN
          /\ tabs' \in Seq(Tab) /\ Len(tabs) <= Len(tabs')
          /\ front' = Len(tabs) + 1 /\ Len(tabs) + 1 <= Len(tabs')
      BY <1>1, <3>1, <3>2, FileOpened DEF IInv
    <3>4. Len(tabs') \in Nat
      BY <3>3, LenProperties
    <3>5. QED
      BY <1>1, <3>3, <3>4
  <2>2. Len(tabs') \in Nat
    BY <2>1, LenProperties
  <2>3. UNCHANGED <<frame, had, held>>
    BY DEF NewTab
  <2>4. QED
    BY <1>1, <1>2, <2>1, <2>2, <2>3 DEF IInv, Types, Seen
<1>3. CASE /\ tabs' = Append(tabs, Buffer_new) /\ front' = Len(tabs) + 1
           /\ UNCHANGED <<ui, running, docs>>
  <2>1. tabs' \in Seq(Tab) /\ Len(tabs') = Len(tabs) + 1
    BY <1>1, <1>3, EmptyTab, AppendProperties
  <2>2. UNCHANGED <<frame, had, held>>
    BY DEF NewTab
  <2>3. QED
    BY <1>1, <1>3, <2>1, <2>2 DEF IInv, Types, Seen
<1>4. QED
  BY <1>2, <1>3 DEF NewTab

LEMMA OpenInv == ASSUME IInv, Open PROVE IInv'
<1>1. /\ tabs \in Seq(Tab) /\ Len(tabs) \in Nat /\ held \in 0 .. Len(tabs)
      /\ front \in 1 .. Len(tabs)
  BY LenProperties DEF IInv, Types
<1>2. lsp_did_close(docs, buf.path) \in Docs
  BY InFront, Closed DEF IInv
<1>3. PICK p \in Path, t \in Text : OpenAt(front, p, t, lsp_did_close(docs, buf.path))
  BY DEF Open
<1>4. front \in 1 .. Len(tabs) + 1
  BY <1>1
<1>5. /\ ui' \in Ui /\ PopupInv(ui') /\ docs' \in Docs /\ running' \in BOOLEAN
      /\ tabs' \in Seq(Tab) /\ Len(tabs) <= Len(tabs') /\ front' = front
  BY <1>2, <1>3, <1>4, FileOpened DEF IInv
<1>6. Len(tabs') \in Nat /\ UNCHANGED <<frame, had, held>> /\ frame = "draw"
  BY <1>5, LenProperties DEF Open
<1>7. QED
  BY <1>1, <1>5, <1>6 DEF IInv, Types, Seen

LEMMA CloseInv == ASSUME IInv, BufManager_closetab PROVE IInv'
<1>1. /\ tabs \in Seq(Tab) /\ Len(tabs) \in Nat /\ held \in 0 .. Len(tabs)
      /\ front \in 1 .. Len(tabs)
  BY LenProperties DEF IInv, Types
<1>2. docs' \in Docs
  <2>1. docs' = lsp_did_close(docs, buf.path)
    BY DEF BufManager_closetab
  <2>2. QED
    BY <2>1, InFront, Closed DEF IInv
<1>3. /\ tabs' \in Seq(Tab) /\ Len(tabs') \in Nat /\ 1 <= Len(tabs')
      /\ Len(tabs) - 1 <= Len(tabs')
  <2>1. CASE Len(tabs) = 1
    <3>1. tabs' = <<Buffer_new>>
      BY <2>1 DEF BufManager_closetab
    <3>2. QED
      BY <2>1, <3>1, EmptyTab
  <2>2. CASE Len(tabs) # 1
    <3>1. tabs' = RemoveAt(tabs, front)
      BY <2>2 DEF BufManager_closetab
    <3>2. tabs' \in Seq(Tab) /\ Len(tabs') = Len(tabs) - 1
      BY <1>1, <3>1, TabRemoved
    <3>3. QED
      BY <1>1, <2>2, <3>2
  <2>3. QED
    BY <2>1, <2>2
<1>4. front' \in 1 .. Len(tabs')
  <2>1. front' = IF front > Len(tabs') THEN Len(tabs') ELSE front
    BY Zenon DEF BufManager_closetab
  <2>2. QED
    BY <1>1, <1>3, <2>1
<1>5. held' \in 0 .. Len(tabs')
  <2>1. held' = IF held = front THEN 0 ELSE IF held > front THEN held - 1 ELSE held
    BY Zenon DEF BufManager_closetab, HeldWithout
  <2>2. QED
    BY <1>1, <1>3, <2>1
<1>6. UNCHANGED <<ui, running, frame, had>>
  BY DEF BufManager_closetab
<1>7. QED
  BY <1>2, <1>3, <1>4, <1>5, <1>6 DEF IInv, Types, Seen

LEMMA SwitchInv == ASSUME IInv, BufManager_switchtab PROVE IInv'
<1>1. tabs \in Seq(Tab) /\ DOMAIN tabs = 1 .. Len(tabs)
  BY LenProperties DEF IInv, Types
<1>2. QED
  BY <1>1 DEF IInv, Types, Seen, BufManager_switchtab

-----------------------------------------------------------------------------
(* Keys. *)

\* A tab with another text, or path.
LEMMA TabSet ==
  ASSUME Types, NEW i \in 1 .. Len(tabs), NEW x \in Tab, tabs' = [tabs EXCEPT ![i] = x]
  PROVE  /\ tabs' \in Seq(Tab) /\ Len(tabs') = Len(tabs)
         /\ \A k \in 1 .. Len(tabs) : tabs'[k].path = IF k = i THEN x.path ELSE tabs[k].path
<1>1. tabs \in Seq(Tab)
  BY DEF Types
<1>2. /\ tabs' \in Seq(Tab) /\ Len(tabs') = Len(tabs)
      /\ \A k \in 1 .. Len(tabs) : tabs'[k] = IF k = i THEN x ELSE tabs[k]
  BY <1>1, ExceptSeq
<1>3. QED
  BY <1>2

LEMMA ToldDocs ==
  ASSUME NEW d \in Docs, NEW b \in Tab
  PROVE  Told(d, b) \in Docs
<1>1. b.path \in Path \cup {NoPath} /\ b.text \in Text
  BY DEF Tab
<1>2. QED
  BY <1>1, Document DEF Told

\* What an edit keeps: the number of tabs, and their files.
LEMMA Edited ==
  ASSUME Types, NEW i \in Nat, NEW t \in Text, Edit(i, t)
  PROVE  /\ tabs' \in Seq(Tab) /\ Len(tabs') = Len(tabs) /\ docs' \in Docs
         /\ \A k \in 1 .. Len(tabs) : tabs'[k].path = tabs[k].path
<1>1. i \in 1 .. Len(tabs)
  BY LenProperties DEF Edit, Types
<1>2. tabs' = [tabs EXCEPT ![i].text = t] /\ docs' = Told(docs, [tabs[i] EXCEPT !.text = t])
  BY Zenon DEF Edit
<1>3. [tabs[i] EXCEPT !.text = t] \in Tab
  BY <1>1, TabTypes DEF Tab
<1>4. docs' \in Docs
  BY <1>2, <1>3, ToldDocs DEF Types
<1>5. /\ tabs' \in Seq(Tab) /\ Len(tabs') = Len(tabs)
      /\ \A k \in 1 .. Len(tabs) : tabs'[k].path = tabs[k].path
  <2> DEFINE a == [tabs[i] EXCEPT !.text = t]
  <2>1. tabs[i] \in Tab /\ tabs \in Seq(Tab) /\ DOMAIN tabs = 1 .. Len(tabs)
    BY <1>1, TabTypes, LenProperties DEF Types
  <2>2. a \in Tab /\ a.path = tabs[i].path
    BY <2>1 DEF Tab
  <2>3. tabs' = [tabs EXCEPT ![i] = a]
    BY <1>2, <2>1
  <2> HIDE DEF a
  <2>4. /\ tabs' \in Seq(Tab) /\ Len(tabs') = Len(tabs)
        /\ \A k \in 1 .. Len(tabs) :
              tabs'[k].path = IF k = i THEN a.path ELSE tabs[k].path
    BY <1>1, <2>2, <2>3, TabSet, Zenon
  <2>5. QED
    BY <2>2, <2>4
<1>6. QED
  BY <1>4, <1>5

LEMMA SavedTab ==
  ASSUME Types, NEW i \in 1 .. Len(tabs), NEW p \in Path, Saved(i, p)
  PROVE  /\ tabs' \in Seq(Tab) /\ Len(tabs') = Len(tabs) /\ docs' \in Docs
         /\ \A k \in 1 .. Len(tabs) : tabs'[k].path = IF k = i THEN p ELSE tabs[k].path
<1>1. tabs[i] \in Tab /\ tabs \in Seq(Tab) /\ DOMAIN tabs = 1 .. Len(tabs) /\ docs \in Docs
  BY TabTypes, LenProperties DEF Types
<1>2. CASE UNCHANGED docs /\ tabs' = [tabs EXCEPT ![i].path = p]
  <2> DEFINE b == [tabs[i] EXCEPT !.path = p]
  <2>1. b \in Tab /\ b.path = p
    BY <1>1 DEF Tab
  <2>2. tabs' = [tabs EXCEPT ![i] = b]
    BY <1>1, <1>2
  <2> HIDE DEF b
  <2>3. QED
    BY <1>1, <1>2, <2>1, <2>2, TabSet
<1>3. ASSUME NEW t \in Text, tabs' = [tabs EXCEPT ![i].path = p, ![i].text = t],
             docs' = lsp_did_change(docs, p, t)
      PROVE  /\ tabs' \in Seq(Tab) /\ Len(tabs') = Len(tabs) /\ docs' \in Docs
             /\ \A k \in 1 .. Len(tabs) : tabs'[k].path = IF k = i THEN p ELSE tabs[k].path
  <2> DEFINE c == [tabs[i] EXCEPT !.path = p, !.text = t]
  <2>1. c \in Tab /\ c.path = p
    BY <1>1 DEF Tab
  <2>2. tabs' = [tabs EXCEPT ![i] = c]
    BY <1>1, <1>3
  <2>3. docs' \in Docs
    BY <1>1, <1>3, Document
  <2> HIDE DEF c
  <2>4. /\ tabs' \in Seq(Tab) /\ Len(tabs') = Len(tabs)
        /\ \A k \in 1 .. Len(tabs) :
              tabs'[k].path = IF k = i THEN c.path ELSE tabs[k].path
    BY <2>1, <2>2, TabSet, Zenon
  <2>5. QED
    BY <2>1, <2>3, <2>4
<1>4. QED
  BY <1>2, <1>3 DEF Saved

LEMMA SaveInv == ASSUME IInv, Buffer_save PROVE IInv'
<1>1. PICK i \in DOMAIN tabs : tabs[i].path # NoPath /\ Saved(i, tabs[i].path)
  BY DEF Buffer_save
<1>2. i \in 1 .. Len(tabs) /\ tabs[i].path \in Path
  <2>1. i \in 1 .. Len(tabs)
    BY LenProperties DEF IInv, Types
  <2>2. QED
    BY <1>1, <2>1, TabTypes DEF IInv
<1>3. tabs' \in Seq(Tab) /\ Len(tabs') = Len(tabs) /\ docs' \in Docs
  BY <1>1, <1>2, SavedTab DEF IInv
<1>4. UNCHANGED <<front, ui, running, frame, had, held>>
  BY DEF Buffer_save
<1>5. QED
  BY <1>3, <1>4 DEF IInv, Types, Seen

LEMMA SaveAsInv == ASSUME IInv, Buffer_save_as PROVE IInv'
<1>1. PICK p \in Path : Saved(front, p)
  BY DEF Buffer_save_as
<1>2. front \in 1 .. Len(tabs)
  BY DEF IInv, Types
<1>3. tabs' \in Seq(Tab) /\ Len(tabs') = Len(tabs) /\ docs' \in Docs
  BY <1>1, <1>2, SavedTab DEF IInv
<1>4. UNCHANGED <<front, ui, running, frame, had, held>>
  BY DEF Buffer_save_as
<1>5. QED
  BY <1>3, <1>4 DEF IInv, Types, Seen

LEMMA HotkeyInv == ASSUME IInv, EditHotkey PROVE IInv'
<1>1. PICK t \in Text : Edit(front, t)
  BY DEF EditHotkey
<1>2. front \in Nat
  BY DEF IInv, Types
<1>3. tabs' \in Seq(Tab) /\ Len(tabs') = Len(tabs) /\ docs' \in Docs
  BY <1>1, <1>2, Edited DEF IInv
<1>4. UNCHANGED <<front, ui, running, frame, had, held>>
  BY DEF EditHotkey
<1>5. QED
  BY <1>3, <1>4 DEF IInv, Types, Seen

LEMMA HoverInv == ASSUME IInv, HoverKey PROVE IInv'
<1>1. ui' = SetFlags(ui, {"HOV_PENDING", "HAS_HOVE"})
      /\ UNCHANGED <<tabs, front, running, docs, frame, had, held>>
  BY DEF HoverKey
<1>2. ui' \in Ui /\ PopupInv(ui')
  BY <1>1, SetOther DEF IInv, Flag
<1>3. "HAS_COMP" \in ui.flags => "HAS_COMP" \in ui'.flags
  BY <1>1, <1>2 DEF SetFlags, IInv, Ui
<1>4. QED
  BY <1>1, <1>2, <1>3 DEF IInv, Types, Seen

LEMMA PopupKeyInv == ASSUME IInv, PopupHandles PROVE IInv'
<1>1. lsp_ui_hide(ui) \in Ui /\ PopupInv(lsp_ui_hide(ui))
  BY HidePopup DEF IInv, PopupInv
<1>2. ui' \in Ui /\ PopupInv(ui')
  BY <1>1 DEF PopupHandles, IInv
<1>3. tabs' \in Seq(Tab) /\ Len(tabs') = Len(tabs) /\ docs' \in Docs
  <2>1. CASE UNCHANGED <<tabs, docs>>
    BY <2>1 DEF IInv, Types
  <2>2. ASSUME NEW t \in Text, Edit(held, t)
        PROVE  tabs' \in Seq(Tab) /\ Len(tabs') = Len(tabs) /\ docs' \in Docs
    <3>1. held \in Nat
      BY DEF IInv, Types
    <3>2. QED
      BY <2>2, <3>1, Edited DEF IInv
  <2>3. QED
    BY <2>1, <2>2 DEF PopupHandles
<1>4. /\ frame' = "draw" /\ had' = FALSE /\ held' = 0 /\ UNCHANGED <<front, running>>
  BY DEF PopupHandles
<1>5. Len(tabs) \in Nat
  BY LenProperties DEF IInv, Types
<1>6. Types'
  <2>1. had' \in BOOLEAN
    BY <1>4, Zenon
  <2>2. held' \in 0 .. Len(tabs') /\ front' \in 1 .. Len(tabs')
    BY <1>3, <1>4, <1>5 DEF IInv, Types
  <2>3. frame' \in {"update", "input", "hotkeys", "typing", "draw", "exited"}
    BY <1>4, Zenon
  <2>4. running' \in BOOLEAN
    BY <1>4, Zenon DEF IInv, Types
  <2>5. QED
    BY <1>3, <2>1, <2>2, <2>3, <2>4 DEF Types
<1>7. QED
  BY <1>2, <1>4, <1>6 DEF IInv, Seen

LEMMA IgnoreInv == ASSUME IInv, PopupIgnores PROVE IInv'
<1>1. frame' = "typing" /\ UNCHANGED <<tabs, front, ui, running, docs, held>> /\ had' = FALSE
  BY DEF PopupIgnores
<1>2. had' \in BOOLEAN
  BY <1>1, Zenon
<1>3. QED
  BY <1>1, <1>2 DEF IInv, Types, Seen

\* What a typed key does to the popup outside the hotkeys.
LEMMA TypingInv ==
  ASSUME IInv, frame = "typing", tabs' \in Seq(Tab), Len(tabs') = Len(tabs), docs' \in Docs,
         ui' \in Ui, PopupInv(ui'), UNCHANGED <<front, running, frame, had, held>>
  PROVE  IInv'
BY DEF IInv, Types, Seen

LEMMA NoSignature ==
  ASSUME NEW u \in Ui, PopupInv(u), NEW S \in SUBSET Flag, "HAS_SIG" \in S,
         S \cap {"HAS_COMP", "VISIBLE", "ENABLE"} = {}
  PROVE  /\ [ClearFlags(u, S) EXCEPT !.signature = FALSE] \in Ui
         /\ PopupInv([ClearFlags(u, S) EXCEPT !.signature = FALSE])
<1> DEFINE v == ClearFlags(u, S)
           w == [v EXCEPT !.signature = FALSE]
<1>1. v \in Ui /\ PopupInv(v)
  BY ClearOther
<1>2. v.flags = u.flags \ S
  BY DEF ClearFlags, Ui
<1> HIDE DEF v
<1>3. /\ w \in Ui /\ w.flags = v.flags /\ w.filtered = v.filtered
      /\ w.count = v.count
      /\ w.item_count = v.item_count /\ w.uri = v.uri
  BY <1>1 DEF Ui
<1> HIDE DEF w
<1>4. PopupInv(w)
  BY <1>1, <1>2, <1>3 DEF PopupInv, HasList
<1>5. QED
  BY <1>3, <1>4 DEF v, w

LEMMA TypeInv == ASSUME IInv, Type PROVE IInv'
<1>1. PICK t \in Text : Edit(held, t)
  BY DEF Type
<1>2. held \in Nat
  BY DEF IInv, Types
<1>3. tabs' \in Seq(Tab) /\ Len(tabs') = Len(tabs) /\ docs' \in Docs
  BY <1>1, <1>2, Edited DEF IInv
<1>4. ui' \in Ui /\ PopupInv(ui')
  <2>1. ui \in Ui /\ PopupInv(ui)
    BY DEF IInv
  <2>2. CASE UNCHANGED ui
    BY <2>1, <2>2
  <2>3. CASE ui' = [ui EXCEPT !.timer = TRUE]
    <3> DEFINE v == [ui EXCEPT !.timer = TRUE]
    <3>1. /\ v \in Ui /\ v.flags = ui.flags /\ v.filtered = ui.filtered
          /\ v.count = ui.count
          /\ v.item_count = ui.item_count /\ v.uri = ui.uri /\ v.signature = ui.signature
      BY <2>1 DEF Ui
    <3>2. ui' = v
      BY <2>3
    <3> HIDE DEF v
    <3>3. QED
      BY <2>1, <3>1, <3>2 DEF PopupInv, HasList
  <2>4. CASE ui' = lsp_ui_hide(ui)
    BY <2>1, <2>4, HidePopup DEF PopupInv
  <2>5. CASE ui' = SetFlags(ui, {"SIG_PENDING"})
    BY <2>1, <2>5, SetOther DEF Flag
  <2>6. CASE ui' = [ClearFlags(ui, {"SIG_PENDING", "HAS_SIG"}) EXCEPT !.signature = FALSE]
    <3>1. {"SIG_PENDING", "HAS_SIG"} \in SUBSET Flag
      BY DEF Flag
    <3>2. QED
      BY <2>1, <2>6, <3>1, NoSignature
  <2>7. QED
    BY <2>2, <2>3, <2>4, <2>5, <2>6, Zenon DEF Type
<1>5. frame = "typing" /\ UNCHANGED <<front, running, frame, had, held>>
  BY DEF Type
<1>6. QED
  BY <1>3, <1>4, <1>5, TypingInv

LEMMA BackspaceInv == ASSUME IInv, Backspace PROVE IInv'
<1>1. PICK t \in Text : Edit(held, t)
  BY DEF Backspace
<1>2. held \in Nat
  BY DEF IInv, Types
<1>3. tabs' \in Seq(Tab) /\ Len(tabs') = Len(tabs) /\ docs' \in Docs
  BY <1>1, <1>2, Edited DEF IInv
<1>4. ui' \in Ui /\ PopupInv(ui')
  BY HidePopup DEF Backspace, IInv, PopupInv
<1>5. frame = "typing" /\ UNCHANGED <<front, running, frame, had, held>>
  BY DEF Backspace
<1>6. QED
  BY <1>3, <1>4, <1>5, TypingInv

LEMMA EscapeInv == ASSUME IInv, EscapeKey PROVE IInv'
<1> DEFINE h == IF ui.flags \cap {"HAS_HOVE", "HOV_PENDING"} = {} THEN ui
                ELSE ClearFlags(ui, {"HAS_HOVE", "HOV_PENDING"})
<1>1. h \in Ui /\ PopupInv(h)
  BY ClearOther DEF IInv, Flag
<1>2. ui' = IF h.flags \cap {"HAS_SIG", "SIG_PENDING"} = {} THEN h
            ELSE [ClearFlags(h, {"HAS_SIG", "SIG_PENDING"}) EXCEPT !.signature = FALSE]
  BY Zenon DEF EscapeKey
<1> HIDE DEF h
<1>3. {"HAS_SIG", "SIG_PENDING"} \in SUBSET Flag
  BY DEF Flag
<1>4. ui' \in Ui /\ PopupInv(ui')
  BY <1>1, <1>2, <1>3, NoSignature
<1>5. frame = "typing" /\ UNCHANGED <<tabs, front, running, docs, frame, had, held>>
  BY DEF EscapeKey
<1>6. QED
  BY <1>4, <1>5, TypingInv DEF IInv, Types

LEMMA MoveInv == ASSUME IInv, Move PROVE IInv'
<1>1. {"HAS_SIG", "HAS_HOVE"} \in SUBSET Flag
  BY DEF Flag
<1>2. ui' \in Ui /\ PopupInv(ui')
  BY <1>1, NoSignature DEF Move, IInv
<1>3. frame = "typing" /\ UNCHANGED <<tabs, front, running, docs, frame, had, held>>
  BY DEF Move
<1>4. QED
  BY <1>2, <1>3, TypingInv DEF IInv, Types

-----------------------------------------------------------------------------
(* The loop. *)

LEMMA UpdateInv == ASSUME IInv, lsp_ui_update PROVE IInv'
<1>1. UpdateOff \/ UpdateIdle \/ UpdateEscape \/ UpdateNoWord \/ UpdateAsk
  BY DEF lsp_ui_update
<1>2. ui' \in Ui /\ PopupInv(ui') /\ docs' \in Docs
  BY <1>1, Updated DEF IInv
<1>3. frame' = "input" /\ UNCHANGED <<tabs, front, running, had, held>>
  BY DEF lsp_ui_update
<1>4. QED
  BY <1>2, <1>3 DEF IInv, Types, Seen

LEMMA ConfirmInv == ASSUME IInv, ConfirmExit PROVE IInv'
<1>1. ui' \in Ui /\ PopupInv(ui')
  BY HidePopup DEF ConfirmExit, IInv, PopupInv
<1>2. frame' = "draw" /\ UNCHANGED <<tabs, front, running, docs, had, held>>
  BY DEF ConfirmExit
<1>3. QED
  BY <1>1, <1>2 DEF IInv, Types, Seen

LEMMA ToggleInv == ASSUME IInv, lsp_ui_toggle PROVE IInv'
<1> DEFINE v == SetFlags(ui, {"VISIBLE", "REQUEST_PENDING"})
<1>1. /\ v \in Ui /\ v.flags = ui.flags \cup {"VISIBLE", "REQUEST_PENDING"}
      /\ v.signature = ui.signature /\ v.filtered = ui.filtered
  BY DEF SetFlags, Ui, IInv, Flag
<1>2. /\ "ENABLE" \notin ui.flags /\ ui' = v
      /\ frame = "input" /\ UNCHANGED <<tabs, front, running, docs, frame, had, held>>
  BY DEF lsp_ui_toggle
<1> HIDE DEF v
<1>3. PopupInv(v)
  BY <1>1, <1>2 DEF PopupInv, IInv
<1>4. QED
  BY <1>1, <1>2, <1>3 DEF IInv, Types, Seen

LEMMA BeginInv == ASSUME IInv, BeginInput PROVE IInv'
<1>1. UNCHANGED <<tabs, front, ui, running, docs>>
  BY DEF BeginInput
<1>2. \/ frame' = "hotkeys" /\ had' = ("HAS_COMP" \in ui.flags) /\ held' = front
      \/ frame' = "draw" /\ UNCHANGED <<had, held>>
  BY DEF BeginInput
<1>3. front \in 0 .. Len(tabs)
  BY LenProperties DEF IInv, Types
<1>4. had' \in BOOLEAN
  <2>1. ("HAS_COMP" \in ui.flags) \in BOOLEAN /\ had \in BOOLEAN
    BY DEF IInv, Types
  <2>2. QED
    BY <1>2, <2>1, Zenon
<1>5. QED
  BY <1>1, <1>2, <1>3, <1>4 DEF IInv, Types, Seen

LEMMA EndInv == ASSUME IInv, EndInput \/ EndFrame PROVE IInv'
<1>1. /\ frame' \in {"draw", "update"} /\ held' \in {0, held}
      /\ UNCHANGED <<tabs, front, ui, running, docs, had>>
  BY DEF EndInput, EndFrame
<1>2. Len(tabs) \in Nat
  BY LenProperties DEF IInv, Types
<1>3. QED
  BY <1>1, <1>2 DEF IInv, Types, Seen

LEMMA EmptyPopup == NoUi \in Ui /\ PopupInv(NoUi)
BY NoItems DEF NoUi, Ui, PopupInv, Pointees

LEMMA ShutdownInv == ASSUME IInv, lsp_ui_shutdown PROVE IInv'
<1>1. /\ frame' = "exited" /\ UNCHANGED <<tabs, front, docs, had, held>>
      /\ ui' \in {NoUi, ui}
  BY DEF lsp_ui_shutdown
<1>2. running' \in BOOLEAN
  BY Zenon DEF lsp_ui_shutdown, IInv, Types
<1>3. QED
  BY <1>1, <1>2, EmptyPopup DEF IInv, Types, Seen

LEMMA InitInv == Init => IInv
<1> SUFFICES ASSUME Init PROVE IInv
  OBVIOUS
<1>1. tabs \in Seq(Tab) /\ Len(tabs) = 1
  BY EmptyTab DEF Init
<1>2. docs \in Docs
  BY DEF Init, Docs
<1>3. running \in BOOLEAN /\ had \in BOOLEAN /\ ~had
  BY Zenon DEF Init
<1>4. Types
  BY <1>1, <1>2, <1>3 DEF Init, Types
<1>5. QED
  BY <1>3, <1>4, EmptyPopup DEF Init, IInv, Seen

LEMMA NextInv == IInv /\ [Next]_vars => IInv'
<1> SUFFICES ASSUME IInv, [Next]_vars PROVE IInv'
  OBVIOUS
<1>1. CASE UNCHANGED vars
  BY <1>1 DEF vars, IInv, Types, Seen
<1>2. CASE lsp_ui_update \/ ConfirmExit \/ lsp_ui_toggle
  BY <1>2, UpdateInv, ConfirmInv, ToggleInv
<1>3. CASE NewTab \/ Open \/ BufManager_closetab \/ BufManager_switchtab
  BY <1>3, NewTabInv, OpenInv, CloseInv, SwitchInv
<1>4. CASE Keys
  BY <1>4, HotkeyInv, HoverInv, SaveInv, SaveAsInv, PopupKeyInv, IgnoreInv, TypeInv,
     BackspaceInv, EscapeInv, MoveInv DEF Keys
<1>5. CASE BeginInput \/ EndInput \/ EndFrame \/ lsp_ui_shutdown
  BY <1>5, BeginInv, EndInv, ShutdownInv
<1>6. QED
  BY <1>1, <1>2, <1>3, <1>4, <1>5 DEF Next

\* The invariant holds throughout: a popup that is open has an allocated list that
\* fits its array, and what the frame remembers of it is still so (handle_input).
THEOREM Invariant == Spec => []IInv
<1>1. Init => IInv
  BY InitInv
<1>2. IInv /\ [Next]_vars => IInv'
  BY NextInv
<1>3. QED
  BY <1>1, <1>2, PTL DEF Spec

\* The tabs, the popup and the documents keep their types, for any number of
\* tabs, files, texts and items (lsp_client.c, buffer_manager.c).
THEOREM TypeCorrect == Spec => []TypeOK
<1>1. IInv => TypeOK
  BY Typed DEF IInv
<1>2. QED
  BY <1>1, Invariant, PTL

\* No freed completion is drawn or applied, although handle_input goes by what
\* it saw of the popup before the hotkeys (navigation.c, render_lsp_ui.c).
THEOREM CompletionStaysLive == Spec => []CompletionIsLive
<1>1. IInv => CompletionIsLive
  BY DEF IInv, Seen, PopupInv, HasList, CompletionIsLive, Drawn, Applicable
<1>2. QED
  BY <1>1, Invariant, PTL

\* The popup is open only with a list in it (lsp_ui_update, lsp_ui_hide).
THEOREM VisiblePopupHasItems == Spec => []VisibleHasItems
<1>1. IInv => VisibleHasItems
  <2>1. IInv /\ "HAS_COMP" \in ui.flags => ui.count > 0
    BY DEF IInv, PopupInv, HasList, Ui
  <2>2. QED
    BY <2>1 DEF IInv, PopupInv, VisibleHasItems
<1>2. QED
  BY <1>1, Invariant, PTL

\* A signature is drawn only while there is one (lsp_client.c, navigation.c).
THEOREM SignatureStaysLive == Spec => []SignatureIsLive
<1>1. IInv => SignatureIsLive
  BY DEF IInv, PopupInv, SignatureIsLive
<1>2. QED
  BY <1>1, Invariant, PTL

-----------------------------------------------------------------------------
(* What a step may never do. *)

LEMMA ShownStep ==
  ASSUME IInv, Next, frame = "update", "HAS_COMP" \in ui'.flags
  PROVE  docs'[ui'.uri] \in {NotOpen, tabs'[front'].text}
<1>1. lsp_ui_update \/ ConfirmExit
  BY DEF Next, Keys, lsp_ui_toggle, NewTab, Open, BufManager_closetab,
     BufManager_switchtab, Reached, BeginInput, EditHotkey, HoverKey, Buffer_save,
     Buffer_save_as, PopupHandles, PopupIgnores, Type, Backspace, EscapeKey, Move,
     EndInput, EndFrame, lsp_ui_shutdown
<1>2. CASE lsp_ui_update
  <2>1. UpdateOff \/ UpdateIdle \/ UpdateEscape \/ UpdateNoWord \/ UpdateAsk
    BY <1>2 DEF lsp_ui_update
  <2>2. tabs' = tabs /\ front' = front
    BY <1>2 DEF lsp_ui_update
  <2>3. docs'[ui'.uri] \in {NotOpen, buf.text}
    BY <2>1, Updated DEF IInv
  <2>4. QED
    BY <2>2, <2>3 DEF buf
<1>3. CASE ConfirmExit
  BY <1>3, HidePopup DEF ConfirmExit, IInv, PopupInv
<1>4. QED
  BY <1>1, <1>2, <1>3

\* An update shows a list only for a document that the server holds with the
\* text in front, or does not hold: an edit it was not told of is sent first
\* (lsp_ui_update).
THEOREM ListShownForText == Spec => ShownForText
<1>1. IInv /\ [Next]_vars
        => [frame = "update" /\ "HAS_COMP" \in ui'.flags
              => docs'[ui'.uri] \in {NotOpen, tabs'[front'].text}]_vars
  BY ShownStep
<1>2. QED
  BY <1>1, Invariant, PTL DEF Spec, ShownForText

LEMMA Buffers ==
  ASSUME Types, NEW p \in Path, HasBuffer(p)
  PROVE  \E k \in 1 .. Len(tabs) : tabs[k].path = p
BY LenProperties DEF Types, HasBuffer

LEMMA BuffersNext ==
  ASSUME tabs' \in Seq(Tab), NEW p, NEW k \in 1 .. Len(tabs'), tabs'[k].path = p
  PROVE  HasBuffer(p)'
BY LenProperties DEF HasBuffer

\* The steps after which every tab of before still is one.
LEMMA SamePaths ==
  ASSUME Types, tabs' \in Seq(Tab), Len(tabs') = Len(tabs),
         \A k \in 1 .. Len(tabs) : tabs'[k].path = tabs[k].path,
         NEW p \in Path, HasBuffer(p)
  PROVE  HasBuffer(p)'
<1>1. PICK k \in 1 .. Len(tabs) : tabs[k].path = p
  BY Buffers
<1>2. k \in 1 .. Len(tabs') /\ tabs'[k].path = p
  BY <1>1
<1>3. QED
  BY <1>2, BuffersNext

LEMMA FollowStep ==
  ASSUME IInv, Next, ~Buffer_save_as, NEW p \in Path, HasBuffer(p), ~HasBuffer(p)'
  PROVE  docs'[p] = NotOpen
<1>1. Types /\ tabs \in Seq(Tab) /\ Len(tabs) \in Nat /\ docs \in Docs
      /\ front \in 1 .. Len(tabs) /\ ui \in Ui /\ PopupInv(ui) /\ held \in Nat
  BY LenProperties DEF IInv, Types
<1>2. PICK k \in 1 .. Len(tabs) : tabs[k].path = p
  BY <1>1, Buffers
<1>3. p # NoPath
  BY Names
<1>4. tabs' = tabs => FALSE
  BY DEF HasBuffer
<1>5. CASE BufManager_closetab
  <2>1. buf.path = p
    <3>1. CASE Len(tabs) = 1
      <4>1. k = front
        BY <1>1, <3>1
      <4>2. QED
        BY <1>2, <4>1 DEF buf
    <3>2. CASE Len(tabs) # 1
      <4>1. tabs' = RemoveAt(tabs, front)
        BY <1>5, <3>2 DEF BufManager_closetab
      <4>2. /\ tabs' \in Seq(Tab) /\ Len(tabs') = Len(tabs) - 1
            /\ k # front => \E j \in 1 .. Len(tabs) - 1 : tabs'[j] = tabs[k]
        BY <1>1, <4>1, TabRemoved, Zenon
      <4>3. k = front
        BY <1>2, <4>2, BuffersNext
      <4>4. QED
        BY <1>2, <4>3 DEF buf
    <3>3. QED
      BY <3>1, <3>2
  <2>2. docs' = lsp_did_close(docs, buf.path)
    BY <1>5 DEF BufManager_closetab
  <2>3. QED
    BY <1>1, <1>3, <2>1, <2>2 DEF lsp_did_close, Docs
<1>6. CASE Open
  <2>1. PICK q \in Path, t \in Text : OpenAt(front, q, t, lsp_did_close(docs, buf.path))
    BY <1>6 DEF Open
  <2>2. lsp_did_close(docs, buf.path) \in Docs /\ front \in 1 .. Len(tabs) + 1
    BY <1>1, InFront, Closed
  <2>3. /\ tabs' \in Seq(Tab) /\ Len(tabs) <= Len(tabs') /\ front <= Len(tabs')
        /\ tabs'[front].path = q
        /\ \A j \in 1 .. Len(tabs) : j # front => tabs'[j] = tabs[j]
        /\ \A r \in Path : r # q => docs'[r] = lsp_did_close(docs, buf.path)[r]
    BY <1>1, <2>1, <2>2, FileOpened
  <2>4. Len(tabs') \in Nat
    BY <2>3, LenProperties
  <2>5. k = front
    <3>1. k \in 1 .. Len(tabs')
      BY <1>1, <2>3, <2>4
    <3>2. k # front => tabs'[k].path = p
      BY <1>2, <2>3
    <3>3. QED
      BY <2>3, <3>1, <3>2, BuffersNext
  <2>6. buf.path = p
    BY <1>2, <2>5 DEF buf
  <2>7. p # q
    <3>1. front \in 1 .. Len(tabs')
      BY <1>1, <2>3, <2>4
    <3>2. QED
      BY <2>3, <3>1, BuffersNext
  <2>8. QED
    BY <1>1, <1>3, <2>3, <2>6, <2>7 DEF lsp_did_close, Docs
<1>7. CASE NewTab
  <2>1. /\ tabs' \in Seq(Tab) /\ Len(tabs) <= Len(tabs')
        /\ \A j \in 1 .. Len(tabs) : tabs'[j] = tabs[j]
    <3>1. CASE tabs' = Append(tabs, Buffer_new)
      BY <1>1, <3>1, EmptyTab, AppendProperties
    <3>2. ASSUME NEW q \in Path, NEW t \in Text, OpenAt(Len(tabs) + 1, q, t, docs)
          PROVE  /\ tabs' \in Seq(Tab) /\ Len(tabs) <= Len(tabs')
                 /\ \A j \in 1 .. Len(tabs) : tabs'[j] = tabs[j]
      <4>1. Len(tabs) + 1 \in 1 .. Len(tabs) + 1
        BY <1>1
      <4>2. /\ tabs' \in Seq(Tab) /\ Len(tabs) <= Len(tabs')
            /\ \A j \in 1 .. Len(tabs) : j # Len(tabs) + 1 => tabs'[j] = tabs[j]
        BY <1>1, <3>2, <4>1, FileOpened
      <4>3. QED
        BY <1>1, <4>2
    <3>3. QED
      BY <1>7, <3>1, <3>2 DEF NewTab
  <2>2. Len(tabs') \in Nat
    BY <2>1, LenProperties
  <2>3. k \in 1 .. Len(tabs') /\ tabs'[k].path = p
    BY <1>1, <1>2, <2>1, <2>2
  <2>4. QED
    BY <2>1, <2>3, BuffersNext
<1>8. CASE Buffer_save
  <2>1. PICK i \in DOMAIN tabs : tabs[i].path # NoPath /\ Saved(i, tabs[i].path)
    BY <1>8 DEF Buffer_save
  <2>2. i \in 1 .. Len(tabs) /\ tabs[i].path \in Path
    <3>1. i \in 1 .. Len(tabs)
      BY <1>1, LenProperties
    <3>2. QED
      BY <1>1, <2>1, <3>1, TabTypes
  <2>3. /\ tabs' \in Seq(Tab) /\ Len(tabs') = Len(tabs)
        /\ \A j \in 1 .. Len(tabs) :
              tabs'[j].path = IF j = i THEN tabs[i].path ELSE tabs[j].path
    BY <1>1, <2>1, <2>2, SavedTab
  <2>4. \A j \in 1 .. Len(tabs) : tabs'[j].path = tabs[j].path
    BY <2>3
  <2>5. QED
    BY <1>1, <2>3, <2>4, SamePaths
<1>9. ASSUME NEW i \in Nat, NEW t \in Text, Edit(i, t)
      PROVE  FALSE
  <2>1. /\ tabs' \in Seq(Tab) /\ Len(tabs') = Len(tabs)
        /\ \A j \in 1 .. Len(tabs) : tabs'[j].path = tabs[j].path
    BY <1>1, <1>9, Edited
  <2>2. QED
    BY <1>1, <2>1, SamePaths
<1>10. CASE EditHotkey \/ Type \/ Backspace
  BY <1>1, <1>9, <1>10 DEF EditHotkey, Type, Backspace
<1>11. CASE PopupHandles
  BY <1>1, <1>4, <1>9, <1>11 DEF PopupHandles
<1>12. CASE \/ lsp_ui_update \/ ConfirmExit \/ lsp_ui_toggle \/ BufManager_switchtab
            \/ BeginInput \/ HoverKey \/ PopupIgnores \/ EscapeKey \/ Move
            \/ EndInput \/ EndFrame \/ lsp_ui_shutdown
  <2>1. tabs' = tabs
    BY <1>12 DEF lsp_ui_update, ConfirmExit, lsp_ui_toggle, BufManager_switchtab,
       BeginInput, HoverKey, PopupIgnores, EscapeKey, Move, EndInput, EndFrame,
       lsp_ui_shutdown
  <2>2. QED
    BY <1>4, <2>1
<1>13. QED
  BY <1>5, <1>6, <1>7, <1>8, <1>10, <1>11, <1>12 DEF Next, Keys

\* A step that leaves a document without a buffer closes it, except Save As,
\* however tabs are opened, replaced and closed (BufManager_open,
\* BufManager_closetab).
THEOREM DocumentsClosed == Spec => DocumentsFollowTabs
<1>1. IInv /\ [Next]_vars
        => [Buffer_save_as \/ \A p \in Path :
               HasBuffer(p) /\ ~HasBuffer(p)' => docs'[p] = NotOpen]_vars
  BY FollowStep
<1>2. QED
  BY <1>1, Invariant, PTL DEF Spec, DocumentsFollowTabs
=============================================================================
