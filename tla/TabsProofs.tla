----------------------------- MODULE TabsProofs -----------------------------
(***************************************************************************)
(* Proofs about Tabs: the array of tabs and the allocated buffers fit      *)
(* together, for every number of tabs, buffers, files and texts.           *)
(***************************************************************************)
EXTENDS Tabs, SequenceTheorems, TLAPS

TabType ==
  /\ buf \in [Slot -> BufId \cup {NULL}]
  /\ num_tabs \in 0 .. MAX_TABS
  /\ active_idx \in -1 .. num_tabs - 1
  /\ heap \in [BufId -> BufferType \cup {NULL}]

Owned ==
  /\ \A i \in Slot : IF i < num_tabs THEN buf[i] # NULL ELSE buf[i] = NULL
  /\ \A i, j \in Slot : i # j /\ buf[i] # NULL => buf[i] # buf[j]
  /\ \A b \in BufId : heap[b] # NULL <=> \E i \in Slot : buf[i] = b

\* What holds between two events of a running editor.
Running == TabType /\ Owned /\ active_idx >= 0

IInv == TypeOK /\ TabsHoldBuffers

LEMMA NullIsNothing ==
  NULL \notin BufId /\ NULL \notin BufferType
BY NotNull DEF BufferType

\* The tab in front, or any other, holds an allocated buffer.
LEMMA TabHoldsBuffer ==
  ASSUME TabType, Owned, NEW i \in Slot, i < num_tabs
  PROVE  buf[i] \in BufId /\ heap[buf[i]] \in BufferType
<1>1. buf[i] # NULL /\ buf[i] \in BufId \cup {NULL}
  BY DEF TabType, Owned
<1>2. buf[i] \in BufId
  BY <1>1
<1>3. heap[buf[i]] # NULL
  BY <1>2 DEF Owned
<1> QED
  BY <1>2, <1>3 DEF TabType

LEMMA TabIndex ==
  ASSUME TabType, active_idx >= 0
  PROVE  active_idx \in Slot /\ active_idx < num_tabs /\ num_tabs >= 1
BY TabsFit DEF TabType, Slot

LEMMA OpenedIsBuffer ==
  ASSUME NEW f \in File \cup {NoFile}, NEW d \in [File -> Text \cup {NoFile}]
  PROVE  Buffer_open(f, d) \in BufferType
<1>1. CASE f = NoFile \/ d[f] = NoFile
  BY <1>1, EmptyIsText DEF Buffer_open, Buffer_new, BufferType
<1>2. CASE f \in File /\ d[f] # NoFile
  BY <1>2, EmptyIsText DEF Buffer_open, BufferType
<1> QED
  BY <1>1, <1>2

LEMMA NewIsBuffer == Buffer_new \in BufferType
BY EmptyIsText DEF Buffer_new, BufferType

-----------------------------------------------------------------------------
(* The operations of the buffer manager keep the tabs and the heap together. *)

LEMMA NewtabKeeps ==
  ASSUME Running, NEW holds \in BufferType, BufManager_newtab(holds)
  PROVE  Running'
<1>1. CASE num_tabs >= MAX_TABS /\ UNCHANGED <<tabVars, heap>>
  BY <1>1 DEF Running, TabType, Owned, tabVars
<1>2. CASE num_tabs < MAX_TABS
  <2>1. PICK b \in BufId :
          IsFresh(b, NULL) /\ heap' = Swapped(NULL, b, holds) /\ buf' = [buf EXCEPT ![num_tabs] = b]
    BY <1>2, TabsFit DEF BufManager_newtab, TabType, Running
  <2>2. active_idx' = num_tabs /\ num_tabs' = num_tabs + 1
    BY <1>2, TabsFit DEF BufManager_newtab, Running, TabType
  <2>3. num_tabs \in Slot /\ num_tabs \in Nat /\ MAX_TABS \in Nat
    BY <1>2, TabsFit DEF Running, TabType, Slot
  <2>4. heap[b] = NULL
    BY <2>1, NullIsNothing DEF IsFresh
  <2>5. \A i \in Slot : buf[i] # b
    BY <2>4 DEF Running, Owned
  <2>6. \A i \in Slot : buf'[i] = IF i = num_tabs THEN b ELSE buf[i]
    BY <2>1, <2>3 DEF Running, TabType
  <2>7. \A a \in BufId : heap'[a] = IF a = b THEN holds ELSE heap[a]
    BY <2>1, NullIsNothing DEF Swapped
  <2>8. TabType'
    <3>1. heap' \in [BufId -> BufferType \cup {NULL}]
      BY <2>1 DEF Swapped, Running, TabType
    <3>2. buf' \in [Slot -> BufId \cup {NULL}]
      BY <2>1 DEF Running, TabType
    <3> QED
      BY <3>1, <3>2, <2>2, <2>3, <1>2 DEF TabType
  <2>9. \A i \in Slot : IF i < num_tabs' THEN buf'[i] # NULL ELSE buf'[i] = NULL
    BY <2>2, <2>3, <2>6, NullIsNothing DEF Running, Owned, Slot
  <2>10. \A i, j \in Slot : i # j /\ buf'[i] # NULL => buf'[i] # buf'[j]
    BY <2>5, <2>6 DEF Running, Owned
  <2>11. \A a \in BufId : heap'[a] # NULL <=> \E i \in Slot : buf'[i] = a
    <3> TAKE a \in BufId
    <3>1. CASE a = b
      BY <3>1, <2>3, <2>6, <2>7, NullIsNothing
    <3>2. CASE a # b
      <4>1. heap'[a] = heap[a]
        BY <3>2, <2>7
      <4>2. buf[num_tabs] = NULL
        BY <2>3 DEF Running, Owned
      <4>3. \A i \in Slot : buf'[i] = a <=> buf[i] = a
        BY <3>2, <2>6, <4>2, NullIsNothing
      <4> QED
        BY <4>1, <4>3 DEF Running, Owned
    <3> QED
      BY <3>1, <3>2
  <2> QED
    BY <2>2, <2>3, <2>8, <2>9, <2>10, <2>11 DEF Running, Owned
<1> QED
  BY <1>1, <1>2 DEF BufManager_newtab

\* One buffer takes the place of another, also at the same address.
LEMMA ReplacedKeeps ==
  ASSUME Running, NEW k \in Slot, k < num_tabs,
         NEW holds \in BufferType, NEW b \in BufId, IsFresh(b, buf[k]),
         heap' = Swapped(buf[k], b, holds),
         buf' = [buf EXCEPT ![k] = b],
         num_tabs' = num_tabs, active_idx' = active_idx
  PROVE  Running'
<1>1. buf[k] \in BufId /\ heap[buf[k]] \in BufferType
  BY TabHoldsBuffer DEF Running
<1>2. \A i \in Slot : i # k => buf[i] # b
  BY <1>1, NullIsNothing DEF IsFresh, Running, Owned
<1>3. \A i \in Slot : buf'[i] = IF i = k THEN b ELSE buf[i]
  BY DEF Running, TabType
<1>4. \A a \in BufId : heap'[a] = IF a = b THEN holds ELSE IF a = buf[k] THEN NULL ELSE heap[a]
  BY DEF Swapped
<1>5. TabType'
  <2>1. heap' \in [BufId -> BufferType \cup {NULL}]
    BY DEF Swapped, Running, TabType
  <2>2. buf' \in [Slot -> BufId \cup {NULL}]
    BY DEF Running, TabType
  <2> QED
    BY <2>1, <2>2 DEF Running, TabType
<1>6. \A i \in Slot : IF i < num_tabs' THEN buf'[i] # NULL ELSE buf'[i] = NULL
  BY <1>3, NullIsNothing DEF Running, Owned
<1>7. \A i, j \in Slot : i # j /\ buf'[i] # NULL => buf'[i] # buf'[j]
  BY <1>2, <1>3 DEF Running, Owned
<1>8. \A a \in BufId : heap'[a] # NULL <=> \E i \in Slot : buf'[i] = a
  <2> TAKE a \in BufId
  <2>1. CASE a = b
    BY <2>1, <1>3, <1>4, NullIsNothing
  <2>2. CASE a # b /\ a = buf[k]
    <3>1. \A i \in Slot : buf'[i] # a
      BY <2>2, <1>1, <1>3, NullIsNothing DEF Running, Owned
    <3> QED
      BY <3>1, <2>2, <1>4
  <2>3. CASE a # b /\ a # buf[k]
    <3>1. \A i \in Slot : buf'[i] = a <=> buf[i] = a
      BY <2>3, <1>3
    <3> QED
      BY <3>1, <2>3, <1>4 DEF Running, Owned
  <2> QED
    BY <2>1, <2>2, <2>3
<1> QED
  BY <1>5, <1>6, <1>7, <1>8 DEF Running, Owned

LEMMA OpenKeeps ==
  ASSUME Running, NEW holds \in BufferType, BufManager_open(holds)
  PROVE  Running'
<1>1. active_idx \in Slot /\ active_idx < num_tabs
  BY TabIndex DEF Running
<1>2. PICK b \in BufId :
        /\ IsFresh(b, buf[active_idx]) /\ heap' = Swapped(buf[active_idx], b, holds)
        /\ buf' = [buf EXCEPT ![active_idx] = b]
  BY DEF BufManager_open, BufManager_getactive
<1>3. num_tabs' = num_tabs /\ active_idx' = active_idx
  BY DEF BufManager_open
<1> QED
  BY <1>1, <1>2, <1>3, ReplacedKeeps

LEMMA ClosetabKeeps ==
  ASSUME Running, NEW idx \in Slot, idx < num_tabs, BufManager_closetab(idx)
  PROVE  Running'
<1>1. CASE num_tabs = 1
  <2>1. idx = 0 /\ 0 \in Slot
    BY <1>1, TabsFit DEF Slot
  <2>2. active_idx = 0
    BY <1>1 DEF Running, TabType
  <2>3. PICK b \in BufId :
          /\ IsFresh(b, buf[0]) /\ heap' = Swapped(buf[0], b, Buffer_new)
          /\ buf' = [buf EXCEPT ![0] = b]
    BY <1>1, <2>1 DEF BufManager_closetab
  <2>4. num_tabs' = num_tabs /\ active_idx' = active_idx
    BY <1>1, <2>2 DEF BufManager_closetab
  <2> QED
    BY <1>1, <2>1, <2>3, <2>4, NewIsBuffer, ReplacedKeeps
<1>2. CASE num_tabs > 1
  <2>1. /\ heap' = [heap EXCEPT ![buf[idx]] = NULL]
        /\ buf' = Shifted(idx)
        /\ num_tabs' = num_tabs - 1
        /\ active_idx' = IF idx >= num_tabs - 1 THEN num_tabs - 2 ELSE idx
    BY <1>2 DEF BufManager_closetab
  <2>2. num_tabs \in Nat /\ MAX_TABS \in Nat /\ num_tabs <= MAX_TABS /\ idx \in Nat
    BY TabsFit DEF Running, TabType, Slot
  <2>3. buf[idx] \in BufId /\ heap[buf[idx]] \in BufferType
    BY TabHoldsBuffer DEF Running
  <2>4. \A i \in Slot :
          buf'[i] = IF i >= idx /\ i < num_tabs - 1 THEN buf[i + 1]
                    ELSE IF i = num_tabs - 1 THEN NULL ELSE buf[i]
    BY <2>1 DEF Shifted
  <2>5. \A a \in BufId : heap'[a] = IF a = buf[idx] THEN NULL ELSE heap[a]
    BY <2>1, <2>3 DEF Running, TabType
  <2>6. \A i \in Slot : i < num_tabs - 1 => i + 1 \in Slot
    BY <2>2 DEF Slot
  <2>7. TabType'
    <3>1. heap' \in [BufId -> BufferType \cup {NULL}]
      BY <2>1 DEF Running, TabType
    <3>2. buf' \in [Slot -> BufId \cup {NULL}]
      BY <2>1, <2>6 DEF Shifted, Running, TabType
    <3> QED
      BY <1>2, <2>1, <2>2, <3>1, <3>2 DEF TabType
  <2>8. \A i \in Slot : IF i < num_tabs' THEN buf'[i] # NULL ELSE buf'[i] = NULL
    <3> TAKE i \in Slot
    <3>1. CASE i < num_tabs - 1
      BY <3>1, <2>1, <2>2, <2>4, <2>6 DEF Running, Owned, Slot
    <3>2. CASE ~(i < num_tabs - 1)
      BY <3>2, <2>1, <2>2, <2>4 DEF Running, Owned, Slot
    <3> QED
      BY <3>1, <3>2
  \* The slot a pointer is found in before the shift.
  <2> DEFINE from(i) == IF i >= idx THEN i + 1 ELSE i
  <2>9. \A i \in Slot : i < num_tabs - 1
          => from(i) \in Slot /\ from(i) # idx /\ from(i) < num_tabs /\ buf'[i] = buf[from(i)]
    BY <2>2, <2>4, <2>6 DEF Slot
  <2>10. \A i \in Slot : ~(i < num_tabs - 1) => buf'[i] = NULL
    BY <2>1, <2>2, <2>8 DEF Slot
  <2>11. \A i, j \in Slot : i # j => from(i) # from(j)
    BY <2>2 DEF Slot
  <2>12. \A i, j \in Slot : i # j /\ buf'[i] # NULL => buf'[i] # buf'[j]
    <3> HIDE DEF from
    <3> SUFFICES ASSUME NEW i \in Slot, NEW j \in Slot, i # j, buf'[i] # NULL
                 PROVE  buf'[i] # buf'[j]
      OBVIOUS
    <3>1. i < num_tabs - 1 /\ from(i) \in Slot /\ buf'[i] = buf[from(i)]
      BY <2>9, <2>10
    <3>2. CASE j < num_tabs - 1
      <4>1. from(j) \in Slot /\ buf'[j] = buf[from(j)] /\ from(i) # from(j)
        BY <3>2, <2>9, <2>11
      <4> QED
        BY <3>1, <4>1 DEF Running, Owned
    <3>3. CASE ~(j < num_tabs - 1)
      BY <3>3, <2>10
    <3> QED
      BY <3>2, <3>3
  \* And the slot it is found in behind it.
  <2> DEFINE to(j) == IF j > idx THEN j - 1 ELSE j
  <2>13. \A j \in Slot : j # idx /\ j < num_tabs
           => to(j) \in Slot /\ to(j) < num_tabs - 1 /\ from(to(j)) = j
    BY <2>2 DEF Slot
  <2>14. \A a \in BufId : heap'[a] # NULL <=> \E i \in Slot : buf'[i] = a
    <3> HIDE DEF from, to
    <3> TAKE a \in BufId
    <3>1. CASE a = buf[idx]
      <4>1. SUFFICES ASSUME NEW i \in Slot, buf'[i] = a PROVE FALSE
        BY <3>1, <2>5
      <4>2. buf'[i] # NULL
        BY <4>1, NullIsNothing
      <4>3. from(i) \in Slot /\ from(i) # idx /\ buf'[i] = buf[from(i)]
        BY <4>2, <2>9, <2>10
      <4> QED
        BY <3>1, <4>1, <4>2, <4>3 DEF Running, Owned
    <3>2. CASE a # buf[idx]
      <4>1. heap'[a] = heap[a]
        BY <3>2, <2>5
      <4>2. ASSUME NEW j \in Slot, buf[j] = a PROVE \E i \in Slot : buf'[i] = a
        <5>1. j # idx /\ j < num_tabs
          BY <4>2, <3>2, NullIsNothing DEF Running, Owned
        <5>2. to(j) \in Slot /\ to(j) < num_tabs - 1 /\ from(to(j)) = j
          BY <5>1, <2>13
        <5> QED
          BY <4>2, <5>2, <2>9
      <4>3. ASSUME NEW i \in Slot, buf'[i] = a PROVE \E j \in Slot : buf[j] = a
        BY <4>3, <2>9, <2>10, NullIsNothing
      <4> QED
        BY <4>1, <4>2, <4>3 DEF Running, Owned
    <3> QED
      BY <3>1, <3>2
  <2>15. active_idx' >= 0
    BY <1>2, <2>1, <2>2
  <2> HIDE DEF from, to
  <2> QED
    BY <2>7, <2>8, <2>12, <2>14, <2>15 DEF Running, Owned
<1> QED
  BY <1>1, <1>2 DEF BufManager_closetab

\* What only stores something in an allocated buffer, or only shows another tab.
LEMMA StoreKeeps ==
  ASSUME Running, NEW b \in BufId, heap[b] # NULL, NEW holds \in BufferType,
         heap' = [heap EXCEPT ![b] = holds], UNCHANGED tabVars
  PROVE  Running'
<1>1. \A a \in BufId : heap'[a] # NULL <=> heap[a] # NULL
  BY NullIsNothing DEF Running, TabType
<1> QED
  BY <1>1 DEF Running, TabType, Owned, tabVars

LEMMA ShowKeeps ==
  ASSUME Running, UNCHANGED <<buf, num_tabs, heap>>, active_idx' \in 0 .. num_tabs - 1
  PROVE  Running'
BY DEF Running, TabType, Owned

LEMMA QuitKeeps ==
  ASSUME Running, Quit
  PROVE  TabType' /\ Owned'
<1>1. TabType'
  BY TabsFit DEF Quit, Running, TabType, Slot
<1>2. \A i \in Slot : buf'[i] = NULL
  BY DEF Quit, Running, Owned
<1>3. \A b \in BufId : heap'[b] = NULL
  <2> TAKE b \in BufId
  <2>1. CASE \E i \in 0 .. num_tabs - 1 : buf[i] = b
    BY <2>1 DEF Quit
  <2>2. CASE ~\E i \in 0 .. num_tabs - 1 : buf[i] = b
    <3>1. \A i \in Slot : buf[i] # b
      BY <2>2, NullIsNothing, TabsFit DEF Running, Owned, TabType, Slot
    <3> QED
      BY <3>1, <2>2 DEF Quit, Running, Owned
  <2> QED
    BY <2>1, <2>2
<1>4. \A i \in Slot : ~(i < num_tabs')
  BY DEF Quit, Slot
<1> QED
  BY <1>1, <1>2, <1>3, <1>4, NullIsNothing DEF Owned

-----------------------------------------------------------------------------
(* The inductive invariant. *)

Rest ==
  /\ disk \in [File -> Text \cup {NoFile}]
  /\ prompt \in {"none", "open", "new", "save"}
  /\ req_exit \in BOOLEAN /\ exited \in BOOLEAN

LEMMA IInvIsRunning ==
  ASSUME ~exited
  PROVE  IInv <=> Running /\ Rest
BY DEF IInv, TypeOK, TabsHoldBuffers, Running, TabType, Owned, Rest

LEMMA InitIInv == Init => IInv
<1> SUFFICES ASSUME Init PROVE IInv
  OBVIOUS
<1>1. PICK b \in BufId, f \in File \cup {NoFile} :
        /\ heap = [a \in BufId |-> IF a = b THEN Buffer_open(f, disk) ELSE NULL]
        /\ buf = [i \in Slot |-> IF i = 0 THEN b ELSE NULL]
  BY DEF Init
<1>2. disk \in [File -> Text \cup {NoFile}] /\ num_tabs = 1 /\ active_idx = 0
  BY DEF Init
<1>3. Buffer_open(f, disk) \in BufferType
  BY <1>2, OpenedIsBuffer
<1>4. 0 \in Slot /\ num_tabs \in 0 .. MAX_TABS
  BY <1>2, TabsFit DEF Slot
<1>5. TabType
  BY <1>1, <1>2, <1>3, <1>4 DEF TabType
<1>6. Owned
  <2>1. \A i \in Slot : IF i < num_tabs THEN buf[i] # NULL ELSE buf[i] = NULL
    BY <1>1, <1>2, NullIsNothing DEF Slot
  <2>2. \A i, j \in Slot : i # j /\ buf[i] # NULL => buf[i] # buf[j]
    BY <1>1, NullIsNothing
  <2>3. \A a \in BufId : heap[a] # NULL <=> \E i \in Slot : buf[i] = a
    BY <1>1, <1>3, <1>4, NullIsNothing
  <2> QED
    BY <2>1, <2>2, <2>3 DEF Owned
<1>7. Running
  BY <1>2, <1>5, <1>6 DEF Running
<1>8. Rest /\ ~exited
  <2>1. prompt = "none" /\ req_exit = FALSE /\ exited = FALSE
    BY DEF Init
  <2>2. req_exit \in BOOLEAN /\ exited \in BOOLEAN /\ ~exited
    BY <2>1, Zenon
  <2> QED
    BY <1>2, <2>1, <2>2 DEF Rest
<1> QED
  BY <1>7, <1>8, IInvIsRunning

LEMMA NextIInv == IInv /\ [Next]_vars => IInv'
<1> SUFFICES ASSUME IInv, [Next]_vars PROVE IInv'
  OBVIOUS
<1>1. CASE UNCHANGED vars
  BY <1>1 DEF IInv, TypeOK, TabsHoldBuffers, vars
<1> SUFFICES ASSUME Next PROVE IInv'
  BY <1>1
<1>2. ~exited /\ Running /\ Rest
  BY IInvIsRunning DEF Next
<1>3. ASSUME Running', Rest', ~exited' PROVE IInv'
  BY <1>3 DEF IInv, TypeOK, TabsHoldBuffers, Running, TabType, Owned, Rest
<1>4. active_idx \in Slot /\ active_idx < num_tabs /\ num_tabs <= MAX_TABS
  BY <1>2, TabIndex, TabsFit DEF Running, TabType
<1>5. buf[active_idx] \in BufId /\ heap[buf[active_idx]] \in BufferType
  BY <1>2, <1>4, TabHoldsBuffer DEF Running
<1>6. \A f \in File : Buffer_open(f, disk) \in BufferType
  BY <1>2, OpenedIsBuffer DEF Rest
<1>7. ASSUME UNCHANGED uiVars PROVE (UNCHANGED disk => Rest') /\ ~exited'
  <2>1. prompt' = prompt /\ req_exit' = req_exit /\ exited' = exited
    BY <1>7 DEF uiVars
  <2>2. ASSUME disk' = disk PROVE Rest'
    BY <1>2, <2>1, <2>2 DEF Rest
  <2> QED
    BY <1>2, <2>1, <2>2
<1>8. CASE Edit
  <2>1. PICK t \in Text :
          heap' = [heap EXCEPT ![buf[active_idx]].text = t, ![buf[active_idx]].dirty = TRUE]
    BY <1>8 DEF Edit, BufManager_getactive
  <2> DEFINE edited == [heap[buf[active_idx]] EXCEPT !.text = t, !.dirty = TRUE]
  <2>2. heap' = [heap EXCEPT ![buf[active_idx]] = edited]
    BY <2>1, <1>2, <1>5 DEF Running, TabType
  <2>3. edited \in BufferType
    BY <1>5 DEF BufferType
  <2>4. UNCHANGED <<tabVars, disk, uiVars>>
    BY <1>8 DEF Edit
  <2> HIDE DEF edited
  <2>5. Running'
    BY <1>2, <1>5, <2>2, <2>3, <2>4, NullIsNothing, StoreKeeps
  <2> QED
    BY <1>3, <1>7, <2>4, <2>5
<1>9. CASE NewTab
  <2>1. Running'
    BY <1>2, <1>9, NewIsBuffer, NewtabKeeps DEF NewTab
  <2> QED
    BY <1>3, <1>7, <1>9, <2>1 DEF NewTab
<1>10. CASE ForceClose
  <2>1. Running'
    BY <1>2, <1>4, <1>10, ClosetabKeeps DEF ForceClose
  <2> QED
    BY <1>3, <1>7, <1>10, <2>1 DEF ForceClose
<1>11. ASSUME NEW idx \in 0 .. num_tabs - 1, Nav_close_tab(idx) PROVE IInv'
  <2>1. idx \in Slot /\ idx < num_tabs
    BY <1>2, TabsFit DEF Slot, Running, TabType
  <2>2. CASE active_idx' = idx /\ UNCHANGED <<buf, num_tabs, heap>>
    <3>1. Running'
      BY <1>2, <2>2, ShowKeeps
    <3> QED
      BY <1>3, <1>7, <1>11, <3>1 DEF Nav_close_tab
  <2>3. CASE BufManager_closetab(idx)
    <3>1. Running'
      BY <1>2, <2>1, <2>3, ClosetabKeeps
    <3> QED
      BY <1>3, <1>7, <1>11, <3>1 DEF Nav_close_tab
  <2> QED
    BY <1>11, <2>2, <2>3 DEF Nav_close_tab
<1>12. CASE BufManager_switchtab
  <2>1. Running'
    BY <1>2, <1>12, ShowKeeps DEF BufManager_switchtab
  <2> QED
    BY <1>3, <1>7, <1>12, <2>1 DEF BufManager_switchtab
<1>13. CASE ClickTab
  <2>1. Running'
    BY <1>2, <1>13, ShowKeeps DEF ClickTab
  <2> QED
    BY <1>3, <1>7, <1>13, <2>1 DEF ClickTab
<1>14. CASE prompt_ui_config \/ CancelPrompt
  <2>1. UNCHANGED <<buf, num_tabs, active_idx, heap>>
    BY <1>14 DEF prompt_ui_config, CancelPrompt, tabVars
  <2>2. Running'
    BY <1>2, <2>1 DEF Running, TabType, Owned
  <2>3. Rest' /\ ~exited'
    BY <1>2, <1>14 DEF prompt_ui_config, CancelPrompt, Rest
  <2> QED
    BY <1>3, <2>2, <2>3
<1>15. ASSUME NEW f \in File, OpenInFileManager(f) PROVE IInv'
  <2>1. Running'
    BY <1>2, <1>6, <1>15, NewtabKeeps, OpenKeeps DEF OpenInFileManager
  <2> QED
    BY <1>3, <1>7, <1>15, <2>1 DEF OpenInFileManager
<1>16. ASSUME NEW f \in File, Nav_open_file(f) PROVE IInv'
  <2>1. Running'
    BY <1>2, <1>6, <1>16, OpenKeeps DEF Nav_open_file
  <2>2. Rest' /\ ~exited'
    BY <1>2, <1>16 DEF Nav_open_file, FloatPrompt_execute, Rest
  <2> QED
    BY <1>3, <2>1, <2>2
<1>17. ASSUME NEW f \in File, Nav_create_new_file(f) PROVE IInv'
  <2>1. disk' \in [File -> Text \cup {NoFile}]
    BY <1>2, <1>17, EmptyIsText DEF Nav_create_new_file, Rest
  <2>2. Buffer_open(f, disk') \in BufferType
    BY <2>1, OpenedIsBuffer
  <2>3. Running'
    BY <1>2, <1>17, <2>2, NewtabKeeps DEF Nav_create_new_file
  <2>4. Rest' /\ ~exited'
    BY <1>2, <1>17, <2>1 DEF Nav_create_new_file, FloatPrompt_execute, Rest
  <2> QED
    BY <1>3, <2>3, <2>4
<1>18. ASSUME NEW f \in File, NEW created \in BOOLEAN, SaveTo(f, created)
       PROVE  Running' /\ disk' \in [File -> Text \cup {NoFile}]
  <2> DEFINE b == heap[buf[active_idx]]
  <2> DEFINE saved == [b EXCEPT !.file = f, !.dirty = @ /\ b.text = Empty]
  <2>1. b \in BufferType
    BY <1>5
  <2>2. saved \in BufferType
    BY <2>1 DEF BufferType
  <2>3. heap' = [heap EXCEPT ![buf[active_idx]] = saved] /\ UNCHANGED tabVars
    BY <1>18 DEF SaveTo, BufManager_getactive
  <2>4. Running'
    <3> HIDE DEF saved, b
    <3> QED
      BY <1>2, <1>5, <2>2, <2>3, NullIsNothing, StoreKeeps
  <2>5. b.text \in Text
    BY <2>1 DEF BufferType
  <2>6. disk' = [disk EXCEPT ![f] = IF b.text # Empty THEN b.text
                                    ELSE IF created THEN Empty ELSE @]
    BY <1>18 DEF SaveTo, BufManager_getactive
  <2>7. disk' \in [File -> Text \cup {NoFile}]
    <3> HIDE DEF b
    <3> QED
      BY <1>2, <2>5, <2>6, EmptyIsText DEF Rest
  <2> QED
    BY <2>4, <2>7
<1>19. CASE Save
  <2> DEFINE f == heap[buf[active_idx]].file
  <2>1. f \in File /\ SaveTo(f, FALSE)
    BY <1>5, <1>19 DEF Save, BufManager_getactive, BufferType
  <2>2. Running' /\ disk' \in [File -> Text \cup {NoFile}]
    <3> HIDE DEF f
    <3> QED
      BY <1>18, <2>1
  <2>3. Rest' /\ ~exited'
    <3>1. prompt' = prompt /\ req_exit' = req_exit /\ exited' = exited
      BY <1>19 DEF Save, uiVars
    <3> QED
      BY <1>2, <2>2, <3>1 DEF Rest
  <2> QED
    BY <1>3, <2>2, <2>3
<1>20. ASSUME NEW f \in File, Nav_save_as(f) PROVE IInv'
  <2>1. Running' /\ disk' \in [File -> Text \cup {NoFile}]
    BY <1>18, <1>20 DEF Nav_save_as
  <2>2. Rest' /\ ~exited'
    BY <1>2, <1>20, <2>1 DEF Nav_save_as, FloatPrompt_execute, Rest
  <2> QED
    BY <1>3, <2>1, <2>2
<1>21. CASE Nav_exit \/ ForceExit \/ CancelExit
  <2>1. UNCHANGED <<buf, num_tabs, active_idx, heap>>
    BY <1>21 DEF Nav_exit, ForceExit, CancelExit, tabVars
  <2>2. Running'
    BY <1>2, <2>1 DEF Running, TabType, Owned
  <2>3. Rest' /\ ~exited'
    <3>1. disk' = disk /\ prompt' = prompt /\ exited' = exited
      BY <1>21 DEF Nav_exit, ForceExit, CancelExit
    <3>2. req_exit' = TRUE \/ req_exit' = FALSE
      BY <1>21, Zenon DEF Nav_exit, ForceExit, CancelExit
    <3>3. req_exit' \in BOOLEAN
      BY <3>2, Zenon
    <3> QED
      BY <1>2, <3>1, <3>3 DEF Rest
  <2> QED
    BY <1>3, <2>2, <2>3
<1>22. CASE Quit
  <2>1. TabType' /\ Owned'
    BY <1>2, <1>22, QuitKeeps
  <2>2. Rest' /\ exited'
    BY <1>2, <1>22 DEF Quit, Rest
  <2> QED
    BY <2>1, <2>2 DEF IInv, TypeOK, TabsHoldBuffers, TabType, Owned, Rest
<1> QED
  BY <1>8, <1>9, <1>10, <1>11, <1>12, <1>13, <1>14, <1>15, <1>16, <1>17, <1>19, <1>20,
     <1>21, <1>22 DEF Next

\* The struct of every tab is allocated, and every allocated one has its tab, for
\* any number of tabs and any order of openings, replacements and closings.
THEOREM TabsHold == Spec => []TabsHoldBuffers
<1>1. IInv => TabsHoldBuffers
  BY DEF IInv
<1> QED
  BY InitIInv, NextIInv, <1>1, PTL DEF Spec

\* Type correctness: the number of tabs stays within the array, and the tab in
\* front is one of them.
THEOREM TypeCorrect == Spec => []TypeOK
<1>1. IInv => TypeOK
  BY DEF IInv
<1> QED
  BY InitIInv, NextIInv, <1>1, PTL DEF Spec

-----------------------------------------------------------------------------
(* The array implements the row of tabs. *)

\* The refinement mapping's docs.
tabs == [k \in 1 .. num_tabs |-> buf[k - 1]]

TabsAreSeq ==
  /\ num_tabs \in 0 .. MAX_TABS /\ active_idx \in Int
  /\ tabs \in Seq(BufId)
  /\ Len(tabs) = num_tabs
  /\ \A k \in 1 .. num_tabs : tabs[k] = buf[k - 1]

LEMMA TabsSeq == TabType /\ Owned => TabsAreSeq
<1> SUFFICES ASSUME TabType, Owned PROVE TabsAreSeq
  OBVIOUS
<1>1. num_tabs \in Nat /\ num_tabs <= MAX_TABS
  BY TabsFit DEF TabType
<1>2. \A k \in 1 .. num_tabs : buf[k - 1] \in BufId
  <2> TAKE k \in 1 .. num_tabs
  <2>1. k - 1 \in Slot /\ k - 1 < num_tabs
    BY <1>1, TabsFit DEF Slot
  <2> QED
    BY <2>1, TabHoldsBuffer
<1>3. tabs \in [1 .. num_tabs -> BufId]
  BY <1>2 DEF tabs
<1>4. tabs \in Seq(BufId)
  BY <1>1, <1>3, SeqDef
<1>5. Len(tabs) = num_tabs
  BY <1>1, <1>3, <1>4
<1>6. num_tabs \in 0 .. MAX_TABS /\ active_idx \in Int
  BY DEF TabType
<1> QED
  BY <1>4, <1>5, <1>6 DEF tabs, TabsAreSeq

LEMMA TabsSeqNext == TabType' /\ Owned' => TabsAreSeq'
BY TabsSeq, PTL

LEMMA NewtabOpens ==
  ASSUME Running, NEW holds \in BufferType, BufManager_newtab(holds), UNCHANGED exited
  PROVE  Row!OpenTab \/ UNCHANGED <<buf, num_tabs, active_idx>>
<1>1. CASE num_tabs >= MAX_TABS /\ UNCHANGED <<tabVars, heap>>
  BY <1>1 DEF tabVars
<1>2. CASE num_tabs < MAX_TABS
  <2>1. num_tabs \in Nat /\ MAX_TABS \in Nat /\ num_tabs \in Slot
    BY <1>2, TabsFit DEF Running, TabType, Slot
  <2>2. PICK b \in BufId : IsFresh(b, NULL) /\ buf' = [buf EXCEPT ![num_tabs] = b]
    BY <1>2, <2>1 DEF BufManager_newtab
  <2>3. active_idx' = num_tabs /\ num_tabs' = num_tabs + 1
    BY <1>2, <2>1 DEF BufManager_newtab
  <2>4. \A i \in Slot : buf[i] # b
    BY <2>2, NullIsNothing DEF IsFresh, Running, Owned
  <2>5. TabsAreSeq /\ TabsAreSeq'
    BY NewtabKeeps, TabsSeq, TabsSeqNext DEF Running
  <2>6. tabs' = Append(tabs, b)
    <3>1. /\ Append(tabs, b) \in Seq(BufId) /\ Len(Append(tabs, b)) = num_tabs + 1
          /\ \A k \in 1 .. num_tabs : Append(tabs, b)[k] = tabs[k]
          /\ Append(tabs, b)[num_tabs + 1] = b
      BY <2>5, AppendProperties DEF TabsAreSeq
    <3>2. \A k \in 1 .. num_tabs + 1 : tabs'[k] = buf'[k - 1]
      BY <2>3, <2>5 DEF TabsAreSeq
    <3>3. \A k \in 1 .. num_tabs + 1 :
            k - 1 \in Slot /\ buf'[k - 1] = IF k = num_tabs + 1 THEN b ELSE buf[k - 1]
      BY <1>2, <2>1, <2>2 DEF Slot, Running, TabType
    <3>4. \A k \in 1 .. num_tabs + 1 : tabs'[k] = Append(tabs, b)[k]
      <4> TAKE k \in 1 .. num_tabs + 1
      <4>1. CASE k = num_tabs + 1
        BY <4>1, <3>1, <3>2, <3>3
      <4>2. CASE k # num_tabs + 1
        <5>1. k \in 1 .. num_tabs
          BY <4>2, <2>1
        <5>2. tabs'[k] = buf[k - 1]
          BY <4>2, <3>2, <3>3
        <5>3. tabs[k] = buf[k - 1]
          BY <5>1, <2>5 DEF TabsAreSeq
        <5>4. Append(tabs, b)[k] = tabs[k]
          BY <5>1, <3>1
        <5> QED
          BY <5>2, <5>3, <5>4
      <4> QED
        BY <4>1, <4>2
    <3>5. tabs' \in Seq(BufId) /\ Len(tabs') = num_tabs + 1
      BY <2>3, <2>5 DEF TabsAreSeq
    <3> QED
      BY <3>1, <3>4, <3>5, SeqEqual
  <2>7. b \in BufId \ {tabs[i] : i \in DOMAIN tabs}
    <3>1. DOMAIN tabs = 1 .. num_tabs
      BY <2>5, LenProperties DEF TabsAreSeq
    <3>2. \A i \in 1 .. num_tabs : tabs[i] # b
      <4> TAKE i \in 1 .. num_tabs
      <4>1. i - 1 \in Slot
        BY <1>2, <2>1 DEF Slot
      <4>2. tabs[i] = buf[i - 1]
        BY <2>5 DEF TabsAreSeq
      <4> QED
        BY <2>4, <4>1, <4>2
    <3> QED
      BY <3>1, <3>2
  <2>8. Len(tabs) = num_tabs
    BY <2>5 DEF TabsAreSeq
  <2> QED
    BY <1>2, <2>1, <2>3, <2>6, <2>7, <2>8 DEF Row!OpenTab, Row!ToSet, tabs
<1> QED
  BY <1>1, <1>2 DEF BufManager_newtab

\* One document takes the place of another.
LEMMA ReplacedIsExcept ==
  ASSUME Running, Running', NEW k \in Slot, k < num_tabs, NEW b \in BufId,
         buf' = [buf EXCEPT ![k] = b], num_tabs' = num_tabs
  PROVE  tabs' = [tabs EXCEPT ![k + 1] = b]
<1>1. TabsAreSeq /\ TabsAreSeq'
  BY TabsSeq, TabsSeqNext DEF Running
<1>2. num_tabs \in Nat /\ k + 1 \in 1 .. num_tabs
  BY TabsFit DEF Running, TabType, Slot
<1> DEFINE r == [tabs EXCEPT ![k + 1] = b]
<1>3. /\ r \in Seq(BufId) /\ Len(r) = num_tabs
      /\ \A j \in 1 .. num_tabs : r[j] = IF j = k + 1 THEN b ELSE tabs[j]
  BY <1>1, <1>2, ExceptSeq DEF TabsAreSeq
<1>4. \A j \in 1 .. num_tabs : tabs'[j] = r[j]
  <2> TAKE j \in 1 .. num_tabs
  <2>1. j - 1 \in Slot /\ j - 1 \in Int /\ j \in Int
    BY <1>2, TabsFit DEF Slot, Running, TabType
  <2>2. buf'[j - 1] = IF j - 1 = k THEN b ELSE buf[j - 1]
    BY <2>1 DEF Running, TabType
  <2>3. tabs'[j] = buf'[j - 1] /\ tabs[j] = buf[j - 1]
    BY <1>1 DEF TabsAreSeq
  <2>4. j - 1 = k <=> j = k + 1
    BY <2>1 DEF Slot
  <2> HIDE DEF r
  <2> QED
    BY <1>3, <2>2, <2>3, <2>4
<1>5. tabs' \in Seq(BufId) /\ Len(tabs') = num_tabs
  BY <1>1 DEF TabsAreSeq
<1> HIDE DEF r
<1>6. tabs' = r
  BY <1>3, <1>4, <1>5, SeqEqual
<1> QED
  BY <1>6 DEF r

LEMMA OpenReplaces ==
  ASSUME Running, NEW holds \in BufferType, BufManager_open(holds), UNCHANGED exited
  PROVE  Row!Replace
<1>1. active_idx \in Slot /\ active_idx < num_tabs
  BY TabIndex DEF Running
<1>2. PICK b \in BufId :
        IsFresh(b, buf[active_idx]) /\ buf' = [buf EXCEPT ![active_idx] = b]
  BY DEF BufManager_open, BufManager_getactive
<1>3. num_tabs' = num_tabs /\ active_idx' = active_idx
  BY DEF BufManager_open
<1>4. tabs' = [tabs EXCEPT ![active_idx + 1] = b]
  BY <1>1, <1>2, <1>3, OpenKeeps, ReplacedIsExcept
<1>5. TabsAreSeq
  BY TabsSeq DEF Running
<1>6. DOMAIN tabs = 1 .. num_tabs
  BY <1>5, LenProperties DEF TabsAreSeq
<1>7. \A i \in 1 .. num_tabs : tabs[i] = b => tabs[i] = tabs[active_idx + 1]
  <2> TAKE i \in 1 .. num_tabs
  <2>1. i - 1 \in Slot /\ active_idx + 1 \in 1 .. num_tabs
    BY <1>1, TabsFit DEF Running, TabType, Slot
  <2>2. (active_idx + 1) - 1 = active_idx
    BY <1>1 DEF Slot
  <2>3. tabs[i] = buf[i - 1] /\ tabs[active_idx + 1] = buf[active_idx]
    BY <1>5, <2>1, <2>2 DEF TabsAreSeq
  <2>4. b # buf[active_idx] => heap[b] = NULL
    BY <1>2 DEF IsFresh
  <2> QED
    BY <2>1, <2>3, <2>4 DEF Running, Owned
<1>8. b \in BufId \ ({tabs[i] : i \in DOMAIN tabs} \ {tabs[active_idx + 1]})
  BY <1>6, <1>7
<1>9. active_idx + 1 \in Int /\ (active_idx + 1)' = active_idx + 1
  BY <1>1, <1>3 DEF Slot
<1> QED
  BY <1>4, <1>8, <1>9 DEF Row!Replace, Row!ToSet, tabs

\* Closing a tab, or emptying the last one.
LEMMA CloseCloses ==
  ASSUME Running, NEW idx \in Slot, idx < num_tabs, BufManager_closetab(idx),
         UNCHANGED exited
  PROVE  Row!CloseTab \/ Row!ReplaceOnly
<1>1. num_tabs \in Nat /\ idx \in Nat
  BY TabsFit DEF Running, TabType, Slot
<1>2. Running' /\ TabsAreSeq /\ TabsAreSeq'
  BY ClosetabKeeps, TabsSeq, TabsSeqNext DEF Running
<1>3. CASE num_tabs = 1
  <2>1. idx = 0 /\ 0 \in Slot /\ active_idx = 0
    BY <1>1, <1>3, TabsFit DEF Slot, Running, TabType
  <2>2. PICK b \in BufId : buf' = [buf EXCEPT ![0] = b]
    BY <1>3 DEF BufManager_closetab
  <2>3. num_tabs' = 1 /\ active_idx' = 0
    BY <1>3 DEF BufManager_closetab
  <2>4. buf'[0] = b
    BY <2>1, <2>2 DEF Running, TabType
  <2>5. tabs' \in Seq(BufId) /\ Len(tabs') = 1 /\ tabs'[1] = b
    <3>1. 1 \in 1 .. num_tabs' /\ 1 - 1 = 0
      BY <2>3
    <3> QED
      BY <1>2, <2>3, <2>4, <3>1 DEF TabsAreSeq
  <2>6. tabs' = <<b>>
    <3>1. <<b>> \in Seq(BufId) /\ Len(<<b>>) = 1 /\ <<b>>[1] = b
      OBVIOUS
    <3>2. \A k \in 1 .. 1 : tabs'[k] = <<b>>[k]
      BY <2>5, <3>1
    <3> QED
      BY <2>5, <3>1, <3>2, SeqEqual
  <2>7. Len(tabs) = 1
    BY <1>2, <1>3 DEF TabsAreSeq
  <2> QED
    BY <2>1, <2>3, <2>6, <2>7 DEF Row!ReplaceOnly, tabs
<1>4. CASE num_tabs > 1
  <2>1. /\ buf' = Shifted(idx) /\ num_tabs' = num_tabs - 1
        /\ active_idx' = IF idx >= num_tabs - 1 THEN num_tabs - 2 ELSE idx
    BY <1>4 DEF BufManager_closetab
  <2> DEFINE left == SubSeq(tabs, 1, (idx + 1) - 1)
             right == SubSeq(tabs, (idx + 1) + 1, Len(tabs))
  <2>2. \A k \in 1 .. num_tabs : tabs[k] \in BufId
    BY <1>2, ElementOfSeq DEF TabsAreSeq
  <2>3. Len(tabs) = num_tabs
    BY <1>2 DEF TabsAreSeq
  <2>4. /\ left \in Seq(BufId) /\ Len(left) = idx
        /\ \A k \in 1 .. idx : left[k] = tabs[k]
    <3>1. (idx + 1) - 1 \in Int /\ \A k \in 1 .. (idx + 1) - 1 : tabs[k] \in BufId
      BY <1>1, <2>2
    <3>2. /\ left \in Seq(BufId)
          /\ Len(left) = IF 1 <= (idx + 1) - 1 THEN ((idx + 1) - 1) - 1 + 1 ELSE 0
          /\ \A k \in 1 .. ((idx + 1) - 1) - 1 + 1 : left[k] = tabs[1 + k - 1]
      BY <3>1, SubSeqProperties
    <3> HIDE DEF left
    <3>3. Len(left) = idx
      BY <1>1, <3>2
    <3>4. \A k \in 1 .. idx : left[k] = tabs[k]
      <4> TAKE k \in 1 .. idx
      <4>1. k \in 1 .. ((idx + 1) - 1) - 1 + 1 /\ 1 + k - 1 = k
        BY <1>1
      <4> QED
        BY <3>2, <4>1
    <3> QED
      BY <3>2, <3>3, <3>4
  <2>5. /\ right \in Seq(BufId) /\ Len(right) = num_tabs - idx - 1
        /\ \A k \in 1 .. num_tabs - idx - 1 : right[k] = tabs[idx + 1 + k]
    <3>1. (idx + 1) + 1 \in Int /\ \A k \in (idx + 1) + 1 .. Len(tabs) : tabs[k] \in BufId
      BY <1>1, <2>2, <2>3
    <3>2. /\ right \in Seq(BufId)
          /\ Len(right) = IF (idx + 1) + 1 <= Len(tabs) THEN Len(tabs) - ((idx + 1) + 1) + 1 ELSE 0
          /\ \A k \in 1 .. Len(tabs) - ((idx + 1) + 1) + 1 :
               right[k] = tabs[(idx + 1) + 1 + k - 1]
      BY <1>1, <2>3, <3>1, SubSeqProperties
    <3> HIDE DEF right
    <3>3. Len(right) = num_tabs - idx - 1
      BY <1>1, <2>3, <3>2
    <3>4. \A k \in 1 .. num_tabs - idx - 1 : right[k] = tabs[idx + 1 + k]
      <4> TAKE k \in 1 .. num_tabs - idx - 1
      <4>1. /\ k \in 1 .. Len(tabs) - ((idx + 1) + 1) + 1
            /\ (idx + 1) + 1 + k - 1 = idx + 1 + k
        BY <1>1, <2>3
      <4> QED
        BY <3>2, <4>1
    <3> QED
      BY <3>2, <3>3, <3>4
  <2> DEFINE rest == left \o right
  <2>6. /\ rest \in Seq(BufId) /\ Len(rest) = num_tabs - 1
        /\ \A k \in 1 .. num_tabs - 1 : rest[k] = tabs[IF k <= idx THEN k ELSE k + 1]
    <3> HIDE DEF left, right
    <3>1. /\ rest \in Seq(BufId) /\ Len(rest) = Len(left) + Len(right)
          /\ \A k \in 1 .. Len(left) + Len(right) :
               rest[k] = IF k <= Len(left) THEN left[k] ELSE right[k - Len(left)]
      BY <2>4, <2>5, ConcatProperties
    <3> HIDE DEF rest
    <3>2. Len(left) + Len(right) = num_tabs - 1
      BY <1>1, <2>4, <2>5
    <3>3. \A k \in 1 .. num_tabs - 1 : rest[k] = tabs[IF k <= idx THEN k ELSE k + 1]
      <4> TAKE k \in 1 .. num_tabs - 1
      <4>1. rest[k] = IF k <= idx THEN left[k] ELSE right[k - idx]
        BY <2>4, <3>1, <3>2
      <4>2. CASE k <= idx
        BY <1>1, <2>4, <4>1, <4>2
      <4>3. CASE ~(k <= idx)
        <5>1. k - idx \in 1 .. num_tabs - idx - 1 /\ idx + 1 + (k - idx) = k + 1
          BY <1>1, <4>3
        <5> QED
          BY <2>5, <4>1, <4>3, <5>1
      <4> QED
        BY <4>2, <4>3
    <3> QED
      BY <3>1, <3>2, <3>3
  <2> HIDE DEF left, right
  <2>7. \A k \in 1 .. num_tabs - 1 : tabs'[k] = rest[k]
    <3> HIDE DEF rest
    <3> TAKE k \in 1 .. num_tabs - 1
    <3>1. k - 1 \in Slot /\ k - 1 < num_tabs - 1 /\ k \in Nat
      BY <1>1, TabsFit DEF Slot, Running, TabType
    <3>2. tabs'[k] = buf'[k - 1]
      BY <1>2, <2>1 DEF TabsAreSeq
    <3>3. buf'[k - 1] = IF k - 1 >= idx THEN buf[k] ELSE buf[k - 1]
      <4>1. buf'[k - 1] = IF k - 1 >= idx /\ k - 1 < num_tabs - 1 THEN buf[(k - 1) + 1]
                          ELSE IF k - 1 = num_tabs - 1 THEN NULL ELSE buf[k - 1]
        BY <2>1, <3>1 DEF Shifted
      <4>2. (k - 1) + 1 = k /\ k - 1 # num_tabs - 1
        BY <1>1, <3>1
      <4> QED
        BY <3>1, <4>1, <4>2
    <3>4. CASE k <= idx
      <4>1. k \in 1 .. num_tabs /\ ~(k - 1 >= idx)
        BY <1>1, <3>4
      <4> QED
        BY <1>2, <2>6, <3>2, <3>3, <3>4, <4>1 DEF TabsAreSeq
    <3>5. CASE ~(k <= idx)
      <4>1. k + 1 \in 1 .. num_tabs /\ k - 1 >= idx /\ (k + 1) - 1 = k
        BY <1>1, <3>5
      <4>2. tabs[k + 1] = buf[k]
        BY <1>2, <4>1 DEF TabsAreSeq
      <4> QED
        BY <2>6, <3>2, <3>3, <3>5, <4>1, <4>2
    <3> QED
      BY <3>4, <3>5
  <2>8. tabs' \in Seq(BufId) /\ Len(tabs') = num_tabs - 1
    BY <1>2, <2>1 DEF TabsAreSeq
  <2>9. tabs' = rest
    <3> HIDE DEF rest
    <3> QED
      BY <2>6, <2>7, <2>8, SeqEqual
  <2>10. tabs' = Row!RemoveAt(tabs, idx + 1)
    BY <2>9 DEF Row!RemoveAt, left, right
  <2>11. /\ idx + 1 \in 1 .. num_tabs
         /\ (active_idx + 1)' = IF idx + 1 < num_tabs THEN idx + 1 ELSE (idx + 1) - 1
    <3>1. idx >= num_tabs - 1 <=> ~(idx + 1 < num_tabs)
      BY <1>1
    <3>2. idx >= num_tabs - 1 => num_tabs - 2 + 1 = (idx + 1) - 1
      BY <1>1
    <3> QED
      BY <1>1, <2>1, <3>1, <3>2
  <2> HIDE DEF rest
  <2> QED
    BY <1>4, <2>3, <2>10, <2>11 DEF Row!CloseTab, tabs
<1> QED
  BY <1>1, <1>3, <1>4

LEMMA InitImplements == Init => Row!Init
<1> SUFFICES ASSUME Init PROVE Row!Init
  OBVIOUS
<1>1. PICK b \in BufId : buf = [i \in Slot |-> IF i = 0 THEN b ELSE NULL]
  BY DEF Init
<1>2. num_tabs = 1 /\ active_idx = 0 /\ exited = FALSE
  BY DEF Init
<1>3. 0 \in Slot
  BY TabsFit DEF Slot
<1>4. buf[0] = b
  BY <1>1, <1>3
<1>5. tabs = <<b>>
  <2>1. tabs = [k \in 1 .. 1 |-> buf[k - 1]]
    BY <1>2 DEF tabs
  <2>2. \A k \in 1 .. 1 : buf[k - 1] = b
    <3> TAKE k \in 1 .. 1
    <3>1. k - 1 = 0
      OBVIOUS
    <3> QED
      BY <1>4, <3>1
  <2>3. tabs = [k \in 1 .. 1 |-> b]
    BY <2>1, <2>2
  <2>4. <<b>> = [k \in 1 .. 1 |-> b]
    OBVIOUS
  <2> QED
    BY <2>3, <2>4
<1> QED
  BY <1>2, <1>5 DEF Row!Init, tabs

\* Whatever leaves the array alone is not seen in the row.
LEMMA RowUnchanged ==
  ASSUME UNCHANGED <<buf, num_tabs, active_idx, exited>>
  PROVE  UNCHANGED Row!vars
BY DEF Row!vars

\* Bringing a tab to the front.
LEMMA ShowShows ==
  ASSUME Running, NEW idx \in 0 .. num_tabs - 1, active_idx' = idx,
         UNCHANGED <<buf, num_tabs, exited>>
  PROVE  Row!ShowTab
<1>1. TabsAreSeq
  BY TabsSeq DEF Running
<1>2. num_tabs \in Nat /\ idx + 1 \in 1 .. num_tabs
  BY TabsFit DEF Running, TabType
<1>3. (active_idx + 1)' = idx + 1
  OBVIOUS
<1>4. Len(tabs) = num_tabs
  BY <1>1 DEF TabsAreSeq
<1>5. UNCHANGED tabs
  BY DEF tabs
<1> QED
  BY <1>2, <1>3, <1>4, <1>5 DEF Row!ShowTab, tabs

LEMMA QuitExits ==
  ASSUME Quit
  PROVE  Row!Exit
<1>1. num_tabs' = 0 /\ active_idx' = -1 /\ exited' = TRUE
  BY DEF Quit
<1>2. tabs' = << >>
  <2>1. tabs' = [k \in 1 .. 0 |-> buf'[k - 1]]
    BY <1>1 DEF tabs
  <2> QED
    BY <2>1
<1>3. (active_idx + 1)' = 0
  BY <1>1
<1> QED
  BY <1>1, <1>2, <1>3 DEF Row!Exit, tabs

LEMMA NextImplements == IInv /\ [Next]_vars => [Row!Next]_(Row!vars)
<1> SUFFICES ASSUME IInv, [Next]_vars PROVE Row!Next \/ UNCHANGED Row!vars
  OBVIOUS
<1>1. CASE UNCHANGED vars
  BY <1>1, RowUnchanged DEF vars
<1> SUFFICES ASSUME Next PROVE Row!Next \/ UNCHANGED Row!vars
  BY <1>1
<1>2. Running /\ Rest /\ ~exited
  BY IInvIsRunning DEF Next
<1>3. \A f \in File \cup {NoFile} : Buffer_open(f, disk) \in BufferType
  BY <1>2, OpenedIsBuffer DEF Rest
<1>4. active_idx \in Slot /\ active_idx < num_tabs
  BY <1>2, TabIndex DEF Running
<1>5. /\ (Row!OpenTab \/ Row!Replace \/ Row!CloseTab \/ Row!ReplaceOnly \/ Row!ShowTab)
      /\ exited' = exited
      => Row!Next
  BY <1>2 DEF Row!Next
<1>6. CASE Edit \/ prompt_ui_config \/ CancelPrompt \/ Nav_exit \/ ForceExit \/ CancelExit
  <2>1. UNCHANGED <<buf, num_tabs, active_idx, exited>>
    BY <1>6 DEF Edit, prompt_ui_config, CancelPrompt, Nav_exit, ForceExit, CancelExit,
                tabVars, uiVars
  <2> QED
    BY <2>1, RowUnchanged
<1>7. CASE Save \/ \E f \in File : Nav_save_as(f)
  <2>1. UNCHANGED <<buf, num_tabs, active_idx, exited>>
    BY <1>7 DEF Save, Nav_save_as, FloatPrompt_execute, SaveTo, tabVars, uiVars
  <2> QED
    BY <2>1, RowUnchanged
<1>8. ASSUME NEW holds \in BufferType, BufManager_newtab(holds), exited' = exited
      PROVE  Row!Next \/ UNCHANGED Row!vars
  <2>1. Row!OpenTab \/ UNCHANGED <<buf, num_tabs, active_idx>>
    BY <1>2, <1>8, NewtabOpens
  <2> QED
    BY <1>5, <1>8, <2>1, RowUnchanged
<1>9. ASSUME NEW holds \in BufferType, BufManager_open(holds), exited' = exited
      PROVE  Row!Next
  BY <1>2, <1>5, <1>9, OpenReplaces
<1>10. ASSUME NEW idx \in Slot, idx < num_tabs, BufManager_closetab(idx), exited' = exited
       PROVE  Row!Next
  BY <1>2, <1>5, <1>10, CloseCloses
<1>11. ASSUME NEW idx \in 0 .. num_tabs - 1, active_idx' = idx,
              UNCHANGED <<buf, num_tabs, exited>>
       PROVE  Row!Next
  BY <1>2, <1>5, <1>11, ShowShows
<1>12. CASE NewTab
  BY <1>8, <1>12, NewIsBuffer DEF NewTab, uiVars
<1>13. CASE ForceClose
  BY <1>4, <1>10, <1>13 DEF ForceClose, uiVars
<1>14. ASSUME NEW idx \in 0 .. num_tabs - 1, Nav_close_tab(idx) PROVE Row!Next
  <2>1. idx \in Slot /\ idx < num_tabs
    BY <1>2, TabsFit DEF Slot, Running, TabType
  <2>2. exited' = exited
    BY <1>14 DEF Nav_close_tab, uiVars
  <2>3. CASE active_idx' = idx /\ UNCHANGED <<buf, num_tabs, heap>>
    BY <1>11, <2>2, <2>3
  <2>4. CASE BufManager_closetab(idx)
    BY <1>10, <2>1, <2>2, <2>4
  <2> QED
    BY <1>14, <2>3, <2>4 DEF Nav_close_tab
<1>15. CASE BufManager_switchtab \/ ClickTab
  <2>1. active_idx' \in 0 .. num_tabs - 1 /\ UNCHANGED <<buf, num_tabs, exited>>
    BY <1>15 DEF BufManager_switchtab, ClickTab, uiVars
  <2> QED
    BY <1>11, <2>1
<1>16. ASSUME NEW f \in File, OpenInFileManager(f) PROVE Row!Next \/ UNCHANGED Row!vars
  <2>1. exited' = exited
    BY <1>16 DEF OpenInFileManager, uiVars
  <2>2. BufManager_newtab(Buffer_open(f, disk)) \/ BufManager_open(Buffer_open(f, disk))
    BY <1>16 DEF OpenInFileManager
  <2> QED
    BY <1>3, <1>8, <1>9, <2>1, <2>2
<1>17. ASSUME NEW f \in File, Nav_open_file(f) PROVE Row!Next
  BY <1>3, <1>9, <1>17 DEF Nav_open_file, FloatPrompt_execute
<1>18. ASSUME NEW f \in File, Nav_create_new_file(f) PROVE Row!Next \/ UNCHANGED Row!vars
  <2>1. exited' = exited /\ BufManager_newtab(Buffer_open(f, disk'))
    BY <1>18 DEF Nav_create_new_file, FloatPrompt_execute
  <2>2. disk' \in [File -> Text \cup {NoFile}]
    BY <1>2, <1>18, EmptyIsText DEF Nav_create_new_file, Rest
  <2>3. Buffer_open(f, disk') \in BufferType
    BY <2>2, OpenedIsBuffer
  <2> QED
    BY <1>8, <2>1, <2>3
<1>19. CASE Quit
  BY <1>2, <1>19, QuitExits DEF Row!Next
<1> QED
  BY <1>6, <1>7, <1>12, <1>13, <1>14, <1>15, <1>16, <1>17, <1>18, <1>19 DEF Next

\* Every behaviour of the array is one of the row of tabs, for any capacity: no
\* operation reorders the tabs, duplicates one or brings the wrong one to the front.
THEOREM ImplementsTabs == Spec => ImplementsTabBar
<1> QED
  BY InitIInv, NextIInv, InitImplements, NextImplements, PTL
  DEF Spec, ImplementsTabBar, Row!Spec

-----------------------------------------------------------------------------
(* Unsaved changes. *)

\* The buffer at b has unsaved changes, and the step drops them.
Dropped(b) ==
  /\ heap[b] # NULL /\ heap[b].dirty /\ heap'[b] # heap[b]
  /\ heap'[b] = NULL \/ ~heap'[b].dirty

\* Memory that is released or taken over holds unsaved changes only if the buffer
\* that gives way does.
LEMMA SwappedDrops ==
  ASSUME NEW freed, NEW a \in BufId, NEW holds, IsFresh(a, freed),
         heap' = Swapped(freed, a, holds),
         freed \in BufId => ~heap[freed].dirty
  PROVE  \A b \in BufId : ~Dropped(b)
BY DEF Swapped, IsFresh, Dropped

LEMMA NewtabDropsNone ==
  ASSUME IInv, ~exited, NEW holds, BufManager_newtab(holds)
  PROVE  \A b \in BufId : ~Dropped(b)
<1>1. CASE UNCHANGED heap
  BY <1>1 DEF Dropped
<1>2. CASE \E a \in BufId : IsFresh(a, NULL) /\ heap' = Swapped(NULL, a, holds)
  BY <1>2, SwappedDrops, NullIsNothing
<1>3. QED
  BY <1>1, <1>2 DEF BufManager_newtab

LEMMA OpenDropsNone ==
  ASSUME NEW holds, BufManager_open(holds), ~heap[BufManager_getactive].dirty
  PROVE  \A b \in BufId : ~Dropped(b)
BY SwappedDrops DEF BufManager_open

LEMMA ClosetabDropsNone ==
  ASSUME IInv, NEW idx, ~heap[buf[idx]].dirty, BufManager_closetab(idx)
  PROVE  \A b \in BufId : ~Dropped(b)
<1>1. CASE \E a \in BufId : IsFresh(a, buf[idx]) /\ heap' = Swapped(buf[idx], a, Buffer_new)
  BY <1>1, SwappedDrops
<1>2. CASE heap' = [heap EXCEPT ![buf[idx]] = NULL]
  BY <1>2 DEF Dropped, IInv, TypeOK
<1>3. QED
  BY <1>1, <1>2 DEF BufManager_closetab

LEMMA EditDropsNone ==
  ASSUME IInv, ~exited, Edit
  PROVE  \A b \in BufId : ~Dropped(b)
<1> DEFINE a == BufManager_getactive
<1>1. Running
  BY IInvIsRunning
<1>2. a \in BufId /\ heap[a] \in BufferType
  BY <1>1, TabIndex, TabHoldsBuffer DEF Running, BufManager_getactive
<1>3. PICK t \in Text : heap' = [heap EXCEPT ![a].text = t, ![a].dirty = TRUE]
  BY DEF Edit
<1> HIDE DEF a
<1>4. \A b \in BufId \ {a} : heap'[b] = heap[b]
  BY <1>2, <1>3 DEF IInv, TypeOK
<1>5. heap'[a] \in BufferType /\ heap'[a].dirty
  BY <1>2, <1>3 DEF IInv, TypeOK, BufferType
<1>6. QED
  BY <1>4, <1>5, NullIsNothing DEF Dropped

LEMMA NextDropsWhereTold ==
  ASSUME IInv, Next, NEW b \in BufId, Dropped(b)
  PROVE  \/ ForceClose \/ Quit \/ Save
         \/ \E f \in File : Nav_open_file(f) \/ Nav_save_as(f)
<1>1. ~exited
  BY DEF Next
<1>2. CASE Edit
  BY <1>1, <1>2, EditDropsNone
<1>3. CASE NewTab
  BY <1>1, <1>3, NewtabDropsNone DEF NewTab
<1>4. ASSUME NEW idx \in 0 .. num_tabs - 1, Nav_close_tab(idx)
      PROVE  FALSE
  <2>1. CASE UNCHANGED heap
    BY <2>1 DEF Dropped
  <2>2. CASE ~heap[buf[idx]].dirty /\ BufManager_closetab(idx)
    BY <2>2, ClosetabDropsNone
  <2>3. QED
    BY <1>4, <2>1, <2>2 DEF Nav_close_tab
<1>5. ASSUME NEW f \in File, OpenInFileManager(f)
      PROVE  FALSE
  BY <1>1, <1>5, NewtabDropsNone, OpenDropsNone DEF OpenInFileManager
<1>6. ASSUME NEW f \in File, Nav_create_new_file(f)
      PROVE  FALSE
  BY <1>1, <1>6, NewtabDropsNone DEF Nav_create_new_file
<1>7. CASE \/ BufManager_switchtab \/ ClickTab \/ prompt_ui_config \/ CancelPrompt
           \/ Nav_exit \/ ForceExit \/ CancelExit
  BY <1>7 DEF Dropped, BufManager_switchtab, ClickTab, prompt_ui_config, CancelPrompt,
     Nav_exit, ForceExit, CancelExit
<1>8. QED
  BY <1>2, <1>3, <1>4, <1>5, <1>6, <1>7 DEF Next

\* Unsaved changes are dropped only by Ctrl+Shift+W, on leaving, by saving, and by
\* the prompt "Open file".
THEOREM UnsavedStays == Spec => UnsavedIsKept
<1>1. IInv /\ [Next]_vars =>
        [\A b \in BufId :
           heap[b] # NULL /\ heap[b].dirty /\ heap'[b] # heap[b]
             /\ (heap'[b] = NULL \/ ~heap'[b].dirty)
           => \/ ForceClose \/ Quit \/ Save
              \/ \E f \in File : Nav_open_file(f) \/ Nav_save_as(f)]_vars
  BY NextDropsWhereTold DEF Dropped
<1>2. QED
  BY <1>1, InitIInv, NextIInv, PTL DEF Spec, UnsavedIsKept
=============================================================================
