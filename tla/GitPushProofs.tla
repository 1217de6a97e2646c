---------------------------- MODULE GitPushProofs ----------------------------
(***************************************************************************)
(* The safety of the push button, for any number of pushes.                *)
(***************************************************************************)
EXTENDS GitPush, TLAPS

(***************************************************************************)
(* What the flag and the result say depends on how far the newest thread   *)
(* has come, and on where in its frame the UI thread is.                   *)
(***************************************************************************)
\* No thread runs while one is about to be created, and there is room for it.
AboutToCreate ==
    /\ ui \in {"reset", "create"} => \A p \in Ids : ~Busy(p)
    /\ ui \in {"push_async", "reset", "create"} => started < MaxPushes
    /\ ui = "create" => g_push_result = 0

\* Threads are numbered as they are created, and none is reported before it
\* has stored its result.
Numbered ==
    /\ reported <= started
    /\ \A p \in Ids : p > started => worker[p] = "none"
    /\ \A p \in Ids : worker[p] \in {"pushing", "ended"} => reported < p

\* A result that is there is news, and the UI thread's copy is that result.
News ==
    /\ g_push_result # 0 =>
          /\ started > reported
          /\ worker[started] \in {"stored", "gone"}
          /\ g_push_result = outcome[started]
    /\ ui = "report" => g_push_result # 0 /\ result = g_push_result

IInv == TypeOK /\ FlagMeansPushing /\ AboutToCreate /\ Numbered /\ News

LEMMA InitInv == Init => IInv
<1> SUFFICES ASSUME Init PROVE IInv
  OBVIOUS
<1>1. TypeOK
  <2>1. 0 \in 0 .. MaxPushes
    BY PushesAreCounted
  <2> QED
    BY <2>1 DEF Init, TypeOK
<1>2. FlagMeansPushing /\ AboutToCreate
  BY DEF Init, FlagMeansPushing, AboutToCreate, Busy, Ids
<1>3. Numbered /\ News
  BY DEF Init, Numbered, News, Ids
<1> QED
  BY <1>1, <1>2, <1>3 DEF IInv

\* The steps of the UI thread that touch neither threads nor atomics keep the
\* invariant, whatever they do to the panel.
LEMMA PanelStepInv ==
    ASSUME IInv, UNCHANGED <<g_push_in_progress, g_push_result, threads,
                             result, reported>>,
           show_git' \in BOOLEAN, git_popup_just_opened' \in BOOLEAN,
           ui \in {"input", "draw", "push_async"},
           ui' \in {"update", "draw", "exited"}
    PROVE  IInv'
  BY DEF IInv, TypeOK, FlagMeansPushing, AboutToCreate, Numbered, News, Busy,
         threads

LEMMA UpdateInv == ASSUME IInv, GitStatus_update PROVE IInv'
  BY DEF IInv, TypeOK, FlagMeansPushing, AboutToCreate, Numbered, News, Busy,
         threads, panel, GitStatus_update

LEMMA ReportInv == ASSUME IInv, Report PROVE IInv'
<1> USE DEF IInv, threads, panel, Report
<1>1. TypeOK' /\ FlagMeansPushing' /\ AboutToCreate'
  BY DEF TypeOK, FlagMeansPushing, AboutToCreate, Busy
<1>2. worker[started] \in {"stored", "gone"} /\ started > reported
  BY DEF News
<1>3. ASSUME NEW p \in Ids, worker[p] \in {"pushing", "ended"} PROVE FALSE
  <2>1. p = started
    BY <1>3 DEF FlagMeansPushing, Busy
  <2> QED
    BY <1>2, <1>3, <2>1
<1>4. Numbered' /\ News'
  BY <1>3 DEF Numbered, News, TypeOK, Ids
<1> QED
  BY <1>1, <1>4

LEMMA ClickInv == ASSUME IInv, ClickPush PROVE IInv'
  BY DEF IInv, TypeOK, FlagMeansPushing, AboutToCreate, Numbered, News, Busy,
         threads, panel, ClickPush

LEMMA AsyncInv == ASSUME IInv, GitPopup_push_async PROVE IInv'
<1> USE DEF IInv, threads, panel, GitPopup_push_async
<1>1. CASE ui' = "update" /\ UNCHANGED g_push_in_progress
  BY <1>1 DEF TypeOK, FlagMeansPushing, AboutToCreate, Numbered, News, Busy
<1>2. CASE ~g_push_in_progress /\ g_push_in_progress' = TRUE /\ ui' = "reset"
  <2>1. TypeOK' /\ Numbered' /\ News'
    BY <1>2 DEF TypeOK, Numbered, News
  <2>2. \A p \in Ids : ~Busy(p) /\ ~Busy(p)'
    BY <1>2 DEF FlagMeansPushing, Busy
  <2>3. FlagMeansPushing' /\ AboutToCreate'
    BY <1>2, <2>2 DEF FlagMeansPushing, AboutToCreate
  <2> QED
    BY <2>1, <2>3
<1> QED
  BY <1>1, <1>2

LEMMA ResetInv == ASSUME IInv, ResetResult PROVE IInv'
  BY DEF IInv, TypeOK, FlagMeansPushing, AboutToCreate, Numbered, News, Busy,
         threads, panel, ResetResult

LEMMA CreateInv == ASSUME IInv, CreateThread PROVE IInv'
<1> USE DEF IInv, threads, panel, CreateThread
<1>1. started + 1 \in Ids /\ started \in Nat
  BY PushesAreCounted DEF AboutToCreate, TypeOK, Ids
<1>2. \A p \in Ids : worker'[p] = IF p = started + 1 THEN "pushing" ELSE worker[p]
  BY DEF TypeOK
<1>3. TypeOK'
  BY <1>1 DEF TypeOK, Ids
<1>4. \A p \in Ids : Busy(p)' <=> p = started + 1
  BY <1>1, <1>2 DEF AboutToCreate, Busy
<1>5. FlagMeansPushing' /\ AboutToCreate'
  BY <1>1, <1>4 DEF FlagMeansPushing, AboutToCreate
<1>6. Numbered' /\ News'
  BY <1>1, <1>2 DEF Numbered, News, AboutToCreate, TypeOK, Ids
<1> QED
  BY <1>3, <1>5, <1>6

LEMMA CreateFailsInv == ASSUME IInv, CreateFails PROVE IInv'
  BY DEF IInv, TypeOK, FlagMeansPushing, AboutToCreate, Numbered, News, Busy,
         threads, panel, CreateFails

LEMMA PushedInv == ASSUME IInv, NEW p \in Ids, Pushed(p) PROVE IInv'
<1> USE DEF IInv, panel, Pushed
<1>1. TypeOK'
  BY DEF TypeOK
<1>2. \A q \in Ids : worker'[q] = IF q = p THEN "ended" ELSE worker[q]
  BY DEF TypeOK
<1>3. \A q \in Ids : Busy(q)' <=> Busy(q)
  BY <1>2 DEF Busy
<1>4. FlagMeansPushing' /\ AboutToCreate'
  BY <1>3 DEF FlagMeansPushing, AboutToCreate
<1>5. p = started
  BY DEF FlagMeansPushing, Busy
<1>6. Numbered' /\ News'
  BY <1>2, <1>5 DEF Numbered, News, TypeOK, Ids
<1> QED
  BY <1>1, <1>4, <1>6

LEMMA StoresInv == ASSUME IInv, NEW p \in Ids, WorkerStores(p) PROVE IInv'
<1> USE DEF IInv, panel
<1>1. p = started /\ p \in Nat /\ ui \notin {"reset", "create"}
  BY DEF WorkerStores, FlagMeansPushing, AboutToCreate, Busy, Ids
<1>2. CASE /\ worker[p] = "ended"
           /\ g_push_result' = outcome[p]
           /\ worker' = [worker EXCEPT ![p] = "stored"]
           /\ UNCHANGED g_push_in_progress
  <2> USE <1>2 DEF WorkerStores
  <2>1. TypeOK'
    BY DEF TypeOK
  <2>2. \A q \in Ids : worker'[q] = IF q = p THEN "stored" ELSE worker[q]
    BY DEF TypeOK
  <2>3. FlagMeansPushing' /\ AboutToCreate'
    BY <1>1, <2>2 DEF FlagMeansPushing, AboutToCreate, Busy
  <2>4. ui # "report"
    BY <1>1 DEF News
  <2>5. Numbered' /\ News'
    BY <1>1, <2>2, <2>4 DEF Numbered, News, TypeOK, Ids
  <2> QED
    BY <2>1, <2>3, <2>5
<1>3. CASE /\ worker[p] = "stored"
           /\ g_push_in_progress' = FALSE
           /\ worker' = [worker EXCEPT ![p] = "gone"]
           /\ UNCHANGED g_push_result
  <2> USE <1>3 DEF WorkerStores
  <2>1. TypeOK'
    BY DEF TypeOK
  <2>2. \A q \in Ids : worker'[q] = IF q = p THEN "gone" ELSE worker[q]
    BY DEF TypeOK
  <2>3. FlagMeansPushing' /\ AboutToCreate'
    BY <1>1, <2>2 DEF FlagMeansPushing, AboutToCreate, Busy
  <2>4. Numbered' /\ News'
    BY <1>1, <2>2 DEF Numbered, News, TypeOK, Ids
  <2> QED
    BY <2>1, <2>3, <2>4
<1> QED
  BY <1>2, <1>3 DEF WorkerStores

LEMMA StepInv == IInv /\ [Next]_vars => IInv'
<1> SUFFICES ASSUME IInv, [Next]_vars PROVE IInv'
  OBVIOUS
<1>1. CASE GitStatus_update  BY <1>1, UpdateInv
<1>2. CASE Report            BY <1>2, ReportInv
<1>3. CASE GitPopup_open     BY <1>3, PanelStepInv DEF GitPopup_open
<1>4. CASE OtherInput
  BY <1>4, PanelStepInv DEF OtherInput, panel, IInv, TypeOK
<1>5. CASE DrawOnly
  BY <1>5, PanelStepInv DEF DrawOnly, panel, IInv, TypeOK
<1>6. CASE FirstClick
  BY <1>6, PanelStepInv DEF FirstClick, IInv, TypeOK
<1>7. CASE GitPopup_close
  BY <1>7, PanelStepInv DEF GitPopup_close, IInv, TypeOK
<1>8. CASE ClickPush            BY <1>8, ClickInv
<1>9. CASE GitPopup_push_async  BY <1>9, AsyncInv
<1>10. CASE ResetResult         BY <1>10, ResetInv
<1>11. CASE CreateThread        BY <1>11, CreateInv
<1>12. CASE CreateFails         BY <1>12, CreateFailsInv
<1>13. CASE Exit
  BY <1>13, PanelStepInv DEF Exit, panel, IInv, TypeOK
<1>14. CASE \E p \in Ids : Pushed(p) \/ WorkerStores(p)
  BY <1>14, PushedInv, StoresInv
<1>15. CASE UNCHANGED vars
  BY <1>15 DEF vars, threads, panel, IInv, TypeOK, FlagMeansPushing,
               AboutToCreate, Numbered, News, Busy
<1> QED
  BY <1>1, <1>2, <1>3, <1>4, <1>5, <1>6, <1>7, <1>8, <1>9, <1>10, <1>11,
     <1>12, <1>13, <1>14, <1>15 DEF Next, UiFrame

\* Every variable keeps to its kind of value (GitPush!TypeOK), the copies and
\* counters of git_client.c:252-295 included.
THEOREM TypeCorrect == Spec => []TypeOK
<1>1. Init => IInv
  BY InitInv
<1>2. IInv /\ [Next]_vars => IInv'
  BY StepInv
<1>3. IInv => TypeOK
  BY DEF IInv
<1> QED
  BY <1>1, <1>2, <1>3, PTL DEF Spec

\* At most one push is under way, and the flag that disables the button is
\* set exactly then (git_client.c:268-288).
THEOREM FlagIsRight == Spec => []FlagMeansPushing
<1>1. Init => IInv
  BY InitInv
<1>2. IInv /\ [Next]_vars => IInv'
  BY StepInv
<1>3. IInv => FlagMeansPushing
  BY DEF IInv
<1> QED
  BY <1>1, <1>2, <1>3, PTL DEF Spec

\* What GitStatus_update shows is the end of the newest push, once
\* (git_client.c:528-539).
THEOREM ReportsAreNews == Spec => []ReportIsNews
<1>1. Init => IInv
  BY InitInv
<1>2. IInv /\ [Next]_vars => IInv'
  BY StepInv
<1>3. IInv => ReportIsNews
  BY DEF IInv, News, ReportIsNews
<1> QED
  BY <1>1, <1>2, <1>3, PTL DEF Spec
=============================================================================
