------------------------------- MODULE GitPush -------------------------------
(***************************************************************************)
(* The push button of the Git panel.  The UI thread starts a push in a     *)
(* detached thread and learns how it ended from two atomics: a flag that   *)
(* is set while a push is under way, and a result that it polls once a     *)
(* frame and sets back to 0.  Nobody joins the thread.                     *)
(*                                                                         *)
(* Each step is one access to one of the atomics, or several that only     *)
(* the same thread could tell apart.  All loads acquire and all stores     *)
(* release, and who reads FALSE from the flag has seen the result stored   *)
(* before it, so that interleaving the steps loses no outcome.             *)
(***************************************************************************)
EXTENDS Integers

CONSTANTS
    MaxPushes       \* bounds the pushes that are ever started

ASSUME PushesAreCounted == MaxPushes \in Nat

VARIABLES
    ui,                     \* where the UI thread is in its frame
    show_git,               \* the flag TXTED_SHOW_GIT
    git_popup_just_opened,
    g_push_in_progress,
    g_push_result,          \* 1, -1, or 0 for none
    worker,                 \* where the thread of each push is
    outcome,                \* how each push ended; 0 until it has
    started,                \* the number of threads created so far
    result,                 \* the UI thread's copy of the result it reports
    reported                \* the push whose result was reported last

vars == <<ui, show_git, git_popup_just_opened, g_push_in_progress,
          g_push_result, worker, outcome, started, result, reported>>

panel == <<show_git, git_popup_just_opened>>
threads == <<worker, outcome, started>>

Ids == 1 .. MaxPushes

Init ==
    /\ ui = "update"
    /\ show_git = FALSE
    /\ git_popup_just_opened = FALSE
    /\ g_push_in_progress = FALSE
    /\ g_push_result = 0
    /\ worker = [p \in Ids |-> "none"]
    /\ outcome = [p \in Ids |-> 0]
    /\ started = 0
    /\ result = 0
    /\ reported = 0

-----------------------------------------------------------------------------
(* The UI thread: GitStatus_update, then input, then draw_gitpopup.        *)

\* Polling that only notices success.
UpdateSeesSuccess ==
    /\ ui = "update"
    /\ result' = g_push_result
    /\ ui' = IF g_push_result = 1 THEN "report" ELSE "input"
    /\ UNCHANGED <<panel, g_push_in_progress, g_push_result, threads, reported>>

\* The load.  Unless it gives 0 the result is reported.
GitStatus_update ==
    /\ ui = "update"
    /\ result' = g_push_result
    /\ ui' = IF g_push_result # 0 THEN "report" ELSE "input"
    /\ UNCHANGED <<panel, g_push_in_progress, g_push_result, threads, reported>>

\* The result is shown, and the atomic set back.
Report ==
    /\ ui = "report"
    /\ g_push_result' = 0
    /\ reported' = started
    /\ ui' = "input"
    /\ UNCHANGED <<panel, g_push_in_progress, threads, result>>

\* The loop of main ends, and the process with it.
Exit ==
    /\ ui = "input"
    /\ ui' = "exited"
    /\ UNCHANGED <<panel, g_push_in_progress, g_push_result, threads,
                   result, reported>>

\* Ctrl+G, or the item of the menu.
GitPopup_open ==
    /\ ui = "input"
    /\ show_git' = TRUE
    /\ git_popup_just_opened' = TRUE
    /\ ui' = "draw"
    /\ UNCHANGED <<g_push_in_progress, g_push_result, threads, result, reported>>

OtherInput ==
    /\ ui = "input"
    /\ ui' = "draw"
    /\ UNCHANGED <<panel, g_push_in_progress, g_push_result, threads,
                   result, reported>>

\* The panel is hidden, or nothing in it is clicked that is modelled here.
DrawOnly ==
    /\ ui = "draw"
    /\ ui' = "update"
    /\ UNCHANGED <<panel, g_push_in_progress, g_push_result, threads,
                   result, reported>>

\* The first click after the panel was opened is the one that opened it.
FirstClick ==
    /\ ui = "draw"
    /\ show_git /\ git_popup_just_opened
    /\ git_popup_just_opened' = FALSE
    /\ ui' = "update"
    /\ UNCHANGED <<show_git, g_push_in_progress, g_push_result, threads,
                   result, reported>>

\* Escape, the button Close, or a click beside the panel.
GitPopup_close ==
    /\ ui = "draw"
    /\ show_git
    /\ show_git' = FALSE
    /\ ui' = "update"
    /\ UNCHANGED <<git_popup_just_opened, g_push_in_progress, g_push_result,
                   threads, result, reported>>

\* The button Push, which is_pushing disables.
ClickPush ==
    /\ ui = "draw"
    /\ show_git /\ ~git_popup_just_opened
    /\ ~g_push_in_progress
    /\ started < MaxPushes
    /\ ui' = "push_async"
    /\ UNCHANGED <<panel, g_push_in_progress, g_push_result, threads,
                   result, reported>>

\* GitPopup_push_async: the second test of the flag, its store, the store of
\* the result, the creation of the thread.  Only this thread sets the flag.
GitPopup_push_async ==
    /\ ui = "push_async"
    /\ \/ /\ ui' = "update"             \* the flag is set, or no workspace
          /\ UNCHANGED g_push_in_progress
       \/ /\ ~g_push_in_progress
          /\ g_push_in_progress' = TRUE
          /\ ui' = "reset"
    /\ UNCHANGED <<panel, g_push_result, threads, result, reported>>

ResetResult ==
    /\ ui = "reset"
    /\ g_push_result' = 0
    /\ ui' = "create"
    /\ UNCHANGED <<panel, g_push_in_progress, threads, result, reported>>

CreateThread ==
    /\ ui = "create"
    /\ started' = started + 1
    /\ worker' = [worker EXCEPT ![started + 1] = "pushing"]
    /\ ui' = "update"
    /\ UNCHANGED <<panel, g_push_in_progress, g_push_result, outcome,
                   result, reported>>

\* A failure that leaves the flag set.
CreateFailsSilently ==
    /\ ui = "create"
    /\ ui' = "update"
    /\ UNCHANGED <<panel, g_push_in_progress, g_push_result, threads,
                   result, reported>>

\* strdup or pthread_create fails.
CreateFails ==
    /\ ui = "create"
    /\ g_push_in_progress' = FALSE
    /\ ui' = "update"
    /\ UNCHANGED <<panel, g_push_result, threads, result, reported>>

-----------------------------------------------------------------------------
(* git_push_worker, the thread of push p.                                  *)

\* Keeping the error code instead of -1.
PushedCode(p) ==
    /\ worker[p] = "pushing"
    /\ \E r \in {1, -2} : outcome' = [outcome EXCEPT ![p] = r]
    /\ worker' = [worker EXCEPT ![p] = "ended"]
    /\ UNCHANGED <<ui, panel, g_push_in_progress, g_push_result, started,
                   result, reported>>

\* GitPopup_push returns.  It may also never do so.
Pushed(p) ==
    /\ worker[p] = "pushing"
    /\ \E r \in {1, -1} : outcome' = [outcome EXCEPT ![p] = r]
    /\ worker' = [worker EXCEPT ![p] = "ended"]
    /\ UNCHANGED <<ui, panel, g_push_in_progress, g_push_result, started,
                   result, reported>>

\* The two stores the other way round.
WorkerStoresFlagFirst(p) ==
    /\ \/ /\ worker[p] = "ended"
          /\ g_push_in_progress' = FALSE
          /\ worker' = [worker EXCEPT ![p] = "stored"]
          /\ UNCHANGED g_push_result
       \/ /\ worker[p] = "stored"
          /\ g_push_result' = outcome[p]
          /\ worker' = [worker EXCEPT ![p] = "gone"]
          /\ UNCHANGED g_push_in_progress
    /\ UNCHANGED <<ui, panel, outcome, started, result, reported>>

\* Its two stores: first the result, then the flag.
WorkerStores(p) ==
    /\ \/ /\ worker[p] = "ended"
          /\ g_push_result' = outcome[p]
          /\ worker' = [worker EXCEPT ![p] = "stored"]
          /\ UNCHANGED g_push_in_progress
       \/ /\ worker[p] = "stored"
          /\ g_push_in_progress' = FALSE
          /\ worker' = [worker EXCEPT ![p] = "gone"]
          /\ UNCHANGED g_push_result
    /\ UNCHANGED <<ui, panel, outcome, started, result, reported>>

-----------------------------------------------------------------------------

UiFrame ==
    \/ GitStatus_update \/ Report
    \/ GitPopup_open \/ OtherInput
    \/ DrawOnly \/ FirstClick \/ GitPopup_close
    \/ ClickPush \/ GitPopup_push_async \/ ResetResult
    \/ CreateThread \/ CreateFails

Next ==
    \/ UiFrame
    \/ Exit
    \/ \E p \in Ids : Pushed(p) \/ WorkerStores(p)

\* Frames follow one another until the user ends the program, and a thread
\* that has something left to store is scheduled.  A push need not end.
Fairness ==
    /\ WF_vars(UiFrame)
    /\ \A p \in Ids : WF_vars(WorkerStores(p))

Spec == Init /\ [][Next]_vars /\ Fairness

-----------------------------------------------------------------------------

\* The values the variables take.
TypeOK ==
    /\ ui \in {"update", "report", "input", "draw", "push_async", "reset",
               "create", "exited"}
    /\ show_git \in BOOLEAN
    /\ git_popup_just_opened \in BOOLEAN
    /\ g_push_in_progress \in BOOLEAN
    /\ g_push_result \in {-1, 0, 1}
    /\ worker \in [Ids -> {"none", "pushing", "ended", "stored", "gone"}]
    /\ outcome \in [Ids -> {-1, 0, 1}]
    /\ started \in 0 .. MaxPushes
    /\ result \in {-1, 0, 1}
    /\ reported \in 0 .. MaxPushes

\* A thread that has yet to clear the flag.
Busy(p) == worker[p] \in {"pushing", "ended", "stored"}

\* No push is started while another one is under way, however often the
\* button is clicked ("prevents spam", git_client.c:270), and the button is
\* not left disabled when nothing is under way: the flag is set exactly while
\* the newest thread has not cleared it, or is about to be created.
FlagMeansPushing ==
    /\ \A p \in Ids : Busy(p) => p = started
    /\ g_push_in_progress <=>
          \/ ui \in {"reset", "create"}
          \/ \E p \in Ids : Busy(p)

\* A result that is shown is the one of the push that was started last, which
\* has really ended so, and is shown once: no result of an earlier push is
\* taken for it, although any number of them may come and go between two
\* frames.
ReportIsNews ==
    ui = "report" =>
        /\ started > reported
        /\ worker[started] \in {"stored", "gone"}
        /\ result = outcome[started]

\* The user gets to know how a push ended, unless another one is asked for in
\* the very frame in which it ended, or the program is left.
PushIsReported ==
    \A p \in Ids :
        worker[p] = "ended" ~> reported = p \/ ui \in {"reset", "exited"}
=============================================================================
