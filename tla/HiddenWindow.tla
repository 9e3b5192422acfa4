---------------------------- MODULE HiddenWindow ----------------------------
(***************************************************************************)
(* The hidden window of talpid-core/src/window.rs and the power-management *)
(* listener built on it.                                                   *)
(*                                                                         *)
(* create_hidden_window spawns a thread that creates a window (which also *)
(* gives the thread its message queue), installs the callback and runs a  *)
(* GetMessageW loop.  WindowCloseHandle::close posts REQUEST_THREAD_-      *)
(* SHUTDOWN to that thread and joins it.  A PowerManagementListener holds *)
(* an Arc of the handle and a broadcast receiver; clones share the Arc,   *)
(* and the last one dropped closes the window.  Power events are counted; *)
(* their kinds and the broadcast buffer are left out.                      *)
(***************************************************************************)
EXTENDS Naturals, FiniteSets

CONSTANTS
    Listeners,   \* the PowerManagementListener values that may exist
    MaxEvents    \* bound on the power events the OS delivers

ASSUME WindowConstantsAssumption ==
    /\ IsFiniteSet(Listeners) /\ Listeners # {}
    /\ MaxEvents \in Nat

VARIABLES
    winPc,       \* the window thread: "Start", "Setup", "Loop" or "Exited"
    posted,      \* REQUEST_THREAD_SHUTDOWN waits in the thread's queue
    destroyed,   \* DestroyWindow has run
    quit,        \* PostQuitMessage has run
    lst,         \* each listener: "None", "Live", "Close", "Join", "RxOnly", "Gone"
    rxAlive,     \* each listener's broadcast::Receiver is alive
    sent,        \* power events the callback has sent
    sendFailed   \* tx.send found no receiver

vars == <<winPc, posted, destroyed, quit, lst, rxAlive, sent, sendFailed>>

ListenerStates == {"None", "Live", "Close", "Join", "RxOnly", "Gone"}

TypeOK ==
    /\ winPc \in {"Start", "Setup", "Loop", "Exited"}
    /\ posted \in BOOLEAN
    /\ destroyed \in BOOLEAN
    /\ quit \in BOOLEAN
    /\ lst \in [Listeners -> ListenerStates]
    /\ rxAlive \in [Listeners -> BOOLEAN]
    /\ sent \in 0..MaxEvents
    /\ sendFailed \in BOOLEAN

(* The listeners that still hold the Arc of the window handle.             *)
ArcHolders == {l \in Listeners : lst[l] = "Live"}

(* The thread has a message queue once CreateWindowExW has run.            *)
HasQueue == winPc \in {"Setup", "Loop"}
-----------------------------------------------------------------------------
(* PowerManagementListener::new: the channel, the window thread spawned,   *)
(* and one listener holding both.                                          *)
Init ==
    /\ winPc = "Start"
    /\ posted = FALSE
    /\ destroyed = FALSE
    /\ quit = FALSE
    /\ \E l0 \in Listeners :
         /\ lst = [l \in Listeners |-> IF l = l0 THEN "Live" ELSE "None"]
         /\ rxAlive = [l \in Listeners |-> l = l0]
    /\ sent = 0
    /\ sendFailed = FALSE

(* The window thread creates the window, and with it its message queue.   *)
CreateWindow ==
    /\ winPc = "Start"
    /\ winPc' = "Setup"
    /\ UNCHANGED <<posted, destroyed, quit, lst, rxAlive, sent, sendFailed>>

(* It stores the callback and installs window_procedure.                   *)
SetCallback ==
    /\ winPc = "Setup"
    /\ winPc' = "Loop"
    /\ UNCHANGED <<posted, destroyed, quit, lst, rxAlive, sent, sendFailed>>

(* Mutant: the thread message is dispatched like a window message and    *)
(* never destroys the window.                                              *)
HandleShutdownNoDestroy ==
    /\ winPc = "Loop"
    /\ posted
    /\ posted' = FALSE
    /\ UNCHANGED <<winPc, destroyed, quit, lst, rxAlive, sent, sendFailed>>

(* GetMessageW returns the thread message REQUEST_THREAD_SHUTDOWN (hwnd   *)
(* 0): DestroyWindow sends WM_DESTROY, whose handler posts WM_QUIT.       *)
HandleShutdown ==
    /\ winPc = "Loop"
    /\ posted
    /\ posted' = FALSE
    /\ destroyed' = TRUE
    /\ quit' = TRUE
    /\ UNCHANGED <<winPc, lst, rxAlive, sent, sendFailed>>

(* The OS delivers WM_POWERBROADCAST to the window and the callback sends *)
(* the event; when no receiver is left, it logs and posts WM_QUIT.        *)
PowerEvent ==
    /\ winPc = "Loop"
    /\ ~destroyed
    /\ sent < MaxEvents
    /\ IF \E l \in Listeners : rxAlive[l]
         THEN /\ sent' = sent + 1
              /\ UNCHANGED <<quit, sendFailed>>
         ELSE /\ sendFailed' = TRUE
              /\ quit' = TRUE
              /\ UNCHANGED sent
    /\ UNCHANGED <<winPc, posted, destroyed, lst, rxAlive>>

(* GetMessageW returns 0 for WM_QUIT once no posted message is ahead of   *)
(* it; the loop ends and the callback is freed.                            *)
ExitLoop ==
    /\ winPc = "Loop"
    /\ quit
    /\ ~posted
    /\ winPc' = "Exited"
    /\ UNCHANGED <<posted, destroyed, quit, lst, rxAlive, sent, sendFailed>>

(* PowerManagementListener::clone: the Arc is shared, the receiver        *)
(* resubscribed.                                                           *)
Clone(l, n) ==
    /\ lst[l] = "Live"
    /\ lst[n] = "None"
    /\ lst' = [lst EXCEPT ![n] = "Live"]
    /\ rxAlive' = [rxAlive EXCEPT ![n] = TRUE]
    /\ UNCHANGED <<winPc, posted, destroyed, quit, sent, sendFailed>>

(* Mutant: the receiver field is dropped before the window handle.         *)
DropWindowRxFirst(l) ==
    /\ lst[l] = "Live"
    /\ lst' = [lst EXCEPT ![l] = IF ArcHolders = {l} THEN "Close" ELSE "RxOnly"]
    /\ rxAlive' = [rxAlive EXCEPT ![l] = ArcHolders # {l}]
    /\ UNCHANGED <<winPc, posted, destroyed, quit, sent, sendFailed>>

(* Dropping a listener drops its fields in order: first the Arc of the     *)
(* window handle, whose last holder runs WindowScopedHandle::drop.         *)
DropWindow(l) ==
    /\ lst[l] = "Live"
    /\ lst' = [lst EXCEPT ![l] = IF ArcHolders = {l} THEN "Close" ELSE "RxOnly"]
    /\ UNCHANGED <<winPc, posted, destroyed, quit, rxAlive, sent, sendFailed>>

(* WindowCloseHandle::close takes the thread and posts the shutdown        *)
(* request; PostThreadMessageW fails, and its result is ignored, when the  *)
(* thread has no message queue (not yet, or no longer).                    *)
Close(l) ==
    /\ lst[l] = "Close"
    /\ lst' = [lst EXCEPT ![l] = "Join"]
    /\ posted' = (posted \/ HasQueue)
    /\ UNCHANGED <<winPc, destroyed, quit, rxAlive, sent, sendFailed>>

(* thread.join() returns once the window thread has ended.                 *)
Join(l) ==
    /\ lst[l] = "Join"
    /\ winPc = "Exited"
    /\ lst' = [lst EXCEPT ![l] = "RxOnly"]
    /\ UNCHANGED <<winPc, posted, destroyed, quit, rxAlive, sent, sendFailed>>

(* Then the receiver field is dropped.                                     *)
DropRx(l) ==
    /\ lst[l] = "RxOnly"
    /\ lst' = [lst EXCEPT ![l] = "Gone"]
    /\ rxAlive' = [rxAlive EXCEPT ![l] = FALSE]
    /\ UNCHANGED <<winPc, posted, destroyed, quit, sent, sendFailed>>

WindowThread == CreateWindow \/ SetCallback \/ HandleShutdown \/ ExitLoop

Next ==
    \/ WindowThread
    \/ PowerEvent
    \/ \E l, n \in Listeners : Clone(l, n)
    \/ \E l \in Listeners : DropWindow(l) \/ Close(l) \/ Join(l) \/ DropRx(l)

(* The OS schedules the window thread and every thread running a drop;    *)
(* power events and the user's clones and drops are not forced.           *)
Fairness ==
    /\ WF_vars(WindowThread)
    /\ \A l \in Listeners : WF_vars(Close(l)) /\ WF_vars(Join(l)) /\ WF_vars(DropRx(l))

Spec == Init /\ [][Next]_vars /\ Fairness
-----------------------------------------------------------------------------
(* tx.send in the callback never finds the receivers gone while the window *)
(* lives: the last listener drops its window handle, and so joins the     *)
(* thread, before its own receiver, because the _window field is declared *)
(* before rx.  The error branch at line 171 is unreachable.                *)
SendNeverFails == ~sendFailed

(* A shutdown request that reached the thread's queue ends the thread: the *)
(* loop destroys the window, WM_DESTROY posts WM_QUIT and GetMessageW     *)
(* returns 0.                                                              *)
ShutdownEndsThread == posted ~> winPc = "Exited"

(* Dropping the last listener returns: close() posts the shutdown request  *)
(* and the join ends.                                                      *)
CloseReturns == \A l \in Listeners : lst[l] = "Close" ~> lst[l] = "RxOnly"
=============================================================================
