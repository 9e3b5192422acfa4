-------------------------- MODULE HiddenWindowProofs --------------------------
(***************************************************************************)
(* Proof that the power-event callback of the hidden window never finds   *)
(* every broadcast receiver gone, for any number of listener clones and   *)
(* any number of power events.                                             *)
(*                                                                         *)
(* ~sendFailed alone is not inductive: a PowerEvent step keeps it only if *)
(* some receiver is alive while the loop runs.  The strengthening says    *)
(* that a listener's receiver lives exactly until its DropRx, and that    *)
(* until the window thread has exited some listener still holds the       *)
(* window handle or is closing it: the last holder cannot reach DropRx    *)
(* before Join, and Join waits for the thread to exit.                     *)
(***************************************************************************)
EXTENDS HiddenWindow, TLAPS

USE WindowConstantsAssumption

(* The listener states in which the broadcast receiver is still a field.  *)
RxStates == {"Live", "Close", "Join", "RxOnly"}

(* The listener states of one that holds, or is closing, the window.      *)
WindowStates == {"Live", "Close", "Join"}

WindowInv ==
    /\ TypeOK
    /\ ~sendFailed
    /\ \A l \in Listeners : rxAlive[l] <=> lst[l] \in RxStates
    /\ winPc # "Exited" => \E l \in Listeners : lst[l] \in WindowStates

(* PowerManagementListener::new starts with one live listener.             *)
THEOREM WindowInvInit == Init => WindowInv
<1> SUFFICES ASSUME Init PROVE WindowInv
  OBVIOUS
<1>1. PICK l0 \in Listeners :
        /\ lst = [l \in Listeners |-> IF l = l0 THEN "Live" ELSE "None"]
        /\ rxAlive = [l \in Listeners |-> l = l0]
  BY DEF Init
<1>2. TypeOK
  <2>1. lst \in [Listeners -> ListenerStates] /\ rxAlive \in [Listeners -> BOOLEAN]
    BY <1>1 DEF ListenerStates
  <2>2. sent \in 0..MaxEvents
    BY DEF Init
  <2>3. QED
    BY <2>1, <2>2 DEF Init, TypeOK
<1>3. \A l \in Listeners : rxAlive[l] <=> lst[l] \in RxStates
  BY <1>1 DEF RxStates
<1>4. lst[l0] \in WindowStates
  BY <1>1 DEF WindowStates
<1>5. QED
  BY <1>2, <1>3, <1>4 DEF Init, WindowInv

(* Every step of the window thread, of the callback and of the listeners' *)
(* clones and drops keeps the invariant.                                   *)
THEOREM WindowInvNext == WindowInv /\ [Next]_vars => WindowInv'
<1> SUFFICES ASSUME WindowInv, [Next]_vars PROVE WindowInv'
  OBVIOUS
<1> USE DEF WindowInv, TypeOK, ListenerStates, RxStates, WindowStates
<1>1. CASE CreateWindow
  BY <1>1 DEF CreateWindow
<1>2. CASE SetCallback
  BY <1>2 DEF SetCallback
<1>3. CASE HandleShutdown
  BY <1>3 DEF HandleShutdown
<1>4. CASE ExitLoop
  BY <1>4 DEF ExitLoop
<1>5. CASE PowerEvent
  <2>1. \E l \in Listeners : rxAlive[l]
    BY <1>5 DEF PowerEvent
  <2>2. QED
    BY <1>5, <2>1 DEF PowerEvent
<1>6. ASSUME NEW l \in Listeners, NEW n \in Listeners, Clone(l, n) PROVE WindowInv'
  BY <1>6 DEF Clone
<1>7. ASSUME NEW l \in Listeners, DropWindow(l) PROVE WindowInv'
  <2>1. CASE ArcHolders = {l}
    BY <1>7, <2>1 DEF DropWindow
  <2>2. CASE ArcHolders # {l}
    <3>1. PICK m \in Listeners : m # l /\ lst[m] = "Live"
      BY <1>7, <2>2 DEF DropWindow, ArcHolders
    <3>2. lst'[m] = "Live"
      BY <1>7, <3>1 DEF DropWindow
    <3>3. QED
      BY <1>7, <2>2, <3>2 DEF DropWindow
  <2>3. QED
    BY <2>1, <2>2
<1>8. ASSUME NEW l \in Listeners, Close(l) PROVE WindowInv'
  BY <1>8 DEF Close
<1>9. ASSUME NEW l \in Listeners, Join(l) PROVE WindowInv'
  BY <1>9 DEF Join
<1>10. ASSUME NEW l \in Listeners, DropRx(l) PROVE WindowInv'
  <2>1. lst[l] = "RxOnly"
    BY <1>10 DEF DropRx
  <2>2. QED
    BY <1>10, <2>1 DEF DropRx
<1>11. CASE UNCHANGED vars
  BY <1>11 DEF vars
<1>12. QED
  BY <1>1, <1>2, <1>3, <1>4, <1>5, <1>6, <1>7, <1>8, <1>9, <1>10, <1>11
     DEF Next, WindowThread

(* The callback's tx.send never fails, however listeners are cloned and   *)
(* dropped while power events arrive.                                      *)
THEOREM SendAlwaysSucceeds == Spec => []SendNeverFails
<1>1. Init => WindowInv
  BY WindowInvInit
<1>2. WindowInv /\ [Next]_vars => WindowInv'
  BY WindowInvNext
<1>3. WindowInv => SendNeverFails
  BY DEF WindowInv, SendNeverFails
<1>4. QED
  BY <1>1, <1>2, <1>3, PTL DEF Spec
=============================================================================
