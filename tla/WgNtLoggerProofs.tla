--------------------------- MODULE WgNtLoggerProofs ---------------------------
(***************************************************************************)
(* Proof that logging_callback never logs to a freed context, for any      *)
(* number of LoggerHandles.                                                *)
(*                                                                         *)
(* NoLogToCleanedContext is not inductive: it says nothing of the context *)
(* LOG_CONTEXT holds, which is what the callback reads, nor of who holds   *)
(* the mutex.  LoggerInv adds that LOG_CONTEXT only ever names a handle    *)
(* between storing its context and dropping, that the callback holds the  *)
(* mutex while it logs, that a dropping handle holds it until its context *)
(* is cleaned up, and which handles have live contexts.                    *)
(***************************************************************************)
EXTENDS WgNtLogger, TLAPS

USE LoggerConstantsAssumption

(* The handles between initialize_logging and clean_up_logging.            *)
Initialised == {h \in Handles : hpc[h] \in {"Store", "Install", "Live", "CleanUp"}}

(* The handles whose context may be in LOG_CONTEXT: stored, not dropped.   *)
Stored == {"Install", "Live"}

LoggerInv ==
    /\ TypeOK
    /\ alive = Initialised
    /\ logContext # None => hpc[logContext] \in Stored
    /\ cbPc = "Logging" => lock = "cb"
    /\ \A h \in Handles : hpc[h] = "CleanUp" => lock = h
    /\ cbPc = "Logging" /\ cbCtx # None => hpc[cbCtx] \in Stored

(* The initial state, with no handle and the mutex free, satisfies the     *)
(* invariant.                                                              *)
THEOREM LoggerInit == Init => LoggerInv
  BY DEF Init, LoggerInv, TypeOK, Initialised, Stored

(* Every step of new(), drop() and logging_callback preserves it.           *)
THEOREM LoggerNext == LoggerInv /\ [Next]_vars => LoggerInv'
<1> SUFFICES ASSUME LoggerInv, [Next]_vars PROVE LoggerInv'
  OBVIOUS
<1>1. ASSUME NEW h \in Handles, InitializeLogging(h) PROVE LoggerInv'
  BY <1>1 DEF InitializeLogging, LoggerInv, TypeOK, Initialised, Stored
<1>2. ASSUME NEW h \in Handles, StoreContext(h) PROVE LoggerInv'
  BY <1>2 DEF StoreContext, LoggerInv, TypeOK, Initialised, Stored
<1>3. ASSUME NEW h \in Handles, SetLogger(h) PROVE LoggerInv'
  BY <1>3 DEF SetLogger, LoggerInv, TypeOK, Initialised, Stored
<1>4. ASSUME NEW h \in Handles, DropReset(h) PROVE LoggerInv'
  BY <1>4 DEF DropReset, LoggerInv, TypeOK, Initialised, Stored
<1>5. ASSUME NEW h \in Handles, CleanUpLogging(h) PROVE LoggerInv'
  BY <1>5 DEF CleanUpLogging, LoggerInv, TypeOK, Initialised, Stored
<1>6. CASE CallbackRead
  BY <1>6 DEF CallbackRead, LoggerInv, TypeOK, Initialised, Stored
<1>7. CASE CallbackLog
  BY <1>7 DEF CallbackLog, LoggerInv, TypeOK, Initialised, Stored
<1>8. CASE UNCHANGED vars
  BY <1>8 DEF vars, LoggerInv, TypeOK, Initialised, Stored
<1>9. QED
  BY <1>1, <1>2, <1>3, <1>4, <1>5, <1>6, <1>7, <1>8 DEF Next

(* The invariant implies the property: the context the callback logs to   *)
(* belongs to a stored handle, whose context is alive.                     *)
THEOREM LoggerInvSafe == LoggerInv => NoLogToCleanedContext
  BY DEF LoggerInv, NoLogToCleanedContext, Initialised, Stored, TypeOK

(* logging_callback never logs to a context clean_up_logging has freed,   *)
(* in every behaviour of LoggerHandle::new, drop and the DLL callback.     *)
THEOREM NoLogAfterCleanUp == Spec => []NoLogToCleanedContext
<1>1. Spec => []LoggerInv
  BY LoggerInit, LoggerNext, PTL DEF Spec
<1>2. QED
  BY <1>1, LoggerInvSafe, PTL
=============================================================================
