------------------------------ MODULE WgNtLogger ------------------------------
(***************************************************************************)
(* The logging hook of the WireGuard-NT tunnel (talpid-wireguard/src/      *)
(* wireguard_nt/mod.rs).  Each tunnel holds a LoggerHandle: new()          *)
(* initialises a logging context, stores it in the process-wide            *)
(* LOG_CONTEXT mutex and installs logging_callback in the DLL; drop()      *)
(* removes the context and the callback if LOG_CONTEXT still names its own *)
(* context, then cleans the context up.  The DLL calls logging_callback    *)
(* from its own threads while a callback is installed; the callback logs   *)
(* to the context LOG_CONTEXT names, holding the lock while it logs.       *)
(*                                                                         *)
(* A context is identified with the handle that initialised it (each call  *)
(* of initialize_logging returns a fresh one).  Two tunnels overlap when   *)
(* the daemon starts a new tunnel while the old one is being dropped.      *)
(***************************************************************************)
CONSTANTS
    Handles,   \* the LoggerHandle values the daemon may create
    None,      \* Option<u64>::None in LOG_CONTEXT
    Free       \* the LOG_CONTEXT mutex is not held

ASSUME LoggerConstantsAssumption ==
    /\ Handles # {}
    /\ "cb" \notin Handles
    /\ None \notin Handles
    /\ Free \notin Handles \cup {"cb"}

VARIABLES
    hpc,         \* each handle: "Unborn", "Store", "Install", "Live",
                 \* "CleanUp", "Dropped" or "Failed"
    logContext,  \* the value inside LOG_CONTEXT
    installed,   \* a logging callback is installed in the DLL
    lock,        \* the holder of the LOG_CONTEXT mutex: a handle, "cb" or Free
    alive,       \* the contexts initialised and not yet cleaned up
    cbPc,        \* the callback thread: "Idle", or "Logging" to cbCtx
    cbCtx        \* the context the callback read from LOG_CONTEXT

vars == <<hpc, logContext, installed, lock, alive, cbPc, cbCtx>>

TypeOK ==
    /\ hpc \in [Handles -> {"Unborn", "Store", "Install", "Live",
                            "CleanUp", "Dropped", "Failed"}]
    /\ logContext \in Handles \cup {None}
    /\ installed \in BOOLEAN
    /\ lock \in Handles \cup {"cb", Free}
    /\ alive \subseteq Handles
    /\ cbPc \in {"Idle", "Logging"}
    /\ cbCtx \in Handles \cup {None}
-----------------------------------------------------------------------------
Init ==
    /\ hpc = [h \in Handles |-> "Unborn"]
    /\ logContext = None
    /\ installed = FALSE
    /\ lock = Free
    /\ alive = {}
    /\ cbPc = "Idle"
    /\ cbCtx = None

(* LoggerHandle::new, initialize_logging: a fresh context, or an error     *)
(* returned by the ? with nothing else done.                               *)
InitializeLogging(h) ==
    /\ hpc[h] = "Unborn"
    /\ \/ /\ hpc' = [hpc EXCEPT ![h] = "Store"]
          /\ alive' = alive \cup {h}
       \/ /\ hpc' = [hpc EXCEPT ![h] = "Failed"]
          /\ UNCHANGED alive
    /\ UNCHANGED <<logContext, installed, lock, cbPc, cbCtx>>

(* The context is stored in LOG_CONTEXT under the lock, which is released *)
(* at the end of the block.                                                *)
StoreContext(h) ==
    /\ hpc[h] = "Store"
    /\ lock = Free
    /\ logContext' = h
    /\ hpc' = [hpc EXCEPT ![h] = "Install"]
    /\ UNCHANGED <<installed, lock, alive, cbPc, cbCtx>>

(* dll.set_logger(Some(logging_callback)), outside the lock.               *)
SetLogger(h) ==
    /\ hpc[h] = "Install"
    /\ installed' = TRUE
    /\ hpc' = [hpc EXCEPT ![h] = "Live"]
    /\ UNCHANGED <<logContext, lock, alive, cbPc, cbCtx>>

(* Drop for LoggerHandle: under the lock, if LOG_CONTEXT is still this     *)
(* handle's context, clear it and uninstall the callback; the lock is      *)
(* released at the end of drop, after clean_up_logging.                     *)
DropReset(h) ==
    /\ hpc[h] = "Live"
    /\ lock = Free
    /\ lock' = h
    /\ IF logContext = h
         THEN /\ logContext' = None
              /\ installed' = FALSE
         ELSE UNCHANGED <<logContext, installed>>
    /\ hpc' = [hpc EXCEPT ![h] = "CleanUp"]
    /\ UNCHANGED <<alive, cbPc, cbCtx>>

(* logging::clean_up_logging(self.context); the guard ctx goes out of      *)
(* scope with drop.                                                        *)
CleanUpLogging(h) ==
    /\ hpc[h] = "CleanUp"
    /\ alive' = alive \ {h}
    /\ lock' = Free
    /\ hpc' = [hpc EXCEPT ![h] = "Dropped"]
    /\ UNCHANGED <<logContext, installed, cbPc, cbCtx>>

(* Mutant: the context is copied out of LOG_CONTEXT and the guard dropped *)
(* before logging.                                                         *)
CallbackReadUnlocked ==
    /\ installed
    /\ cbPc = "Idle"
    /\ lock = Free
    /\ cbCtx' = logContext
    /\ cbPc' = "Logging"
    /\ UNCHANGED <<hpc, logContext, installed, lock, alive>>

(* logging_callback, called by a DLL thread while a callback is installed: *)
(* LOG_CONTEXT is locked and read (the guard lives through the if let).    *)
CallbackRead ==
    /\ installed
    /\ cbPc = "Idle"
    /\ lock = Free
    /\ lock' = "cb"
    /\ cbCtx' = logContext
    /\ cbPc' = "Logging"
    /\ UNCHANGED <<hpc, logContext, installed, alive>>

(* logging::log to the context read, if any; then the guard is dropped.    *)
CallbackLog ==
    /\ cbPc = "Logging"
    /\ cbPc' = "Idle"
    /\ cbCtx' = None
    /\ lock' = IF lock = "cb" THEN Free ELSE lock
    /\ UNCHANGED <<hpc, logContext, installed, alive>>

Next ==
    \/ \E h \in Handles :
         \/ InitializeLogging(h) \/ StoreContext(h) \/ SetLogger(h)
         \/ DropReset(h) \/ CleanUpLogging(h)
    \/ CallbackRead
    \/ CallbackLog

Spec == Init /\ [][Next]_vars
-----------------------------------------------------------------------------
(* logging_callback never logs to a context that clean_up_logging has      *)
(* freed, however tunnels overlap and whenever the DLL calls back: a drop  *)
(* clears LOG_CONTEXT under the lock before it frees its context, and the  *)
(* callback holds the lock while it logs.                                  *)
NoLogToCleanedContext ==
    cbPc = "Logging" /\ cbCtx # None => cbCtx \in alive
=============================================================================
