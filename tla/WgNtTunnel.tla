------------------------------ MODULE WgNtTunnel ------------------------------
(***************************************************************************)
(* The WireGuard-NT tunnel object (talpid-wireguard/src/wireguard_nt/      *)
(* mod.rs) composed with the LoggerHandle it owns.  start_tunnel_inner     *)
(* loads the DLL, creates the LoggerHandle, creates the adapter, applies   *)
(* the first config and spawns the setup task; stop (and Drop) aborts that *)
(* task, takes the device and drops the LoggerHandle.  The adapter is an   *)
(* Arc<WgNtAdapter>: besides the tunnel, the setup task, each set_config   *)
(* future and each get_tunnel_stats blocking task hold a clone, and        *)
(* close_adapter runs when the last clone is dropped.  set_config futures  *)
(* are 'static, may be polled on different runtime threads and outlive the *)
(* tunnel; they update the stored Config under its mutex and then apply it *)
(* to the device.                                                          *)
(*                                                                         *)
(* A tunnel is identified with its LoggerHandle; the steps of new() and    *)
(* drop() of WgNtLogger happen inside start_tunnel_inner and the drop of   *)
(* the tunnel.                                                             *)
(***************************************************************************)
EXTENDS WgNtLogger

CONSTANTS
    C0,          \* the config the tunnel is started with
    FutureCfgs   \* the configs later set_config calls apply, one call each

ASSUME TunnelConstantsAssumption ==
    /\ C0 \notin FutureCfgs
    /\ FutureCfgs \cap {"tunnel", "setup", "stats"} = {}
    /\ Free \notin FutureCfgs

Configs == {C0} \cup FutureCfgs

VARIABLES
    tpc,       \* each tunnel: "Unborn", "Logger" (inside LoggerHandle::new),
               \* "Running", "Stopped" (its fields being dropped), "Failed"
    holders,   \* the owners of a clone of the tunnel's Arc<WgNtAdapter>
    spc,       \* the setup task: "None", "Wait" (in wait_for_interfaces),
               \* "Aborting" (abort requested at the await) or "Done"
    stored,    \* the Config inside the tunnel's Arc<Mutex<Config>>
    cfgLock,   \* the holder of that mutex: a set_config future or Free
    devCfg,    \* the config the adapter runs
    lastOk,    \* the last set_config to complete returned Ok
    fpc,       \* each set_config future: "None", "Created", "Locked", "Done"
    stats      \* a get_tunnel_stats blocking task holds the device

tunnelVars == <<tpc, holders, spc, stored, cfgLock, devCfg, lastOk, fpc, stats>>
allVars == <<vars, tunnelVars>>

TunnelTypeOK ==
    /\ tpc \in [Handles -> {"Unborn", "Logger", "Running", "Stopped", "Failed"}]
    /\ holders \in [Handles -> SUBSET ({"tunnel", "setup", "stats"} \cup FutureCfgs)]
    /\ spc \in [Handles -> {"None", "Wait", "Aborting", "Done"}]
    /\ stored \in [Handles -> Configs]
    /\ cfgLock \in [Handles -> FutureCfgs \cup {Free}]
    /\ devCfg \in [Handles -> Configs]
    /\ lastOk \in [Handles -> BOOLEAN]
    /\ fpc \in [Handles -> [FutureCfgs -> {"None", "Created", "Locked", "Done"}]]
    /\ stats \in [Handles -> BOOLEAN]

(* close_adapter has not yet run for the tunnel's adapter.                 *)
AdapterOpen(t) == holders[t] # {}
-----------------------------------------------------------------------------
TunnelInit ==
    /\ Init
    /\ tpc = [t \in Handles |-> "Unborn"]
    /\ holders = [t \in Handles |-> {}]
    /\ spc = [t \in Handles |-> "None"]
    /\ stored = [t \in Handles |-> C0]
    /\ cfgLock = [t \in Handles |-> Free]
    /\ devCfg = [t \in Handles |-> C0]
    /\ lastOk = [t \in Handles |-> TRUE]
    /\ fpc = [t \in Handles |-> [k \in FutureCfgs |-> "None"]]
    /\ stats = [t \in Handles |-> FALSE]

(* start_tunnel_inner: load_wg_nt_dll fails, or LoggerHandle::new begins.  *)
(* The tunnel state machine starts a tunnel only once the previous one has *)
(* returned from start or stop (OneTunnelAtATime of TunnelStateMachine);   *)
(* the drop of the previous one and its adapter's clones may still be      *)
(* running.                                                                *)
StartTunnel(t) ==
    /\ tpc[t] = "Unborn"
    /\ \A u \in Handles : tpc[u] \notin {"Logger", "Running"}
    /\ \E r \in {"Failed", "Logger"} : tpc' = [tpc EXCEPT ![t] = r]
    /\ UNCHANGED <<vars, holders, spc, stored, cfgLock, devCfg, lastOk, fpc, stats>>

(* A step of LoggerHandle::new, or of the drop of the tunnel's logger.     *)
LoggerStep(t) ==
    /\ \/ /\ tpc[t] = "Logger"
          /\ InitializeLogging(t) \/ StoreContext(t) \/ SetLogger(t)
       \/ /\ tpc[t] = "Stopped"
          /\ DropReset(t) \/ CleanUpLogging(t)
    /\ UNCHANGED tunnelVars

(* LoggerHandle::new returned Err(InitLogging): start_tunnel_inner returns *)
(* it through the ?.                                                       *)
LoggerFailed(t) ==
    /\ tpc[t] = "Logger"
    /\ hpc[t] = "Failed"
    /\ tpc' = [tpc EXCEPT ![t] = "Failed"]
    /\ UNCHANGED <<vars, holders, spc, stored, cfgLock, devCfg, lastOk, fpc, stats>>

(* WgNtAdapter::create, name() and device.set_config(config): an error     *)
(* returns through ?, dropping the adapter (if created) and the           *)
(* LoggerHandle; otherwise the adapter runs the config, the tunnel keeps  *)
(* one Arc and the spawned setup task the other.                          *)
CreateAdapter(t) ==
    /\ tpc[t] = "Logger"
    /\ hpc[t] = "Live"
    /\ \/ /\ tpc' = [tpc EXCEPT ![t] = "Stopped"]
          /\ UNCHANGED <<holders, spc, stored, devCfg>>
       \/ /\ tpc' = [tpc EXCEPT ![t] = "Running"]
          /\ holders' = [holders EXCEPT ![t] = {"tunnel", "setup"}]
          /\ spc' = [spc EXCEPT ![t] = "Wait"]
          /\ stored' = [stored EXCEPT ![t] = C0]
          /\ devCfg' = [devCfg EXCEPT ![t] = C0]
    /\ UNCHANGED <<vars, cfgLock, lastOk, fpc, stats>>

(* setup_ip_listener: wait_for_interfaces returns, then initialize_         *)
(* interfaces and set_state(Up) run without an await; the future, and its  *)
(* Arc, are dropped when it returns.  The interfaces may never arrive.     *)
SetupReady(t) ==
    /\ spc[t] = "Wait"
    /\ spc' = [spc EXCEPT ![t] = "Done"]
    /\ holders' = [holders EXCEPT ![t] = @ \ {"setup"}]
    /\ UNCHANGED <<vars, tpc, stored, cfgLock, devCfg, lastOk, fpc, stats>>

(* The runtime cancels the aborted setup task at its await, dropping it.   *)
SetupCancel(t) ==
    /\ spc[t] = "Aborting"
    /\ spc' = [spc EXCEPT ![t] = "Done"]
    /\ holders' = [holders EXCEPT ![t] = @ \ {"setup"}]
    /\ UNCHANGED <<vars, tpc, stored, cfgLock, devCfg, lastOk, fpc, stats>>

(* Mutant: stop_tunnel without setup_handle.abort().                       *)
StopNoAbort(t) ==
    /\ tpc[t] = "Running"
    /\ tpc' = [tpc EXCEPT ![t] = "Stopped"]
    /\ holders' = [holders EXCEPT ![t] = @ \ {"tunnel"}]
    /\ UNCHANGED <<vars, spc, stored, cfgLock, devCfg, lastOk, fpc, stats>>

(* Tunnel::stop, or Drop for WgNtTunnel: stop_tunnel aborts the setup task *)
(* and takes the device; the fields, the LoggerHandle last, are dropped.   *)
Stop(t) ==
    /\ tpc[t] = "Running"
    /\ tpc' = [tpc EXCEPT ![t] = "Stopped"]
    /\ spc' = [spc EXCEPT ![t] = IF @ = "Wait" THEN "Aborting" ELSE @]
    /\ holders' = [holders EXCEPT ![t] = @ \ {"tunnel"}]
    /\ UNCHANGED <<vars, stored, cfgLock, devCfg, lastOk, fpc, stats>>

(* Tunnel::set_config: the future captures a clone of self.device and of  *)
(* the config mutex.  It takes &mut self, and stop takes self, so the      *)
(* device is still Some here and the future's None branch is not reached. *)
SetConfigCall(t, k) ==
    /\ tpc[t] = "Running"
    /\ fpc[t][k] = "None"
    /\ fpc' = [fpc EXCEPT ![t][k] = "Created"]
    /\ holders' = [holders EXCEPT ![t] = @ \cup {k}]
    /\ UNCHANGED <<vars, tpc, spc, stored, cfgLock, devCfg, lastOk, stats>>

(* The future is polled: it locks the config mutex (blocking while another *)
(* future holds it) and assigns the new config.                            *)
SetConfigLock(t, k) ==
    /\ fpc[t][k] = "Created"
    /\ cfgLock[t] = Free
    /\ cfgLock' = [cfgLock EXCEPT ![t] = k]
    /\ stored' = [stored EXCEPT ![t] = k]
    /\ fpc' = [fpc EXCEPT ![t][k] = "Locked"]
    /\ UNCHANGED <<vars, tpc, holders, spc, devCfg, lastOk, stats>>

(* Mutant: the error of device.set_config is discarded and Ok returned.   *)
SetConfigApplyIgnoreError(t, k) ==
    /\ fpc[t][k] = "Locked"
    /\ devCfg' \in {devCfg, [devCfg EXCEPT ![t] = stored[t]]}
    /\ lastOk' = [lastOk EXCEPT ![t] = TRUE]
    /\ cfgLock' = [cfgLock EXCEPT ![t] = Free]
    /\ fpc' = [fpc EXCEPT ![t][k] = "Done"]
    /\ holders' = [holders EXCEPT ![t] = @ \ {k}]
    /\ UNCHANGED <<vars, tpc, spc, stored, stats>>

(* Still holding the guard, device.set_config(&current_config) applies the *)
(* stored config or fails, leaving the stored config assigned; the guard   *)
(* and the future's Arc are dropped when it returns.                       *)
SetConfigApply(t, k) ==
    /\ fpc[t][k] = "Locked"
    /\ \/ /\ devCfg' = [devCfg EXCEPT ![t] = stored[t]]
          /\ lastOk' = [lastOk EXCEPT ![t] = TRUE]
       \/ /\ lastOk' = [lastOk EXCEPT ![t] = FALSE]
          /\ UNCHANGED devCfg
    /\ cfgLock' = [cfgLock EXCEPT ![t] = Free]
    /\ fpc' = [fpc EXCEPT ![t][k] = "Done"]
    /\ holders' = [holders EXCEPT ![t] = @ \ {k}]
    /\ UNCHANGED <<vars, tpc, spc, stored, stats>>

(* get_tunnel_stats on a running tunnel: the device is cloned into a       *)
(* spawn_blocking task that reads the config from the driver.              *)
StatsStart(t) ==
    /\ tpc[t] = "Running"
    /\ ~stats[t]
    /\ stats' = [stats EXCEPT ![t] = TRUE]
    /\ holders' = [holders EXCEPT ![t] = @ \cup {"stats"}]
    /\ UNCHANGED <<vars, tpc, spc, stored, cfgLock, devCfg, lastOk, fpc>>

(* The blocking task returns (get_config succeeded or not), dropping its   *)
(* clone even if the awaiting future is gone.                              *)
StatsDone(t) ==
    /\ stats[t]
    /\ stats' = [stats EXCEPT ![t] = FALSE]
    /\ holders' = [holders EXCEPT ![t] = @ \ {"stats"}]
    /\ UNCHANGED <<vars, tpc, spc, stored, cfgLock, devCfg, lastOk, fpc>>

(* The DLL's threads call logging_callback whatever the tunnels do.        *)
CallbackStep ==
    /\ CallbackRead \/ CallbackLog
    /\ UNCHANGED tunnelVars

TunnelNext ==
    \/ CallbackStep
    \/ \E t \in Handles :
         \/ StartTunnel(t) \/ LoggerStep(t) \/ LoggerFailed(t)
         \/ CreateAdapter(t) \/ SetupReady(t) \/ SetupCancel(t) \/ Stop(t)
         \/ StatsStart(t) \/ StatsDone(t)
         \/ \E k \in FutureCfgs :
              SetConfigCall(t, k) \/ SetConfigLock(t, k) \/ SetConfigApply(t, k)

(* The runtime runs an aborted task to its cancellation, the blocking pool *)
(* finishes get_config, and the caller awaits each set_config future; the  *)
(* interface arrival that ends wait_for_interfaces is not assumed.         *)
TunnelFairness ==
    \A t \in Handles :
        /\ WF_allVars(SetupCancel(t))
        /\ WF_allVars(StatsDone(t))
        /\ \A k \in FutureCfgs :
              WF_allVars(SetConfigLock(t, k)) /\ WF_allVars(SetConfigApply(t, k))

TunnelSpec == TunnelInit /\ [][TunnelNext]_allVars /\ TunnelFairness
-----------------------------------------------------------------------------
(* The refinement mapping onto WgNtAdapterLifetime: a tunnel inside       *)
(* LoggerHandle::new is starting, and one whose fields are dropped before  *)
(* a setup task was spawned failed to start; its adapter is open while an  *)
(* Arc is held and closed once the last one is gone, if it was created.    *)
LifeOf(t) ==
    CASE tpc[t] = "Logger" -> "Starting"
      [] tpc[t] = "Stopped" /\ spc[t] = "None" -> "Failed"
      [] OTHER -> tpc[t]

AdapterOf(t) ==
    IF AdapterOpen(t) THEN "Open" ELSE IF spc[t] # "None" THEN "Closed" ELSE "None"

Life == INSTANCE WgNtAdapterLifetime
          WITH Tunnels <- Handles,
               life <- [t \in Handles |-> LifeOf(t)],
               adapter <- [t \in Handles |-> AdapterOf(t)]

(* The tunnel implements WgNtAdapterLifetime: the adapter is opened only   *)
(* by a successful start_tunnel_inner, stays open while the tunnel runs,   *)
(* and once stop has run close_adapter eventually runs: the aborted setup  *)
(* task, the stats tasks and the set_config futures all drop their Arc     *)
(* clones, so the adapter with the fixed ADAPTER_GUID does not outlive the *)
(* tunnel and block the next WgNtAdapter::create.                          *)
AdapterLifetime == Life!LifeSpec

(* When no set_config future holds the config mutex and the last one to    *)
(* complete returned Ok, the adapter was last given the config the tunnel  *)
(* stores (the one spawn_machinist reads), however concurrent set_config   *)
(* futures on different runtime threads interleaved.                       *)
DeviceRunsStoredConfig ==
    \A t \in Handles :
        cfgLock[t] = Free /\ lastOk[t] => devCfg[t] = stored[t]
=============================================================================
