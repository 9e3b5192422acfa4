------------------------------ MODULE BoringTun ------------------------------
(***************************************************************************)
(* The userspace WireGuard tunnel of talpid-wireguard/src/boringtun: a     *)
(* BoringTun holds its Config and, in an Option, the boringtun devices     *)
(* (one singlehop device, or an entry and an exit device for multihop),   *)
(* each configured through its API channel.                                *)
(*                                                                         *)
(* set_config is an async fn: it replaces the stored config, recreates the *)
(* devices when the hop mode changes, and sends the new peers to each     *)
(* device.  Each await is a step of its own, and the future may be         *)
(* dropped at any of them when CallerMayCancel holds.  A Config is        *)
(* abstracted to its identity and whether it has an exit peer.             *)
(***************************************************************************)
CONSTANTS
    Ids,             \* distinct tunnel configurations
    NoCfg,           \* a device that has received no Set command
    CallerMayCancel  \* whether a set_config future may be dropped

ASSUME BoringTunConstantsAssumption ==
    /\ Ids # {}
    /\ CallerMayCancel \in BOOLEAN

Configs == [id: Ids, multi: BOOLEAN]

ASSUME NoCfgAssumption == NoCfg \notin Configs

(* The API channels: the singlehop device uses the entry slot.             *)
Apis == {"entry", "exit"}

VARIABLES
    cfg,       \* self.config
    devs,      \* self.devices: "None", "Single" or "Multi"
    run,       \* the config each device API last applied
    pc,        \* where the set_config future is: "Idle" when none runs
    res,       \* the outcome of the last set_config: "Ok", "Err", "Cancelled"
    stopped,   \* Tunnel::stop has run
    panicked   \* an unwrap of self.devices found None

vars == <<cfg, devs, run, pc, res, stopped, panicked>>

TypeOK ==
    /\ cfg \in Configs
    /\ devs \in {"None", "Single", "Multi"}
    /\ run \in [Apis -> Configs \cup {NoCfg}]
    /\ pc \in {"Idle", "Stopping", "Creating", "SendEntry", "SendExit"}
    /\ res \in {"Ok", "Err", "Cancelled"}
    /\ stopped \in BOOLEAN
    /\ panicked \in BOOLEAN
-----------------------------------------------------------------------------
(* The devices create_devices makes for a config.                          *)
DevicesFor(c) == IF c.multi THEN "Multi" ELSE "Single"

(* open_boringtun_tunnel: the devices are created for the config, then     *)
(* set_config is awaited with the same config; the hop mode does not       *)
(* change, so it goes straight to sending it.                              *)
Init ==
    /\ cfg \in Configs
    /\ devs = DevicesFor(cfg)
    /\ run = [a \in Apis |-> NoCfg]
    /\ pc = "SendEntry"
    /\ res = "Ok"
    /\ stopped = FALSE
    /\ panicked = FALSE

(* Mutant: the hop mode is not compared and the devices never recreated.   *)
SetConfigNoHopCheck(c) ==
    /\ pc = "Idle" /\ ~stopped /\ ~panicked
    /\ cfg' = c
    /\ pc' = "SendEntry"
    /\ UNCHANGED <<devs, run, res, stopped, panicked>>

(* set_config, up to its first await: replace self.config; if the hop mode *)
(* changed, take the devices (unwrap panics on None) to stop them.         *)
SetConfig(c) ==
    /\ pc = "Idle" /\ ~stopped /\ ~panicked
    /\ cfg' = c
    /\ \/ /\ c.multi = cfg.multi
          /\ pc' = "SendEntry"
          /\ UNCHANGED <<devs, run, res, stopped, panicked>>
       \/ /\ c.multi # cfg.multi
          /\ devs = "None"
          /\ panicked' = TRUE
          /\ UNCHANGED <<devs, run, pc, res, stopped>>
       \/ /\ c.multi # cfg.multi
          /\ devs # "None"
          /\ devs' = "None"
          /\ pc' = "Stopping"
          /\ UNCHANGED <<run, res, stopped, panicked>>

(* The old devices' stop() has been awaited (exit before entry).           *)
StopOld ==
    /\ pc = "Stopping"
    /\ pc' = "Creating"
    /\ UNCHANGED <<cfg, devs, run, res, stopped, panicked>>

(* Mutant: the new devices are created but not stored in self.devices.  *)
CreateNotStored ==
    /\ pc = "Creating"
    /\ run' = [a \in Apis |-> NoCfg]
    /\ pc' = "SendEntry"
    /\ UNCHANGED <<cfg, devs, res, stopped, panicked>>

(* create_devices has been awaited and stored in self.devices; the new    *)
(* devices have no peers yet.                                              *)
Create ==
    /\ pc = "Creating"
    /\ devs' = DevicesFor(cfg)
    /\ run' = [a \in Apis |-> NoCfg]
    /\ pc' = "SendEntry"
    /\ UNCHANGED <<cfg, res, stopped, panicked>>

(* set_boringtun_config, or set_boringtun_entry_config for multihop: the  *)
(* Set command is sent and its answer awaited; a closed channel is         *)
(* SetConfigError.                                                         *)
SendEntry ==
    /\ pc = "SendEntry"
    /\ \/ /\ devs = "None"
          /\ panicked' = TRUE
          /\ pc' = "Idle"
          /\ UNCHANGED <<cfg, devs, run, res, stopped>>
       \/ /\ devs # "None"
          /\ run' = [run EXCEPT !["entry"] = cfg]
          /\ pc' = IF devs = "Multi" THEN "SendExit" ELSE "Idle"
          /\ res' = "Ok"
          /\ UNCHANGED <<cfg, devs, stopped, panicked>>
       \/ /\ devs # "None"
          /\ pc' = "Idle"
          /\ res' = "Err"
          /\ UNCHANGED <<cfg, devs, run, stopped, panicked>>

(* set_boringtun_exit_config, for multihop.                                *)
SendExit ==
    /\ pc = "SendExit"
    /\ pc' = "Idle"
    /\ \/ /\ run' = [run EXCEPT !["exit"] = cfg]
          /\ res' = "Ok"
       \/ /\ res' = "Err"
          /\ UNCHANGED run
    /\ UNCHANGED <<cfg, devs, stopped, panicked>>

(* The caller drops the set_config future at the await it is suspended in.*)
Cancel ==
    /\ CallerMayCancel
    /\ pc # "Idle"
    /\ pc' = "Idle"
    /\ res' = "Cancelled"
    /\ UNCHANGED <<cfg, devs, run, stopped, panicked>>

(* Tunnel::stop: take the devices (unwrap panics on None) and stop them.   *)
Stop ==
    /\ pc = "Idle" /\ ~stopped /\ ~panicked
    /\ \/ /\ devs = "None"
          /\ panicked' = TRUE
          /\ UNCHANGED <<devs, stopped>>
       \/ /\ devs # "None"
          /\ devs' = "None"
          /\ stopped' = TRUE
          /\ UNCHANGED panicked
    /\ UNCHANGED <<cfg, run, pc, res>>

(* get_tunnel_stats (&self, so never while a set_config future borrows    *)
(* the tunnel): unwrap self.devices (panics on None), then send Get to     *)
(* each device API and collect the peers' counters, which are not state.  *)
GetTunnelStats ==
    /\ pc = "Idle" /\ ~stopped /\ ~panicked
    /\ panicked' = (devs = "None")
    /\ UNCHANGED <<cfg, devs, run, pc, res, stopped>>

Next ==
    \/ \E c \in Configs : SetConfig(c)
    \/ StopOld \/ Create \/ SendEntry \/ SendExit \/ Cancel \/ Stop
    \/ GetTunnelStats

Spec == Init /\ [][Next]_vars
-----------------------------------------------------------------------------
(* When set_config has returned Ok, every device runs the stored config:  *)
(* the devices are of its hop mode and each has applied its peers.  A    *)
(* hop-mode change must recreate the devices for this to hold.            *)
AppliedWhenOk ==
    pc = "Idle" /\ res = "Ok" /\ ~stopped /\ ~panicked =>
        /\ devs = DevicesFor(cfg)
        /\ run["entry"] = cfg
        /\ cfg.multi => run["exit"] = cfg

(* self.devices is never unwrapped while None (by set_config, stop or      *)
(* get_tunnel_stats): it is None only inside set_config, between taking   *)
(* the old devices and storing the new ones, and after stop.              *)
NoDevicesUnwrapPanic == ~panicked
=============================================================================
