--------------------------- MODULE BoringTunProofs ---------------------------
(***************************************************************************)
(* Proof that whenever set_config has returned Ok the BoringTun devices   *)
(* run the stored config, for any set of configurations and whether or    *)
(* not the caller cancels set_config futures.                              *)
(*                                                                         *)
(* AppliedWhenOk is not inductive: it says nothing while a set_config     *)
(* future runs, and a later call starts from whatever the previous one    *)
(* left.  BTInv adds that the devices, when present, are of the stored    *)
(* config's hop mode (a hop-mode change takes them before replacing),     *)
(* that the exit send happens only on multihop devices after the entry    *)
(* send, and that a future sending to no devices never started from Ok.   *)
(***************************************************************************)
EXTENDS BoringTun, TLAPS

USE BoringTunConstantsAssumption, NoCfgAssumption

BTInv ==
    /\ TypeOK
    /\ devs # "None" => devs = DevicesFor(cfg)
    /\ pc = "SendExit" => devs = "Multi" /\ run["entry"] = cfg
    /\ pc = "SendEntry" /\ devs = "None" => res # "Ok"
    /\ pc = "Idle" /\ res = "Ok" /\ ~stopped =>
         /\ devs # "None"
         /\ run["entry"] = cfg
         /\ cfg.multi => run["exit"] = cfg

(* open_boringtun_tunnel creates the devices of the config's hop mode.    *)
THEOREM BTInvInit == Init => BTInv
  BY DEF Init, BTInv, TypeOK, DevicesFor, Apis

(* Every await of set_config, a cancellation, stop and get_tunnel_stats   *)
(* keep the invariant.                                                     *)
THEOREM BTInvNext == BTInv /\ [Next]_vars => BTInv'
<1> SUFFICES ASSUME BTInv, [Next]_vars PROVE BTInv'
  OBVIOUS
<1> USE DEF BTInv, TypeOK, DevicesFor
<1>1. ASSUME NEW c \in Configs, SetConfig(c) PROVE BTInv'
  BY <1>1 DEF SetConfig
<1>2. CASE StopOld
  BY <1>2 DEF StopOld
<1>3. CASE Create
  BY <1>3 DEF Create, Apis
<1>4. CASE SendEntry
  BY <1>4 DEF SendEntry, Apis
<1>5. CASE SendExit
  BY <1>5 DEF SendExit, Apis
<1>6. CASE Cancel
  BY <1>6 DEF Cancel
<1>7. CASE Stop
  BY <1>7 DEF Stop
<1>8. CASE GetTunnelStats
  BY <1>8 DEF GetTunnelStats
<1>9. CASE UNCHANGED vars
  BY <1>9 DEF vars
<1>10. QED
  BY <1>1, <1>2, <1>3, <1>4, <1>5, <1>6, <1>7, <1>8, <1>9 DEF Next

(* Whenever the last set_config returned Ok, the tunnel has neither      *)
(* stopped nor panicked, and no future runs, the devices are of the       *)
(* stored config's hop mode and every device API applied it.              *)
THEOREM OkMeansDevicesConfigured == Spec => []AppliedWhenOk
<1>1. Init => BTInv
  BY BTInvInit
<1>2. BTInv /\ [Next]_vars => BTInv'
  BY BTInvNext
<1>3. BTInv => AppliedWhenOk
  BY DEF BTInv, AppliedWhenOk
<1>4. QED
  BY <1>1, <1>2, <1>3, PTL DEF Spec
=============================================================================
