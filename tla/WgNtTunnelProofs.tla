--------------------------- MODULE WgNtTunnelProofs ---------------------------
(***************************************************************************)
(* Proofs about the WireGuard-NT tunnel composed with its LoggerHandle.    *)
(*                                                                         *)
(* Every step of the composition is a step of WgNtLogger or leaves the     *)
(* logger's variables alone, so the composition implements the logger's    *)
(* specification and the logger's theorem NoLogAfterCleanUp carries over.  *)
(* DeviceRunsStoredConfig is inductive once the tunnel variables are       *)
(* typed: every step that assigns the stored config takes the mutex, and   *)
(* the step that releases it either applies that config or returns Err.    *)
(***************************************************************************)
EXTENDS WgNtTunnel, WgNtLoggerProofs, TLAPS

USE LoggerConstantsAssumption, TunnelConstantsAssumption

(* Each step of the tunnel is a step of the logger or a logger stutter.   *)
LEMMA TunnelStepIsLoggerStep == [TunnelNext]_allVars => [Next]_vars
<1> SUFFICES ASSUME [TunnelNext]_allVars PROVE [Next]_vars
  OBVIOUS
<1>1. CASE CallbackStep
  BY <1>1 DEF CallbackStep, Next
<1>2. ASSUME NEW t \in Handles, LoggerStep(t) PROVE [Next]_vars
  BY <1>2 DEF LoggerStep, Next
<1>3. ASSUME NEW t \in Handles,
             \/ StartTunnel(t) \/ LoggerFailed(t) \/ CreateAdapter(t)
             \/ SetupReady(t) \/ SetupCancel(t) \/ Stop(t)
             \/ StatsStart(t) \/ StatsDone(t)
             \/ \E k \in FutureCfgs :
                  SetConfigCall(t, k) \/ SetConfigLock(t, k) \/ SetConfigApply(t, k)
      PROVE UNCHANGED vars
  BY <1>3 DEF StartTunnel, LoggerFailed, CreateAdapter, SetupReady, SetupCancel,
              Stop, StatsStart, StatsDone, SetConfigCall, SetConfigLock, SetConfigApply
<1>4. CASE UNCHANGED allVars
  BY <1>4 DEF allVars
<1>5. QED
  BY <1>1, <1>2, <1>3, <1>4 DEF TunnelNext

(* The tunnel composed with its LoggerHandle implements the logger's own   *)
(* specification: start_tunnel_inner and the drop of the tunnel only run   *)
(* the steps of LoggerHandle::new and drop.                               *)
THEOREM TunnelRefinesLogger == TunnelSpec => Spec
<1>1. TunnelInit => Init
  BY DEF TunnelInit
<1>2. QED
  BY <1>1, TunnelStepIsLoggerStep, PTL DEF TunnelSpec, Spec

(* logging_callback never logs to a freed context in any behaviour of      *)
(* tunnels being started and stopped.                                      *)
THEOREM TunnelNoLogAfterCleanUp == TunnelSpec => []NoLogToCleanedContext
  BY TunnelRefinesLogger, NoLogAfterCleanUp, PTL

ConfigInv == TunnelTypeOK /\ DeviceRunsStoredConfig

(* A tunnel starts out storing and running C0.                             *)
THEOREM ConfigInit == TunnelInit => ConfigInv
  BY DEF TunnelInit, ConfigInv, TunnelTypeOK, DeviceRunsStoredConfig, Configs

(* Every step of the tunnel, its tasks and its futures preserves it.       *)
THEOREM ConfigNext == ConfigInv /\ [TunnelNext]_allVars => ConfigInv'
<1> SUFFICES ASSUME ConfigInv, [TunnelNext]_allVars PROVE ConfigInv'
  OBVIOUS
<1> USE DEF ConfigInv, TunnelTypeOK, DeviceRunsStoredConfig, Configs
<1>1. CASE CallbackStep
  BY <1>1 DEF CallbackStep, tunnelVars
<1>2. ASSUME NEW t \in Handles, LoggerStep(t) PROVE ConfigInv'
  BY <1>2 DEF LoggerStep, tunnelVars
<1>3. ASSUME NEW t \in Handles, StartTunnel(t) PROVE ConfigInv'
  BY <1>3 DEF StartTunnel
<1>4. ASSUME NEW t \in Handles, LoggerFailed(t) PROVE ConfigInv'
  BY <1>4 DEF LoggerFailed
<1>5. ASSUME NEW t \in Handles, CreateAdapter(t) PROVE ConfigInv'
  <2>1. CASE tpc' = [tpc EXCEPT ![t] = "Stopped"]
                /\ UNCHANGED <<holders, spc, stored, devCfg>>
    BY <1>5, <2>1 DEF CreateAdapter
  <2>2. CASE /\ tpc' = [tpc EXCEPT ![t] = "Running"]
             /\ holders' = [holders EXCEPT ![t] = {"tunnel", "setup"}]
             /\ spc' = [spc EXCEPT ![t] = "Wait"]
             /\ stored' = [stored EXCEPT ![t] = C0]
             /\ devCfg' = [devCfg EXCEPT ![t] = C0]
    BY <1>5, <2>2 DEF CreateAdapter
  <2>3. QED
    BY <1>5, <2>1, <2>2 DEF CreateAdapter
<1>6. ASSUME NEW t \in Handles, SetupReady(t) PROVE ConfigInv'
  BY <1>6 DEF SetupReady
<1>7. ASSUME NEW t \in Handles, SetupCancel(t) PROVE ConfigInv'
  BY <1>7 DEF SetupCancel
<1>8. ASSUME NEW t \in Handles, Stop(t) PROVE ConfigInv'
  BY <1>8 DEF Stop
<1>9. ASSUME NEW t \in Handles, StatsStart(t) PROVE ConfigInv'
  BY <1>9 DEF StatsStart
<1>10. ASSUME NEW t \in Handles, StatsDone(t) PROVE ConfigInv'
  BY <1>10 DEF StatsDone
<1>11. ASSUME NEW t \in Handles, NEW k \in FutureCfgs, SetConfigCall(t, k)
       PROVE ConfigInv'
  BY <1>11 DEF SetConfigCall
<1>12. ASSUME NEW t \in Handles, NEW k \in FutureCfgs, SetConfigLock(t, k)
       PROVE ConfigInv'
  BY <1>12 DEF SetConfigLock
<1>13. ASSUME NEW t \in Handles, NEW k \in FutureCfgs, SetConfigApply(t, k)
       PROVE ConfigInv'
  <2>1. CASE devCfg' = [devCfg EXCEPT ![t] = stored[t]]
             /\ lastOk' = [lastOk EXCEPT ![t] = TRUE]
    BY <1>13, <2>1 DEF SetConfigApply
  <2>2. CASE lastOk' = [lastOk EXCEPT ![t] = FALSE] /\ UNCHANGED devCfg
    BY <1>13, <2>2 DEF SetConfigApply
  <2>3. QED
    BY <1>13, <2>1, <2>2 DEF SetConfigApply
<1>14. CASE UNCHANGED allVars
  BY <1>14 DEF allVars, tunnelVars
<1>15. QED
  BY <1>1, <1>2, <1>3, <1>4, <1>5, <1>6, <1>7, <1>8, <1>9, <1>10, <1>11,
     <1>12, <1>13, <1>14 DEF TunnelNext

(* Whenever no set_config future holds the config mutex and the last one   *)
(* returned Ok, the adapter was last given the stored config, for any      *)
(* number of tunnels and of concurrent set_config calls.                   *)
THEOREM StoredConfigApplied == TunnelSpec => []DeviceRunsStoredConfig
<1>1. TunnelSpec => []ConfigInv
  BY ConfigInit, ConfigNext, PTL DEF TunnelSpec
<1>2. QED
  BY <1>1, PTL DEF ConfigInv
-----------------------------------------------------------------------------
(***************************************************************************)
(* The safety part of AdapterLifetime.  The mapping needs to know who can *)
(* hold the adapter: nobody before the start succeeded, the tunnel while  *)
(* it runs and never after, the setup task while it waits or is being     *)
(* cancelled, a stats task while it runs and a set_config future until it *)
(* completes.  Then only a step of a stopped tunnel drops the last clone.  *)
(***************************************************************************)
LifeInvAt(t) ==
    /\ tpc[t] \in {"Unborn", "Logger", "Failed"} => holders[t] = {} /\ spc[t] = "None"
    /\ tpc[t] = "Running" => "tunnel" \in holders[t] /\ spc[t] \in {"Wait", "Done"}
    /\ tpc[t] = "Stopped" => "tunnel" \notin holders[t] /\ spc[t] # "Wait"
    /\ spc[t] = "None" => holders[t] = {}
    /\ ("setup" \in holders[t] <=> spc[t] \in {"Wait", "Aborting"})
    /\ (stats[t] <=> "stats" \in holders[t])
    /\ \A k \in FutureCfgs : (fpc[t][k] \in {"Created", "Locked"} <=> k \in holders[t])

LifeInv == TunnelTypeOK /\ \A t \in Handles : LifeInvAt(t)

(* No tunnel has started, so no one holds an adapter.                      *)
THEOREM LifeInvInit == TunnelInit => LifeInv
  BY DEF TunnelInit, LifeInv, LifeInvAt, TunnelTypeOK, Configs

(* Every step keeps track of the adapter's holders.                        *)
THEOREM LifeInvNext == LifeInv /\ [TunnelNext]_allVars => LifeInv'
<1> SUFFICES ASSUME LifeInv, [TunnelNext]_allVars PROVE LifeInv'
  OBVIOUS
<1> USE DEF LifeInv, LifeInvAt, TunnelTypeOK, Configs
<1>1. CASE CallbackStep
  BY <1>1 DEF CallbackStep, tunnelVars
<1>2. ASSUME NEW t \in Handles, LoggerStep(t) PROVE LifeInv'
  BY <1>2 DEF LoggerStep, tunnelVars
<1>3. ASSUME NEW t \in Handles, StartTunnel(t) PROVE LifeInv'
  BY <1>3 DEF StartTunnel
<1>4. ASSUME NEW t \in Handles, LoggerFailed(t) PROVE LifeInv'
  BY <1>4 DEF LoggerFailed
<1>5. ASSUME NEW t \in Handles, CreateAdapter(t) PROVE LifeInv'
  <2>1. CASE tpc' = [tpc EXCEPT ![t] = "Stopped"]
                /\ UNCHANGED <<holders, spc, stored, devCfg>>
    BY <1>5, <2>1 DEF CreateAdapter
  <2>2. CASE /\ tpc' = [tpc EXCEPT ![t] = "Running"]
             /\ holders' = [holders EXCEPT ![t] = {"tunnel", "setup"}]
             /\ spc' = [spc EXCEPT ![t] = "Wait"]
             /\ stored' = [stored EXCEPT ![t] = C0]
             /\ devCfg' = [devCfg EXCEPT ![t] = C0]
    BY <1>5, <2>2 DEF CreateAdapter
  <2>3. QED
    BY <1>5, <2>1, <2>2 DEF CreateAdapter
<1>6. ASSUME NEW t \in Handles, SetupReady(t) PROVE LifeInv'
  BY <1>6 DEF SetupReady
<1>7. ASSUME NEW t \in Handles, SetupCancel(t) PROVE LifeInv'
  BY <1>7 DEF SetupCancel
<1>8. ASSUME NEW t \in Handles, Stop(t) PROVE LifeInv'
  BY <1>8 DEF Stop
<1>9. ASSUME NEW t \in Handles, StatsStart(t) PROVE LifeInv'
  BY <1>9 DEF StatsStart
<1>10. ASSUME NEW t \in Handles, StatsDone(t) PROVE LifeInv'
  BY <1>10 DEF StatsDone
<1>11. ASSUME NEW t \in Handles, NEW k \in FutureCfgs, SetConfigCall(t, k)
       PROVE LifeInv'
  BY <1>11 DEF SetConfigCall
<1>12. ASSUME NEW t \in Handles, NEW k \in FutureCfgs, SetConfigLock(t, k)
       PROVE LifeInv'
  BY <1>12 DEF SetConfigLock
<1>13. ASSUME NEW t \in Handles, NEW k \in FutureCfgs, SetConfigApply(t, k)
       PROVE LifeInv'
  <2>1. holders' = [holders EXCEPT ![t] = @ \ {k}]
        /\ fpc' = [fpc EXCEPT ![t][k] = "Done"]
        /\ UNCHANGED <<tpc, spc, stats>>
    BY <1>13 DEF SetConfigApply
  <2>2. \A u \in Handles : LifeInvAt(u)'
    <3>1. fpc[t][k] = "Locked"
      BY <1>13 DEF SetConfigApply
    <3>2. ASSUME NEW u \in Handles, u # t PROVE LifeInvAt(u)'
      BY <2>1
    <3>3. LifeInvAt(t)'
      BY <2>1, <3>1
    <3>4. QED
      BY <3>2, <3>3
  <2>3. TunnelTypeOK'
    <3>1. CASE devCfg' = [devCfg EXCEPT ![t] = stored[t]]
               /\ lastOk' = [lastOk EXCEPT ![t] = TRUE]
      BY <1>13, <3>1 DEF SetConfigApply
    <3>2. CASE lastOk' = [lastOk EXCEPT ![t] = FALSE] /\ UNCHANGED devCfg
      BY <1>13, <3>2 DEF SetConfigApply
    <3>3. QED
      BY <1>13, <3>1, <3>2 DEF SetConfigApply
  <2>4. QED
    BY <2>2, <2>3
<1>14. CASE UNCHANGED allVars
  BY <1>14 DEF allVars, tunnelVars
<1>15. QED
  BY <1>1, <1>2, <1>3, <1>4, <1>5, <1>6, <1>7, <1>8, <1>9, <1>10, <1>11,
     <1>12, <1>13, <1>14 DEF TunnelNext

(* The mapped states of the abstract specification.                        *)
LifeMap == [t \in Handles |-> LifeOf(t)]
AdapterMap == [t \in Handles |-> AdapterOf(t)]

(* The step changes the state of no tunnel other than t.                  *)
OnlyAt(t) ==
    \A u \in Handles \ {t} : tpc'[u] = tpc[u] /\ spc'[u] = spc[u] /\ holders'[u] = holders[u]

(* A step that changes only tunnel t's state changes the abstract view     *)
(* only at t.                                                              *)
LEMMA ViewAt ==
    ASSUME NEW t \in Handles, OnlyAt(t), TunnelTypeOK, TunnelTypeOK'
    PROVE /\ LifeMap' = [LifeMap EXCEPT ![t] = LifeOf(t)']
          /\ AdapterMap' = [AdapterMap EXCEPT ![t] = AdapterOf(t)']
<1>1. ASSUME NEW u \in Handles \ {t} PROVE LifeOf(u)' = LifeOf(u) /\ AdapterOf(u)' = AdapterOf(u)
  BY <1>1 DEF OnlyAt, LifeOf, AdapterOf, AdapterOpen
<1>2. LifeMap' = [LifeMap EXCEPT ![t] = LifeOf(t)']
  <2>1. LifeMap' = [u \in Handles |-> LifeOf(u)']
    BY DEF LifeMap
  <2>2. QED
    BY <1>1, <2>1 DEF LifeMap
<1>3. AdapterMap' = [AdapterMap EXCEPT ![t] = AdapterOf(t)']
  <2>1. AdapterMap' = [u \in Handles |-> AdapterOf(u)']
    BY DEF AdapterMap
  <2>2. QED
    BY <1>1, <2>1 DEF AdapterMap
<1>4. QED
  BY <1>2, <1>3

(* A step that keeps every tunnel's state, its setup task's existence and  *)
(* whether anyone holds its adapter is a stutter of the abstract view.     *)
LEMMA SameView ==
    ASSUME UNCHANGED tpc, \A u \in Handles : (spc'[u] = "None") <=> (spc[u] = "None"),
           \A u \in Handles : (holders'[u] = {}) <=> (holders[u] = {})
    PROVE UNCHANGED Life!lifeVars
<1>1. ASSUME NEW u \in Handles PROVE LifeOf(u)' = LifeOf(u) /\ AdapterOf(u)' = AdapterOf(u)
  BY DEF LifeOf, AdapterOf, AdapterOpen
<1>2. QED
  BY <1>1 DEF Life!lifeVars

(* A step that only drops an Arc clone of tunnel t's adapter, other than  *)
(* the tunnel's own: it closes the adapter of a stopped tunnel, or changes *)
(* nothing the abstract specification sees.                               *)
LEMMA DropClone ==
    ASSUME LifeInv, NEW t \in Handles, NEW x \in {"setup", "stats"} \cup FutureCfgs,
           holders' = [holders EXCEPT ![t] = @ \ {x}],
           UNCHANGED tpc,
           \A u \in Handles : spc'[u] = "None" <=> spc[u] = "None"
    PROVE [Life!LifeNext]_Life!lifeVars
<1> USE DEF LifeInv, LifeInvAt, TunnelTypeOK
<1>1. LifeMap' = LifeMap
  BY DEF LifeMap, LifeOf
<1>2. CASE holders[t] # {} /\ holders'[t] = {}
  <2>1. tpc[t] = "Stopped" /\ spc[t] # "None"
    BY <1>2
  <2>2. AdapterMap' = [AdapterMap EXCEPT ![t] = "Closed"]
    <3>1. AdapterOf(t)' = "Closed"
      BY <1>2, <2>1 DEF AdapterOf, AdapterOpen
    <3>2. ASSUME NEW u \in Handles, u # t PROVE AdapterOf(u)' = AdapterOf(u)
      <4>1. holders'[u] = holders[u]
        BY <3>2
      <4>2. QED
        BY <4>1 DEF AdapterOf, AdapterOpen
    <3>3. QED
      BY <3>1, <3>2 DEF AdapterMap
  <2>3. LifeMap[t] = "Stopped" /\ AdapterMap[t] = "Open"
    BY <1>2, <2>1 DEF LifeMap, AdapterMap, LifeOf, AdapterOf, AdapterOpen
  <2>4. Life!Close(t)
    BY <1>1, <2>2, <2>3 DEF Life!Close, LifeMap, AdapterMap
  <2>5. QED
    BY <2>4 DEF Life!LifeNext
<1>3. CASE holders[t] = {} \/ holders'[t] # {}
  <2>1. AdapterMap' = AdapterMap
    <3>1. ASSUME NEW u \in Handles PROVE AdapterOf(u)' = AdapterOf(u)
      <4>1. (holders'[u] = {}) <=> (holders[u] = {})
        BY <1>3
      <4>2. QED
        BY <4>1 DEF AdapterOf, AdapterOpen
    <3>2. QED
      BY <3>1 DEF AdapterMap
  <2>2. QED
    BY <1>1, <2>1 DEF Life!lifeVars, LifeMap, AdapterMap
<1>4. QED
  BY <1>2, <1>3

(* Every step of the tunnel is a step of WgNtAdapterLifetime under the     *)
(* mapping, or a stutter of it.                                            *)
LEMMA LifeStep == LifeInv /\ [TunnelNext]_allVars => [Life!LifeNext]_Life!lifeVars
<1> SUFFICES ASSUME LifeInv, [TunnelNext]_allVars PROVE [Life!LifeNext]_Life!lifeVars
  OBVIOUS
<1>0. TunnelTypeOK /\ TunnelTypeOK'
  BY LifeInvNext DEF LifeInv
<1> USE DEF LifeInv, LifeInvAt
<1>s. ASSUME UNCHANGED <<tpc, spc, holders>> PROVE UNCHANGED Life!lifeVars
  BY <1>s, SameView
<1>1. CASE CallbackStep
  BY <1>1, <1>s DEF CallbackStep, tunnelVars
<1>2. ASSUME NEW t \in Handles, LoggerStep(t) PROVE [Life!LifeNext]_Life!lifeVars
  BY <1>2, <1>s DEF LoggerStep, tunnelVars
<1>3. ASSUME NEW t \in Handles, StartTunnel(t) PROVE [Life!LifeNext]_Life!lifeVars
  <2>1. PICK r \in {"Failed", "Logger"} : tpc' = [tpc EXCEPT ![t] = r]
    BY <1>3 DEF StartTunnel
  <2>2. UNCHANGED <<spc, holders>> /\ tpc[t] = "Unborn"
        /\ \A u \in Handles : tpc[u] \notin {"Logger", "Running"}
    BY <1>3 DEF StartTunnel
  <2>3. OnlyAt(t)
    BY <1>0, <2>1, <2>2 DEF OnlyAt, TunnelTypeOK
  <2>4. LifeOf(t)' = (IF r = "Logger" THEN "Starting" ELSE "Failed")
        /\ AdapterOf(t)' = AdapterOf(t)
    BY <1>0, <2>1, <2>2 DEF LifeOf, AdapterOf, AdapterOpen, TunnelTypeOK
  <2>5. LifeMap[t] = "Unborn" /\ \A u \in Handles : LifeMap[u] \notin {"Starting", "Running"}
        /\ AdapterMap[t] = AdapterOf(t)
    BY <1>0, <2>2 DEF LifeMap, AdapterMap, LifeOf, TunnelTypeOK
  <2>6. AdapterMap = [AdapterMap EXCEPT ![t] = AdapterOf(t)]
    BY <2>5 DEF AdapterMap
  <2>7. LifeMap' = [LifeMap EXCEPT ![t] = IF r = "Logger" THEN "Starting" ELSE "Failed"]
        /\ AdapterMap' = AdapterMap
    BY <1>0, <2>3, <2>4, <2>6, ViewAt
  <2>8. Life!Begin(t)
    BY <2>5, <2>7 DEF Life!Begin, LifeMap, AdapterMap
  <2>9. QED
    BY <2>8 DEF Life!LifeNext
<1>4. ASSUME NEW t \in Handles, LoggerFailed(t) PROVE [Life!LifeNext]_Life!lifeVars
  <2>1. tpc' = [tpc EXCEPT ![t] = "Failed"] /\ UNCHANGED <<spc, holders>>
        /\ tpc[t] = "Logger"
    BY <1>4 DEF LoggerFailed
  <2>2. OnlyAt(t)
    BY <1>0, <2>1 DEF OnlyAt, TunnelTypeOK
  <2>3. LifeOf(t)' = "Failed" /\ AdapterOf(t)' = AdapterMap[t] /\ LifeMap[t] = "Starting"
    BY <1>0, <2>1 DEF LifeOf, AdapterOf, AdapterOpen, LifeMap, AdapterMap, TunnelTypeOK
  <2>4. AdapterMap = [AdapterMap EXCEPT ![t] = AdapterMap[t]]
    BY DEF AdapterMap
  <2>5. LifeMap' = [LifeMap EXCEPT ![t] = "Failed"] /\ AdapterMap' = AdapterMap
    BY <1>0, <2>2, <2>3, <2>4, ViewAt
  <2>6. Life!Fail(t)
    BY <2>3, <2>5 DEF Life!Fail, LifeMap, AdapterMap
  <2>7. QED
    BY <2>6 DEF Life!LifeNext
<1>5. ASSUME NEW t \in Handles, CreateAdapter(t) PROVE [Life!LifeNext]_Life!lifeVars
  <2>1. tpc[t] = "Logger" /\ holders[t] = {} /\ spc[t] = "None"
    BY <1>5 DEF CreateAdapter, TunnelTypeOK
  <2>2. CASE tpc' = [tpc EXCEPT ![t] = "Stopped"]
                /\ UNCHANGED <<holders, spc, stored, devCfg>>
    <3>1. OnlyAt(t)
      BY <1>0, <2>2 DEF OnlyAt, TunnelTypeOK
    <3>2. LifeOf(t)' = "Failed" /\ AdapterOf(t)' = AdapterMap[t] /\ LifeMap[t] = "Starting"
      BY <1>0, <2>1, <2>2 DEF LifeOf, AdapterOf, AdapterOpen, LifeMap, AdapterMap, TunnelTypeOK
    <3>3. AdapterMap = [AdapterMap EXCEPT ![t] = AdapterMap[t]]
      BY DEF AdapterMap
    <3>4. LifeMap' = [LifeMap EXCEPT ![t] = "Failed"] /\ AdapterMap' = AdapterMap
      BY <1>0, <3>1, <3>2, <3>3, ViewAt
    <3>5. Life!Fail(t)
      BY <3>2, <3>4 DEF Life!Fail, LifeMap, AdapterMap
    <3>6. QED
      BY <3>5 DEF Life!LifeNext
  <2>3. CASE /\ tpc' = [tpc EXCEPT ![t] = "Running"]
             /\ holders' = [holders EXCEPT ![t] = {"tunnel", "setup"}]
             /\ spc' = [spc EXCEPT ![t] = "Wait"]
    <3>1. OnlyAt(t)
      BY <1>0, <2>3 DEF OnlyAt, TunnelTypeOK
    <3>2. LifeOf(t)' = "Running" /\ AdapterOf(t)' = "Open" /\ LifeMap[t] = "Starting"
      BY <1>0, <2>1, <2>3 DEF LifeOf, AdapterOf, AdapterOpen, LifeMap, TunnelTypeOK
    <3>3. LifeMap' = [LifeMap EXCEPT ![t] = "Running"]
          /\ AdapterMap' = [AdapterMap EXCEPT ![t] = "Open"]
      BY <1>0, <3>1, <3>2, ViewAt
    <3>4. Life!Up(t)
      BY <3>2, <3>3 DEF Life!Up, LifeMap, AdapterMap
    <3>5. QED
      BY <3>4 DEF Life!LifeNext
  <2>4. QED
    BY <1>5, <2>2, <2>3 DEF CreateAdapter
<1>6. ASSUME NEW t \in Handles, SetupReady(t) PROVE [Life!LifeNext]_Life!lifeVars
  BY <1>0, <1>6, DropClone DEF SetupReady, TunnelTypeOK
<1>7. ASSUME NEW t \in Handles, SetupCancel(t) PROVE [Life!LifeNext]_Life!lifeVars
  BY <1>0, <1>7, DropClone DEF SetupCancel, TunnelTypeOK
<1>8. ASSUME NEW t \in Handles, Stop(t) PROVE [Life!LifeNext]_Life!lifeVars
  <2>1. tpc[t] = "Running" /\ tpc' = [tpc EXCEPT ![t] = "Stopped"]
        /\ spc'[t] # "None" /\ OnlyAt(t)
    BY <1>0, <1>8 DEF Stop, OnlyAt, TunnelTypeOK
  <2>2. LifeOf(t)' = "Stopped" /\ AdapterOf(t)' \in {"Open", "Closed"}
        /\ LifeMap[t] = "Running"
    BY <1>0, <2>1 DEF LifeOf, AdapterOf, AdapterOpen, LifeMap, TunnelTypeOK
  <2>3. LifeMap' = [LifeMap EXCEPT ![t] = "Stopped"]
        /\ AdapterMap' = [AdapterMap EXCEPT ![t] = AdapterOf(t)']
    BY <1>0, <2>1, <2>2, ViewAt
  <2>4. Life!Down(t)
    BY <2>2, <2>3 DEF Life!Down, LifeMap, AdapterMap
  <2>5. QED
    BY <2>4 DEF Life!LifeNext
<1>9. ASSUME NEW t \in Handles, StatsStart(t) PROVE [Life!LifeNext]_Life!lifeVars
  <2>1. "tunnel" \in holders[t] /\ holders' = [holders EXCEPT ![t] = @ \cup {"stats"}]
        /\ UNCHANGED <<tpc, spc>>
    BY <1>9 DEF StatsStart, TunnelTypeOK
  <2>2. \A u \in Handles : (holders'[u] = {}) <=> (holders[u] = {})
    BY <1>0, <2>1 DEF TunnelTypeOK
  <2>3. QED
    BY <2>1, <2>2, SameView
<1>10. ASSUME NEW t \in Handles, StatsDone(t) PROVE [Life!LifeNext]_Life!lifeVars
  BY <1>10, DropClone DEF StatsDone
<1>11. ASSUME NEW t \in Handles, NEW k \in FutureCfgs, SetConfigCall(t, k)
       PROVE [Life!LifeNext]_Life!lifeVars
  <2>1. "tunnel" \in holders[t] /\ holders' = [holders EXCEPT ![t] = @ \cup {k}]
        /\ UNCHANGED <<tpc, spc>>
    BY <1>11 DEF SetConfigCall, TunnelTypeOK
  <2>2. \A u \in Handles : (holders'[u] = {}) <=> (holders[u] = {})
    BY <1>0, <2>1 DEF TunnelTypeOK
  <2>3. QED
    BY <2>1, <2>2, SameView
<1>12. ASSUME NEW t \in Handles, NEW k \in FutureCfgs, SetConfigLock(t, k)
       PROVE [Life!LifeNext]_Life!lifeVars
  BY <1>12, <1>s DEF SetConfigLock
<1>13. ASSUME NEW t \in Handles, NEW k \in FutureCfgs, SetConfigApply(t, k)
       PROVE [Life!LifeNext]_Life!lifeVars
  BY <1>13, DropClone DEF SetConfigApply
<1>14. CASE UNCHANGED allVars
  BY <1>14, <1>s DEF allVars, tunnelVars
<1>15. QED
  BY <1>1, <1>2, <1>3, <1>4, <1>5, <1>6, <1>7, <1>8, <1>9, <1>10, <1>11,
     <1>12, <1>13, <1>14 DEF TunnelNext

(* The safety part of AdapterLifetime, for any number of tunnels and       *)
(* set_config calls: the adapter is opened only by a successful            *)
(* start_tunnel_inner, stays open while the tunnel runs, and is closed     *)
(* only after the tunnel was stopped.  That it is closed eventually is     *)
(* liveness under TunnelFairness, checked by TLC.                          *)
THEOREM AdapterLifetimeSafety ==
    TunnelSpec => Life!LifeInit /\ [][Life!LifeNext]_Life!lifeVars
<1>1. TunnelInit => Life!LifeInit
  BY DEF TunnelInit, Life!LifeInit, LifeOf, AdapterOf, AdapterOpen
<1>2. TunnelSpec => []LifeInv
  BY LifeInvInit, LifeInvNext, PTL DEF TunnelSpec
<1>3. QED
  BY <1>1, <1>2, LifeStep, PTL DEF TunnelSpec
=============================================================================
