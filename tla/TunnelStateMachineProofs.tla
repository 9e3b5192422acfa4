---------------------- MODULE TunnelStateMachineProofs ----------------------
(***************************************************************************)
(* Proofs about TunnelStateMachine for every value of its constants.      *)
(* The entry and teardown helpers that several handlers share             *)
(* (ErrorEnter, DisconnectedEnter, ConnectingEnter, Disconnect) get one   *)
(* lemma each, stated with the typing of the variables the helper leaves  *)
(* to its caller as a hypothesis.                                          *)
(***************************************************************************)
EXTENDS TunnelStateMachine, TLAPS

(* The typing of the settings the handlers share.                          *)
TypeShared ==
    /\ allowLan \in BOOLEAN
    /\ allowedEndpoint \in Endpoints
    /\ dns \in DnsConfigs
    /\ connectivity \in {"Online", "Offline"}
    /\ blockWhenDisconnected \in BOOLEAN

(* The three values AfterDisconnect can take are well typed.               *)
LEMMA AfterDisconnectsType ==
    /\ Nothing \in AfterDisconnects
    /\ \A n \in 0..MaxRetry : Reconnect(n) \in AfterDisconnects
    /\ \A c \in Causes : Block(c) \in AfterDisconnects
BY DEF AfterDisconnects, Nothing, Reconnect, Block

(* Every policy constructor yields a policy.                               *)
LEMMA PoliciesType ==
    /\ \A r \in Relays \cup {NoRelay}, m \in Metas \cup {NoMeta}, l \in BOOLEAN,
          e \in Endpoints \cup {NoEndpoint}, t \in Traffics :
          ConnectingPolicy(r, m, l, e, t) \in Policies
    /\ \A r \in Relays \cup {NoRelay}, m \in Metas \cup {NoMeta}, l \in BOOLEAN,
          d \in DnsConfigs :
          ConnectedPolicy(r, m, l, d) \in Policies
    /\ \A l \in BOOLEAN, e \in Endpoints : BlockedPolicy(l, e) \in Policies
    /\ NoPolicy \in Policies
BY DEF Policies, PolicyKinds, Traffics, ConnectingPolicy, ConnectedPolicy,
       BlockedPolicy, NoPolicy

(* ErrorState::enter keeps the state well typed.                           *)
LEMMA ErrorEnterType ==
    ASSUME TypeOK, NEW c \in Causes, ErrorEnter(c),
           TypeShared', routes' \in BOOLEAN
    PROVE  TypeOK'
<1>1. fw' \in Policies
  BY PoliciesType DEF TypeOK, ErrorEnter
<1>2. QED
  BY <1>1 DEF TypeOK, TypeShared, ErrorEnter, DropReceivers, workerVars, States

(* Entering Disconnected keeps the state well typed.                       *)
LEMMA DisconnectedEnterType ==
    ASSUME TypeOK, DisconnectedEnter, TypeShared', routes' \in BOOLEAN
    PROVE  TypeOK'
<1>1. fw' \in Policies
  BY PoliciesType DEF TypeOK, DisconnectedEnter
<1>2. QED
  BY <1>1 DEF TypeOK, TypeShared, DisconnectedEnter, DropReceivers, workerVars, States

(* ConnectingState::enter keeps the state well typed, for any attempt      *)
(* number within the bound.                                                *)
LEMMA ConnectingEnterType ==
    ASSUME TypeOK, NEW n \in 0..MaxRetry, ConnectingEnter(n),
           TypeShared', routes' \in BOOLEAN
    PROVE  TypeOK'
<1>1. CASE ErrorEnter("IsOffline")
  BY <1>1, ErrorEnterType DEF Causes
<1>2. CASE ErrorEnter("TunnelParameterError")
  BY <1>2, ErrorEnterType DEF Causes
<1>3. CASE ErrorEnter("SetFirewallPolicyError")
  BY <1>3, ErrorEnterType DEF Causes
<1>4. ASSUME NEW r \in Relays,
             SetFirewallPolicy(r, NoMeta, allowLan, allowedEndpoint, "None", TRUE),
             state' = "Connecting", retry' = n, relay' = r, meta' = NoMeta,
             traffic' = "None", wPhase' = "Starting", wReason' = NoCause,
             wGen' = ~wGen, ev' = NoEvent, evChan' = "Open", closeSlot' = "Empty",
             stopReq' = FALSE, UNCHANGED <<after, cause>>
      PROVE TypeOK'
  <2>1. fw' \in Policies
    BY <1>4, PoliciesType DEF TypeOK, SetFirewallPolicy, Traffics
  <2>2. QED
    BY <1>4, <2>1 DEF TypeOK, TypeShared, Traffics, States, WorkerPhases
<1>5. QED
  BY <1>1, <1>2, <1>3, <1>4 DEF ConnectingEnter

(* ConnectingState::disconnect keeps the state well typed.                 *)
LEMMA DisconnectType ==
    ASSUME TypeOK, NEW a \in AfterDisconnects, Disconnect(a),
           TypeShared', fw' \in Policies
    PROVE  TypeOK'
BY DEF TypeOK, TypeShared, Disconnect, workerVars, States

(* The fields of a tunnel event are well typed.                            *)
LEMMA EventFieldsType ==
    \A e \in Events \cup {NoEvent} :
        /\ e.meta \in Metas \cup {NoMeta}
        /\ e.traffic \in Traffics
BY DEF Events, NoEvent, Traffics

(* A step that only changes the shared settings keeps the state well      *)
(* typed when the new settings are.                                        *)
LEMMA FrameType ==
    ASSUME TypeOK, TypeShared',
           UNCHANGED <<smVars, fw, routes, workerVars, chanVars>>
    PROVE  TypeOK'
<1>1. UNCHANGED <<state, retry, relay, meta, traffic, after, cause>>
  BY DEF smVars
<1>2. UNCHANGED <<wPhase, wReason, wGen, ev, evChan, closeSlot, stopReq>>
  BY DEF workerVars, chanVars
<1>3. QED
  BY <1>1, <1>2 DEF TypeOK, TypeShared

(* A step that re-applies a policy of the right type, and changes only    *)
(* the shared settings besides, keeps the state well typed.                *)
LEMMA FrameFwType ==
    ASSUME TypeOK, TypeShared', fw' \in Policies,
           UNCHANGED <<smVars, routes, workerVars, chanVars>>
    PROVE  TypeOK'
<1>1. UNCHANGED <<state, retry, relay, meta, traffic, after, cause>>
  BY DEF smVars
<1>2. UNCHANGED <<wPhase, wReason, wGen, ev, evChan, closeSlot, stopReq>>
  BY DEF workerVars, chanVars
<1>3. QED
  BY <1>1, <1>2 DEF TypeOK, TypeShared

(* A step of the tunnel monitor thread, which leaves the state machine's   *)
(* own variables alone, keeps the state well typed when the thread and     *)
(* channel variables it sets are well typed.                               *)
LEMMA WorkerFrameType ==
    ASSUME TypeOK, UNCHANGED <<smVars, sharedVars, fw, routes>>,
           wPhase' \in WorkerPhases, wReason' \in Causes \cup {NoCause},
           wGen' \in BOOLEAN, ev' \in Events \cup {NoEvent},
           evChan' \in {"Open", "Closed", "Gone"},
           closeSlot' \in {"Empty", "Dropped", "Gone"} \cup Causes \cup {NoCause},
           stopReq' \in BOOLEAN
    PROVE  TypeOK'
<1>1. UNCHANGED <<state, retry, relay, meta, traffic, after, cause>>
  BY DEF smVars
<1>2. UNCHANGED <<allowLan, allowedEndpoint, dns, connectivity, blockWhenDisconnected>>
  BY DEF sharedVars
<1>3. QED
  BY <1>1, <1>2 DEF TypeOK

(* The outcomes of a fallible firewall call are Booleans.                  *)
LEMMA ApplyOutcomesType == ApplyOutcomes \subseteq BOOLEAN
BY DEF ApplyOutcomes

(* ConnectingState::reset_firewall keeps the state well typed.             *)
LEMMA ResetFirewallType ==
    ASSUME TypeOK, NEW ok \in BOOLEAN, ResetFirewall(ok),
           TypeShared', UNCHANGED workerVars
    PROVE  TypeOK'
<1>1. CASE ok
  <2>1. fw' \in Policies
    BY <1>1, PoliciesType DEF ResetFirewall, SetFirewallPolicy, TypeOK, TypeShared
  <2>2. QED
    BY <1>1, <2>1 DEF ResetFirewall, TypeOK, TypeShared, smVars, chanVars, workerVars
<1>2. CASE ~ok
  BY <1>2, AfterDisconnectsType, DisconnectType DEF ResetFirewall, TypeOK, Causes
<1>3. QED
  BY <1>1, <1>2
-----------------------------------------------------------------------------
(* Every state of the model is well typed: the handlers of every state,    *)
(* and the tunnel monitor thread, only ever store values of the kinds the  *)
(* code's types allow, and the retry counter stays within its bound.       *)
THEOREM InitType == Init => TypeOK
<1> SUFFICES ASSUME Init PROVE TypeOK
  OBVIOUS
<1>1. fw \in Policies
  BY PoliciesType DEF Init
<1>2. after \in AfterDisconnects
  BY AfterDisconnectsType DEF Init
<1>3. retry \in 0..MaxRetry
  BY TunnelConstantsAssumption DEF Init
<1>4. QED
  BY <1>1, <1>2, <1>3 DEF Init, TypeOK, States, Traffics, WorkerPhases

(* Each step of the state machine or of the tunnel monitor thread keeps    *)
(* the state well typed.                                                   *)
THEOREM NextType == TypeOK /\ [Next]_vars => TypeOK'
<1> SUFFICES ASSUME TypeOK, [Next]_vars PROVE TypeOK'
  OBVIOUS
<1> USE TunnelConstantsAssumption, CausesAssumption
<1>1. ASSUME NEW b \in BOOLEAN, ConnectingAllowLan(b) PROVE TypeOK'
  <2>1. TypeShared' /\ UNCHANGED workerVars
    BY <1>1 DEF ConnectingAllowLan, TypeOK, TypeShared
  <2>2. CASE b # allowLan
    <3>1. PICK ok \in ApplyOutcomes : ResetFirewall(ok)
      BY <1>1, <2>2 DEF ConnectingAllowLan
    <3>2. QED
      BY <2>1, <3>1, ResetFirewallType, ApplyOutcomesType
  <2>3. CASE b = allowLan
    BY <1>1, <2>1, <2>3, FrameType DEF ConnectingAllowLan
  <2>4. QED
    BY <2>2, <2>3
<1>2. ASSUME NEW e \in Endpoints, ConnectingAllowEndpoint(e) PROVE TypeOK'
  <2>1. TypeShared' /\ UNCHANGED workerVars
    BY <1>2 DEF ConnectingAllowEndpoint, TypeOK, TypeShared
  <2>2. CASE e # allowedEndpoint
    <3>1. PICK ok \in ApplyOutcomes : ResetFirewall(ok)
      BY <1>2, <2>2 DEF ConnectingAllowEndpoint
    <3>2. QED
      BY <2>1, <3>1, ResetFirewallType, ApplyOutcomesType
  <2>3. CASE e = allowedEndpoint
    BY <1>2, <2>1, <2>3, FrameType DEF ConnectingAllowEndpoint
  <2>4. QED
    BY <2>2, <2>3
<1>3. ASSUME NEW d \in DnsConfigs, ConnectingDns(d) PROVE TypeOK'
  <2>1. TypeShared'
    BY <1>3 DEF ConnectingDns, TypeOK, TypeShared
  <2>2. QED
    BY <1>3, <2>1, FrameType DEF ConnectingDns
<1>4. ASSUME NEW b \in BOOLEAN, ConnectingBlockWhenDisconnected(b) PROVE TypeOK'
  <2>1. TypeShared'
    BY <1>4 DEF ConnectingBlockWhenDisconnected, TypeOK, TypeShared
  <2>2. QED
    BY <1>4, <2>1, FrameType DEF ConnectingBlockWhenDisconnected
<1>5. ASSUME NEW c \in {"Online", "Offline"}, ConnectingConnectivity(c) PROVE TypeOK'
  <2>1. TypeShared' /\ fw' \in Policies
    BY <1>5 DEF ConnectingConnectivity, TypeOK, TypeShared
  <2>2. CASE c = "Offline"
    BY <1>5, <2>1, <2>2, AfterDisconnectsType, DisconnectType
    DEF ConnectingConnectivity, Causes
  <2>3. CASE c = "Online"
    <3>1. UNCHANGED <<workerVars, fw>>
      BY <1>5 DEF ConnectingConnectivity
    <3>2. QED
      BY <1>5, <2>1, <2>3, <3>1, FrameType DEF ConnectingConnectivity
  <2>4. QED
    BY <2>2, <2>3
<1>6. ASSUME NEW a \in AfterDisconnects, Disconnect(a), UNCHANGED <<sharedVars, fw>>
      PROVE TypeOK'
  BY <1>6, DisconnectType DEF TypeOK, TypeShared, sharedVars
<1>7. CASE ConnectingConnect \/ ConnectingDisconnect \/ ConnectingAuthFailed
  BY <1>7, <1>6, AfterDisconnectsType, TunnelConstantsAssumption
  DEF ConnectingConnect, ConnectingDisconnect, ConnectingAuthFailed, Causes
<1>8. ASSUME NEW c \in BlockReasons, ConnectingBlock(c) PROVE TypeOK'
  BY <1>8, <1>6, AfterDisconnectsType DEF ConnectingBlock
<1>9. CASE ConnectingEventsClosed
  BY <1>9, <1>6, AfterDisconnectsType DEF ConnectingEventsClosed, TypeOK
<1>10. CASE ConnectingInterfaceUp
  <2>1. PICK ok \in ApplyOutcomes :
          IF ok THEN /\ meta' = ev.meta
                     /\ traffic' = ev.traffic
                     /\ SetFirewallPolicy(relay, ev.meta, allowLan, allowedEndpoint,
                                          ev.traffic, ok)
                     /\ ev' = NoEvent
                     /\ UNCHANGED <<state, retry, relay, after, cause, routes,
                                    evChan, closeSlot, stopReq>>
                ELSE /\ Disconnect(Block("SetFirewallPolicyError"))
                     /\ UNCHANGED fw
    BY <1>10 DEF ConnectingInterfaceUp
  <2>2. TypeShared' /\ UNCHANGED workerVars
    BY <1>10 DEF ConnectingInterfaceUp, TypeOK, TypeShared, sharedVars
  <2>3. CASE ok
    <3>1. ev.meta \in Metas \cup {NoMeta} /\ ev.traffic \in Traffics
      BY EventFieldsType DEF TypeOK
    <3>2. fw' \in Policies
      <4>1. fw' = ConnectingPolicy(relay, ev.meta, allowLan, allowedEndpoint, ev.traffic)
        BY <2>1, <2>3 DEF SetFirewallPolicy
      <4>2. QED
        BY <3>1, <4>1, PoliciesType DEF TypeOK
    <3>3. QED
      BY <2>1, <2>2, <2>3, <3>1, <3>2 DEF TypeOK, TypeShared, workerVars
  <2>4. CASE ~ok
    BY <2>1, <2>2, <2>4, AfterDisconnectsType, DisconnectType DEF TypeOK, Causes
  <2>5. QED
    BY <2>3, <2>4
<1>11. CASE ConnectingUp
  <2>1. PICK ok \in ApplyOutcomes :
          IF ok THEN /\ state' = "Connected"
                     /\ meta' = ev.meta
                     /\ traffic' = "All"
                     /\ fw' = ConnectedPolicy(relay, ev.meta, allowLan, dns)
                     /\ ev' = NoEvent
                     /\ UNCHANGED <<retry, relay, after, cause, routes,
                                    evChan, closeSlot, stopReq>>
                ELSE /\ Disconnect(Block("SetFirewallPolicyError"))
                     /\ UNCHANGED fw
    BY <1>11 DEF ConnectingUp
  <2>2. TypeShared' /\ UNCHANGED workerVars
    BY <1>11 DEF ConnectingUp, TypeOK, TypeShared, sharedVars
  <2>3. CASE ok
    <3>1. ev.meta \in Metas \cup {NoMeta}
      BY EventFieldsType DEF TypeOK
    <3>2. fw' \in Policies
      <4>1. fw' = ConnectedPolicy(relay, ev.meta, allowLan, dns)
        BY <2>1, <2>3
      <4>2. QED
        BY <3>1, <4>1, PoliciesType DEF TypeOK
    <3>3. QED
      BY <2>1, <2>2, <2>3, <3>1, <3>2 DEF TypeOK, TypeShared, workerVars, States,
         Traffics
  <2>4. CASE ~ok
    BY <2>1, <2>2, <2>4, AfterDisconnectsType, DisconnectType DEF TypeOK, Causes
  <2>5. QED
    BY <2>3, <2>4
<1>12. CASE ConnectingDown
  BY <1>12 DEF ConnectingDown, TypeOK, sharedVars, workerVars, Traffics
<1>13. ASSUME NEW n \in 0..MaxRetry, routes' = FALSE, UNCHANGED sharedVars,
              \/ closeSlot \in Causes /\ ErrorEnter(closeSlot)
              \/ ConnectingEnter(n)
       PROVE TypeOK'
  <2>1. TypeShared'
    BY <1>13 DEF TypeOK, TypeShared, sharedVars
  <2>2. QED
    BY <1>13, <2>1, ErrorEnterType, ConnectingEnterType
<1>14. CASE ConnectingClose
  <2>1. CASE closeSlot \in Causes
    BY <1>14, <2>1, <1>13 DEF ConnectingClose, TypeOK
  <2>2. CASE closeSlot \notin Causes
    <3>1. retry + 1 \in 0..MaxRetry /\ ConnectingEnter(retry + 1)
      BY <1>14, <2>2 DEF ConnectingClose, TypeOK
    <3>2. QED
      BY <1>14, <3>1, <1>13 DEF ConnectingClose
  <2>3. QED
    BY <2>1, <2>2
<1>15. CASE WorkerStart
  <2>1. wReason' \in Causes \cup {NoCause} /\ evChan' \in {"Open", "Closed", "Gone"}
    BY <1>15 DEF WorkerStart, TypeOK, Causes
  <2>2. QED
    BY <1>15, <2>1, WorkerFrameType DEF WorkerStart, TypeOK, WorkerPhases
<1>16. ASSUME NEW e \in Events, WorkerEmit(e) PROVE TypeOK'
  BY <1>16, WorkerFrameType DEF WorkerEmit, TypeOK, workerVars
<1>17. CASE WorkerRoutes
  BY <1>17 DEF WorkerRoutes, TypeOK, smVars, sharedVars, workerVars, chanVars
<1>18. ASSUME NEW o \in WaitOutcomes, WorkerExit(o) PROVE TypeOK'
  <2>1. wReason' \in Causes \cup {NoCause} /\ evChan' \in {"Open", "Closed", "Gone"}
    BY <1>18 DEF WorkerExit, WaitBlockReason, TypeOK, Causes
  <2>2. QED
    BY <1>18, <2>1, WorkerFrameType DEF WorkerExit, TypeOK, WorkerPhases
<1>19. CASE WorkerSendClose
  BY <1>19 DEF WorkerSendClose, TypeOK, WorkerPhases, smVars, sharedVars
<1>20. CASE WorkerPanic
  BY <1>20 DEF WorkerPanic, TypeOK, WorkerPhases, smVars, sharedVars
<1>21. CASE ConnectedSettings
  <2>1. TypeShared'
    BY <1>21 DEF ConnectedSettings, TypeOK, TypeShared
  <2>2. PICK ok \in ApplyOutcomes :
          IF ok THEN /\ fw' = ConnectedPolicy(relay, meta, allowLan', dns')
                     /\ UNCHANGED <<smVars, routes, chanVars>>
                ELSE /\ Disconnect(Block("SetFirewallPolicyError"))
                     /\ UNCHANGED fw
    BY <1>21 DEF ConnectedSettings
  <2>3. CASE ok
    <3>1. fw' \in Policies
      BY <2>1, <2>2, <2>3, PoliciesType DEF TypeOK, TypeShared
    <3>2. UNCHANGED <<smVars, routes, workerVars, chanVars>>
      BY <1>21, <2>2, <2>3 DEF ConnectedSettings
    <3>3. QED
      BY <2>1, <3>1, <3>2, FrameFwType
  <2>4. CASE ~ok
    BY <2>1, <2>2, <2>4, AfterDisconnectsType, DisconnectType DEF TypeOK, Causes
  <2>5. QED
    BY <2>3, <2>4
<1>22. CASE ConnectedCommand
  <2>1. TypeShared' /\ fw' \in Policies
    BY <1>22 DEF ConnectedCommand, TypeOK, TypeShared, sharedVars
  <2>2. \E a \in AfterDisconnects : Disconnect(a)
    BY <1>22, AfterDisconnectsType DEF ConnectedCommand, Causes
  <2>3. QED
    BY <2>1, <2>2, DisconnectType
<1>23. CASE ConnectedEvent
  <2>1. CASE ev.kind = "Down" /\ 1 <= MaxRetry
    BY <1>23, <2>1, <1>6, AfterDisconnectsType DEF ConnectedEvent
  <2>2. CASE ~(ev.kind = "Down" /\ 1 <= MaxRetry)
    BY <1>23, <2>2 DEF ConnectedEvent, TypeOK, smVars, sharedVars, workerVars
  <2>3. QED
    BY <2>1, <2>2
<1>24. CASE ConnectedTunnelEnd
  <2>1. CASE ev = NoEvent /\ evChan = "Closed" /\ Disconnect(Reconnect(1)) /\ UNCHANGED fw
    BY <1>24, <2>1, <1>6, AfterDisconnectsType DEF ConnectedTunnelEnd
  <2>2. CASE /\ routes' = FALSE
             /\ IF closeSlot \in Causes THEN ErrorEnter(closeSlot) ELSE ConnectingEnter(1)
    <3>1. 1 \in 0..MaxRetry /\ UNCHANGED sharedVars
      BY <1>24 DEF ConnectedTunnelEnd
    <3>2. (closeSlot \in Causes /\ ErrorEnter(closeSlot)) \/ ConnectingEnter(1)
      BY <2>2
    <3>3. QED
      BY <2>2, <3>1, <3>2, <1>13
  <2>3. QED
    BY <1>24, <2>1, <2>2 DEF ConnectedTunnelEnd
<1>25. CASE DisconnectingClose
  <2>1. after \in AfterDisconnects
    BY DEF TypeOK
  <2>2. TypeShared' /\ routes' \in BOOLEAN
    BY <1>25 DEF DisconnectingClose, TypeOK, TypeShared, sharedVars
  <2>3. CASE after.kind = "Nothing"
    BY <1>25, <2>2, <2>3, DisconnectedEnterType DEF DisconnectingClose
  <2>4. CASE after.kind = "Reconnect"
    <3>1. after.retry \in 0..MaxRetry
      BY <2>1, <2>4 DEF AfterDisconnects
    <3>2. QED
      BY <1>25, <2>2, <2>4, <3>1, ConnectingEnterType DEF DisconnectingClose
  <2>5. CASE after.kind = "Block"
    <3>1. after.cause \in Causes
      BY <2>1, <2>5 DEF AfterDisconnects
    <3>2. QED
      BY <1>25, <2>2, <2>5, <3>1, ErrorEnterType DEF DisconnectingClose
  <2>6. QED
    BY <2>1, <2>3, <2>4, <2>5 DEF AfterDisconnects
<1>26. CASE IdleSettings
  <2>1. TypeShared'
    BY <1>26 DEF IdleSettings, TypeOK, TypeShared
  <2>2. fw' = IF state = "Error" \/ blockWhenDisconnected'
               THEN BlockedPolicy(allowLan', allowedEndpoint') ELSE NoPolicy
    BY <1>26 DEF IdleSettings
  <2>3. fw' \in Policies
    BY <2>1, <2>2, PoliciesType DEF TypeShared
  <2>4. UNCHANGED <<smVars, routes, workerVars, chanVars>>
    BY <1>26 DEF IdleSettings
  <2>5. QED
    BY <2>1, <2>3, <2>4, FrameFwType
<1>27. CASE IdleConnect \/ ErrorDisconnect \/ \E c \in BlockReasons : DisconnectedBlock(c)
  <2>1. TypeShared' /\ routes' \in BOOLEAN
    BY <1>27 DEF IdleConnect, ErrorDisconnect, DisconnectedBlock, TypeOK, TypeShared,
       sharedVars
  <2>2. QED
    BY <1>27, <2>1, ConnectingEnterType, DisconnectedEnterType, ErrorEnterType
    DEF IdleConnect, ErrorDisconnect, DisconnectedBlock
<1>28. CASE UNCHANGED vars
  <2>1. TypeShared'
    BY <1>28 DEF vars, sharedVars, TypeOK, TypeShared
  <2>2. QED
    BY <1>28, <2>1, FrameType DEF vars
<1>29. QED
  BY <1>1, <1>2, <1>3, <1>4, <1>5, <1>7, <1>8, <1>9, <1>10, <1>11, <1>12, <1>14,
     <1>15, <1>16, <1>17, <1>18, <1>19, <1>20, <1>21, <1>22, <1>23, <1>24, <1>25,
     <1>26, <1>27, <1>28
  DEF Next, ConnectingStep, OtherStateStep, WorkerStep

(* The type invariant holds in every reachable state.                      *)
THEOREM TypeCorrect == Spec => []TypeOK
BY InitType, NextType, PTL DEF Spec
-----------------------------------------------------------------------------
(***************************************************************************)
(* No leak through a tunnel.  TunnelCoveredByPolicy is not inductive by    *)
(* itself: a teardown keeps the policy only because the thread is still   *)
(* alive, and a handler that drops the policy (entering Error or           *)
(* Disconnected, or a failed re-apply on the next attempt) is safe only    *)
(* because it runs after the thread's close signal.  CoverageCore adds     *)
(* those facts; TunnelCoverageInv is TypeOK /\ CoverageCore.               *)
(***************************************************************************)
CoverageCore ==
    /\ TunnelCoveredByPolicy
    /\ state \in {"Disconnected", "Error"} => wPhase \in {"Idle", "Done"}
    /\ closeSlot \notin {"Empty", "Gone"} => wPhase = "Done"
    /\ state = "Connecting" => fw.kind = "Connecting" /\ fw.peer = relay
    /\ state = "Connected" => fw.kind = "Connected" /\ fw.peer = relay

LEMMA CoverageSplit == TunnelCoverageInv <=> TypeOK /\ CoverageCore
BY DEF TunnelCoverageInv, CoverageCore

(* Entering Error or Disconnected after the thread has finished keeps the  *)
(* coverage facts.                                                         *)
LEMMA ErrorEnterCoverage ==
    ASSUME NEW c, wPhase \in {"Idle", "Done"}, ErrorEnter(c)
    PROVE  CoverageCore'
BY DEF ErrorEnter, DropReceivers, workerVars, CoverageCore, TunnelCoveredByPolicy

LEMMA DisconnectedEnterCoverage ==
    ASSUME wPhase \in {"Idle", "Done"}, DisconnectedEnter
    PROVE  CoverageCore'
BY DEF DisconnectedEnter, DropReceivers, workerVars, CoverageCore, TunnelCoveredByPolicy

(* ConnectingState::enter after the previous thread has finished: either   *)
(* the error state, or the Connecting policy of the new relay is in force  *)
(* before the new thread is spawned.                                       *)
LEMMA ConnectingEnterCoverage ==
    ASSUME NEW n, wPhase \in {"Idle", "Done"}, ConnectingEnter(n)
    PROVE  CoverageCore'
<1>1. CASE ErrorEnter("IsOffline") \/ ErrorEnter("TunnelParameterError")
           \/ ErrorEnter("SetFirewallPolicyError")
  BY <1>1, ErrorEnterCoverage
<1>2. ASSUME NEW r \in Relays,
             SetFirewallPolicy(r, NoMeta, allowLan, allowedEndpoint, "None", TRUE),
             state' = "Connecting", relay' = r, wPhase' = "Starting",
             closeSlot' = "Empty"
      PROVE CoverageCore'
  BY <1>2 DEF SetFirewallPolicy, ConnectingPolicy, PeerEndpointOf, CoverageCore,
     TunnelCoveredByPolicy
<1>3. QED
  BY <1>1, <1>2 DEF ConnectingEnter

(* Tearing a tunnel state down keeps its policy in force while the thread  *)
(* lives on.                                                               *)
LEMMA DisconnectCoverage ==
    ASSUME CoverageCore, state \in {"Connecting", "Connected"},
           NEW a, Disconnect(a), UNCHANGED fw
    PROVE  CoverageCore'
BY DEF Disconnect, workerVars, CoverageCore, TunnelCoveredByPolicy, PeerEndpointOf

(* A step that leaves the state, the policy and the thread alone keeps the *)
(* coverage facts.                                                         *)
LEMMA FrameCoverage ==
    ASSUME CoverageCore, UNCHANGED <<smVars, fw, workerVars, chanVars>>
    PROVE  CoverageCore'
BY DEF smVars, workerVars, chanVars, CoverageCore, TunnelCoveredByPolicy, PeerEndpointOf

(* reset_firewall in Connecting re-applies the policy of the same relay.   *)
LEMMA ResetFirewallCoverage ==
    ASSUME CoverageCore, state = "Connecting", NEW ok, ResetFirewall(ok),
           UNCHANGED workerVars
    PROVE  CoverageCore'
<1>1. CASE ok
  BY <1>1 DEF ResetFirewall, SetFirewallPolicy, ConnectingPolicy, PeerEndpointOf,
     smVars, chanVars, workerVars, CoverageCore, TunnelCoveredByPolicy
<1>2. CASE ~ok
  BY <1>2, DisconnectCoverage DEF ResetFirewall
<1>3. QED
  BY <1>1, <1>2

(* The coverage facts hold in every reachable state: they hold initially   *)
(* and every step of the state machine or of the thread keeps them.       *)
THEOREM CoverageInit == Init => CoverageCore
BY DEF Init, CoverageCore, TunnelCoveredByPolicy

THEOREM CoverageNext == TypeOK /\ CoverageCore /\ [Next]_vars => CoverageCore'
<1> SUFFICES ASSUME TypeOK, CoverageCore, [Next]_vars PROVE CoverageCore'
  OBVIOUS
<1>a. closeSlot \notin {"Empty", "Gone"} => wPhase \in {"Idle", "Done"}
  BY DEF CoverageCore
<1>b. state \in {"Disconnected", "Error"} => wPhase \in {"Idle", "Done"}
  BY DEF CoverageCore
<1>1. ASSUME NEW b, ConnectingAllowLan(b) PROVE CoverageCore'
  <2>1. CASE b # allowLan
    BY <1>1, <2>1, ResetFirewallCoverage DEF ConnectingAllowLan
  <2>2. CASE b = allowLan
    BY <1>1, <2>2, FrameCoverage DEF ConnectingAllowLan
  <2>3. QED
    BY <2>1, <2>2
<1>2. ASSUME NEW e, ConnectingAllowEndpoint(e) PROVE CoverageCore'
  <2>1. CASE e # allowedEndpoint
    BY <1>2, <2>1, ResetFirewallCoverage DEF ConnectingAllowEndpoint
  <2>2. CASE e = allowedEndpoint
    BY <1>2, <2>2, FrameCoverage DEF ConnectingAllowEndpoint
  <2>3. QED
    BY <2>1, <2>2
<1>3. ASSUME NEW d, ConnectingDns(d) PROVE CoverageCore'
  BY <1>3, FrameCoverage DEF ConnectingDns
<1>4. ASSUME NEW b, ConnectingBlockWhenDisconnected(b) PROVE CoverageCore'
  BY <1>4, FrameCoverage DEF ConnectingBlockWhenDisconnected
<1>5. ASSUME NEW c, ConnectingConnectivity(c) PROVE CoverageCore'
  <2>1. CASE c = "Offline"
    BY <1>5, <2>1, DisconnectCoverage DEF ConnectingConnectivity
  <2>2. CASE c # "Offline"
    BY <1>5, <2>2, FrameCoverage DEF ConnectingConnectivity, workerVars
  <2>3. QED
    BY <2>1, <2>2
<1>6. CASE ConnectingConnect \/ ConnectingDisconnect \/ ConnectingAuthFailed
           \/ ConnectingEventsClosed \/ \E c \in BlockReasons : ConnectingBlock(c)
  BY <1>6, DisconnectCoverage
  DEF ConnectingConnect, ConnectingDisconnect, ConnectingAuthFailed,
      ConnectingEventsClosed, ConnectingBlock
<1>7. CASE ConnectingInterfaceUp
  <2>1. PICK ok \in ApplyOutcomes :
          IF ok THEN /\ meta' = ev.meta
                     /\ traffic' = ev.traffic
                     /\ SetFirewallPolicy(relay, ev.meta, allowLan, allowedEndpoint,
                                          ev.traffic, ok)
                     /\ ev' = NoEvent
                     /\ UNCHANGED <<state, retry, relay, after, cause, routes,
                                    evChan, closeSlot, stopReq>>
                ELSE /\ Disconnect(Block("SetFirewallPolicyError"))
                     /\ UNCHANGED fw
    BY <1>7 DEF ConnectingInterfaceUp
  <2>2. UNCHANGED workerVars /\ state = "Connecting"
    BY <1>7 DEF ConnectingInterfaceUp
  <2>3. CASE ok
    BY <2>1, <2>2, <2>3 DEF SetFirewallPolicy, ConnectingPolicy, PeerEndpointOf,
       workerVars, CoverageCore, TunnelCoveredByPolicy
  <2>4. CASE ~ok
    BY <2>1, <2>2, <2>4, DisconnectCoverage
  <2>5. QED
    BY <2>3, <2>4
<1>8. CASE ConnectingUp
  <2>1. PICK ok \in ApplyOutcomes :
          IF ok THEN /\ state' = "Connected"
                     /\ meta' = ev.meta
                     /\ traffic' = "All"
                     /\ fw' = ConnectedPolicy(relay, ev.meta, allowLan, dns)
                     /\ ev' = NoEvent
                     /\ UNCHANGED <<retry, relay, after, cause, routes,
                                    evChan, closeSlot, stopReq>>
                ELSE /\ Disconnect(Block("SetFirewallPolicyError"))
                     /\ UNCHANGED fw
    BY <1>8 DEF ConnectingUp
  <2>2. UNCHANGED workerVars /\ state = "Connecting"
    BY <1>8 DEF ConnectingUp
  <2>3. CASE ok
    BY <2>1, <2>2, <2>3 DEF ConnectedPolicy, PeerEndpointOf, workerVars,
       CoverageCore, TunnelCoveredByPolicy
  <2>4. CASE ~ok
    BY <2>1, <2>2, <2>4, DisconnectCoverage
  <2>5. QED
    BY <2>3, <2>4
<1>9. CASE ConnectingDown
  BY <1>9 DEF ConnectingDown, workerVars, CoverageCore, TunnelCoveredByPolicy,
     PeerEndpointOf
<1>10. CASE ConnectingClose
  BY <1>10, <1>a, ErrorEnterCoverage, ConnectingEnterCoverage DEF ConnectingClose
<1>11. CASE WorkerStart
  BY <1>11 DEF WorkerStart, smVars, CoverageCore, TunnelCoveredByPolicy
<1>12. ASSUME NEW e, WorkerEmit(e) PROVE CoverageCore'
  BY <1>12 DEF WorkerEmit, smVars, workerVars, CoverageCore, TunnelCoveredByPolicy
<1>13. CASE WorkerRoutes
  BY <1>13, FrameCoverage DEF WorkerRoutes
<1>14. ASSUME NEW o, WorkerExit(o) PROVE CoverageCore'
  BY <1>14 DEF WorkerExit, smVars, CoverageCore, TunnelCoveredByPolicy
<1>15. CASE WorkerSendClose \/ WorkerPanic
  BY <1>15 DEF WorkerSendClose, WorkerPanic, smVars, CoverageCore,
     TunnelCoveredByPolicy
<1>16. CASE ConnectedSettings
  <2>1. PICK ok \in ApplyOutcomes :
          IF ok THEN /\ fw' = ConnectedPolicy(relay, meta, allowLan', dns')
                     /\ UNCHANGED <<smVars, routes, chanVars>>
                ELSE /\ Disconnect(Block("SetFirewallPolicyError"))
                     /\ UNCHANGED fw
    BY <1>16 DEF ConnectedSettings
  <2>2. UNCHANGED workerVars /\ state = "Connected"
    BY <1>16 DEF ConnectedSettings
  <2>3. CASE ok
    BY <2>1, <2>2, <2>3 DEF ConnectedPolicy, PeerEndpointOf, smVars, chanVars,
       workerVars, CoverageCore, TunnelCoveredByPolicy
  <2>4. CASE ~ok
    BY <2>1, <2>2, <2>4, DisconnectCoverage
  <2>5. QED
    BY <2>3, <2>4
<1>17. CASE ConnectedCommand
  BY <1>17, DisconnectCoverage DEF ConnectedCommand
<1>18. CASE ConnectedEvent
  <2>1. CASE ev.kind = "Down" /\ 1 <= MaxRetry
    BY <1>18, <2>1, DisconnectCoverage DEF ConnectedEvent
  <2>2. CASE ~(ev.kind = "Down" /\ 1 <= MaxRetry)
    BY <1>18, <2>2 DEF ConnectedEvent, smVars, workerVars, CoverageCore,
       TunnelCoveredByPolicy
  <2>3. QED
    BY <2>1, <2>2
<1>19. CASE ConnectedTunnelEnd
  BY <1>19, <1>a, DisconnectCoverage, ErrorEnterCoverage, ConnectingEnterCoverage
  DEF ConnectedTunnelEnd
<1>20. CASE DisconnectingClose
  <2>1. wPhase \in {"Idle", "Done"}
    BY <1>20, <1>a DEF DisconnectingClose
  <2>2. after.kind \in {"Nothing", "Reconnect", "Block"}
    BY DEF TypeOK, AfterDisconnects
  <2>3. CASE after.kind = "Nothing"
    BY <1>20, <2>1, <2>3, DisconnectedEnterCoverage DEF DisconnectingClose
  <2>4. CASE after.kind = "Reconnect"
    BY <1>20, <2>1, <2>4, ConnectingEnterCoverage DEF DisconnectingClose
  <2>5. CASE after.kind = "Block"
    BY <1>20, <2>1, <2>5, ErrorEnterCoverage DEF DisconnectingClose
  <2>6. QED
    BY <2>2, <2>3, <2>4, <2>5
<1>21. CASE IdleSettings
  BY <1>21, <1>b DEF IdleSettings, smVars, workerVars, chanVars, CoverageCore,
     TunnelCoveredByPolicy
<1>22. CASE IdleConnect \/ ErrorDisconnect \/ \E c \in BlockReasons : DisconnectedBlock(c)
  BY <1>22, <1>b, ErrorEnterCoverage, ConnectingEnterCoverage, DisconnectedEnterCoverage
  DEF IdleConnect, ErrorDisconnect, DisconnectedBlock
<1>23. CASE UNCHANGED vars
  BY <1>23, FrameCoverage DEF vars
<1>24. QED
  BY <1>1, <1>2, <1>3, <1>4, <1>5, <1>6, <1>7, <1>8, <1>9, <1>10, <1>11, <1>12,
     <1>13, <1>14, <1>15, <1>16, <1>17, <1>18, <1>19, <1>20, <1>21, <1>22, <1>23
  DEF Next, ConnectingStep, OtherStateStep, WorkerStep

(* No leak through a tunnel: in every reachable state, while a tunnel      *)
(* monitor thread may be creating or running a tunnel device, the firewall *)
(* enforces the tunnel policy of that attempt's relay.                     *)
THEOREM TunnelCovered == Spec => []TunnelCoverageInv
<1>1. Init => TypeOK /\ CoverageCore
  BY InitType, CoverageInit
<1>2. TypeOK /\ CoverageCore /\ [Next]_vars => (TypeOK /\ CoverageCore)'
  BY NextType, CoverageNext
<1>3. QED
  BY <1>1, <1>2, CoverageSplit, PTL DEF Spec

(* The property the safety run checks, for every value of the constants.  *)
THEOREM NoTunnelLeak == Spec => []TunnelCoveredByPolicy
<1>1. TunnelCoverageInv => TunnelCoveredByPolicy
  BY DEF TunnelCoverageInv
<1>2. QED
  BY <1>1, TunnelCovered, PTL

(* Attempts never overlap: every step that spawns a tunnel monitor thread  *)
(* (flips wGen) is taken when the previous thread is idle or done.  Only   *)
(* ConnectingEnter spawns one, and every handler that calls it first       *)
(* waits for the close signal or runs in a state with no live thread.      *)
LEMMA NoSpawnOtherwise ==
    ASSUME TypeOK, CoverageCore, [Next]_vars
    PROVE  wGen' # wGen => wPhase \in {"Idle", "Done"}
<1> SUFFICES ASSUME wGen' # wGen PROVE wPhase \in {"Idle", "Done"}
  OBVIOUS
<1>a. closeSlot \notin {"Empty", "Gone"} => wPhase \in {"Idle", "Done"}
  BY DEF CoverageCore
<1>b. state \in {"Disconnected", "Error"} => wPhase \in {"Idle", "Done"}
  BY DEF CoverageCore
<1>d. ASSUME NEW a, Disconnect(a) PROVE FALSE
  BY <1>d DEF Disconnect, workerVars
<1>1. CASE ConnectingClose \/ ConnectedTunnelEnd \/ DisconnectingClose
  BY <1>1, <1>a DEF ConnectingClose, ConnectedTunnelEnd, DisconnectingClose,
     Disconnect, workerVars
<1>2. CASE IdleConnect \/ ErrorDisconnect \/ \E c \in BlockReasons : DisconnectedBlock(c)
  BY <1>2, <1>b DEF IdleConnect, ErrorDisconnect, DisconnectedBlock
<1>3. CASE \E b \in BOOLEAN : ConnectingAllowLan(b)
  BY <1>3 DEF ConnectingAllowLan, workerVars
<1>4. CASE \E e \in Endpoints : ConnectingAllowEndpoint(e)
  BY <1>4 DEF ConnectingAllowEndpoint, workerVars
<1>5. CASE \/ \E d \in DnsConfigs : ConnectingDns(d)
           \/ \E b \in BOOLEAN : ConnectingBlockWhenDisconnected(b)
           \/ \E c \in {"Online", "Offline"} : ConnectingConnectivity(c)
  BY <1>5 DEF ConnectingDns, ConnectingBlockWhenDisconnected, ConnectingConnectivity,
     workerVars
<1>6. CASE \/ ConnectingConnect \/ ConnectingDisconnect \/ ConnectingAuthFailed
           \/ ConnectingEventsClosed \/ \E c \in BlockReasons : ConnectingBlock(c)
  BY <1>6, <1>d DEF ConnectingConnect, ConnectingDisconnect, ConnectingAuthFailed,
     ConnectingEventsClosed, ConnectingBlock
<1>7. CASE ConnectingInterfaceUp \/ ConnectingUp \/ ConnectingDown
  BY <1>7 DEF ConnectingInterfaceUp, ConnectingUp, ConnectingDown, workerVars
<1>8. CASE WorkerStep
  BY <1>8 DEF WorkerStep, WorkerStart, WorkerEmit, WorkerRoutes, WorkerExit,
     WorkerSendClose, WorkerPanic, workerVars
<1>9. CASE ConnectedSettings \/ ConnectedCommand \/ ConnectedEvent
  BY <1>9, <1>d DEF ConnectedSettings, ConnectedCommand, ConnectedEvent, workerVars
<1>10. CASE IdleSettings \/ UNCHANGED vars
  BY <1>10 DEF IdleSettings, vars, workerVars
<1>11. QED
  BY <1>1, <1>2, <1>3, <1>4, <1>5, <1>6, <1>7, <1>8, <1>9, <1>10
  DEF Next, ConnectingStep, OtherStateStep

(* The action property the safety run checks, for every value of the       *)
(* constants: a new tunnel monitor thread is spawned only once the         *)
(* previous one has finished.                                              *)
THEOREM AttemptsNeverOverlap == Spec => OneTunnelAtATime
<1>1. TunnelCoverageInv /\ [Next]_vars => [wGen' # wGen => wPhase \in {"Idle", "Done"}]_vars
  BY NoSpawnOtherwise, CoverageSplit
<1>2. QED
  BY <1>1, TunnelCovered, PTL DEF Spec, OneTunnelAtATime
-----------------------------------------------------------------------------
(***************************************************************************)
(* The policy in force is the state's own.  PolicyMatchesState is         *)
(* inductive with the type invariant: every handler that changes the      *)
(* state, or a setting the state's policy is built from, applies the new  *)
(* policy in the same step or leaves for Disconnecting, where nothing is  *)
(* required; ConnectingDown clears the metadata, after which the traffic   *)
(* is not required.  The entry helpers get one lemma each.                 *)
(***************************************************************************)

(* What the accessors of firewall/mod.rs return for the two tunnel         *)
(* variants.                                                                *)
LEMMA ConnectingPolicyFields ==
    ASSUME NEW r, NEW m, NEW l, NEW e, NEW t
    PROVE  LET p == ConnectingPolicy(r, m, l, e, t) IN
             /\ p.kind = "Connecting"
             /\ PeerEndpointOf(p) = r
             /\ AllowLanOf(p) = l
             /\ AllowedEndpointOf(p) = e
             /\ TunnelOf(p) = m
             /\ AllowedTunnelTrafficOf(p) = t
BY DEF ConnectingPolicy, PeerEndpointOf, AllowLanOf, AllowedEndpointOf, TunnelOf,
       AllowedTunnelTrafficOf

(* Leaving for Disconnecting requires nothing of the policy.               *)
LEMMA DisconnectPolicy ==
    ASSUME NEW a, Disconnect(a)
    PROVE  PolicyMatchesState'
BY DEF Disconnect, PolicyMatchesState

(* ErrorState::enter applies the Blocked policy of the current settings.   *)
LEMMA ErrorEnterPolicy ==
    ASSUME NEW c, ErrorEnter(c), UNCHANGED sharedVars
    PROVE  PolicyMatchesState'
BY DEF ErrorEnter, sharedVars, PolicyMatchesState

(* Entering Disconnected applies its policy of the current settings.       *)
LEMMA DisconnectedEnterPolicy ==
    ASSUME DisconnectedEnter, UNCHANGED sharedVars
    PROVE  PolicyMatchesState'
BY DEF DisconnectedEnter, sharedVars, PolicyMatchesState

(* ConnectingState::enter applies the Connecting policy of the new relay   *)
(* and the current settings, with no tunnel metadata yet.                  *)
LEMMA ConnectingEnterPolicy ==
    ASSUME NEW n, ConnectingEnter(n), UNCHANGED sharedVars
    PROVE  PolicyMatchesState'
<1>1. CASE ErrorEnter("IsOffline") \/ ErrorEnter("TunnelParameterError")
  BY <1>1, ErrorEnterPolicy
<1>2. CASE connectivity = "Online"
           /\ \E r \in Relays, ok \in ApplyOutcomes :
                \/ ~ok /\ ErrorEnter("SetFirewallPolicyError")
                \/ /\ ok
                   /\ SetFirewallPolicy(r, NoMeta, allowLan, allowedEndpoint, "None", ok)
                   /\ state' = "Connecting"
                   /\ relay' = r
                   /\ meta' = NoMeta
  <2>1. PICK r \in Relays, ok \in ApplyOutcomes :
          \/ ~ok /\ ErrorEnter("SetFirewallPolicyError")
          \/ /\ ok
             /\ SetFirewallPolicy(r, NoMeta, allowLan, allowedEndpoint, "None", ok)
             /\ state' = "Connecting"
             /\ relay' = r
             /\ meta' = NoMeta
    BY <1>2
  <2>2. CASE ~ok /\ ErrorEnter("SetFirewallPolicyError")
    BY <2>2, ErrorEnterPolicy
  <2>3. CASE /\ ok
             /\ SetFirewallPolicy(r, NoMeta, allowLan, allowedEndpoint, "None", ok)
             /\ state' = "Connecting"
             /\ relay' = r
             /\ meta' = NoMeta
    <3>1. fw' = ConnectingPolicy(r, NoMeta, allowLan, allowedEndpoint, "None")
      BY <2>3 DEF SetFirewallPolicy
    <3>2. QED
      BY <2>3, <3>1, ConnectingPolicyFields DEF sharedVars, PolicyMatchesState
  <2>4. QED
    BY <2>1, <2>2, <2>3
<1>3. QED
  BY <1>1, <1>2 DEF ConnectingEnter

(* reset_firewall in Connecting re-applies the Connecting policy with the  *)
(* new settings and the current metadata and traffic, or disconnects.      *)
LEMMA ResetFirewallPolicy ==
    ASSUME state = "Connecting", NEW ok, ResetFirewall(ok)
    PROVE  PolicyMatchesState'
<1>1. CASE ok
  <2>1. fw' = ConnectingPolicy(relay, meta, allowLan', allowedEndpoint', traffic)
        /\ UNCHANGED smVars
    BY <1>1 DEF ResetFirewall, SetFirewallPolicy
  <2>2. QED
    BY <2>1, ConnectingPolicyFields DEF smVars, PolicyMatchesState
<1>2. CASE ~ok
  BY <1>2, DisconnectPolicy DEF ResetFirewall
<1>3. QED
  BY <1>1, <1>2

(* A step that leaves the state machine's variables, the settings and the  *)
(* policy alone keeps the policy the state's own.                          *)
LEMMA FramePolicy ==
    ASSUME PolicyMatchesState, UNCHANGED <<smVars, sharedVars, fw>>
    PROVE  PolicyMatchesState'
BY DEF smVars, sharedVars, PolicyMatchesState

(* The settings the Connecting policy is not built from may change freely. *)
LEMMA ConnectingFramePolicy ==
    ASSUME PolicyMatchesState, state = "Connecting",
           UNCHANGED <<smVars, allowLan, allowedEndpoint, fw>>
    PROVE  PolicyMatchesState'
BY DEF smVars, PolicyMatchesState

(* The policy in force is the state's own initially: the daemon starts     *)
(* Disconnected with the policy block_when_disconnected calls for.         *)
THEOREM PolicyInit == Init => PolicyMatchesState
BY DEF Init, PolicyMatchesState

THEOREM PolicyNext ==
    TypeOK /\ PolicyMatchesState /\ [Next]_vars => PolicyMatchesState'
<1> SUFFICES ASSUME TypeOK, PolicyMatchesState, [Next]_vars
             PROVE  PolicyMatchesState'
  OBVIOUS
<1>1. ASSUME NEW b, ConnectingAllowLan(b) PROVE PolicyMatchesState'
  <2>1. CASE b # allowLan
    BY <1>1, <2>1, ResetFirewallPolicy DEF ConnectingAllowLan
  <2>2. CASE b = allowLan
    BY <1>1, <2>2, ConnectingFramePolicy DEF ConnectingAllowLan
  <2>3. QED
    BY <2>1, <2>2
<1>2. ASSUME NEW e, ConnectingAllowEndpoint(e) PROVE PolicyMatchesState'
  <2>1. CASE e # allowedEndpoint
    BY <1>2, <2>1, ResetFirewallPolicy DEF ConnectingAllowEndpoint
  <2>2. CASE e = allowedEndpoint
    BY <1>2, <2>2, ConnectingFramePolicy DEF ConnectingAllowEndpoint
  <2>3. QED
    BY <2>1, <2>2
<1>3. ASSUME NEW d, ConnectingDns(d) PROVE PolicyMatchesState'
  BY <1>3, ConnectingFramePolicy DEF ConnectingDns
<1>4. ASSUME NEW b, ConnectingBlockWhenDisconnected(b) PROVE PolicyMatchesState'
  BY <1>4, ConnectingFramePolicy DEF ConnectingBlockWhenDisconnected
<1>5. ASSUME NEW c, ConnectingConnectivity(c) PROVE PolicyMatchesState'
  <2>1. CASE c = "Offline"
    BY <1>5, <2>1, DisconnectPolicy DEF ConnectingConnectivity
  <2>2. CASE c # "Offline"
    BY <1>5, <2>2, ConnectingFramePolicy DEF ConnectingConnectivity
  <2>3. QED
    BY <2>1, <2>2
<1>6. CASE ConnectingConnect \/ ConnectingDisconnect \/ ConnectingAuthFailed
           \/ ConnectingEventsClosed \/ \E c \in BlockReasons : ConnectingBlock(c)
  BY <1>6, DisconnectPolicy
  DEF ConnectingConnect, ConnectingDisconnect, ConnectingAuthFailed,
      ConnectingEventsClosed, ConnectingBlock
<1>7. CASE ConnectingInterfaceUp
  <2>1. PICK ok \in ApplyOutcomes :
          IF ok THEN /\ meta' = ev.meta
                     /\ traffic' = ev.traffic
                     /\ SetFirewallPolicy(relay, ev.meta, allowLan, allowedEndpoint,
                                          ev.traffic, ok)
                     /\ ev' = NoEvent
                     /\ UNCHANGED <<state, retry, relay, after, cause, routes,
                                    evChan, closeSlot, stopReq>>
                ELSE /\ Disconnect(Block("SetFirewallPolicyError"))
                     /\ UNCHANGED fw
    BY <1>7 DEF ConnectingInterfaceUp
  <2>2. UNCHANGED sharedVars /\ state = "Connecting"
    BY <1>7 DEF ConnectingInterfaceUp
  <2>3. CASE ok
    <3>1. fw' = ConnectingPolicy(relay, ev.meta, allowLan, allowedEndpoint, ev.traffic)
          /\ state' = "Connecting" /\ relay' = relay
          /\ meta' = ev.meta /\ traffic' = ev.traffic
      BY <2>1, <2>2, <2>3 DEF SetFirewallPolicy
    <3>2. /\ fw'.kind = "Connecting"
          /\ PeerEndpointOf(fw') = relay
          /\ AllowLanOf(fw') = allowLan
          /\ AllowedEndpointOf(fw') = allowedEndpoint
          /\ TunnelOf(fw') = ev.meta
          /\ AllowedTunnelTrafficOf(fw') = ev.traffic
      BY <3>1, ConnectingPolicyFields
    <3>3. allowLan' = allowLan /\ allowedEndpoint' = allowedEndpoint
      BY <2>2 DEF sharedVars
    <3>4. QED
      BY <3>1, <3>2, <3>3 DEF PolicyMatchesState
  <2>4. CASE ~ok
    BY <2>1, <2>4, DisconnectPolicy
  <2>5. QED
    BY <2>3, <2>4
<1>8. CASE ConnectingUp
  <2>1. PICK ok \in ApplyOutcomes :
          IF ok THEN /\ state' = "Connected"
                     /\ meta' = ev.meta
                     /\ traffic' = "All"
                     /\ fw' = ConnectedPolicy(relay, ev.meta, allowLan, dns)
                     /\ ev' = NoEvent
                     /\ UNCHANGED <<retry, relay, after, cause, routes,
                                    evChan, closeSlot, stopReq>>
                ELSE /\ Disconnect(Block("SetFirewallPolicyError"))
                     /\ UNCHANGED fw
    BY <1>8 DEF ConnectingUp
  <2>2. UNCHANGED sharedVars
    BY <1>8 DEF ConnectingUp
  <2>3. CASE ok
    BY <2>1, <2>2, <2>3 DEF sharedVars, PolicyMatchesState
  <2>4. CASE ~ok
    BY <2>1, <2>4, DisconnectPolicy
  <2>5. QED
    BY <2>3, <2>4
<1>9. CASE ConnectingDown
  BY <1>9 DEF ConnectingDown, sharedVars, PolicyMatchesState
<1>10. CASE ConnectingClose
  BY <1>10, ErrorEnterPolicy, ConnectingEnterPolicy DEF ConnectingClose
<1>11. CASE WorkerStart \/ WorkerRoutes \/ WorkerSendClose \/ WorkerPanic
            \/ (\E e \in Events : WorkerEmit(e))
            \/ (\E o \in WaitOutcomes : WorkerExit(o))
  BY <1>11, FramePolicy
  DEF WorkerStart, WorkerRoutes, WorkerSendClose, WorkerPanic, WorkerEmit, WorkerExit
<1>12. CASE ConnectedSettings
  <2>1. PICK ok \in ApplyOutcomes :
          IF ok THEN /\ fw' = ConnectedPolicy(relay, meta, allowLan', dns')
                     /\ UNCHANGED <<smVars, routes, chanVars>>
                ELSE /\ Disconnect(Block("SetFirewallPolicyError"))
                     /\ UNCHANGED fw
    BY <1>12 DEF ConnectedSettings
  <2>2. state = "Connected"
    BY <1>12 DEF ConnectedSettings
  <2>3. CASE ok
    BY <2>1, <2>2, <2>3 DEF smVars, PolicyMatchesState
  <2>4. CASE ~ok
    BY <2>1, <2>4, DisconnectPolicy
  <2>5. QED
    BY <2>3, <2>4
<1>13. CASE ConnectedCommand
  BY <1>13, DisconnectPolicy DEF ConnectedCommand
<1>14. CASE ConnectedEvent
  <2>1. CASE ev.kind = "Down" /\ 1 <= MaxRetry
    BY <1>14, <2>1, DisconnectPolicy DEF ConnectedEvent
  <2>2. CASE ~(ev.kind = "Down" /\ 1 <= MaxRetry)
    BY <1>14, <2>2, FramePolicy DEF ConnectedEvent
  <2>3. QED
    BY <2>1, <2>2
<1>15. CASE ConnectedTunnelEnd
  BY <1>15, DisconnectPolicy, ErrorEnterPolicy, ConnectingEnterPolicy
  DEF ConnectedTunnelEnd
<1>16. CASE DisconnectingClose
  <2>1. after.kind \in {"Nothing", "Reconnect", "Block"}
    BY DEF TypeOK, AfterDisconnects
  <2>2. CASE after.kind = "Nothing"
    BY <1>16, <2>2, DisconnectedEnterPolicy DEF DisconnectingClose
  <2>3. CASE after.kind = "Reconnect"
    BY <1>16, <2>3, ConnectingEnterPolicy DEF DisconnectingClose
  <2>4. CASE after.kind = "Block"
    BY <1>16, <2>4, ErrorEnterPolicy DEF DisconnectingClose
  <2>5. QED
    BY <2>1, <2>2, <2>3, <2>4
<1>17. CASE IdleSettings
  BY <1>17 DEF IdleSettings, smVars, PolicyMatchesState
<1>18. CASE IdleConnect \/ ErrorDisconnect \/ \E c \in BlockReasons : DisconnectedBlock(c)
  BY <1>18, ErrorEnterPolicy, ConnectingEnterPolicy, DisconnectedEnterPolicy
  DEF IdleConnect, ErrorDisconnect, DisconnectedBlock
<1>19. CASE UNCHANGED vars
  BY <1>19, FramePolicy DEF vars
<1>20. CASE ConnectingStep
  BY <1>1, <1>2, <1>3, <1>4, <1>5, <1>6, <1>7, <1>8, <1>9, <1>10, <1>20
  DEF ConnectingStep
<1>21. CASE OtherStateStep
  BY <1>12, <1>13, <1>14, <1>15, <1>16, <1>17, <1>18, <1>21 DEF OtherStateStep
<1>22. CASE WorkerStep
  BY <1>11, <1>22 DEF WorkerStep
<1>23. QED
  BY <1>19, <1>20, <1>21, <1>22 DEF Next

(* The policy check the state-machine runs make, for every value of the   *)
(* constants: in every reachable state the firewall enforces the policy   *)
(* of the tunnel state, built from the current settings.                   *)
THEOREM PolicyAlwaysMatches == Spec => []PolicyMatchesState
<1>1. Init => TypeOK /\ PolicyMatchesState
  BY InitType, PolicyInit
<1>2. TypeOK /\ PolicyMatchesState /\ [Next]_vars => (TypeOK /\ PolicyMatchesState)'
  BY NextType, PolicyNext
<1>3. QED
  BY <1>1, <1>2, PTL DEF Spec

-----------------------------------------------------------------------------
(***************************************************************************)
(* Routes are cleared whenever the daemon is idle.  RoutesClearedWhenIdle *)
(* is not inductive alone: WorkerRoutes may install routes in any state,   *)
(* and only the coverage fact that an idle state's thread has finished     *)
(* (wPhase is Idle or Done, so WorkerRoutes is disabled) rules it out in   *)
(* Disconnected and Error.  The inductive invariant is TunnelCoverageInv  *)
(* /\ RoutesClearedWhenIdle, which the state-machine run checks.  Every    *)
(* handler that enters Disconnected or Error from a tunnel state clears    *)
(* the routes in the same step; the idle handlers leave them cleared.      *)
(***************************************************************************)

(* ConnectingState::enter lands in Connecting or, failing, in Error.       *)
LEMMA ConnectingEnterState ==
    ASSUME NEW n, ConnectingEnter(n)
    PROVE  state' \in {"Connecting", "Error"}
BY DEF ConnectingEnter, ErrorEnter

LEMMA RoutesNext ==
    TypeOK /\ CoverageCore /\ RoutesClearedWhenIdle /\ [Next]_vars
      => RoutesClearedWhenIdle'
<1> SUFFICES ASSUME TypeOK, CoverageCore, RoutesClearedWhenIdle, [Next]_vars
             PROVE  RoutesClearedWhenIdle'
  OBVIOUS
<1>a. state \in {"Disconnected", "Error"} => wPhase \in {"Idle", "Done"}
  BY DEF CoverageCore
<1>1. CASE ConnectingStep
  <2>1. CASE ConnectingClose
    BY <2>1, ConnectingEnterState DEF ConnectingClose, ErrorEnter,
       RoutesClearedWhenIdle
  <2>2. CASE \/ \E b \in BOOLEAN : ConnectingAllowLan(b)
             \/ \E e \in Endpoints : ConnectingAllowEndpoint(e)
    BY <2>2 DEF ConnectingAllowLan, ConnectingAllowEndpoint, ResetFirewall,
       Disconnect, smVars, RoutesClearedWhenIdle
  <2>3. CASE \/ \E d \in DnsConfigs : ConnectingDns(d)
             \/ \E b \in BOOLEAN : ConnectingBlockWhenDisconnected(b)
             \/ \E c \in {"Online", "Offline"} : ConnectingConnectivity(c)
    BY <2>3 DEF ConnectingDns, ConnectingBlockWhenDisconnected,
       ConnectingConnectivity, Disconnect, smVars, RoutesClearedWhenIdle
  <2>4. CASE \/ ConnectingConnect \/ ConnectingDisconnect \/ ConnectingAuthFailed
             \/ ConnectingEventsClosed \/ \E c \in BlockReasons : ConnectingBlock(c)
    BY <2>4 DEF ConnectingConnect, ConnectingDisconnect, ConnectingAuthFailed,
       ConnectingEventsClosed, ConnectingBlock, Disconnect, RoutesClearedWhenIdle
  <2>5. CASE ConnectingInterfaceUp \/ ConnectingUp \/ ConnectingDown
    BY <2>5 DEF ConnectingInterfaceUp, ConnectingUp, ConnectingDown, Disconnect,
       RoutesClearedWhenIdle
  <2>6. QED
    BY <1>1, <2>1, <2>2, <2>3, <2>4, <2>5 DEF ConnectingStep
<1>2. CASE ConnectedSettings \/ ConnectedCommand \/ ConnectedEvent
  <2>1. state' \in {"Connected", "Disconnecting"}
    BY <1>2 DEF ConnectedSettings, ConnectedCommand, ConnectedEvent, Disconnect,
       smVars
  <2>2. QED
    BY <2>1 DEF RoutesClearedWhenIdle
<1>3. CASE ConnectedTunnelEnd
  BY <1>3, ConnectingEnterState DEF ConnectedTunnelEnd, Disconnect, ErrorEnter,
     RoutesClearedWhenIdle
<1>4. CASE DisconnectingClose
  BY <1>4 DEF DisconnectingClose, RoutesClearedWhenIdle
<1>5. CASE IdleSettings \/ IdleConnect \/ ErrorDisconnect
           \/ \E c \in BlockReasons : DisconnectedBlock(c)
  BY <1>5 DEF IdleSettings, IdleConnect, ErrorDisconnect, DisconnectedBlock,
     RoutesClearedWhenIdle
<1>6. CASE WorkerRoutes
  BY <1>6, <1>a DEF WorkerRoutes, smVars, RoutesClearedWhenIdle
<1>7. CASE WorkerStart \/ WorkerSendClose \/ WorkerPanic
           \/ (\E e \in Events : WorkerEmit(e))
           \/ (\E o \in WaitOutcomes : WorkerExit(o))
  BY <1>7 DEF WorkerStart, WorkerSendClose, WorkerPanic, WorkerEmit, WorkerExit,
     smVars, RoutesClearedWhenIdle
<1>8. CASE UNCHANGED vars
  BY <1>8 DEF vars, smVars, RoutesClearedWhenIdle
<1>9. CASE OtherStateStep
  BY <1>2, <1>3, <1>4, <1>5, <1>9 DEF OtherStateStep
<1>10. CASE WorkerStep
  BY <1>6, <1>7, <1>10 DEF WorkerStep
<1>11. QED
  BY <1>1, <1>8, <1>9, <1>10 DEF Next

(* The route check of the state-machine runs, for every value of the      *)
(* constants: routes a tunnel installed never survive into Disconnected or *)
(* Error, even when the tunnel installs them after disconnect has cleared  *)
(* them, because the idle states are entered only once the monitor thread *)
(* has finished and by a handler that clears the routes.                   *)
THEOREM RoutesAlwaysCleared == Spec => []RoutesClearedWhenIdle
<1>1. Init => TypeOK /\ CoverageCore /\ RoutesClearedWhenIdle
  BY InitType, CoverageInit DEF Init, RoutesClearedWhenIdle
<1>2. TypeOK /\ CoverageCore /\ RoutesClearedWhenIdle /\ [Next]_vars
        => (TypeOK /\ CoverageCore /\ RoutesClearedWhenIdle)'
  BY NextType, CoverageNext, RoutesNext
<1>3. QED
  BY <1>1, <1>2, PTL DEF Spec

-----------------------------------------------------------------------------
(***************************************************************************)
(* Attempt numbers.  A reconnect through DisconnectingState carries the   *)
(* attempt number in AfterDisconnect::Reconnect, chosen when the          *)
(* Connecting or Connected state disconnected, and ConnectingState::enter  *)
(* takes it over only when the tunnel has closed.  AttemptInv says the    *)
(* number waiting in Disconnecting is 0, 1 or one more than the attempt    *)
(* that was torn down; retry itself does not change in Disconnecting.     *)
(***************************************************************************)

(* spec.md section 8, retry bound: each new tunnel attempt is numbered 0  *)
(* (a Connect from an idle state), 1 (a reconnect after a connection that *)
(* came up, which resets the count) or one more than the attempt before   *)
(* it (connecting_state.rs lines 591, 611 and 616): numbers never skip.   *)
AttemptNumbering == [][wGen' # wGen => retry' \in {0, 1, retry + 1}]_vars

AttemptInv ==
    state = "Disconnecting" /\ after.kind = "Reconnect"
      => after.retry \in {0, 1, retry + 1}

(* Only a successful ConnectingState::enter spawns a thread, and it runs   *)
(* the attempt it was given.                                               *)
LEMMA ConnectingEnterAttempt ==
    ASSUME NEW n, ConnectingEnter(n)
    PROVE  /\ wGen' # wGen => retry' = n
           /\ state' \in {"Connecting", "Error"}
BY DEF ConnectingEnter, ErrorEnter, workerVars

(* Leaving for Disconnecting keeps the attempt number and records the one  *)
(* to reconnect with.                                                      *)
LEMMA DisconnectAttempt ==
    ASSUME NEW a, Disconnect(a)
    PROVE  wGen' = wGen /\ retry' = retry /\ after' = a /\ state' = "Disconnecting"
BY DEF Disconnect, workerVars

LEMMA AttemptNext ==
    TypeOK /\ AttemptInv /\ [Next]_vars
      => /\ AttemptInv'
         /\ wGen' # wGen => retry' \in {0, 1, retry + 1}
<1> SUFFICES ASSUME TypeOK, AttemptInv, [Next]_vars
             PROVE  AttemptInv' /\ (wGen' # wGen => retry' \in {0, 1, retry + 1})
  OBVIOUS
<1> DEFINE Goal == AttemptInv' /\ (wGen' # wGen => retry' \in {0, 1, retry + 1})
(* Steps that stay out of Disconnecting and spawn nothing.                 *)
<1>0. ASSUME state' # "Disconnecting", wGen' = wGen PROVE Goal
  BY <1>0 DEF AttemptInv
<1>1. ASSUME NEW a, a.kind = "Reconnect" => a.retry \in {0, 1, retry + 1},
             Disconnect(a)
      PROVE  Goal
  BY <1>1, DisconnectAttempt DEF AttemptInv
<1>a. \A c : Block(c).kind # "Reconnect" /\ Nothing.kind # "Reconnect"
  BY DEF Block, Nothing
<1>b. \A n \in {0, 1, retry + 1} : Reconnect(n).retry \in {0, 1, retry + 1}
  BY DEF Reconnect
<1>2. ASSUME NEW n \in {0, 1, retry + 1}, ConnectingEnter(n) PROVE Goal
  BY <1>2, ConnectingEnterAttempt DEF AttemptInv
<1>3. CASE ConnectingStep
  <2>1. CASE \E b \in BOOLEAN : ConnectingAllowLan(b)
    BY <2>1, <1>0, <1>1, <1>a DEF ConnectingAllowLan, ResetFirewall, smVars, workerVars
  <2>2. CASE \E e \in Endpoints : ConnectingAllowEndpoint(e)
    BY <2>2, <1>0, <1>1, <1>a DEF ConnectingAllowEndpoint, ResetFirewall, smVars,
       workerVars
  <2>3. CASE \/ \E d \in DnsConfigs : ConnectingDns(d)
             \/ \E b \in BOOLEAN : ConnectingBlockWhenDisconnected(b)
             \/ ConnectingDown
    BY <2>3, <1>0 DEF ConnectingDns, ConnectingBlockWhenDisconnected, ConnectingDown,
       smVars, workerVars
  <2>4. CASE \E c \in {"Online", "Offline"} : ConnectingConnectivity(c)
    BY <2>4, <1>0, <1>1, <1>a DEF ConnectingConnectivity, smVars, workerVars
  <2>5. CASE \/ ConnectingConnect \/ ConnectingDisconnect \/ ConnectingAuthFailed
             \/ ConnectingEventsClosed \/ \E c \in BlockReasons : ConnectingBlock(c)
    BY <2>5, <1>1, <1>a, <1>b, TypeOK
    DEF ConnectingConnect, ConnectingDisconnect, ConnectingAuthFailed,
        ConnectingEventsClosed, ConnectingBlock
  <2>6. CASE ConnectingInterfaceUp \/ ConnectingUp
    BY <2>6, <1>0, <1>1, <1>a DEF ConnectingInterfaceUp, ConnectingUp, workerVars
  <2>7. CASE ConnectingClose
    BY <2>7, <1>0, <1>2 DEF ConnectingClose, ErrorEnter, workerVars
  <2>8. QED
    BY <1>3, <2>1, <2>2, <2>3, <2>4, <2>5, <2>6, <2>7 DEF ConnectingStep
<1>4. CASE ConnectedSettings
  BY <1>4, <1>0, <1>1, <1>a DEF ConnectedSettings, smVars, workerVars
<1>4a. CASE ConnectedEvent
  <2>1. CASE ev.kind = "Down" /\ 1 <= MaxRetry
    BY <1>4a, <2>1, <1>1, <1>b DEF ConnectedEvent
  <2>2. CASE ~(ev.kind = "Down" /\ 1 <= MaxRetry)
    BY <1>4a, <2>2, <1>0 DEF ConnectedEvent, smVars, workerVars
  <2>3. QED
    BY <2>1, <2>2
<1>5. CASE ConnectedCommand
  BY <1>5, <1>1, <1>a, <1>b DEF ConnectedCommand
<1>6. CASE ConnectedTunnelEnd
  BY <1>6, <1>0, <1>1, <1>2, <1>b DEF ConnectedTunnelEnd, ErrorEnter, workerVars
<1>7. CASE DisconnectingClose
  <2>1. after.kind \in {"Nothing", "Reconnect", "Block"}
    BY DEF TypeOK, AfterDisconnects
  <2>2. CASE after.kind = "Reconnect"
    BY <1>7, <2>2, <1>2 DEF DisconnectingClose, AttemptInv
  <2>3. CASE after.kind = "Nothing"
    <3>1. DisconnectedEnter
      BY <1>7, <2>3 DEF DisconnectingClose
    <3>2. QED
      BY <3>1, <1>0 DEF DisconnectedEnter, workerVars
  <2>4. CASE after.kind = "Block"
    <3>1. ErrorEnter(after.cause)
      BY <1>7, <2>4 DEF DisconnectingClose
    <3>2. QED
      BY <3>1, <1>0 DEF ErrorEnter, workerVars
  <2>5. QED
    BY <2>1, <2>2, <2>3, <2>4
<1>8. CASE IdleSettings \/ ErrorDisconnect \/ \E c \in BlockReasons : DisconnectedBlock(c)
  BY <1>8, <1>0 DEF IdleSettings, ErrorDisconnect, DisconnectedBlock, DisconnectedEnter,
     ErrorEnter, smVars, workerVars
<1>9. CASE IdleConnect
  BY <1>9, <1>2 DEF IdleConnect
<1>10. CASE WorkerStep \/ UNCHANGED vars
  BY <1>10 DEF WorkerStep, WorkerStart, WorkerEmit, WorkerRoutes, WorkerExit,
     WorkerSendClose, WorkerPanic, vars, smVars, workerVars, AttemptInv
<1>11. QED
  BY <1>3, <1>4, <1>4a, <1>5, <1>6, <1>7, <1>8, <1>9, <1>10 DEF Next, OtherStateStep

(* The retry bound of spec.md section 8, for every value of the constants: *)
(* every tunnel attempt the state machine starts is numbered 0, 1 or one  *)
(* more than the attempt before it, including when the number travels    *)
(* through DisconnectingState's AfterDisconnect::Reconnect.                *)
THEOREM AttemptsNumberedInOrder == Spec => AttemptNumbering
<1>1. Init => TypeOK /\ AttemptInv
  BY InitType DEF Init, AttemptInv
<1>2. TypeOK /\ AttemptInv /\ [Next]_vars => (TypeOK /\ AttemptInv)'
  BY NextType, AttemptNext
<1>3. TypeOK /\ AttemptInv /\ [Next]_vars => [wGen' # wGen => retry' \in {0, 1, retry + 1}]_vars
  BY AttemptNext
<1>4. QED
  BY <1>1, <1>2, <1>3, PTL DEF Spec, AttemptNumbering

-----------------------------------------------------------------------------
(***************************************************************************)
(* Policy before interface, as a refinement.  Under the mapping of        *)
(* TunnelStateMachine (guard is the peer endpoint of the firewall's       *)
(* tunnel policy, tunnel the attempt's relay while its monitor thread is  *)
(* starting or running) every step is a step of TunnelPolicyOrdering.    *)
(* The argument: only ConnectingEnter spawns a thread, it sets the relay *)
(* and the policy in the same step, and only when the previous thread    *)
(* has finished; every other step keeps the relay, and the steps that    *)
(* change the thread's phase are the thread's own and leave the firewall *)
(* alone.  TunnelCoverageInv in the state after the step gives the new   *)
(* policy's peer endpoint.                                               *)
(***************************************************************************)

(* ConnectingState::enter either spawns a monitor thread for a relay, or   *)
(* fails into the error state and leaves the relay and the thread alone.   *)
LEMMA EnterSpawnOrKeep ==
    ASSUME NEW n, wGen \in BOOLEAN, ConnectingEnter(n)
    PROVE  \/ wGen' # wGen /\ wPhase' = "Starting" /\ relay' \in Relays
           \/ UNCHANGED <<relay, wPhase, wGen>>
BY DEF ConnectingEnter, ErrorEnter, workerVars

(* What a step does to the relay and to the monitor thread: a spawn starts *)
(* a thread for a relay; any other step keeps the relay, and a step that  *)
(* changes the thread's phase never revives it and leaves the firewall as *)
(* it is.                                                                  *)
LEMMA RelayFrame ==
    ASSUME TypeOK, [Next]_vars
    PROVE  /\ wGen' # wGen => wPhase' = "Starting" /\ relay' \in Relays
           /\ wGen' = wGen =>
                /\ relay' = relay
                /\ wPhase' # wPhase =>
                     /\ fw' = fw
                     /\ wPhase' \in {"Starting", "Running"} => wPhase \in {"Starting", "Running"}
<1> DEFINE Spawn == wGen' # wGen /\ wPhase' = "Starting" /\ relay' \in Relays
           Keep == UNCHANGED <<relay, wPhase, wGen>>
<1>0. Spawn \/ Keep => /\ wGen' # wGen => wPhase' = "Starting" /\ relay' \in Relays
                       /\ wGen' = wGen =>
                            /\ relay' = relay
                            /\ wPhase' # wPhase =>
                                 /\ fw' = fw
                                 /\ wPhase' \in {"Starting", "Running"}
                                      => wPhase \in {"Starting", "Running"}
  OBVIOUS
<1>a. ASSUME NEW n, ConnectingEnter(n) PROVE Spawn \/ Keep
  BY <1>a, EnterSpawnOrKeep DEF TypeOK
<1>b. ASSUME NEW a, Disconnect(a) PROVE Keep
  BY <1>b DEF Disconnect, workerVars
<1>c. ASSUME NEW c, ErrorEnter(c) PROVE Keep
  BY <1>c DEF ErrorEnter, workerVars
<1>d. ASSUME DisconnectedEnter PROVE Keep
  BY <1>d DEF DisconnectedEnter, workerVars
<1>1. CASE ConnectingClose
  BY <1>1, <1>a, <1>c, <1>0 DEF ConnectingClose
<1>2. CASE ConnectedTunnelEnd
  BY <1>2, <1>a, <1>b, <1>c, <1>0 DEF ConnectedTunnelEnd
<1>3. CASE DisconnectingClose
  <2>1. after.kind \in {"Nothing", "Reconnect", "Block"}
    BY DEF TypeOK, AfterDisconnects
  <2>2. CASE after.kind = "Nothing"
    BY <1>3, <2>2, <1>d, <1>0 DEF DisconnectingClose
  <2>3. CASE after.kind = "Reconnect"
    BY <1>3, <2>3, <1>a, <1>0 DEF DisconnectingClose
  <2>4. CASE after.kind = "Block"
    BY <1>3, <2>4, <1>c, <1>0 DEF DisconnectingClose
  <2>5. QED
    BY <2>1, <2>2, <2>3, <2>4
<1>4. CASE IdleConnect
  BY <1>4, <1>a, <1>0 DEF IdleConnect
<1>5. CASE ErrorDisconnect \/ \E c \in BlockReasons : DisconnectedBlock(c)
  BY <1>5, <1>c, <1>d, <1>0 DEF ErrorDisconnect, DisconnectedBlock
<1>6. CASE \E b \in BOOLEAN : ConnectingAllowLan(b)
  BY <1>6, <1>b, <1>0 DEF ConnectingAllowLan, ResetFirewall, smVars, workerVars
<1>7. CASE \E e \in Endpoints : ConnectingAllowEndpoint(e)
  BY <1>7, <1>b, <1>0 DEF ConnectingAllowEndpoint, ResetFirewall, smVars, workerVars
<1>8. CASE \/ \E d \in DnsConfigs : ConnectingDns(d)
           \/ \E b \in BOOLEAN : ConnectingBlockWhenDisconnected(b)
           \/ \E c \in {"Online", "Offline"} : ConnectingConnectivity(c)
           \/ ConnectingDown
  BY <1>8, <1>b, <1>0 DEF ConnectingDns, ConnectingBlockWhenDisconnected,
     ConnectingConnectivity, ConnectingDown, smVars, workerVars
<1>9. CASE \/ ConnectingConnect \/ ConnectingDisconnect \/ ConnectingAuthFailed
           \/ ConnectingEventsClosed \/ \E c \in BlockReasons : ConnectingBlock(c)
  BY <1>9, <1>b, <1>0 DEF ConnectingConnect, ConnectingDisconnect, ConnectingAuthFailed,
     ConnectingEventsClosed, ConnectingBlock
<1>10. CASE ConnectingInterfaceUp \/ ConnectingUp
  BY <1>10, <1>b, <1>0 DEF ConnectingInterfaceUp, ConnectingUp, workerVars
<1>11. CASE ConnectedSettings \/ ConnectedCommand \/ ConnectedEvent
  BY <1>11, <1>b, <1>0 DEF ConnectedSettings, ConnectedCommand, ConnectedEvent,
     smVars, workerVars
<1>12. CASE IdleSettings \/ UNCHANGED vars
  BY <1>12, <1>0 DEF IdleSettings, vars, smVars, workerVars
<1>13. CASE WorkerStep
  BY <1>13 DEF WorkerStep, WorkerStart, WorkerEmit, WorkerRoutes, WorkerExit,
     WorkerSendClose, WorkerPanic, smVars, workerVars
<1>14. QED
  BY <1>1, <1>2, <1>3, <1>4, <1>5, <1>6, <1>7, <1>8, <1>9, <1>10, <1>11, <1>12,
     <1>13 DEF Next, ConnectingStep, OtherStateStep


(* Every step of the state machine and its monitor thread is, under the    *)
(* mapping, a step of TunnelPolicyOrdering or a stutter of it.             *)
LEMMA OrderingStep ==
    ASSUME TunnelCoverageInv, TunnelCoverageInv', [Next]_vars
    PROVE  [Ordering!OrderNext]_Ordering!orderVars
<1> DEFINE G == PeerEndpointOf(fw)
           T == TunnelOfAttempt
           Live == {"Starting", "Running"}
<1>1. TypeOK /\ TypeOK' /\ CoverageCore
  BY CoverageSplit DEF TunnelCoverageInv
<1>2. G' \in Relays \cup {NoRelay}
  BY <1>1 DEF TypeOK, Policies, PeerEndpointOf
<1>3. wPhase' \in Live => G' = relay'
  BY DEF TunnelCoverageInv, TunnelCoveredByPolicy
<1>4. CASE wGen' # wGen
  <2>1. wPhase' = "Starting" /\ relay' \in Relays /\ wPhase \in {"Idle", "Done"}
    BY <1>1, <1>4, RelayFrame, NoSpawnOtherwise
  <2>2. T = NoRelay /\ T' = relay' /\ G' = relay'
    BY <2>1, <1>3 DEF TunnelOfAttempt
  <2>3. Ordering!StartTunnel(relay')
    BY <2>2 DEF Ordering!StartTunnel
  <2>4. QED
    BY <2>1, <2>3 DEF Ordering!OrderNext
<1>5. CASE wGen' = wGen /\ wPhase' = wPhase
  <2>1. relay' = relay /\ T' = T
    BY <1>1, <1>5, RelayFrame DEF TunnelOfAttempt
  <2>2. T \in {NoRelay, G'}
    BY <2>1, <1>3 DEF TunnelOfAttempt
  <2>3. Ordering!SetGuard(G')
    BY <2>1, <2>2 DEF Ordering!SetGuard
  <2>4. QED
    BY <1>2, <2>3 DEF Ordering!OrderNext
<1>6. CASE wGen' = wGen /\ wPhase' # wPhase
  <2>1. relay' = relay /\ fw' = fw /\ (wPhase' \in Live => wPhase \in Live)
    BY <1>1, <1>6, RelayFrame
  <2>2. G' = G /\ T' \in {T, NoRelay}
    BY <2>1 DEF TunnelOfAttempt
  <2>3. CASE T' = T
    BY <2>2, <2>3 DEF Ordering!orderVars
  <2>4. CASE T' # T
    <3>1. Ordering!StopTunnel
      BY <2>2, <2>4 DEF Ordering!StopTunnel
    <3>2. QED
      BY <3>1 DEF Ordering!OrderNext
  <2>5. QED
    BY <2>3, <2>4
<1>7. QED
  BY <1>4, <1>5, <1>6

(* Policy before interface (spec.md sections 4.2 and 5), for every value   *)
(* of the constants: the state machine with its monitor threads implements *)
(* TunnelPolicyOrdering.  A tunnel device comes up only with the tunnel    *)
(* policy for its own relay in force, no policy change by any handler      *)
(* uncovers a live tunnel, and a live tunnel never changes relay, across   *)
(* retries, failed applies and teardown.                                   *)
THEOREM PolicyRefinesOrdering == Spec => PolicyBeforeInterface
<1>1. Init => Ordering!OrderInit
  <2> SUFFICES ASSUME Init PROVE Ordering!OrderInit
    OBVIOUS
  <2>1. fw.kind \in {"Blocked", "None"}
    BY DEF Init, BlockedPolicy, NoPolicy
  <2>2. PeerEndpointOf(fw) = NoRelay
    BY <2>1 DEF PeerEndpointOf
  <2>3. TunnelOfAttempt = NoRelay
    BY DEF Init, TunnelOfAttempt
  <2>4. QED
    BY <2>2, <2>3 DEF Ordering!OrderInit
<1>2. TunnelCoverageInv /\ TunnelCoverageInv' /\ [Next]_vars
        => [Ordering!OrderNext]_Ordering!orderVars
  BY OrderingStep
<1>3. QED
  BY <1>1, <1>2, TunnelCovered, PTL DEF Spec, PolicyBeforeInterface, Ordering!OrderSpec


-----------------------------------------------------------------------------
(* Routes are cleared before any reconnect (spec.md section 5, ordering   *)
(* guarantees): every step that spawns a new tunnel monitor thread leaves *)
(* no routes installed, so the routes of one attempt never carry over    *)
(* into the next (connecting_state.rs line 613, reset_routes before      *)
(* ConnectingState::enter).                                               *)
RoutesFreshPerAttempt == [][wGen' # wGen => ~routes']_vars

(* The handlers that can spawn a monitor thread: the ones that call        *)
(* ConnectingState::enter.                                                 *)
LEMMA SpawnSites ==
    ASSUME [Next]_vars, wGen' # wGen
    PROVE  ConnectingClose \/ ConnectedTunnelEnd \/ DisconnectingClose \/ IdleConnect
<1>d. ASSUME NEW a, Disconnect(a) PROVE FALSE
  BY <1>d DEF Disconnect, workerVars
<1>1. CASE \/ \E b \in BOOLEAN : ConnectingAllowLan(b)
           \/ \E e \in Endpoints : ConnectingAllowEndpoint(e)
  BY <1>1 DEF ConnectingAllowLan, ConnectingAllowEndpoint, workerVars
<1>2. CASE \/ \E d \in DnsConfigs : ConnectingDns(d)
           \/ \E b \in BOOLEAN : ConnectingBlockWhenDisconnected(b)
           \/ \E c \in {"Online", "Offline"} : ConnectingConnectivity(c)
           \/ ConnectingDown
  BY <1>2 DEF ConnectingDns, ConnectingBlockWhenDisconnected, ConnectingConnectivity,
     ConnectingDown, workerVars
<1>3. CASE \/ ConnectingConnect \/ ConnectingDisconnect \/ ConnectingAuthFailed
           \/ ConnectingEventsClosed \/ \E c \in BlockReasons : ConnectingBlock(c)
  BY <1>3, <1>d DEF ConnectingConnect, ConnectingDisconnect, ConnectingAuthFailed,
     ConnectingEventsClosed, ConnectingBlock
<1>4. CASE ConnectingInterfaceUp \/ ConnectingUp
  BY <1>4 DEF ConnectingInterfaceUp, ConnectingUp, workerVars
<1>5. CASE ConnectedSettings \/ ConnectedCommand \/ ConnectedEvent
  BY <1>5, <1>d DEF ConnectedSettings, ConnectedCommand, ConnectedEvent, smVars,
     workerVars
<1>6. CASE \/ IdleSettings \/ ErrorDisconnect \/ \E c \in BlockReasons : DisconnectedBlock(c)
           \/ UNCHANGED vars
  BY <1>6 DEF IdleSettings, ErrorDisconnect, DisconnectedBlock, DisconnectedEnter,
     ErrorEnter, vars, workerVars
<1>7. CASE WorkerStep
  BY <1>7 DEF WorkerStep, WorkerStart, WorkerEmit, WorkerRoutes, WorkerExit,
     WorkerSendClose, WorkerPanic, workerVars
<1>8. QED
  BY <1>1, <1>2, <1>3, <1>4, <1>5, <1>6, <1>7 DEF Next, ConnectingStep, OtherStateStep

(* A new attempt starts without routes: the handlers that leave a tunnel  *)
(* state clear them in the same step, and the idle states hold none.      *)
THEOREM RoutesFreshAtSpawn == Spec => RoutesFreshPerAttempt
<1>1. ASSUME RoutesClearedWhenIdle, [Next]_vars, wGen' # wGen PROVE ~routes'
  <2>1. CASE ConnectingClose
    BY <2>1 DEF ConnectingClose
  <2>5. CASE DisconnectingClose
    BY <2>5, Zenon DEF DisconnectingClose
  <2>4. CASE ConnectedTunnelEnd
    BY <2>4 DEF ConnectedTunnelEnd, Disconnect
  <2>2. CASE IdleConnect
    BY <1>1, <2>2 DEF IdleConnect, RoutesClearedWhenIdle
  <2>3. QED
    BY <1>1, <2>1, <2>2, <2>4, <2>5, SpawnSites
<1>2. Spec => []RoutesClearedWhenIdle
  BY RoutesAlwaysCleared
<1>3. QED
  BY <1>1, <1>2, PTL DEF Spec, RoutesFreshPerAttempt

=============================================================================
