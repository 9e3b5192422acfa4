------------------------- MODULE TunnelStateMachine -------------------------
(***************************************************************************)
(* The tunnel state machine of talpid-core together with the tunnel        *)
(* monitor thread that each connection attempt spawns.                     *)
(*                                                                         *)
(* The state machine is single threaded: one step handles one command, one *)
(* tunnel event or the tunnel close signal, whichever the select! in       *)
(* ConnectingState::handle_event finds ready.  The tunnel monitor runs on  *)
(* a spawn_blocking thread and talks to the state machine through three    *)
(* channels: an unbounded event channel whose sender (the EventHook) waits *)
(* for each event to be handled, a oneshot close signal carrying           *)
(* Option<ErrorStateCause>, and a oneshot stop request.                    *)
(*                                                                         *)
(* ConnectingState is translated from tunnel_state_machine/                *)
(* connecting_state.rs.  Disconnected, Connected, Disconnecting and Error  *)
(* live outside the source tree and follow the specification (spec.md,     *)
(* sections 4.1 and 4.3-4.5).  The platform is desktop Linux: the Android, *)
(* Windows and macOS branches of the handlers are not modelled, except for *)
(* the Windows bound on retrying tunnel device creation in should_retry.   *)
(***************************************************************************)
EXTENDS Naturals, FirewallPolicy

CONSTANTS
    MaxRetry,              \* bound on retry_attempt (a u32 in the code)
    MaxAttemptCreateTun,   \* MAX_ATTEMPT_CREATE_TUN
    BlockReasons,          \* causes an external Block command may carry
    FirewallMayFail,       \* whether apply_policy may return an error
    NoCause                \* Option<ErrorStateCause>::None

ASSUME TunnelConstantsAssumption ==
    /\ MaxRetry \in Nat
    /\ MaxAttemptCreateTun \in Nat
    /\ FirewallMayFail \in BOOLEAN

(* ErrorStateCause, the causes this model distinguishes.                   *)
Causes == {"IsOffline", "AuthFailed", "TunnelParameterError",
           "SetFirewallPolicyError", "StartTunnelError", "Other"}

ASSUME CausesAssumption ==
    /\ BlockReasons \subseteq Causes
    /\ NoCause \notin Causes

States == {"Disconnected", "Connecting", "Connected", "Disconnecting", "Error"}

(* Errors of TunnelMonitor::start and TunnelMonitor::wait: a tunnel device *)
(* error (get_tunnel_device_error is Some), or any other error that        *)
(* is_recoverable classifies as recoverable or not.                        *)
TunnelErrors == {"DeviceError", "Recoverable", "Fatal"}

(* The outcomes of TunnelMonitor::wait: Ok, the WireGuard timeout, a       *)
(* WireGuard monitoring error, or another error.                           *)
WaitOutcomes == {"Ok", "Timeout", "Other"} \cup TunnelErrors

EventKinds == {"InterfaceUp", "Up", "Down", "AuthFailed"}

(* TunnelEvent: InterfaceUp(metadata, allowed_tunnel_traffic), Up(metadata), *)
(* Down and AuthFailed.                                                    *)
Events ==
    {[kind |-> "InterfaceUp", meta |-> m, traffic |-> t] : m \in Metas, t \in {"Only", "All"}}
    \cup {[kind |-> "Up", meta |-> m, traffic |-> "All"] : m \in Metas}
    \cup {[kind |-> k, meta |-> NoMeta, traffic |-> "None"] : k \in {"Down", "AuthFailed"}}

NoEvent == [kind |-> "NoEvent", meta |-> NoMeta, traffic |-> "None"]

(* AfterDisconnect: Nothing, Reconnect(retry_attempt) or Block(cause).     *)
AfterDisconnects ==
    [kind: {"Nothing"}, retry: {0}, cause: {NoCause}] \cup
    [kind: {"Reconnect"}, retry: 0..MaxRetry, cause: {NoCause}] \cup
    [kind: {"Block"}, retry: {0}, cause: Causes]

Nothing == [kind |-> "Nothing", retry |-> 0, cause |-> NoCause]
Reconnect(n) == [kind |-> "Reconnect", retry |-> n, cause |-> NoCause]
Block(c) == [kind |-> "Block", retry |-> 0, cause |-> c]

VARIABLES
    state,         \* the variant of the live Box<dyn TunnelState>
    retry,         \* retry_attempt of the last connection attempt
    relay,         \* peer endpoint of the attempt's tunnel_parameters
    meta,          \* ConnectingState.tunnel_metadata
    traffic,       \* ConnectingState.allowed_tunnel_traffic
    after,         \* DisconnectingState's AfterDisconnect
    cause,         \* ErrorState's cause
    allowLan,      \* SharedTunnelStateValues.allow_lan
    allowedEndpoint, \* SharedTunnelStateValues.allowed_endpoint
    dns,           \* SharedTunnelStateValues DNS configuration
    connectivity,  \* SharedTunnelStateValues.connectivity: "Online"/"Offline"
    blockWhenDisconnected, \* SharedTunnelStateValues.block_when_disconnected
    fw,            \* the policy the firewall enforces
    routes,        \* whether tunnel routes are installed by the route manager
    wPhase,        \* the tunnel monitor thread of the last attempt
    wReason,       \* the block reason that thread will send on close
    wGen,          \* flips on every spawn of a tunnel monitor thread
    ev,            \* the event the EventHook waits on, or NoEvent
    evChan,        \* the event channel: "Open", "Closed" (sender dropped,
                   \* None not yet received) or "Gone"
    closeSlot,     \* the tunnel close oneshot: "Empty", a sent value,
                   \* "Dropped" (sender dropped unsent) or "Gone"
    stopReq        \* whether tunnel_close_tx has fired

smVars == <<state, retry, relay, meta, traffic, after, cause>>
sharedVars == <<allowLan, allowedEndpoint, dns, connectivity, blockWhenDisconnected>>
workerVars == <<wPhase, wReason, wGen>>
chanVars == <<ev, evChan, closeSlot, stopReq>>
vars == <<smVars, sharedVars, fw, routes, workerVars, chanVars>>

WorkerPhases == {"Idle", "Starting", "Running", "Exiting", "Done"}

TypeOK ==
    /\ state \in States
    /\ retry \in 0..MaxRetry
    /\ relay \in Relays \cup {NoRelay}
    /\ meta \in Metas \cup {NoMeta}
    /\ traffic \in Traffics
    /\ after \in AfterDisconnects
    /\ cause \in Causes \cup {NoCause}
    /\ allowLan \in BOOLEAN
    /\ allowedEndpoint \in Endpoints
    /\ dns \in DnsConfigs
    /\ connectivity \in {"Online", "Offline"}
    /\ blockWhenDisconnected \in BOOLEAN
    /\ fw \in Policies
    /\ routes \in BOOLEAN
    /\ wPhase \in WorkerPhases
    /\ wReason \in Causes \cup {NoCause}
    /\ wGen \in BOOLEAN
    /\ ev \in Events \cup {NoEvent}
    /\ evChan \in {"Open", "Closed", "Gone"}
    /\ closeSlot \in {"Empty", "Dropped", "Gone"} \cup Causes \cup {NoCause}
    /\ stopReq \in BOOLEAN

-----------------------------------------------------------------------------
(* Outcomes of a fallible firewall call.                                   *)
ApplyOutcomes == IF FirewallMayFail THEN BOOLEAN ELSE {TRUE}

(* should_retry: a tunnel device error is retried while the attempt number *)
(* is below MAX_ATTEMPT_CREATE_TUN, other errors when recoverable.         *)
ShouldRetry(e, n) ==
    IF e = "DeviceError" THEN n < MaxAttemptCreateTun ELSE e = "Recoverable"

(* wait_for_tunnel_monitor: the block reason a finished monitor reports.   *)
WaitBlockReason(o, n) ==
    IF o \in TunnelErrors /\ ~ShouldRetry(o, n) THEN "StartTunnelError" ELSE NoCause

(* set_firewall_policy: the Connecting policy for the attempt's relay,     *)
(* built from the shared allow_lan and allowed_endpoint, applied when ok.  *)
SetFirewallPolicy(r, m, lan, e, t, ok) ==
    fw' = IF ok THEN ConnectingPolicy(r, m, lan, e, t) ELSE fw

(* The receivers a state owns are dropped when it is replaced by a state   *)
(* that does not take them over.                                           *)
DropReceivers ==
    /\ ev' = NoEvent
    /\ evChan' = "Gone"
    /\ closeSlot' = "Gone"

(* ErrorState::enter (spec 4.5): enforce the Blocked policy.               *)
ErrorEnter(c) ==
    /\ state' = "Error"
    /\ cause' = c
    /\ fw' = BlockedPolicy(allowLan, allowedEndpoint)
    /\ DropReceivers
    /\ UNCHANGED <<retry, relay, meta, traffic, after, stopReq, workerVars>>

(* Entering Disconnected (spec 4.4): the Blocked policy when               *)
(* block_when_disconnected is set, no policy otherwise.                    *)
DisconnectedEnter ==
    /\ state' = "Disconnected"
    /\ fw' = IF blockWhenDisconnected THEN BlockedPolicy(allowLan, allowedEndpoint)
             ELSE NoPolicy
    /\ DropReceivers
    /\ UNCHANGED <<retry, relay, meta, traffic, after, cause, stopReq, workerVars>>

(* Mutant: the tunnel is spawned even when apply_policy failed.           *)
ConnectingEnterUnchecked(n) ==
    \/ /\ connectivity = "Offline"
       /\ ErrorEnter("IsOffline")
    \/ /\ connectivity = "Online"
       /\ \E r \in Relays, ok \in ApplyOutcomes :
            /\ SetFirewallPolicy(r, NoMeta, allowLan, allowedEndpoint, "None", ok)
            /\ state' = "Connecting" /\ retry' = n /\ relay' = r
            /\ meta' = NoMeta /\ traffic' = "None"
            /\ wPhase' = "Starting" /\ wReason' = NoCause /\ wGen' = ~wGen
            /\ ev' = NoEvent /\ evChan' = "Open" /\ closeSlot' = "Empty"
            /\ stopReq' = FALSE
            /\ UNCHANGED <<after, cause>>

(* ConnectingState::enter and start_tunnel: fail closed when offline,      *)
(* generate parameters, apply the Connecting policy with no tunnel and no  *)
(* in-tunnel traffic, and only then spawn the tunnel monitor thread with   *)
(* fresh channels.                                                         *)
ConnectingEnter(n) ==
    \/ /\ connectivity = "Offline"
       /\ ErrorEnter("IsOffline")
    \/ /\ connectivity = "Online"
       /\ ErrorEnter("TunnelParameterError")
    \/ /\ connectivity = "Online"
       /\ \E r \in Relays, ok \in ApplyOutcomes :
            \/ /\ ~ok
               /\ ErrorEnter("SetFirewallPolicyError")
            \/ /\ ok
               /\ SetFirewallPolicy(r, NoMeta, allowLan, allowedEndpoint, "None", ok)
               /\ state' = "Connecting"
               /\ retry' = n
               /\ relay' = r
               /\ meta' = NoMeta
               /\ traffic' = "None"
               /\ wPhase' = "Starting"
               /\ wReason' = NoCause
               /\ wGen' = ~wGen
               /\ ev' = NoEvent
               /\ evChan' = "Open"
               /\ closeSlot' = "Empty"
               /\ stopReq' = FALSE
               /\ UNCHANGED <<after, cause>>

(* Mutant: the stop request is never fired.                               *)
DisconnectNoStop(a) ==
    /\ state' = "Disconnecting"
    /\ after' = a
    /\ routes' = FALSE
    /\ ev' = NoEvent
    /\ evChan' = "Gone"
    /\ UNCHANGED <<retry, relay, meta, traffic, cause, closeSlot, stopReq, workerVars>>

(* ConnectingState::disconnect: clear routes, hand the close channels to   *)
(* DisconnectingState (which fires tunnel_close_tx) and drop the event     *)
(* receiver, which releases an EventHook waiting on an event.              *)
Disconnect(a) ==
    /\ state' = "Disconnecting"
    /\ after' = a
    /\ routes' = FALSE
    /\ stopReq' = TRUE
    /\ ev' = NoEvent
    /\ evChan' = "Gone"
    /\ UNCHANGED <<retry, relay, meta, traffic, cause, closeSlot, workerVars>>

(* ConnectingState::reset_firewall, with the outcome of apply_policy.      *)
ResetFirewall(ok) ==
    IF ok THEN /\ SetFirewallPolicy(relay, meta, allowLan', allowedEndpoint', traffic, ok)
               /\ UNCHANGED <<smVars, routes, chanVars>>
          ELSE /\ Disconnect(Block("SetFirewallPolicyError"))
               /\ UNCHANGED fw
-----------------------------------------------------------------------------
(* ConnectingState::handle_commands                                        *)

(* Mutant: the flag is stored but the policy is not re-applied.           *)
ConnectingAllowLanNoReapply(b) ==
    /\ state = "Connecting"
    /\ allowLan' = b
    /\ UNCHANGED <<allowedEndpoint, dns, connectivity, blockWhenDisconnected, workerVars>>
    /\ UNCHANGED <<smVars, fw, routes, chanVars>>

(* AllowLan: set_allow_lan reports a change, then the policy is re-applied *)
(* with the new flag; a failed re-apply disconnects into a block.          *)
ConnectingAllowLan(b) ==
    /\ state = "Connecting"
    /\ allowLan' = b
    /\ UNCHANGED <<allowedEndpoint, dns, connectivity, blockWhenDisconnected, workerVars>>
    /\ IF b # allowLan
         THEN \E ok \in ApplyOutcomes : ResetFirewall(ok)
         ELSE UNCHANGED <<smVars, fw, routes, chanVars>>

(* AllowEndpoint: a changed endpoint is stored and the policy re-applied.  *)
ConnectingAllowEndpoint(e) ==
    /\ state = "Connecting"
    /\ allowedEndpoint' = e
    /\ UNCHANGED <<allowLan, dns, connectivity, blockWhenDisconnected, workerVars>>
    /\ IF e # allowedEndpoint
         THEN \E ok \in ApplyOutcomes : ResetFirewall(ok)
         ELSE UNCHANGED <<smVars, fw, routes, chanVars>>

(* Dns: stored only; the Connecting policy carries no DNS configuration.   *)
ConnectingDns(d) ==
    /\ state = "Connecting"
    /\ dns' = d
    /\ UNCHANGED <<smVars, allowLan, allowedEndpoint, connectivity,
                   blockWhenDisconnected, fw, routes, workerVars, chanVars>>

(* BlockWhenDisconnected: stored only.                                     *)
ConnectingBlockWhenDisconnected(b) ==
    /\ state = "Connecting"
    /\ blockWhenDisconnected' = b
    /\ UNCHANGED <<smVars, allowLan, allowedEndpoint, dns, connectivity,
                   fw, routes, workerVars, chanVars>>

(* Connectivity: stored; going offline disconnects into Block(IsOffline).  *)
ConnectingConnectivity(c) ==
    /\ state = "Connecting"
    /\ connectivity' = c
    /\ IF c = "Offline" THEN Disconnect(Block("IsOffline"))
                        ELSE UNCHANGED <<smVars, routes, chanVars>>
    /\ UNCHANGED <<allowLan, allowedEndpoint, dns, blockWhenDisconnected, fw, workerVars>>

(* Connect restarts the attempt from 0, Disconnect tears it down, Block    *)
(* tears it down into the error state.                                     *)
ConnectingConnect ==
    /\ state = "Connecting"
    /\ Disconnect(Reconnect(0))
    /\ UNCHANGED <<sharedVars, fw>>

ConnectingDisconnect ==
    /\ state = "Connecting"
    /\ Disconnect(Nothing)
    /\ UNCHANGED <<sharedVars, fw>>

ConnectingBlock(c) ==
    /\ state = "Connecting"
    /\ Disconnect(Block(c))
    /\ UNCHANGED <<sharedVars, fw>>

(* ConnectingState::handle_tunnel_events.  Handling an event drops its     *)
(* done_tx, which releases the EventHook.                                  *)

ConnectingAuthFailed ==
    /\ state = "Connecting"
    /\ ev.kind = "AuthFailed"
    /\ Disconnect(Block("AuthFailed"))
    /\ UNCHANGED <<sharedVars, fw>>

(* InterfaceUp: take the reported metadata and allowed in-tunnel traffic,  *)
(* then re-apply the Connecting policy with them.                          *)
ConnectingInterfaceUp ==
    /\ state = "Connecting"
    /\ ev.kind = "InterfaceUp"
    /\ \E ok \in ApplyOutcomes :
         IF ok THEN /\ meta' = ev.meta
                    /\ traffic' = ev.traffic
                    /\ SetFirewallPolicy(relay, ev.meta, allowLan, allowedEndpoint,
                                      ev.traffic, ok)
                    /\ ev' = NoEvent
                    /\ UNCHANGED <<state, retry, relay, after, cause, routes,
                                   evChan, closeSlot, stopReq>>
               ELSE /\ Disconnect(Block("SetFirewallPolicyError"))
                    /\ UNCHANGED fw
    /\ UNCHANGED <<sharedVars, workerVars>>

(* Up: hand the event stream and close channels over to ConnectedState,    *)
(* which enforces the Connected policy (spec 4.3).                         *)
ConnectingUp ==
    /\ state = "Connecting"
    /\ ev.kind = "Up"
    /\ \E ok \in ApplyOutcomes :
         IF ok THEN /\ state' = "Connected"
                    /\ meta' = ev.meta
                    /\ traffic' = "All"
                    /\ fw' = ConnectedPolicy(relay, ev.meta, allowLan, dns)
                    /\ ev' = NoEvent
                    /\ UNCHANGED <<retry, relay, after, cause, routes,
                                   evChan, closeSlot, stopReq>>
               ELSE /\ Disconnect(Block("SetFirewallPolicyError"))
                    /\ UNCHANGED fw
    /\ UNCHANGED <<sharedVars, workerVars>>

(* Down: forget the metadata and narrow the traffic back to None, without  *)
(* re-applying the policy (the device is going away).                      *)
ConnectingDown ==
    /\ state = "Connecting"
    /\ ev.kind = "Down"
    /\ meta' = NoMeta
    /\ traffic' = "None"
    /\ ev' = NoEvent
    /\ UNCHANGED <<state, retry, relay, after, cause, sharedVars, fw, routes,
                   workerVars, evChan, closeSlot, stopReq>>

(* Mutant: the next attempt starts as soon as the event channel closes,   *)
(* without waiting for the tunnel's close signal.                          *)
ConnectingEventsClosedRestart ==
    /\ state = "Connecting"
    /\ ev = NoEvent
    /\ evChan = "Closed"
    /\ retry + 1 <= MaxRetry
    /\ routes' = FALSE
    /\ ConnectingEnter(retry + 1)
    /\ UNCHANGED sharedVars

(* The event channel closed (the EventHook was dropped): reconnect with    *)
(* the next attempt number.                                                *)
ConnectingEventsClosed ==
    /\ state = "Connecting"
    /\ ev = NoEvent
    /\ evChan = "Closed"
    /\ retry + 1 <= MaxRetry
    /\ Disconnect(Reconnect(retry + 1))
    /\ UNCHANGED <<sharedVars, fw>>

(* Mutant: the error path does not clear the routes.                      *)
ConnectingCloseKeepRoutes ==
    /\ state = "Connecting"
    /\ closeSlot \notin {"Empty", "Gone"}
    /\ IF closeSlot \in Causes
         THEN ErrorEnter(closeSlot) /\ UNCHANGED routes
         ELSE /\ retry + 1 <= MaxRetry
              /\ routes' = FALSE
              /\ ConnectingEnter(retry + 1)
    /\ UNCHANGED sharedVars

(* Mutant: a dropped close sender is taken for a block reason instead of  *)
(* being read as None.                                                     *)
ConnectingCloseDroppedAsCause ==
    /\ state = "Connecting"
    /\ closeSlot \notin {"Empty", "Gone"}
    /\ routes' = FALSE
    /\ IF closeSlot # NoCause
         THEN ErrorEnter(closeSlot)
         ELSE /\ retry + 1 <= MaxRetry
              /\ ConnectingEnter(retry + 1)
    /\ UNCHANGED sharedVars

(* handle_tunnel_close_event: a block reason leads to the error state, no  *)
(* reason (or a dropped sender) to the next attempt; routes are cleared    *)
(* either way.                                                             *)
ConnectingClose ==
    /\ state = "Connecting"
    /\ closeSlot \notin {"Empty", "Gone"}
    /\ routes' = FALSE
    /\ IF closeSlot \in Causes
         THEN ErrorEnter(closeSlot)
         ELSE /\ retry + 1 <= MaxRetry
              /\ ConnectingEnter(retry + 1)
    /\ UNCHANGED sharedVars
-----------------------------------------------------------------------------
(* The tunnel monitor thread spawned by start_tunnel.                      *)

(* TunnelMonitor::start returns: Ok, or an error that should_retry turns   *)
(* into no block reason or into a block reason.  On an error the args,     *)
(* and with them the EventHook, are dropped.                               *)
WorkerStart ==
    /\ wPhase = "Starting"
    /\ \/ wPhase' = "Running" /\ UNCHANGED <<wReason, evChan>>
       \/ \E e \in TunnelErrors :
            /\ wPhase' = "Exiting"
            /\ wReason' = IF ShouldRetry(e, retry) THEN NoCause ELSE "StartTunnelError"
            /\ evChan' = IF evChan = "Open" THEN "Closed" ELSE evChan
    /\ UNCHANGED <<smVars, sharedVars, fw, routes, wGen, ev, closeSlot, stopReq>>

(* The running tunnel reports an event through the EventHook and waits    *)
(* until the state machine has handled it.                                 *)
WorkerEmit(e) ==
    /\ wPhase = "Running"
    /\ evChan = "Open"
    /\ ev = NoEvent
    /\ ev' = e
    /\ UNCHANGED <<smVars, sharedVars, fw, routes, workerVars, evChan, closeSlot, stopReq>>

(* The running tunnel installs its routes through the route manager.       *)
WorkerRoutes ==
    /\ wPhase = "Running"
    /\ ~routes
    /\ routes' = TRUE
    /\ UNCHANGED <<smVars, sharedVars, fw, workerVars, chanVars>>

(* TunnelMonitor::wait returns (the tunnel died, or tunnel_close_rx fired) *)
(* and wait_for_tunnel_monitor maps the outcome to a block reason; the     *)
(* monitor, and with it the EventHook, is dropped.                         *)
WorkerExit(o) ==
    /\ wPhase = "Running"
    /\ wPhase' = "Exiting"
    /\ wReason' = WaitBlockReason(o, retry)
    /\ evChan' = IF evChan = "Open" THEN "Closed" ELSE evChan
    /\ UNCHANGED <<smVars, sharedVars, fw, routes, wGen, ev, closeSlot, stopReq>>

(* After padding the attempt to MIN_TUNNEL_ALIVE_TIME when there is no     *)
(* block reason, the thread sends the reason on tunnel_close_event_tx; the *)
(* send fails if the state machine has dropped the receiver.               *)
WorkerSendClose ==
    /\ wPhase = "Exiting"
    /\ wPhase' = "Done"
    /\ closeSlot' = IF closeSlot = "Empty" THEN wReason ELSE closeSlot
    /\ UNCHANGED <<smVars, sharedVars, fw, routes, wReason, wGen, ev, evChan, stopReq>>

(* The thread panics: its senders are dropped unsent.                      *)
WorkerPanic ==
    /\ wPhase \in {"Starting", "Running"}
    /\ wPhase' = "Done"
    /\ evChan' = IF evChan = "Open" THEN "Closed" ELSE evChan
    /\ closeSlot' = IF closeSlot = "Empty" THEN "Dropped" ELSE closeSlot
    /\ UNCHANGED <<smVars, sharedVars, fw, routes, wReason, wGen, ev, stopReq>>

-----------------------------------------------------------------------------
(* ConnectedState (spec 4.3): the Connected policy; any tunnel failure     *)
(* reconnects with attempt 1, since a connection that came up resets the   *)
(* retry count.                                                            *)

ConnectedSettings ==
    /\ state = "Connected"
    /\ \/ \E b \in BOOLEAN : allowLan' = b /\ UNCHANGED <<allowedEndpoint, dns>>
       \/ \E d \in DnsConfigs : dns' = d /\ UNCHANGED <<allowLan, allowedEndpoint>>
       \/ \E e \in Endpoints : allowedEndpoint' = e /\ UNCHANGED <<allowLan, dns>>
    /\ \E ok \in ApplyOutcomes :
         IF ok THEN /\ fw' = ConnectedPolicy(relay, meta, allowLan', dns')
                    /\ UNCHANGED <<smVars, routes, chanVars>>
               ELSE /\ Disconnect(Block("SetFirewallPolicyError"))
                    /\ UNCHANGED fw
    /\ UNCHANGED <<connectivity, blockWhenDisconnected, workerVars>>

ConnectedCommand ==
    /\ state = "Connected"
    /\ \/ Disconnect(Reconnect(0)) /\ UNCHANGED sharedVars
       \/ Disconnect(Nothing) /\ UNCHANGED sharedVars
       \/ \E c \in BlockReasons : Disconnect(Block(c)) /\ UNCHANGED sharedVars
       \/ /\ connectivity' = "Offline"
          /\ Disconnect(Block("IsOffline"))
          /\ UNCHANGED <<allowLan, allowedEndpoint, dns, blockWhenDisconnected>>
    /\ UNCHANGED fw

ConnectedEvent ==
    /\ state = "Connected"
    /\ ev # NoEvent
    /\ IF ev.kind = "Down" /\ 1 <= MaxRetry
         THEN Disconnect(Reconnect(1))
         ELSE ev' = NoEvent /\ UNCHANGED <<smVars, routes, evChan, closeSlot, stopReq,
                                           workerVars>>
    /\ UNCHANGED <<sharedVars, fw>>

ConnectedTunnelEnd ==
    /\ state = "Connected"
    /\ 1 <= MaxRetry
    /\ \/ /\ ev = NoEvent /\ evChan = "Closed"
          /\ Disconnect(Reconnect(1))
          /\ UNCHANGED fw
       \/ /\ closeSlot \notin {"Empty", "Gone"}
          /\ routes' = FALSE
          /\ IF closeSlot \in Causes THEN ErrorEnter(closeSlot) ELSE ConnectingEnter(1)
    /\ UNCHANGED sharedVars

(* DisconnectingState (spec 4.4): wait for the tunnel to close, clear the  *)
(* routes, then carry out the AfterDisconnect action.                      *)
DisconnectingClose ==
    /\ state = "Disconnecting"
    /\ closeSlot \notin {"Empty", "Gone"}
    /\ routes' = FALSE
    /\ CASE after.kind = "Nothing"   -> DisconnectedEnter
         [] after.kind = "Reconnect" -> ConnectingEnter(after.retry)
         [] after.kind = "Block"     -> ErrorEnter(after.cause)
    /\ UNCHANGED sharedVars

(* Disconnected and Error (spec 4.4, 4.5): settings are stored and the     *)
(* policy of the state re-applied.                                         *)
IdleSettings ==
    /\ state \in {"Disconnected", "Error"}
    /\ \/ \E b \in BOOLEAN : allowLan' = b
            /\ UNCHANGED <<allowedEndpoint, dns, connectivity, blockWhenDisconnected>>
       \/ \E e \in Endpoints : allowedEndpoint' = e
            /\ UNCHANGED <<allowLan, dns, connectivity, blockWhenDisconnected>>
       \/ \E d \in DnsConfigs : dns' = d
            /\ UNCHANGED <<allowLan, allowedEndpoint, connectivity, blockWhenDisconnected>>
       \/ \E c \in {"Online", "Offline"} : connectivity' = c
            /\ UNCHANGED <<allowLan, allowedEndpoint, dns, blockWhenDisconnected>>
       \/ \E b \in BOOLEAN : blockWhenDisconnected' = b
            /\ UNCHANGED <<allowLan, allowedEndpoint, dns, connectivity>>
    /\ fw' = IF state = "Error" \/ blockWhenDisconnected'
               THEN BlockedPolicy(allowLan', allowedEndpoint') ELSE NoPolicy
    /\ UNCHANGED <<smVars, routes, workerVars, chanVars>>

IdleConnect ==
    /\ state \in {"Disconnected", "Error"}
    /\ ConnectingEnter(0)
    /\ UNCHANGED <<sharedVars, routes>>

DisconnectedBlock(c) ==
    /\ state = "Disconnected"
    /\ ErrorEnter(c)
    /\ UNCHANGED <<sharedVars, routes>>

ErrorDisconnect ==
    /\ state = "Error"
    /\ DisconnectedEnter
    /\ UNCHANGED <<sharedVars, routes>>

-----------------------------------------------------------------------------
(* The state machine starts Disconnected, the firewall initialised to the  *)
(* blocked state when block_when_disconnected is set, no tunnel running.   *)
Init ==
    /\ state = "Disconnected"
    /\ retry = 0
    /\ relay = NoRelay
    /\ meta = NoMeta
    /\ traffic = "None"
    /\ after = Nothing
    /\ cause = NoCause
    /\ allowLan \in BOOLEAN
    /\ allowedEndpoint \in Endpoints
    /\ dns \in DnsConfigs
    /\ connectivity \in {"Online", "Offline"}
    /\ blockWhenDisconnected \in BOOLEAN
    /\ fw = IF blockWhenDisconnected THEN BlockedPolicy(allowLan, allowedEndpoint)
            ELSE NoPolicy
    /\ routes = FALSE
    /\ wPhase = "Idle"
    /\ wReason = NoCause
    /\ wGen = FALSE
    /\ ev = NoEvent
    /\ evChan = "Gone"
    /\ closeSlot = "Gone"
    /\ stopReq = FALSE

ConnectingStep ==
    \/ \E b \in BOOLEAN : ConnectingAllowLan(b)
    \/ \E e \in Endpoints : ConnectingAllowEndpoint(e)
    \/ \E d \in DnsConfigs : ConnectingDns(d)
    \/ \E b \in BOOLEAN : ConnectingBlockWhenDisconnected(b)
    \/ \E c \in {"Online", "Offline"} : ConnectingConnectivity(c)
    \/ ConnectingConnect
    \/ ConnectingDisconnect
    \/ \E c \in BlockReasons : ConnectingBlock(c)
    \/ ConnectingAuthFailed
    \/ ConnectingInterfaceUp
    \/ ConnectingUp
    \/ ConnectingDown
    \/ ConnectingEventsClosed
    \/ ConnectingClose

OtherStateStep ==
    \/ ConnectedSettings \/ ConnectedCommand \/ ConnectedEvent \/ ConnectedTunnelEnd
    \/ DisconnectingClose
    \/ IdleSettings \/ IdleConnect \/ ErrorDisconnect
    \/ \E c \in BlockReasons : DisconnectedBlock(c)

WorkerStep ==
    \/ WorkerStart
    \/ \E e \in Events : WorkerEmit(e)
    \/ WorkerRoutes
    \/ \E o \in WaitOutcomes : WorkerExit(o)
    \/ WorkerSendClose
    \/ WorkerPanic

Next == ConnectingStep \/ OtherStateStep \/ WorkerStep

(* The monitor thread runs on its own thread and is not starved: it        *)
(* finishes starting, honours a stop request and sends its close signal.   *)
(* The state machine's select! keeps polling the close signal, so a ready  *)
(* close signal is eventually handled.                                     *)
Fairness ==
    /\ WF_vars(WorkerStart)
    /\ WF_vars(stopReq /\ \E o \in WaitOutcomes : WorkerExit(o))
    /\ WF_vars(WorkerSendClose)
    /\ WF_vars(DisconnectingClose)

Spec == Init /\ [][Next]_vars /\ Fairness

-----------------------------------------------------------------------------
(* No leak through a tunnel: while a tunnel monitor thread may be creating *)
(* or running a tunnel device, the firewall enforces a tunnel policy       *)
(* (Connecting or Connected) whose peer endpoint is that attempt's relay.  *)
(* This is the policy-before-interface ordering of ConnectingState::enter  *)
(* across retries, failed applies and teardown.                            *)
TunnelCoveredByPolicy ==
    wPhase \in {"Starting", "Running"} =>
        /\ fw.kind \in {"Connecting", "Connected"}
        /\ PeerEndpointOf(fw) = relay

(* The inductive form of TunnelCoveredByPolicy: no tunnel monitor thread  *)
(* is alive in Disconnected or Error, a close signal is only ever sent by *)
(* a thread that has finished, and the two tunnel states hold the tunnel  *)
(* policy of their own relay.  It is what makes the ordering of           *)
(* ConnectingState::enter hold across handlers: every path out of a       *)
(* tunnel state that drops the policy first waits for the thread's close  *)
(* signal.                                                                 *)
TunnelCoverageInv ==
    /\ TypeOK
    /\ TunnelCoveredByPolicy
    /\ state \in {"Disconnected", "Error"} => wPhase \in {"Idle", "Done"}
    /\ closeSlot \notin {"Empty", "Gone"} => wPhase = "Done"
    /\ state = "Connecting" => fw.kind = "Connecting" /\ fw.peer = relay
    /\ state = "Connected" => fw.kind = "Connected" /\ fw.peer = relay

(* The policy in force is the one derivable from the state and the shared *)
(* settings, in every state that is not tearing down: LAN and endpoint     *)
(* settings are re-applied by the command handlers, and while the tunnel   *)
(* interface is known the policy carries its metadata and traffic.  The   *)
(* traffic is not required once a Down event has cleared the metadata:    *)
(* the Down handler narrows allowed_tunnel_traffic without re-applying    *)
(* the policy (line 583), so there the applied policy lags the state that *)
(* spec.md section 8 says it is always derivable from.                    *)
PolicyMatchesState ==
    /\ state = "Connecting" =>
         /\ fw.kind = "Connecting"
         /\ PeerEndpointOf(fw) = relay
         /\ AllowLanOf(fw) = allowLan
         /\ AllowedEndpointOf(fw) = allowedEndpoint
         /\ meta # NoMeta => /\ TunnelOf(fw) = meta
                            /\ AllowedTunnelTrafficOf(fw) = traffic
    /\ state = "Connected" => fw = ConnectedPolicy(relay, meta, allowLan, dns)
    /\ state = "Error" => fw = BlockedPolicy(allowLan, allowedEndpoint)
    /\ state = "Disconnected" =>
         fw = IF blockWhenDisconnected THEN BlockedPolicy(allowLan, allowedEndpoint)
              ELSE NoPolicy

(* Routes installed by a tunnel never survive into Disconnected or Error,  *)
(* although the tunnel may install them after ConnectingState::disconnect *)
(* has cleared them.                                                       *)
RoutesClearedWhenIdle ==
    state \in {"Disconnected", "Error"} => ~routes

(* A new tunnel monitor thread is spawned only after the previous one has *)
(* sent its close signal: attempts never overlap.                          *)
OneTunnelAtATime ==
    [][wGen' # wGen => wPhase \in {"Idle", "Done"}]_vars

(* A new attempt numbered retry + 1 follows only an attempt that ended     *)
(* without a block reason (spec section 8, retry bound).                   *)
RetryOnlyAfterRecoverable ==
    [][(wGen' # wGen /\ retry' = retry + 1) => wReason = NoCause]_vars

(* Tearing down always finishes: the stop request reaches the tunnel, the *)
(* monitor thread sends its close signal and Disconnecting moves on.       *)
DisconnectingTerminates ==
    state = "Disconnecting" ~> state # "Disconnecting"

-----------------------------------------------------------------------------
(* The refinement mapping onto TunnelPolicyOrdering: the firewall guards   *)
(* the peer endpoint of its tunnel policy, and a tunnel is live for the    *)
(* attempt's relay from the spawn of its monitor thread (which creates the *)
(* device) until that thread stops starting or running.                    *)
TunnelOfAttempt == IF wPhase \in {"Starting", "Running"} THEN relay ELSE NoRelay

Ordering == INSTANCE TunnelPolicyOrdering
    WITH guard <- PeerEndpointOf(fw), tunnel <- TunnelOfAttempt

(* The state machine implements TunnelPolicyOrdering: every handler and   *)
(* every step of the monitor thread either applies a policy that still    *)
(* covers the live tunnel, starts a tunnel with its own relay's policy in *)
(* force, or takes the tunnel down; no step moves a live tunnel to        *)
(* another relay.                                                          *)
PolicyBeforeInterface == Ordering!OrderSpec
=============================================================================
