------------------------ MODULE TunnelPolicyOrdering ------------------------
(***************************************************************************)
(* What the tunnel state machine promises about its firewall and its      *)
(* tunnel, abstractly (spec.md sections 4.2 and 5, "policy-before-         *)
(* interface, always"): a tunnel comes up only with a tunnel policy for   *)
(* its own relay in force, the policy never stops covering a live tunnel, *)
(* and a live tunnel keeps its relay until it goes down.                  *)
(*                                                                         *)
(* guard is the relay whose peer endpoint the firewall's tunnel policy     *)
(* allows, NoRelay when no tunnel policy is in force; tunnel is the relay *)
(* of the live tunnel, NoRelay when none is live.  TunnelStateMachine     *)
(* implements this specification.                                          *)
(***************************************************************************)
CONSTANTS Relays, NoRelay

VARIABLES guard, tunnel

orderVars == <<guard, tunnel>>

OrderInit ==
    /\ guard = NoRelay
    /\ tunnel = NoRelay

(* A policy is applied or lifted; while a tunnel is live the new policy    *)
(* still covers its relay.                                                 *)
SetGuard(g) ==
    /\ tunnel \in {NoRelay, g}
    /\ guard' = g
    /\ UNCHANGED tunnel

(* A tunnel comes up for relay r, and the policy for r is in force from   *)
(* that step on.                                                           *)
StartTunnel(r) ==
    /\ tunnel = NoRelay
    /\ tunnel' = r
    /\ guard' = r

(* The live tunnel goes down; the policy is left as it is.                 *)
StopTunnel ==
    /\ tunnel # NoRelay
    /\ tunnel' = NoRelay
    /\ UNCHANGED guard

OrderNext ==
    \/ \E g \in Relays \cup {NoRelay} : SetGuard(g)
    \/ \E r \in Relays : StartTunnel(r)
    \/ StopTunnel

OrderSpec == OrderInit /\ [][OrderNext]_orderVars
=============================================================================
