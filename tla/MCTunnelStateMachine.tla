------------------------ MODULE MCTunnelStateMachine ------------------------
(* Model-checking instances of TunnelStateMachine.  The safety instance    *)
(* has two relays, so that a retry can move to another relay, and two      *)
(* allowed endpoints, so that an endpoint override changes the policy.     *)
EXTENDS TunnelStateMachine

CONSTANTS r1, r2, e1, e2, m1, d1

MCRelays == {r1, r2}
MCEndpoints == {e1, e2}
MCMetas == {m1}
MCDnsConfigs == {d1}

=============================================================================
