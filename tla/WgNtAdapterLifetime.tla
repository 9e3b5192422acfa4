------------------------- MODULE WgNtAdapterLifetime -------------------------
(***************************************************************************)
(* What a WireGuard-NT tunnel promises about its adapter, abstractly: each *)
(* start either fails with no adapter left behind or brings the tunnel up  *)
(* with its adapter open; the adapter stays open while the tunnel runs,    *)
(* and once the tunnel is stopped the adapter is closed, at the latest     *)
(* some time after stop returns.  The tunnel state machine starts one      *)
(* tunnel at a time.  WgNtTunnel implements this specification.            *)
(***************************************************************************)
CONSTANT Tunnels

VARIABLES
    life,     \* each tunnel: "Unborn", "Starting", "Running", "Stopped", "Failed"
    adapter   \* its adapter: "None" (never created), "Open" or "Closed"

lifeVars == <<life, adapter>>

LifeTypeOK ==
    /\ life \in [Tunnels -> {"Unborn", "Starting", "Running", "Stopped", "Failed"}]
    /\ adapter \in [Tunnels -> {"None", "Open", "Closed"}]

LifeInit ==
    /\ life = [t \in Tunnels |-> "Unborn"]
    /\ adapter = [t \in Tunnels |-> "None"]

(* A start begins, or fails at once, while no other tunnel is starting or  *)
(* running.                                                                *)
Begin(t) ==
    /\ life[t] = "Unborn"
    /\ \A u \in Tunnels : life[u] \notin {"Starting", "Running"}
    /\ \E r \in {"Starting", "Failed"} : life' = [life EXCEPT ![t] = r]
    /\ UNCHANGED adapter

(* The start fails; nothing of the adapter remains.                        *)
Fail(t) ==
    /\ life[t] = "Starting"
    /\ life' = [life EXCEPT ![t] = "Failed"]
    /\ UNCHANGED adapter

(* The start succeeds with the adapter open.                               *)
Up(t) ==
    /\ life[t] = "Starting"
    /\ life' = [life EXCEPT ![t] = "Running"]
    /\ adapter' = [adapter EXCEPT ![t] = "Open"]

(* The tunnel is stopped; the adapter may close at once.                   *)
Down(t) ==
    /\ life[t] = "Running"
    /\ life' = [life EXCEPT ![t] = "Stopped"]
    /\ \E a \in {"Open", "Closed"} : adapter' = [adapter EXCEPT ![t] = a]

(* The adapter of a stopped tunnel closes.                                 *)
Close(t) ==
    /\ life[t] = "Stopped"
    /\ adapter[t] = "Open"
    /\ adapter' = [adapter EXCEPT ![t] = "Closed"]
    /\ UNCHANGED life

LifeNext == \E t \in Tunnels : Begin(t) \/ Fail(t) \/ Up(t) \/ Down(t) \/ Close(t)

LifeSpec == LifeInit /\ [][LifeNext]_lifeVars /\ \A t \in Tunnels : WF_lifeVars(Close(t))
=============================================================================
