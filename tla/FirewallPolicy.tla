--------------------------- MODULE FirewallPolicy ---------------------------
(***************************************************************************)
(* The firewall policy data model of talpid-core (firewall/mod.rs): the    *)
(* three policy variants the tunnel state machine asks the firewall to     *)
(* enforce, and the accessors the OS back-ends read them through.          *)
(*                                                                         *)
(* Data is abstracted to what the properties tell apart: a relay endpoint  *)
(* (the peer_endpoint of the current tunnel parameters), an allowed API    *)
(* endpoint, a tunnel metadata value, a DNS configuration and the amount   *)
(* of in-tunnel traffic.  AllowedClients (root-only or all processes) is   *)
(* left out: it is a function of the relay parameters alone.               *)
(***************************************************************************)
CONSTANTS
    Relays,       \* peer endpoints a tunnel attempt may connect to
    Endpoints,    \* values of the allowed (API access) endpoint override
    Metas,        \* tunnel metadata values an up interface may report
    DnsConfigs,   \* resolved DNS configurations
    NoRelay,      \* absence of a peer endpoint
    NoMeta,       \* Option<TunnelMetadata>::None
    NoEndpoint,   \* Option<AllowedEndpoint>::None
    NoDns         \* no DNS configuration (the variant carries none)

ASSUME PolicyConstantsAssumption ==
    /\ Relays # {} /\ Endpoints # {} /\ Metas # {} /\ DnsConfigs # {}
    /\ NoRelay \notin Relays
    /\ NoMeta \notin Metas
    /\ NoEndpoint \notin Endpoints
    /\ NoDns \notin DnsConfigs

(* AllowedTunnelTraffic: None, a bounded set of in-tunnel hosts, or All.   *)
Traffics == {"None", "Only", "All"}

(* The variants of FirewallPolicy, and "None" for no policy at all (the    *)
(* firewall after reset_policy, or before the first apply_policy).         *)
PolicyKinds == {"Connecting", "Connected", "Blocked", "None"}

Policies ==
    [kind: PolicyKinds, peer: Relays \cup {NoRelay}, tunnel: Metas \cup {NoMeta},
     allowLan: BOOLEAN, endpoint: Endpoints \cup {NoEndpoint},
     traffic: Traffics, dns: DnsConfigs \cup {NoDns}]

(* FirewallPolicy::Connecting { peer_endpoint, tunnel, allow_lan,          *)
(* allowed_endpoint, allowed_tunnel_traffic }                              *)
ConnectingPolicy(peer, tunnel, lan, endpoint, traffic) ==
    [kind |-> "Connecting", peer |-> peer, tunnel |-> tunnel, allowLan |-> lan,
     endpoint |-> endpoint, traffic |-> traffic, dns |-> NoDns]

(* FirewallPolicy::Connected { peer_endpoint, tunnel, allow_lan,           *)
(* dns_config }                                                            *)
ConnectedPolicy(peer, tunnel, lan, dns) ==
    [kind |-> "Connected", peer |-> peer, tunnel |-> tunnel, allowLan |-> lan,
     endpoint |-> NoEndpoint, traffic |-> "None", dns |-> dns]

(* FirewallPolicy::Blocked { allow_lan, allowed_endpoint }                 *)
BlockedPolicy(lan, endpoint) ==
    [kind |-> "Blocked", peer |-> NoRelay, tunnel |-> NoMeta, allowLan |-> lan,
     endpoint |-> endpoint, traffic |-> "None", dns |-> NoDns]

(* The firewall with no policy in force.                                   *)
NoPolicy ==
    [kind |-> "None", peer |-> NoRelay, tunnel |-> NoMeta, allowLan |-> FALSE,
     endpoint |-> NoEndpoint, traffic |-> "None", dns |-> NoDns]

(* FirewallPolicy::peer_endpoint: the relay, for the two tunnel variants.  *)
PeerEndpointOf(p) ==
    IF p.kind \in {"Connecting", "Connected"} THEN p.peer ELSE NoRelay

(* FirewallPolicy::allowed_endpoint: Connecting always has one, Blocked    *)
(* has one when Some.                                                      *)
AllowedEndpointOf(p) ==
    IF p.kind \in {"Connecting", "Blocked"} THEN p.endpoint ELSE NoEndpoint

(* FirewallPolicy::tunnel                                                  *)
TunnelOf(p) ==
    IF p.kind \in {"Connecting", "Connected"} THEN p.tunnel ELSE NoMeta

(* FirewallPolicy::allowed_tunnel_traffic: Connected permits all in-tunnel *)
(* traffic, Blocked none.                                                  *)
AllowedTunnelTrafficOf(p) ==
    CASE p.kind = "Connecting" -> p.traffic
      [] p.kind = "Connected"  -> "All"
      [] OTHER                 -> "None"

(* FirewallPolicy::allow_lan                                               *)
AllowLanOf(p) == p.allowLan
=============================================================================
