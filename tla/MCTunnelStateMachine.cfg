CONSTANTS
    r1 = r1
    r2 = r2
    e1 = e1
    e2 = e2
    m1 = m1
    d1 = d1
    Relays <- MCRelays
    Endpoints <- MCEndpoints
    Metas <- MCMetas
    DnsConfigs <- MCDnsConfigs
    NoRelay = NoRelay
    NoMeta = NoMeta
    NoEndpoint = NoEndpoint
    NoDns = NoDns
    NoCause = NoCause
    MaxRetry = 1
    MaxAttemptCreateTun = 1
    BlockReasons = {"AuthFailed"}
    FirewallMayFail = TRUE

SPECIFICATION Spec
INVARIANT TypeOK
INVARIANT TunnelCoveredByPolicy
INVARIANT PolicyMatchesState
INVARIANT RoutesClearedWhenIdle
INVARIANT TunnelCoverageInv
PROPERTY OneTunnelAtATime
PROPERTY DisconnectingTerminates
