\* Two inbound tunnels and one outbound, each living four seconds; a record is rotated one second before a lease ends.
CONSTANTS
    InboundTarget = 2
    OutboundTarget = 1
    MinimumUsable = 1
    Concurrency = 2
    FailureThreshold = 2
    TunnelLifetime = 4
    PublicationMargin = 1
    RotationMargin = 1
    RetryDelay = 1
    RetirementTarget = 3
    RetirementCap = 4
    Server = TRUE
    Horizon = 6
SPECIFICATION GroupSpec
INVARIANTS TablesMatchPool TargetsKept AdvertisedIsAlive
PROPERTIES NetDbAdvances
CHECK_DEADLOCK FALSE
