\* As MCDestination.cfg, with a rotation margin of two seconds: several polls fall into it.
CONSTANTS
    InboundTarget = 2
    OutboundTarget = 1
    MinimumUsable = 1
    Concurrency = 2
    FailureThreshold = 2
    TunnelLifetime = 4
    PublicationMargin = 1
    RotationMargin = 2
    RetryDelay = 1
    RetirementTarget = 3
    RetirementCap = 4
    Server = TRUE
    Horizon = 6
SPECIFICATION GroupSpec
PROPERTY SameStateRetains
CHECK_DEADLOCK FALSE
