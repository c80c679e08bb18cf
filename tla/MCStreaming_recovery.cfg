\* No racing timers; one packet is lost.
CONSTANTS
    alice = alice
    bob = bob
    Originator = alice
    Responder = bob
    Uses <- ThreeAndOne
    SendWindow = 2
    RecvWindow = 2
    InitialWindow = 2
    MaxRetransmit = 2
    DeliveredCap = 2
    RacingTimers = {}
    MaxLoss = 1
SPECIFICATION Spec
PROPERTY Recovers
CHECK_DEADLOCK FALSE
