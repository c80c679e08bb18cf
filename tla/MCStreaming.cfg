\* Four messages one way and none or one back, or a message each way on a stream that both ends may end;
\* timers race the answers except where both ends send data.
CONSTANTS
    alice = alice
    bob = bob
    Originator = alice
    Responder = bob
    Uses <- Talking
    SendWindow = 2
    RecvWindow = 2
    InitialWindow = 2
    MaxRetransmit = 1
    DeliveredCap = 1
    RacingTimers <- Racing
    MaxLoss = 0
SPECIFICATION Spec
INVARIANTS InOrderOnce ClearedIsHeld WindowsExact ClosedTogether SynResponseConfirmed
CHECK_DEADLOCK FALSE
