\* Two handshakers for two peers, and two senders with two message sizes.
CONSTANTS
    p1 = p1
    p2 = p2
    h1 = h1
    h2 = h2
    s1 = s1
    s2 = s2
    Peers = {p1, p2}
    OutboundWins = {p1}
    Handshakers = {h1, h2}
    Senders = {s1, s2}
    Sizes = {1, 2}
    MaxLinkId = 2
    PendingLimit = 2
    ActiveLimit = 2
    PeerLimit = 2
    LinkMessages = 1
    LinkBytes = 2
    QueueItems = 2
    QueueBytes = 3
SYMMETRY Symmetric
SPECIFICATION Spec
INVARIANTS IndexConsistent LeasesExact QueueCountersExact
PROPERTY RegisterKeepsPeerLinked
CHECK_DEADLOCK FALSE
