\* Two dialers race for one peer and an inbound handshake for it or another; two loops shut down.
CONSTANTS
    a1 = a1
    a2 = a2
    ip1 = ip1
    ip2 = ip2
    net = net
    p1 = p1
    p2 = p2
    d1 = d1
    d2 = d2
    i1 = i1
    i2 = i2
    v4 = v4
    v6 = v6
    Peers = {p1, p2}
    OutboundWins = {p1}
    Dialers = {d1, d2}
    Slots = {i1}
    Loops = {v4, v6}
    Addresses = {a1, a2}
    Published <- OnePublished
    Scopes = {ip1, ip2, net}
    ScopesOf <- TwoScopes
    PendingPerScope <- PendingCeilings
    ActivePerScope <- ActiveCeilings
    MaxLinkId = 2
    PendingLimit = 2
    ActiveLimit = 2
    PeerLimit = 2
SPECIFICATION Spec
INVARIANTS SessionsMatchLinks CountsExact
PROPERTIES BaselineRestored
CHECK_DEADLOCK FALSE
