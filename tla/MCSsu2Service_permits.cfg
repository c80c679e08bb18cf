\* One inbound handshake that times out leaves its source counted.
CONSTANTS
    a1 = a1
    a2 = a2
    ip1 = ip1
    ip2 = ip2
    net = net
    p1 = p1
    p2 = p2
    d1 = d1
    d2 = d2
    i1 = i1
    i2 = i2
    v4 = v4
    v6 = v6
    Peers = {p1, p2}
    OutboundWins = {p1}
    Dialers = {d1}
    Slots = {i1}
    Loops = {v4}
    Addresses = {a1, a2}
    Published <- OnePublished
    Scopes = {ip1, ip2, net}
    ScopesOf <- TwoScopes
    PendingPerScope <- PendingCeilings
    ActivePerScope <- ActiveCeilings
    MaxLinkId = 3
    PendingLimit = 2
    ActiveLimit = 2
    PeerLimit = 2
SPECIFICATION Spec
INVARIANT PendingCountExact
CHECK_DEADLOCK FALSE
