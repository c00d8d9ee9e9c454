SPECIFICATION Spec
CONSTANTS
    p1 = p1
    p2 = p2
    s1 = s1
    s2 = s2
    r1 = r1
    r2 = r2
    r3 = r3
    NoSession = NoSession
    Peer <- TwoPeers
    Session <- OneSessionId
    Request <- TwoRequests
    MaxInFlight = 1
    MaxEvents = 2
    Room = 1
    MayClose <- TwoPeers
    MayChat <- OneRequest
CHECK_DEADLOCK FALSE
INVARIANTS
    RefreshKeepsUp
