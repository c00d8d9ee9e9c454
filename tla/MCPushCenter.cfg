SPECIFICATION MCLiveSpec
CONSTANTS
    p1 = p1
    p2 = p2
    s1 = s1
    s2 = s2
    r1 = r1
    r2 = r2
    r3 = r3
    NoSession = NoSession
    Peer <- TwoPeers
    Session <- TwoSessions
    Request <- TwoRequests
    MaxInFlight = 2
    MaxEvents = 3
    Room = 1
    MayClose <- OnePeer
    MayChat <- OneRequest
CHECK_DEADLOCK FALSE
PROPERTIES
    ChatsEnd
INVARIANTS
    OrderedOnce
    WatchersKeepUp
