---------------------------- MODULE MCPushCenter ----------------------------
(* Instances of PushCenter for TLC. *)
EXTENDS PushCenter, TLC

CONSTANTS p1, p2, s1, s2, r1, r2, r3

TwoPeers == {p1, p2}
NoPeer == {}
OnePeer == {p1}
OneSessionId == {s1}
TwoSessions == {s1, s2}
OneRequest == {r1}
TwoRequests == {r1, r2}
ThreeRequests == {r1, r2, r3}

(* Every peer may close: peers and sessions are used through equality alone. *)
PeerSymmetry == Permutations(TwoPeers) \cup Permutations(TwoSessions)

(* Sessions are interchangeable: a single chat is one of the first session. *)
ChatsHere == \A r \in Request : req[r] # NoRequest /\ req[r].kind = "chat" => req[r].session = s1
MCLiveSpec == Init /\ [][Next /\ ChatsHere']_vars /\ Fairness
=============================================================================
