---------------------------- MODULE MCSessionStore ----------------------------
(* Instances of SessionStore for TLC. *)
EXTENDS SessionStore, TLC

CONSTANTS t1, t2, t3, a, b, s1, s2, u1, u2

TwoTasks   == {t1, t2}
ThreeTasks == {t1, t2, t3}
OneId      == {a}
TwoIds     == {a, b}
TwoSystem  == {s1, s2}
OneSystem  == {s1}
TwoUser    == {u1, u2}
OneUser    == {u1}

NoCreate == AllOps \ {"create"}
ColdOps  == {"history", "append"}
LoadOps  == {"get", "history"}

Symmetry ==
    Permutations(TwoTasks) \cup Permutations(TwoSystem) \cup Permutations(TwoUser)
===============================================================================
