-------------------------- MODULE MCTurnLifecycle --------------------------
(* Instances of TurnLifecycle for TLC. *)
EXTENDS TurnLifecycle, TLC

CONSTANTS t1, t2, t3

OneTurn == {t1}
TwoTurns == {t1, t2}
ThreeTurns == {t1, t2, t3}

(* Turns are used through equality alone. *)
Symmetry == Permutations(ThreeTurns)
=============================================================================
