--------------------------- MODULE MCTurnLifecycle ---------------------------
(* Small instances of TurnLifecycle.  Turn ids are taken in a fixed order   *)
(* by NextTurn, so they are not a symmetry set.                             *)
EXTENDS TurnLifecycle

CONSTANTS t1, t2, t3, m1, m2, p1, p2, p3, d1, j1, g1

MCTurn2 == {t1, t2}
MCTurn3 == {t1, t2, t3}
=============================================================================
