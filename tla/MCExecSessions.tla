--------------------------- MODULE MCExecSessions ---------------------------
(* Small instances of ExecSessions.  Connections and sessions differ in     *)
(* nothing; the run with liveness uses no symmetry.                         *)
EXTENDS ExecSessions, TLC

CONSTANTS c1, c2, c3, s1, s2, p1

Symmetry == Permutations(Connection) \union Permutations(Session)
=============================================================================
