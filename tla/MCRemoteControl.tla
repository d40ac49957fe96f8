-------------------------- MODULE MCRemoteControl --------------------------
(* Small instances of RemoteControl: two streams of one client, one of      *)
(* another.                                                                 *)
EXTENDS RemoteControl

CONSTANTS k1, k2, k3, c1, c2

MCClientOf == [k \in Key |-> IF k = k3 THEN c2 ELSE c1]
=============================================================================
