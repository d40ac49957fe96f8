---------------------- MODULE MCRequestSerialization ------------------------
(* Two clients: a run of shared reads with a write in the middle on the     *)
(* "config" key, and requests of private and unserialized scopes.           *)
EXTENDS RequestSerialization

CONSTANTS c1, c2, read1, write, read2, exec1, exec2, free

MCConnOf ==
  [r \in Request |-> IF r \in {read1, write, exec1} THEN c1 ELSE c2]

MCScopeOf ==
  [r \in Request |->
     CASE r \in {read1, read2} -> [kind |-> "GlobalSharedRead", name |-> "config"]
       [] r = write            -> [kind |-> "Global", name |-> "config"]
       [] r \in {exec1, exec2} -> [kind |-> "CommandExecProcess", name |-> "p"]
       [] OTHER                -> [kind |-> "None", name |-> "none"]]
=============================================================================
