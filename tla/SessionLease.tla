---------------------------- MODULE SessionLease ----------------------------
(* What the registry of exec-server sessions promises to the clients that   *)
(* lose their connection and come back: a session is held by one connection *)
(* at a time and is not taken from it; once let go it waits for a time, in  *)
(* which any connection may take it up again; when that time is over it     *)
(* goes to nobody and ends for good.  A connection holds one session at     *)
(* most, and processes start only in a session that is held.                *)
CONSTANTS Session, Connection, Process, Nobody

VARIABLES stage,      \* how far each session has come
          holder,     \* the connection that holds it
          running     \* the processes that run, as pairs with their session

leaseVars == <<stage, holder, running>>

Stage == {"new", "held", "free", "over", "ended"}

Init == /\ stage = [s \in Session |-> "new"]
        /\ holder = [s \in Session |-> Nobody]
        /\ running = {}

Take(s, c) ==
  /\ stage[s] \in {"new", "free"}
  /\ \A t \in Session : holder[t] # c
  /\ stage' = [stage EXCEPT ![s] = "held"]
  /\ holder' = [holder EXCEPT ![s] = c]
  /\ UNCHANGED running

LetGo(s) ==
  /\ stage[s] = "held"
  /\ stage' = [stage EXCEPT ![s] = "free"]
  /\ holder' = [holder EXCEPT ![s] = Nobody]
  /\ UNCHANGED running

Pass(s, from, to) ==
  /\ stage[s] = from
  /\ stage' = [stage EXCEPT ![s] = to]
  /\ UNCHANGED <<holder, running>>

Start(s, p) ==
  /\ stage[s] = "held" /\ <<s, p>> \notin running
  /\ running' = running \union {<<s, p>>}
  /\ UNCHANGED <<stage, holder>>

Stop ==
  /\ running' \subseteq running
  /\ UNCHANGED <<stage, holder>>

Next ==
  \/ \E s \in Session :
       \/ \E c \in Connection : Take(s, c)
       \/ LetGo(s)
       \/ Pass(s, "free", "over") \/ Pass(s, "over", "ended")
       \/ \E p \in Process : Start(s, p)
  \/ Stop

Spec == Init /\ [][Next]_leaseVars
=============================================================================
