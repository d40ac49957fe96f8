-------------------------- MODULE SerializedAccess --------------------------
(***************************************************************************)
(* What the app server promises about the requests that share a            *)
(* serialization key: they take effect in the order in which they arrived, *)
(* except that neighbouring shared reads may overlap.  A request may leave *)
(* without ever starting (its connection was closed first), and starting   *)
(* is only possible once every conflicting earlier request has left.       *)
(***************************************************************************)
EXTENDS Naturals

CONSTANTS Request,           \* the client requests
          Conflicts(_, _)    \* two requests that must not overlap

VARIABLES status,            \* where each request is
          arrival            \* history: the rank of the request's arrival

vars == <<status, arrival>>

Status == {"new", "waiting", "running", "left"}

Init == /\ status = [r \in Request |-> "new"]
        /\ arrival = [r \in Request |-> 0]

Arrive(r) ==
  /\ status[r] = "new"
  /\ status' = [status EXCEPT ![r] = "waiting"]
  /\ \A q \in Request : status[q] # "new" => arrival[q] < arrival'[r]
  /\ arrival' = [arrival EXCEPT ![r] = arrival'[r]]

Start(r) ==
  /\ status[r] = "waiting"
  /\ \A q \in Request :
       Conflicts(q, r) /\ status[q] # "new" /\ arrival[q] < arrival[r]
         => status[q] = "left"
  /\ status' = [status EXCEPT ![r] = "running"]
  /\ UNCHANGED arrival

Leave(S) ==
  /\ \A r \in S : status[r] \in {"waiting", "running"}
  /\ status' = [r \in Request |-> IF r \in S THEN "left" ELSE status[r]]
  /\ UNCHANGED arrival

Next == \/ \E r \in Request : Arrive(r) \/ Start(r)
        \/ \E S \in SUBSET Request : Leave(S)

Spec == Init /\ [][Next]_vars
=============================================================================
