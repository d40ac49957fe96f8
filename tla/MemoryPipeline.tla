--------------------------- MODULE MemoryPipeline ---------------------------
(* What the memory pipeline promises, whatever sessions crash, are slow or  *)
(* race for the same work, as long as memory is not reset.  The record of a *)
(* thread only moves on, to a version whose extraction has just finished,   *)
(* and the memory stored for it is of that version.  One session at a time  *)
(* consolidates, and only it adds to what completed agents have seen, which *)
(* is versions that were recorded.  The baseline is made by that session,   *)
(* of what was seen; what is chosen for use is in the baseline, is what was *)
(* stored when it was chosen, and is not pruned.                            *)
EXTENDS Naturals

CONSTANTS Worker, Thread, Version, Nobody, NoBaseline

VARIABLES newest,    \* the newest version of a thread that was extracted
          recorded,  \* the version the record of a thread names
          stored,    \* the version of the memory stored for it, or 0
          holder,    \* the session that consolidates
          seen,      \* what completed agents have seen
          baseline,  \* what is committed, if there is a repository
          chosen     \* the version of a thread that is in use, or 0

pipelineVars == <<newest, recorded, stored, holder, seen, baseline, chosen>>

Init == /\ newest = [t \in Thread |-> 0]
        /\ recorded = [t \in Thread |-> 0]
        /\ stored = [t \in Thread |-> 0]
        /\ holder = Nobody
        /\ seen = {}
        /\ baseline = NoBaseline
        /\ chosen = [t \in Thread |-> 0]

Extracted(t, v) == newest' = [newest EXCEPT ![t] = IF @ < v THEN v ELSE @]

\* An extraction that comes too late to be recorded.
Extract(t, v) ==
  /\ Extracted(t, v)
  /\ UNCHANGED <<recorded, stored, holder, seen, baseline, chosen>>

\* A memory that turns out to be empty takes the stored one away.
Record(t, v) ==
  /\ recorded[t] < v
  /\ Extracted(t, v)
  /\ recorded' = [recorded EXCEPT ![t] = v]
  /\ \/ stored' = [stored EXCEPT ![t] = v] /\ UNCHANGED chosen
     \/ stored' = [stored EXCEPT ![t] = 0] /\ chosen' = [chosen EXCEPT ![t] = 0]
  /\ UNCHANGED <<holder, seen, baseline>>

Prune(ts) ==
  /\ \A t \in ts : chosen[t] = 0
  /\ stored' = [t \in Thread |-> IF t \in ts THEN 0 ELSE stored[t]]
  /\ UNCHANGED <<newest, recorded, holder, seen, baseline, chosen>>

Take(w) ==
  /\ holder = Nobody
  /\ holder' = w
  /\ UNCHANGED <<newest, recorded, stored, seen, baseline, chosen>>

LetGo ==
  /\ holder' = Nobody
  /\ UNCHANGED <<newest, recorded, stored, seen, baseline, chosen>>

See ==
  /\ holder # Nobody
  /\ seen \subseteq seen'
  /\ \A s \in seen' \ seen : s.source <= recorded[s.thread]
  /\ UNCHANGED <<newest, recorded, stored, holder, baseline, chosen>>

Commit ==
  /\ holder # Nobody
  /\ baseline' = NoBaseline \/ baseline' \subseteq seen
  /\ UNCHANGED <<newest, recorded, stored, holder, seen, chosen>>

Choose(ts) ==
  /\ holder # Nobody /\ holder' = Nobody
  /\ \A t \in ts : [thread |-> t, source |-> stored[t]] \in baseline
  /\ chosen' = [t \in Thread |-> IF t \in ts THEN stored[t] ELSE 0]
  /\ UNCHANGED <<newest, recorded, stored, seen, baseline>>

Next ==
  \/ LetGo \/ See \/ Commit
  \/ \E w \in Worker : Take(w)
  \/ \E t \in Thread, v \in Version : Extract(t, v) \/ Record(t, v)
  \/ \E ts \in SUBSET Thread : Prune(ts) \/ Choose(ts)

Spec == Init /\ [][Next]_pipelineVars
=============================================================================
