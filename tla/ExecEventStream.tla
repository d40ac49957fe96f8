--------------------------- MODULE ExecEventStream ---------------------------
(* What the stream of events of one exec-server process promises to the     *)
(* code that follows it: the process numbers its events 1, 2, 3, ...; it    *)
(* exits once, closes once, and nothing comes after the close; a subscriber *)
(* sees the events in that order, none twice and none skipped, however the  *)
(* notifications travelled.                                                 *)
EXTENDS Naturals, Sequences

VARIABLES log,        \* the events of the process, in the order of their seq
          delivered   \* what the subscriber was given

streamVars == <<log, delivered>>

Kind == {"Output", "Exited", "Closed"}

Has(kind) == \E i \in 1..Len(log) : log[i].kind = kind

Init == log = <<>> /\ delivered = <<>>

Emit(kind) ==
  /\ ~Has("Closed")
  /\ kind # "Output" => ~Has(kind)
  /\ kind = "Closed" => Has("Exited")
  /\ log' = Append(log, [seq |-> Len(log) + 1, kind |-> kind])
  /\ UNCHANGED delivered

\* A delivery hands over every event that has become the next one.
Deliver ==
  /\ \E n \in (Len(delivered) + 1)..Len(log) : delivered' = SubSeq(log, 1, n)
  /\ UNCHANGED log

Next == (\E kind \in Kind : Emit(kind)) \/ Deliver

Spec == Init /\ [][Next]_streamVars
=============================================================================
