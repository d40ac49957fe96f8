-------------------------- MODULE StreamConnections --------------------------
(* What remote control promises to the app server and to the clients behind *)
(* one unreliable websocket.  A stream has at most one live connection,     *)
(* opened by an initialize that its client sent; opening another ends it.   *)
(* While it lives it is given messages its client sent whole, each later    *)
(* than all it was given before; once ended it is given nothing and does    *)
(* not come back.  The answers of a stream reach its client one after       *)
(* another, none skipped.                                                   *)
EXTENDS Naturals, Sequences

CONSTANT Key

VARIABLES sent,      \* the messages that clients have sent whole
          given,     \* the connections there have been, with what they were given
          answered,  \* how many answers each stream has made
          arrived    \* how many of them its client has

channelVars == <<sent, given, answered, arrived>>

Init == /\ sent = {} /\ given = <<>>
        /\ answered = [k \in Key |-> 0]
        /\ arrived = [k \in Key |-> 0]

Send ==
  /\ sent \subseteq sent'
  /\ UNCHANGED <<given, answered, arrived>>

Ended(ks) ==
  [c \in DOMAIN given |-> IF given[c].key \in ks THEN [given[c] EXCEPT !.stage = "ended"]
                          ELSE given[c]]

Open(m) ==
  /\ m.kind = "initialize"
  /\ given' = Append(Ended({m.key}), [key |-> m.key, messages |-> <<m.seq>>, stage |-> "live"])
  /\ UNCHANGED <<sent, answered, arrived>>

Give(c, m) ==
  /\ given[c].stage = "live" /\ m.key = given[c].key /\ m.kind = "message"
  /\ \A i \in DOMAIN given[c].messages : given[c].messages[i] < m.seq
  /\ given' = [given EXCEPT ![c].messages = Append(@, m.seq)]
  /\ UNCHANGED <<sent, answered, arrived>>

End(ks) ==
  /\ given' = Ended(ks)
  /\ UNCHANGED <<sent, answered, arrived>>

Answer ==
  /\ answered' \in [Key -> Nat] /\ \A k \in Key : answered[k] <= answered'[k]
  /\ UNCHANGED <<sent, given, arrived>>

Arrive(k) ==
  /\ arrived[k] < answered[k]
  /\ arrived' = [arrived EXCEPT ![k] = @ + 1]
  /\ UNCHANGED <<sent, given, answered>>

Next ==
  \/ Send \/ Answer
  \/ \E m \in sent : Open(m) \/ \E c \in DOMAIN given : Give(c, m)
  \/ \E ks \in SUBSET Key : End(ks)
  \/ \E k \in Key : Arrive(k)

Spec == Init /\ [][Next]_channelVars
=============================================================================
