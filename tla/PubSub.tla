------------------------------- MODULE PubSub -------------------------------
(***************************************************************************)
(* What the broker promises its clients, with no vectors, no uuid window   *)
(* and no loop: a set of known clients, a relation of subscriptions, and   *)
(* for each step how many copies of which kind of message it hands to each *)
(* client.  ZmqBroker implements this specification.                       *)
(***************************************************************************)
EXTENDS Integers

CONSTANTS Client, Topic,
          Wildcard,     \* the empty topic ""
          StatsTopic    \* Keys::SYS_STATS

VARIABLES known,   \* the clients the broker knows
          subs,    \* the subscriptions, a set of pairs <<client, topic>>
          sent     \* what the last step handed to the ROUTER socket

vars == <<known, subs, sent>>

Once(S) == [c \in Client |-> IF c \in S THEN 1 ELSE 0]
Sent(kind, S) == [kind |-> kind, to |-> Once(S)]
Nothing == Sent("none", {})

Init == known = {} /\ subs = {} /\ sent = Nothing

(* A message of an unknown client is answered with RESET and has no other  *)
(* effect: the client starts without subscriptions.                        *)
Join(c) ==
  /\ c \notin known
  /\ known' = known \cup {c}
  /\ sent' = Sent("RESET", {c})
  /\ UNCHANGED subs

(* A client leaves with all its subscriptions. *)
Leave(c) ==
  /\ known' = known \ {c}
  /\ subs' = {p \in subs : p[1] # c}
  /\ sent' = Nothing

Ack(c) ==
  /\ c \in known
  /\ sent' = Sent("HEARTBEAT_ACK", {c})
  /\ UNCHANGED <<known, subs>>

Subscribe(c, t) ==
  /\ c \in known
  /\ subs' = subs \cup {<<c, t>>}
  /\ sent' = Nothing
  /\ UNCHANGED known

Unsubscribe(c, t) ==
  /\ c \in known
  /\ subs' = subs \ {<<c, t>>}
  /\ sent' = Nothing
  /\ UNCHANGED known

(* One copy to everyone with an exact or a wildcard subscription, except   *)
(* the local client it came from.                                          *)
Publish(from, t) ==
  /\ sent' = Sent("DATA", {c \in known \ {from} : {<<c, t>>, <<c, Wildcard>>} \cap subs # {}})
  /\ UNCHANGED <<known, subs>>

(* Statistics go to the exact subscribers of their topic only. *)
Report ==
  /\ sent' = Sent("SYS_STATS", {c \in known : <<c, StatsTopic>> \in subs})
  /\ UNCHANGED <<known, subs>>

Silent == sent' = Nothing /\ UNCHANGED <<known, subs>>

Next ==
  \/ \E c \in Client :
       \/ Join(c) \/ Leave(c) \/ Ack(c)
       \/ \E t \in Topic : Subscribe(c, t) \/ Unsubscribe(c, t)
  \/ \E t \in Topic, from \in Client \cup {"PEER"} : Publish(from, t)
  \/ Report
  \/ Silent

Spec == Init /\ [][Next]_vars

=============================================================================
