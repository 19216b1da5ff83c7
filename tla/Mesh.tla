-------------------------------- MODULE Mesh --------------------------------
(***************************************************************************)
(* Brokers linked by discovery (Topology), composed with what they         *)
(* send over the links: the RESET / SUBSCRIBE "" handshake of addPeer, and *)
(* the flooding and duplicate suppression of processMessage, around the    *)
(* loops that a full mesh has.                                             *)
(*                                                                         *)
(* A link is <<h, u>>: the worker that host h runs for key u of m_peers,   *)
(* a client of the broker at peers[h][u] under a name made from uuid[h].   *)
(* What that broker sends it back is under the wildcard subscription, once *)
(* it has it.  flight is what is in the pipes of the links.  Everything    *)
(* about a link's pipes ends with the link; a name a broker has learnt     *)
(* stays in its session table until the zombie timeout.  Links come and go *)
(* (MaxDrops times), the brokers stay; a broker that restarts is the       *)
(* subject of Session and Discovery.                                       *)
(*                                                                         *)
(* The uuids of the messages fit in m_messageHistory (DedupWindow of       *)
(* ZmqBroker is about that bound), so the window is a set here.            *)
(***************************************************************************)
EXTENDS Topology

CONSTANTS Msg, MaxDrops

ASSUME MeshAssumption == MaxDrops \in Nat

VARIABLES
  session,   \* per host, client name of a link -> "known" or "subscribed"
  flight,    \* packets [link, dir, body], dir "to" the dialed broker or "from" it
  seen,      \* m_messageHistory per host
  routed,    \* how often the broker running on a host has routed a message
  calm,      \* messages published in a finished mesh that is the same since
  cut,       \* a link was dropped in the middle of its handshake
  drops

vars == <<topoVars, session, flight, seen, routed, calm, cut, drops>>

-----------------------------------------------------------------------------
Name(l) == uuid[l[1]]
Target(l) == peers[l[1]][l[2]]
Packet(l, dir, body) == [link |-> l, dir |-> dir, body |-> body]

SubscribedNames(g) == {n \in DOMAIN session[g] : session[g][n] = "subscribed"}
LinksTo(g, names) == {l \in Links : Target(l) = g /\ Name(l) \in names}

(* The broker at g routes m, received from the client `sender` (a name) or *)
(* from a link of its own (sender = 0); pipes is what is in flight apart   *)
(* from m.                                                                 *)
RouteAgain(g, m, sender, pipes) ==
  /\ seen' = [seen EXCEPT ![g] = @ \cup {m}]
  /\ routed' = [routed EXCEPT ![g][m] = IF @ < 2 THEN @ + 1 ELSE @]
  /\ flight' = pipes \cup {Packet(l, "from", m) : l \in LinksTo(g, SubscribedNames(g) \ {sender})}
                     \cup {Packet(l, "to", m) : l \in {k \in Links : k[1] = g}}

RouteNoFlood(g, m, sender, pipes) ==
  IF m \in seen[g]
  THEN flight' = pipes /\ UNCHANGED <<seen, routed>>
  ELSE /\ seen' = [seen EXCEPT ![g] = @ \cup {m}]
       /\ routed' = [routed EXCEPT ![g][m] = @ + 1]
       /\ flight' = pipes \cup {Packet(l, "from", m) : l \in LinksTo(g, SubscribedNames(g) \ {sender})}

Route(g, m, sender, pipes) ==
  IF m \in seen[g]
  THEN flight' = pipes /\ UNCHANGED <<seen, routed>>
  ELSE /\ seen' = [seen EXCEPT ![g] = @ \cup {m}]
       /\ routed' = [routed EXCEPT ![g][m] = @ + 1]
       /\ flight' = pipes \cup {Packet(l, "from", m) : l \in LinksTo(g, SubscribedNames(g) \ {sender})}
                          \cup {Packet(l, "to", m) : l \in {k \in Links : k[1] = g}}

(* The first packet of a client the broker does not know is answered with  *)
(* a RESET and goes no further.                                            *)
NewClient(l, pipes) ==
  /\ session' = [session EXCEPT ![Target(l)] = Set(@, Name(l), "known")]
  /\ flight' = pipes \cup {Packet(l, "from", "RESET")}
  /\ UNCHANGED <<seen, routed>>

(* The broker at the far end takes a packet of the link. *)
Accept(l, body, pipes) ==
  LET g == Target(l)
  IN  IF Name(l) \notin DOMAIN session[g] THEN NewClient(l, pipes)
      ELSE IF body = "SUBSCRIBE"
      THEN /\ session' = [session EXCEPT ![g] = Set(@, Name(l), "subscribed")]
           /\ flight' = pipes
           /\ UNCHANGED <<seen, routed>>
      ELSE Route(g, body, Name(l), pipes) /\ UNCHANGED session

RecvTo(p) ==
  /\ p.dir = "to" /\ Target(p.link) \in up
  /\ Accept(p.link, p.body, flight \ {p})
  /\ UNCHANGED <<topoVars, calm, cut, drops>>

(* A heartbeat; to a broker that knows the link it only says it is alive.  *)
Heartbeat(l) ==
  /\ Target(l) \in up /\ Name(l) \notin DOMAIN session[Target(l)]
  /\ NewClient(l, flight)
  /\ UNCHANGED <<topoVars, calm, cut, drops>>

(* The link's message callback: RESET is answered, the rest is queued for  *)
(* the broker thread, which routes it as a peer's.                         *)
RecvFromNoReply(p) ==
  /\ p.dir = "from"
  /\ IF p.body = "RESET"
     THEN flight' = flight \ {p} /\ UNCHANGED <<seen, routed>>
     ELSE Route(p.link[1], p.body, 0, flight \ {p})
  /\ UNCHANGED <<topoVars, session, calm, cut, drops>>

RecvFrom(p) ==
  /\ p.dir = "from"
  /\ IF p.body = "RESET"
     THEN /\ flight' = (flight \ {p}) \cup {Packet(p.link, "to", "SUBSCRIBE")}
          /\ UNCHANGED <<seen, routed>>
     ELSE Route(p.link[1], p.body, 0, flight \ {p})
  /\ UNCHANGED <<topoVars, session, calm, cut, drops>>

(* The zombie timeout of a client that no link speaks for any more. *)
Zombie(g, n) ==
  /\ g \in up /\ n \in DOMAIN session[g] /\ LinksTo(g, {n}) = {}
  /\ session' = [session EXCEPT ![g] = Without(@, {n})]
  /\ UNCHANGED <<topoVars, flight, seen, routed, calm, cut, drops>>

-----------------------------------------------------------------------------
(* The pairs of brokers discovery links. *)
Wanted == {p \in up \X up : uuid[p[1]] < uuid[p[2]] /\ ClusterOf[p[1]] = ClusterOf[p[2]]}

Meshed == Links = {<<p[1], uuid[p[2]]>> : p \in Wanted}

Ready == Meshed /\ \A l \in Links : Name(l) \in SubscribedNames(Target(l))

(* A client of the broker at h publishes m. *)
Publish(h, m) ==
  /\ h \in up /\ \A g \in Host : m \notin seen[g]
  /\ m \notin {p.body : p \in flight}
  /\ Route(h, m, 0, flight)
  /\ calm' = IF Ready THEN calm \cup {m} ELSE calm
  /\ UNCHANGED <<topoVars, session, cut, drops>>

(* What a dial or a drop does to the rest: the pipes of a link go with it. *)
Rewire ==
  /\ flight' = {p \in flight : p.link \in Links'}
  /\ calm' = {}
  /\ cut' = (cut \/ \E l \in Links \ Links' : Name(l) \notin SubscribedNames(Target(l)))
  /\ UNCHANGED <<session, seen, routed>>

DialLink(h, u) == Dial(h, u) /\ Rewire /\ UNCHANGED drops

DropLink(h, u) ==
  /\ u \in DOMAIN peers[h] /\ drops < MaxDrops
  /\ Drop(h, {u}) /\ Rewire
  /\ drops' = drops + 1

-----------------------------------------------------------------------------
Init ==
  /\ TopoInit
  /\ session = [h \in Host |-> <<>>]
  /\ flight = {}
  /\ seen = [h \in Host |-> {}]
  /\ routed = [h \in Host |-> [m \in Msg |-> 0]]
  /\ calm = {} /\ cut = FALSE
  /\ drops = 0

LinkStep(l) ==
  \/ l \in Links /\ Heartbeat(l)
  \/ \E p \in flight : p.link = l /\ (RecvTo(p) \/ RecvFrom(p))

Next ==
  \/ \E h \in Host : \E u \in Uuid : DialLink(h, u) \/ DropLink(h, u)
  \/ \E l \in Host \X Uuid : LinkStep(l)
  \/ \E g \in Host : \E n \in Uuid : Zombie(g, n)
  \/ \E h \in Host : \E m \in Msg : Publish(h, m)

(* Discovery dials who is there (MeshForms of Discovery); workers and      *)
(* broker threads keep reading their sockets.                              *)
Fairness ==
  \A h \in Host : /\ WF_vars(\E u \in Uuid : DialLink(h, u))
                  /\ WF_vars(\E u \in Uuid : LinkStep(<<h, u>>))

Spec == Init /\ [][Next]_vars

FairSpec == Spec /\ Fairness

-----------------------------------------------------------------------------
TypeOK ==
  /\ TopoTypeOK
  /\ \A g \in Host : \A n \in DOMAIN session[g] : n \in Uuid /\ session[g][n] \in {"known", "subscribed"}
  /\ \A p \in flight : /\ p.link \in Links /\ p.dir \in {"to", "from"}
                       /\ p.body \in Msg \cup {"RESET", "SUBSCRIBE"}
  /\ seen \in [Host -> SUBSET Msg] /\ routed \in [Host -> [Msg -> 0..2]]
  /\ calm \subseteq Msg /\ cut \in BOOLEAN
  /\ drops \in 0..MaxDrops

(* "Loop protection" (zmqbroker.cpp:287): around every loop of links, over *)
(* both directions of a link and two links to one host, a broker routes a  *)
(* message at most once.                                                   *)
RoutedOnce == \A h \in Host : \A m \in Msg : routed[h][m] <= 1

(* zmqbroker.cpp:432-435: every link gets its wildcard subscription,       *)
(* however often it is dropped and dialed again, unless it was dropped     *)
(* between the RESET and the SUBSCRIBE: the redialed link is known already *)
(* and gets no RESET.                                                      *)
LinksSubscribed == <>[](cut \/ Ready)

(* A message published in a finished mesh that stays so reaches every      *)
(* broker of the publisher's mesh.                                         *)
FloodReaches ==
  \A m \in Msg : m \in calm ~>
    m \notin calm \/ \A p \in Wanted : m \in seen[p[1]] <=> m \in seen[p[2]]

(* The flood of a message dies out: its copies do not circulate.           *)
FloodDiesOut == <>[](\A p \in flight : p.body \notin Msg)

=============================================================================
