----------------------------- MODULE MeshProofs -----------------------------
(***************************************************************************)
(* Around every loop of a mesh of any size a broker routes a message at    *)
(* most once, however links are dropped and dialed again.                  *)
(***************************************************************************)
EXTENDS Mesh, TLAPS

(* The links there are lead to brokers there are. *)
Wired == TopoTypeOK /\ ClustersApart

(* A packet that may be in the pipes of a link there is. *)
Good(p) ==
  /\ p.link \in Links
  /\ \/ p.dir = "to" /\ p.body \in Msg \cup {"SUBSCRIBE"}
     \/ p.dir = "from" /\ p.body \in Msg \cup {"RESET"}

Sessions ==
  /\ session = [g \in Host |-> session[g]]
  /\ \A g \in Host : \A n \in DOMAIN session[g] : n \in Uuid /\ session[g][n] \in {"known", "subscribed"}

(* A message that is not in the history has not been routed. *)
History ==
  /\ seen \in [Host -> SUBSET Msg] /\ routed \in [Host -> [Msg -> 0..1]]
  /\ \A h \in Host : \A m \in Msg : m \notin seen[h] => routed[h][m] = 0

Observed == calm \subseteq Msg /\ cut \in BOOLEAN /\ drops \in 0..MaxDrops

Inv == Wired /\ Sessions /\ (\A p \in flight : Good(p)) /\ History /\ Observed

(* A link leads from a host to a host, under the name of the first. *)
LEMMA LinkEnds ==
  ASSUME Wired, NEW l \in Links
  PROVE  l[1] \in Host /\ Target(l) \in Host /\ Name(l) \in Uuid
<1>1. l[1] \in Host /\ l[2] \in DOMAIN peers[l[1]]
  BY DEF Links
<1>2. Target(l) = home[l[2]] /\ l[2] \in DOMAIN home
  BY <1>1 DEF Target, Wired, TopoTypeOK, ClustersApart
<1>3. QED
  BY <1>1, <1>2 DEF Name, Wired, TopoTypeOK

(* Routing a message puts copies of it in pipes, and in the history. *)
LEMMA RouteLemma ==
  ASSUME History, NEW g \in Host, NEW m \in Msg, NEW sender, NEW pipes, \A p \in pipes : Good(p),
         Route(g, m, sender, pipes)
  PROVE  History' /\ \A p \in flight' : Good(p)
<1>1. CASE m \in seen[g]
  BY <1>1 DEF Route, History
<1>2. CASE m \notin seen[g]
  <2>1. /\ seen' = [seen EXCEPT ![g] = @ \cup {m}]
        /\ routed' = [routed EXCEPT ![g][m] = @ + 1]
        /\ flight' = pipes \cup {Packet(l, "from", m) : l \in LinksTo(g, SubscribedNames(g) \ {sender})}
                           \cup {Packet(l, "to", m) : l \in {k \in Links : k[1] = g}}
    BY <1>2 DEF Route
  <2>2. routed[g][m] = 0 /\ seen[g] \subseteq Msg
    BY <1>2 DEF History
  <2>3. routed' = [h \in Host |-> [n \in Msg |-> IF h = g /\ n = m THEN 1 ELSE routed[h][n]]]
    <3>1. routed[g] = [n \in Msg |-> routed[g][n]] /\ routed = [h \in Host |-> routed[h]]
          /\ \A h \in Host : routed[h] = [n \in Msg |-> routed[h][n]]
      BY DEF History
    <3>2. [routed[g] EXCEPT ![m] = @ + 1] = [n \in Msg |-> IF n = m THEN 1 ELSE routed[g][n]]
      BY <2>2, <3>1
    <3>3. routed' = [h \in Host |-> IF h = g THEN [n \in Msg |-> IF n = m THEN 1 ELSE routed[g][n]] ELSE routed[h]]
      BY <2>1, <3>1, <3>2
    <3>4. QED
      BY <3>1, <3>3
  <2>4. seen' = [h \in Host |-> IF h = g THEN seen[h] \cup {m} ELSE seen[h]]
    BY <2>1 DEF History
  <2>5. seen' \in [Host -> SUBSET Msg]
    BY <2>4 DEF History
  <2>6. routed' \in [Host -> [Msg -> 0..1]]
    BY <2>3 DEF History
  <2>7. \A h \in Host : \A n \in Msg : n \notin seen'[h] => routed'[h][n] = 0
    BY <2>3, <2>4 DEF History
  <2>8. \A l \in Links : Good(Packet(l, "from", m)) /\ Good(Packet(l, "to", m))
    BY DEF Good, Packet
  <2>9. \A p \in flight' : Good(p)
    BY <2>1, <2>8 DEF LinksTo
  <2>10. QED
    BY <2>5, <2>6, <2>7, <2>9 DEF History
<1>3. QED
  BY <1>1, <1>2

(* What entering a name in a session table does. *)
LEMMA SessionSet ==
  ASSUME Sessions, NEW g \in Host, NEW n \in Uuid, NEW v \in {"known", "subscribed"},
         session' = [session EXCEPT ![g] = Set(@, n, v)]
  PROVE  Sessions'
<1>1. session' = [h \in Host |-> IF h = g THEN Set(session[h], n, v) ELSE session[h]]
  BY DEF Sessions
<1>2. \A x \in DOMAIN Set(session[g], n, v) : x \in Uuid /\ Set(session[g], n, v)[x] \in {"known", "subscribed"}
  BY DEF Sessions, Set
<1>3. QED
  BY <1>1, <1>2 DEF Sessions

LEMMA NewClientLemma ==
  ASSUME Inv, NEW l \in Links, NEW pipes, \A p \in pipes : Good(p), NewClient(l, pipes)
  PROVE  Sessions' /\ History' /\ \A p \in flight' : Good(p)
<1>1. Sessions'
  BY LinkEnds, SessionSet DEF Inv, NewClient
<1>2. History'
  BY DEF Inv, NewClient, History
<1>3. Good(Packet(l, "from", "RESET"))
  BY DEF Good, Packet
<1>4. QED
  BY <1>1, <1>2, <1>3 DEF NewClient

(* The links stay, and with them what may be in their pipes. *)
LEMMA GoodStays ==
  ASSUME UNCHANGED topoVars
  PROVE  /\ Wired => Wired'
         /\ \A p : Good(p) => Good(p)'
<1>1. Wired => Wired'
  BY DEF topoVars, Wired, TopoTypeOK, ClustersApart
<1>2. Links' = Links
  BY DEF topoVars, Links
<1>3. QED
  BY <1>1, <1>2 DEF Good

LEMMA EmptyDomain == DOMAIN << >> = {}
OBVIOUS

LEMMA MeshInit == Init => Inv
<1> SUFFICES ASSUME Init PROVE Inv
  OBVIOUS
<1>1. Wired
  <2>1. \A h \in Host : DOMAIN peers[h] = {}
    BY EmptyDomain DEF Init, TopoInit
  <2>2. ASSUME NEW h \in Host
        PROVE  InitUuid[h] \in DOMAIN home /\ home[InitUuid[h]] = h
    BY TopologyAssumption DEF Init, TopoInit
  <2>3. \A u \in DOMAIN home : u \in Uuid /\ home[u] \in Host
    BY TopologyAssumption DEF Init, TopoInit
  <2>4. QED
    BY <2>1, <2>2, <2>3, TopologyAssumption DEF Init, TopoInit, Wired, TopoTypeOK, ClustersApart
<1>2. Sessions
  BY EmptyDomain DEF Init, Sessions
<1>3. History
  <2>1. \A h \in Host : seen[h] = {} /\ routed[h] = [m \in Msg |-> 0]
    BY DEF Init
  <2>2. [m \in Msg |-> 0] \in [Msg -> 0..1]
    OBVIOUS
  <2>3. QED
    BY <2>1, <2>2 DEF Init, History
<1>4. Observed
  <2>1. 0 \in 0..MaxDrops
    BY MeshAssumption DEF MeshAssumption
  <2>2. QED
    BY <2>1 DEF Init, Observed
<1>5. \A p \in flight : Good(p)
  BY DEF Init
<1>6. QED
  BY <1>1, <1>2, <1>3, <1>4, <1>5 DEF Inv

(* A dial adds a link to a broker there is, a drop takes links away. *)
LEMMA WiredStep ==
  ASSUME Wired, NEW h \in Host, (\E u \in Uuid : Dial(h, u)) \/ (\E U : Drop(h, U))
  PROVE  Wired'
<1>1. ASSUME NEW u \in Uuid, Dial(h, u) PROVE Wired'
  <2>1. /\ DOMAIN peers'[h] = DOMAIN peers[h] \cup {u}
        /\ \A x \in DOMAIN peers'[h] : peers'[h][x] = IF x = u THEN home[u] ELSE peers[h][x]
    BY <1>1 DEF Dial, Wired, TopoTypeOK, Set
  <2>2. DOMAIN peers' = Host /\ \A g \in Host : g # h => peers'[g] = peers[g]
    BY <1>1 DEF Dial, Wired, TopoTypeOK
  <2>3. QED
    BY <1>1, <2>1, <2>2 DEF Dial, Wired, TopoTypeOK, ClustersApart
<1>2. ASSUME NEW U, Drop(h, U) PROVE Wired'
  <2>1. /\ DOMAIN peers'[h] = DOMAIN peers[h] \ U
        /\ \A x \in DOMAIN peers'[h] : peers'[h][x] = peers[h][x]
    BY <1>2 DEF Drop, Wired, TopoTypeOK, Without
  <2>2. DOMAIN peers' = Host /\ \A g \in Host : g # h => peers'[g] = peers[g]
    BY <1>2 DEF Drop, Wired, TopoTypeOK
  <2>3. QED
    BY <1>2, <2>1, <2>2 DEF Drop, Wired, TopoTypeOK, ClustersApart
<1>3. QED
  BY <1>1, <1>2

LEMMA RewireLemma ==
  ASSUME Inv, NEW h \in Host, (\E u \in Uuid : Dial(h, u)) \/ (\E U : Drop(h, U)), Rewire
  PROVE  Wired' /\ Sessions' /\ History' /\ (\A p \in flight' : Good(p)') /\ calm' \subseteq Msg /\ cut' \in BOOLEAN
<1>1. Wired'
  BY WiredStep DEF Inv
<1>2. Sessions' /\ History'
  BY DEF Inv, Rewire, Sessions, History
<1>3. \A p \in flight' : Good(p)'
  BY DEF Inv, Rewire, Good
<1>4. calm' \subseteq Msg /\ cut' \in BOOLEAN
  BY DEF Inv, Rewire, Observed
<1>5. QED
  BY <1>1, <1>2, <1>3, <1>4

LEMMA MeshStep == Inv /\ [Next]_vars => Inv'
<1> SUFFICES ASSUME Inv, [Next]_vars PROVE Inv'
  OBVIOUS
<1>1. ASSUME NEW h \in Host, NEW u \in Uuid, DialLink(h, u) PROVE Inv'
  <2>1. Dial(h, u)
    BY <1>1 DEF DialLink
  <2>2. QED
    BY <1>1, <2>1, RewireLemma DEF DialLink, Inv, Observed
<1>2. ASSUME NEW h \in Host, NEW u \in Uuid, DropLink(h, u) PROVE Inv'
  <2>1. \E U : Drop(h, U)
    BY <1>2 DEF DropLink
  <2>2. drops' \in 0..MaxDrops
    BY <1>2, MeshAssumption DEF DropLink, Inv, Observed, MeshAssumption
  <2>3. QED
    BY <1>2, <2>1, <2>2, RewireLemma DEF DropLink, Inv, Observed
<1>3. ASSUME NEW l \in Links, Heartbeat(l) PROVE Inv'
  <2>1. Sessions' /\ History' /\ \A p \in flight' : Good(p)
    BY <1>3, NewClientLemma DEF Heartbeat, Inv
  <2>2. QED
    BY <1>3, <2>1, GoodStays DEF Heartbeat, Inv, Observed
<1>4. ASSUME NEW p \in flight, RecvTo(p) PROVE Inv'
  <2>1. /\ p.link \in Links /\ p.body \in Msg \cup {"SUBSCRIBE"}
        /\ \A q \in flight \ {p} : Good(q)
    BY <1>4 DEF Inv, Good, RecvTo
  <2>2. Target(p.link) \in Host /\ Name(p.link) \in Uuid
    BY <2>1, LinkEnds DEF Inv
  <2>3. Sessions' /\ History' /\ \A q \in flight' : Good(q)
    <3>1. CASE Name(p.link) \notin DOMAIN session[Target(p.link)]
      BY <1>4, <2>1, <3>1, NewClientLemma DEF RecvTo, Accept
    <3>2. CASE Name(p.link) \in DOMAIN session[Target(p.link)] /\ p.body = "SUBSCRIBE"
      <4>1. /\ session' = [session EXCEPT ![Target(p.link)] = Set(@, Name(p.link), "subscribed")]
            /\ flight' = flight \ {p} /\ UNCHANGED <<seen, routed>>
        BY <1>4, <3>2 DEF RecvTo, Accept
      <4>2. QED
        BY <2>1, <2>2, <4>1, SessionSet DEF Inv, History
    <3>3. CASE Name(p.link) \in DOMAIN session[Target(p.link)] /\ p.body # "SUBSCRIBE"
      <4>1. Route(Target(p.link), p.body, Name(p.link), flight \ {p}) /\ UNCHANGED session
        BY <1>4, <3>3 DEF RecvTo, Accept
      <4>2. QED
        BY <2>1, <2>2, <3>3, <4>1, RouteLemma DEF Inv, Sessions
    <3>4. QED
      BY <3>1, <3>2, <3>3
  <2>4. QED
    BY <1>4, <2>3, GoodStays DEF RecvTo, Inv, Observed
<1>5. ASSUME NEW p \in flight, RecvFrom(p) PROVE Inv'
  <2>1. /\ p.link \in Links /\ p.body \in Msg \cup {"RESET"}
        /\ \A q \in flight \ {p} : Good(q)
    BY <1>5 DEF Inv, Good, RecvFrom
  <2>2. p.link[1] \in Host
    BY <2>1, LinkEnds DEF Inv
  <2>3. History' /\ \A q \in flight' : Good(q)
    <3>1. CASE p.body = "RESET"
      <4>1. Good(Packet(p.link, "to", "SUBSCRIBE"))
        BY <2>1 DEF Good, Packet
      <4>2. QED
        BY <1>5, <2>1, <3>1, <4>1 DEF RecvFrom, Inv, History
    <3>2. CASE p.body # "RESET"
      BY <1>5, <2>1, <2>2, <3>2, RouteLemma DEF RecvFrom, Inv
    <3>3. QED
      BY <3>1, <3>2
  <2>4. QED
    BY <1>5, <2>3, GoodStays DEF RecvFrom, Inv, Sessions, Observed
<1>6. ASSUME NEW g \in Host, NEW n \in Uuid, Zombie(g, n) PROVE Inv'
  <2>1. session' = [h \in Host |-> IF h = g THEN Without(session[h], {n}) ELSE session[h]]
    BY <1>6 DEF Zombie, Inv, Sessions
  <2>2. Sessions'
    BY <2>1 DEF Inv, Sessions, Without
  <2>3. QED
    BY <1>6, <2>2, GoodStays DEF Zombie, Inv, History, Observed
<1>7. ASSUME NEW h \in Host, NEW m \in Msg, Publish(h, m) PROVE Inv'
  <2>1. History' /\ \A p \in flight' : Good(p)
    BY <1>7, RouteLemma DEF Publish, Inv
  <2>2. calm' \subseteq Msg
    BY <1>7 DEF Publish, Inv, Observed
  <2>3. QED
    BY <1>7, <2>1, <2>2, GoodStays DEF Publish, Inv, Sessions, Observed
<1>8. CASE UNCHANGED vars
  BY <1>8, GoodStays DEF vars, Inv, Sessions, History, Observed
<1>9. QED
  BY <1>1, <1>2, <1>3, <1>4, <1>5, <1>6, <1>7, <1>8 DEF Next, LinkStep

-----------------------------------------------------------------------------
(* Types, and that nothing is in the pipes of a link that is gone. *)
THEOREM MeshTypes == Spec => []TypeOK
<1>1. Inv => TypeOK
  <2>1. ASSUME Inv PROVE seen \in [Host -> SUBSET Msg] /\ routed \in [Host -> [Msg -> 0..2]]
    BY <2>1 DEF Inv, History
  <2>2. QED
    BY <2>1 DEF Inv, Wired, Sessions, Good, Observed, TypeOK
<1>2. QED
  BY <1>1, MeshInit, MeshStep, PTL DEF Spec

(* "Loop protection" (zmqbroker.cpp:287), for any hosts, links and         *)
(* messages and any number of dropped links.                               *)
THEOREM LoopProtection == Spec => []RoutedOnce
<1>1. Inv => RoutedOnce
  BY DEF Inv, History, RoutedOnce
<1>2. QED
  BY <1>1, MeshInit, MeshStep, PTL DEF Spec

=============================================================================
