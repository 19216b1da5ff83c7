----------------------------- MODULE Discovery -----------------------------
(***************************************************************************)
(* server/discovery.cpp on several hosts: which brokers of a LAN dial each *)
(* other.  Every broker beacons {cluster, uuid, port}; onDatagram decides  *)
(* whether to dial, expireStale drops who has gone silent.                 *)
(*                                                                         *)
(* dialed and peers are m_dialed and the discovered links of m_peers, per  *)
(* host, as functions from uuid to entry.  An entry's age counts the       *)
(* beacon intervals since its lastSeen.  A beacon is sent and heard in one *)
(* step (Hear); one that is lost is a Miss, which for a live sender        *)
(* happens at most MaxMisses times; one of a broker that has died since is *)
(* late.  The locks and threads of one host are in PeerLinks: here a       *)
(* datagram and its dial, or an expiry and its drops, are one step.        *)
(***************************************************************************)
EXTENDS Topology, Sequences, FiniteSets

CONSTANTS
  BindAddresses,       \* per host, a sequence of [scheme, port]
  Bar,                 \* the character '|'; a cluster name is a sequence
  PeerTimeout,         \* m_peerTimeout, in beacon intervals
  MaxCrashes, MaxMisses

ASSUME DiscoveryAssumption == PeerTimeout \in Nat /\ MaxCrashes \in Nat /\ MaxMisses \in Nat

MaxPort == 2^16 - 1

(* Cluster names and addresses are sequences; no uuid and no number has a  *)
(* bar in it.                                                              *)
ASSUME BeaconAssumption ==
  /\ \A h \in Host : ClusterOf[h] \in Seq({ClusterOf[h][i] : i \in DOMAIN ClusterOf[h]})
  /\ \A h \in Host : DOMAIN BindAddresses[h] \subseteq Nat
  /\ Bar \notin {"WISP", "1"} /\ Bar \notin Uuid /\ Bar \notin 0..MaxPort

VARIABLES
  dialed,
  late,      \* per host, dead brokers whose last beacon may still arrive
  crashes, misses

vars == <<topoVars, dialed, late, crashes, misses>>

-----------------------------------------------------------------------------
(* The first tcp:// address with a usable port, or 0. *)
parseTcpPort(addresses) ==
  LET usable == {i \in DOMAIN addresses : addresses[i].scheme = "tcp" /\ addresses[i].port \in 1..MaxPort}
  IN  IF usable = {} THEN 0 ELSE addresses[CHOOSE i \in usable : \A j \in usable : i <= j].port

Port(h) == parseTcpPort(BindAddresses[h])

(* "WISP|1|<cluster>|<uuid>|<port>" *)
encodeBeacon(cluster, u, port) ==
  <<"WISP", Bar, "1", Bar>> \o cluster \o <<Bar, u, Bar, port>>

(* The pieces of s between its bars. *)
BarsUpTo(s, i) == {j \in 1..i : s[j] = Bar}
BarAt(s, k) == IF k = 0 THEN 0 ELSE CHOOSE i \in DOMAIN s : s[i] = Bar /\ Cardinality(BarsUpTo(s, i)) = k
Fields(s) ==
  LET n == Cardinality(BarsUpTo(s, Len(s)))
  IN  [k \in 1..n + 1 |-> SubSeq(s, BarAt(s, k - 1) + 1, IF k > n THEN Len(s) ELSE BarAt(s, k) - 1)]

Rejected == [ok |-> FALSE, cluster |-> <<>>, uuid |-> 0, port |-> 0]
Beacon(f) == [ok |-> TRUE, cluster |-> f[Len(f) - 2], uuid |-> f[Len(f) - 1][1], port |-> f[Len(f)][1]]

decodeBeaconLenient(s) ==
  LET f == Fields(s)
  IN  IF Len(f) < 5 \/ f[1] # <<"WISP">> \/ f[2] # <<"1">> \/ f[Len(f)][1] \notin 1..MaxPort
      THEN Rejected ELSE Beacon(f)

decodeBeacon(s) ==
  LET f == Fields(s)
  IN  IF Len(f) # 5 \/ f[1] # <<"WISP">> \/ f[2] # <<"1">> \/ f[5][1] \notin 1..MaxPort
      THEN Rejected ELSE Beacon(f)

(* What decodeBeacon makes of the beacon of broker u on host g. *)
Heard == [g \in Host |-> [u \in Uuid |-> decodeBeacon(encodeBeacon(ClusterOf[g], u, Port(g)))]]

-----------------------------------------------------------------------------
InitiatorAnyCluster(h, b) == b.ok /\ b.uuid # uuid[h] /\ uuid[h] < b.uuid

(* onDatagram's filters: another cluster, our own beacon, the smaller uuid *)
(* dials.                                                                  *)
Initiator(h, b) == b.ok /\ b.cluster = ClusterOf[h] /\ b.uuid # uuid[h] /\ uuid[h] < b.uuid

(* A beacon of u, sent from `from`, reaches h: a new entry and a link, or  *)
(* a fresh lastSeen.                                                       *)
onDatagram(h, from, u) ==
  LET b == Heard[from][u]
  IN  IF Initiator(h, b)
      THEN /\ dialed' = [dialed EXCEPT ![h] = Set(@, b.uuid, 0)]
           /\ IF b.uuid \in DOMAIN dialed[h] THEN UNCHANGED peers ELSE peers' = [peers EXCEPT ![h] = Set(@, b.uuid, from)]
      ELSE UNCHANGED <<dialed, peers>>

(* A running broker without a tcp port has no discovery. *)
Discovering(h) == h \in up /\ Port(h) # 0

Hear(h, g) ==
  /\ Discovering(h) /\ Discovering(g)
  /\ onDatagram(h, g, uuid[g])
  /\ UNCHANGED <<up, uuid, home, late, crashes, misses>>

(* The last beacon of a dead broker arrives. *)
HearLate(h, u) ==
  /\ Discovering(h) /\ u \in late[h]
  /\ late' = [late EXCEPT ![h] = @ \ {u}]
  /\ onDatagram(h, home[u], u)
  /\ UNCHANGED <<up, uuid, home, crashes, misses>>

(* A beacon interval without a beacon of u. *)
Miss(h, u) ==
  /\ h \in up /\ u \in DOMAIN dialed[h] /\ dialed[h][u] <= PeerTimeout
  /\ IF Live(u) THEN misses < MaxMisses /\ misses' = misses + 1 ELSE UNCHANGED misses
  /\ dialed' = [dialed EXCEPT ![h][u] = @ + 1]
  /\ UNCHANGED <<topoVars, late, crashes>>

StaleEarly(h) == {u \in DOMAIN dialed[h] : dialed[h][u] >= PeerTimeout}

Stale(h) == {u \in DOMAIN dialed[h] : dialed[h][u] > PeerTimeout}

expireStaleKeepsLink(h) ==
  /\ h \in up /\ Stale(h) # {}
  /\ dialed' = [dialed EXCEPT ![h] = Without(@, Stale(h))]
  /\ UNCHANGED <<topoVars, late, crashes, misses>>

expireStale(h) ==
  /\ h \in up /\ Stale(h) # {}
  /\ dialed' = [dialed EXCEPT ![h] = Without(@, Stale(h))]
  /\ peers' = [peers EXCEPT ![h] = Without(@, Stale(h))]
  /\ UNCHANGED <<up, uuid, home, late, crashes, misses>>

(* A broker dies with all it knows; its last beacons may be on their way.  *)
Die(h) ==
  /\ Crash(h) /\ crashes < MaxCrashes
  /\ dialed' = [dialed EXCEPT ![h] = <<>>]
  /\ late' = [g \in Host |-> IF g \in up' THEN late[g] \cup {uuid[h]} ELSE {}]
  /\ crashes' = crashes + 1
  /\ UNCHANGED misses

ComeBack(h) == Restart(h) /\ UNCHANGED <<dialed, late, crashes, misses>>

-----------------------------------------------------------------------------
Init ==
  /\ TopoInit
  /\ dialed = [h \in Host |-> <<>>]
  /\ late = [h \in Host |-> {}]
  /\ crashes = 0 /\ misses = 0

Next ==
  \E h \in Host :
    \/ \E g \in Host : Hear(h, g)
    \/ \E u \in Uuid : HearLate(h, u) \/ Miss(h, u)
    \/ expireStale(h) \/ Die(h) \/ ComeBack(h)

Spec == Init /\ [][Next]_vars

(* Beacons go out every second and, but for MaxMisses of them, arrive;     *)
(* time passes for those that are gone; expireStale runs every second.     *)
(* Nothing has to crash or to come back, and late beacons may be lost.     *)
Fairness ==
  \A h \in Host :
    /\ WF_vars(\E g \in Host : Hear(h, g))
    /\ WF_vars(\E u \in Uuid : ~Live(u) /\ Miss(h, u))
    /\ WF_vars(expireStale(h))

FairSpec == Spec /\ Fairness

-----------------------------------------------------------------------------
(* decodeBeacon undoes encodeBeacon, or rejects the beacon. *)
Faithful(g, u) ==
  Heard[g][u] = IF Port(g) = 0 \/ Bar \in {ClusterOf[g][i] : i \in DOMAIN ClusterOf[g]}
                THEN Rejected
                ELSE [ok |-> TRUE, cluster |-> ClusterOf[g], uuid |-> u, port |-> Port(g)]

(* The beacon of every broker there has been says what that broker meant   *)
(* or is rejected: a bar in a cluster name ("cluster must not contain      *)
(* '|'", discovery.h:47) never turns one field into another.               *)
BeaconRoundTrip == \A u \in DOMAIN home : Faithful(home[u], u)

(* m_dialed ("uuid -> link we initiated", discovery.h:81) names exactly    *)
(* the links that there are: no link without an entry to expire it, and no *)
(* entry without its link.                                                 *)
DialedHaveLinks == \A h \in Host : DOMAIN dialed[h] = DOMAIN peers[h]

(* Discovery does to the links what Topology lets it do and nothing else:  *)
(* every step dials one broker or drops some, or changes no link.          *)
ImplementsTopology == TopoSpec

(* "Peers that go silent are dropped" (discovery.h:17), and no others: the *)
(* link to a broker that runs goes only after more than PeerTimeout missed *)
(* beacons in a row.                                                       *)
OnlySilentDropped ==
  [][\A l \in Links \ Links' : l[1] \in up' => dialed[l[1]][l[2]] > PeerTimeout]_vars

Wanted == {p \in up \X up : /\ uuid[p[1]] < uuid[p[2]]
                            /\ Discovering(p[1]) /\ Discovering(p[2])
                            /\ ClusterOf[p[1]] = ClusterOf[p[2]]
                            /\ \A i \in DOMAIN ClusterOf[p[1]] : ClusterOf[p[1]][i] # Bar}

(* discovery.h:14-18: when the crashes and the lost beacons are over, the  *)
(* brokers of a cluster have one link per pair, and none to a broker that  *)
(* is gone, whatever late beacons of dead brokers and new uuids on old     *)
(* addresses there were.  A cluster name with a bar in it keeps a broker   *)
(* to itself (discovery.h:47), and so does the lack of a tcp port.         *)
MeshForms == <>[](Links = {<<p[1], uuid[p[2]]>> : p \in Wanted})

=============================================================================
