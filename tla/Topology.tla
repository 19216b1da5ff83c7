------------------------------ MODULE Topology ------------------------------
(***************************************************************************)
(* What discovery promises the rest of a broker about its discovered       *)
(* links: the abstract specification that Discovery implements and that    *)
(* Mesh builds on.  A broker dials brokers of its own cluster with a       *)
(* greater uuid, at the address their beacon came from, and may drop them  *)
(* again; brokers die, and come back on the same host under a new uuid.    *)
(* Links are the discovered entries of ZmqBroker::m_peers, per host a      *)
(* function from key to address (the host it reaches).                     *)
(***************************************************************************)
EXTENDS Integers

CONSTANTS
  Host, Uuid,          \* machines; broker ids, in the order of their strings
  InitUuid,            \* the ids the first brokers come up with
  ClusterOf,           \* cluster name per host
  Fragile              \* the hosts whose broker may die

ASSUME TopologyAssumption ==
  /\ Uuid \subseteq Nat /\ Fragile \subseteq Host
  /\ InitUuid \in [Host -> Uuid]
  /\ \A g, h \in Host : InitUuid[g] = InitUuid[h] => g = h

VARIABLES
  up,        \* the hosts whose broker runs
  uuid,      \* m_brokerId per host
  home,      \* the host of every uuid issued so far
  peers      \* the discovered links of m_peers, per host

topoVars == <<up, uuid, home, peers>>

-----------------------------------------------------------------------------
Set(f, k, v) == [x \in DOMAIN f \cup {k} |-> IF x = k THEN v ELSE f[x]]
Without(f, K) == [x \in DOMAIN f \ K |-> f[x]]

(* u is the id of a broker that runs. *)
Live(u) == u \in DOMAIN home /\ home[u] \in up /\ uuid[home[u]] = u

Links == {l \in Host \X Uuid : l[2] \in DOMAIN peers[l[1]]}

(* addPeer, as onDatagram calls it; u may have died since its beacon. *)
Dial(h, u) ==
  /\ h \in up /\ u \in DOMAIN home
  /\ ClusterOf[home[u]] = ClusterOf[h] /\ uuid[h] < u
  /\ u \notin DOMAIN peers[h]
  /\ peers' = [peers EXCEPT ![h] = Set(@, u, home[u])]
  /\ UNCHANGED <<up, uuid, home>>

(* removePeer, as expireStale calls it. *)
Drop(h, U) ==
  /\ h \in up /\ U # {}
  /\ peers' = [peers EXCEPT ![h] = Without(@, U)]
  /\ UNCHANGED <<up, uuid, home>>

(* A broker dies, and its links with it. *)
Crash(h) ==
  /\ h \in up \cap Fragile
  /\ up' = up \ {h}
  /\ peers' = [peers EXCEPT ![h] = <<>>]
  /\ UNCHANGED <<uuid, home>>

(* It is started again and draws a new id (generateUUID). *)
Restart(h) ==
  /\ h \notin up
  /\ up' = up \cup {h}
  /\ \E u \in Uuid \ DOMAIN home :
       /\ uuid' = [uuid EXCEPT ![h] = u]
       /\ home' = Set(home, u, h)
  /\ UNCHANGED peers

-----------------------------------------------------------------------------
TopoInit ==
  /\ up = Host
  /\ uuid = InitUuid
  /\ home = [u \in {InitUuid[h] : h \in Host} |-> CHOOSE h \in Host : InitUuid[h] = u]
  /\ peers = [h \in Host |-> <<>>]

TopoNext ==
  \E h \in Host :
    \/ \E u \in Uuid : Dial(h, u)
    \/ \E U \in SUBSET DOMAIN peers[h] : Drop(h, U)
    \/ Crash(h) \/ Restart(h)

TopoSpec == TopoInit /\ [][TopoNext]_topoVars

-----------------------------------------------------------------------------
TopoTypeOK ==
  /\ up \subseteq Host /\ uuid \in [Host -> Uuid]
  /\ DOMAIN home \subseteq Uuid /\ \A u \in DOMAIN home : home[u] \in Host
  /\ \A h \in Host : uuid[h] \in DOMAIN home /\ home[uuid[h]] = h
  /\ DOMAIN peers = Host /\ \A h \in Host : DOMAIN peers[h] \subseteq DOMAIN home

(* "Exactly one side of a pair dials" (discovery.cpp:79): no two brokers   *)
(* ever have links to each other, whatever the order of their beacons,     *)
(* crashes and new uuids; and nobody has a link to itself.                 *)
OneSideDials ==
  \A g, h \in Host : ~(uuid[g] \in DOMAIN peers[h] /\ uuid[h] \in DOMAIN peers[g])

(* Every link goes to a broker of the same cluster, at the host on which   *)
(* that broker was started ("different mesh on the same LAN",              *)
(* discovery.cpp:73).                                                      *)
ClustersApart ==
  \A h \in Host : \A u \in DOMAIN peers[h] : peers[h][u] = home[u] /\ ClusterOf[home[u]] = ClusterOf[h]

=============================================================================
