--------------------------- MODULE PeerLinksProofs ---------------------------
(***************************************************************************)
(* The safety of the peer links for any number of links and any capacity.  *)
(* The invariant Inv accounts for every worker thread that is alive: it is *)
(* in m_peers, or stop() has taken it out to join it, or the discovery     *)
(* thread is joining it.                                                   *)
(***************************************************************************)
EXTENDS PeerLinks, TLAPS

(* Where the links in m_peers, and the threads that are alive, belong. *)
LinksOK ==
  /\ \A l \in peers : Alive(l) /\ workerOn[l]
  /\ \A l \in Link : Alive(l) => l \in peers \/ l \in closing \/ (discovery = "join" /\ l \in subject)
  /\ broker = "flood" => floodLeft \subseteq peers

(* How far stop() has come, and which threads are over by then. *)
ShutdownOK ==
  /\ owner = "new" => broker = "off" /\ discovery = "off"
  /\ owner \in {"stopQueue", "joinBroker", "swapPeers", "joinPeers", "stopped"} => discovery \in {"off", "done"}
  /\ owner \in {"swapPeers", "joinPeers", "stopped"} => broker \in {"off", "done"}
  /\ owner \in {"joinPeers", "stopped"} => peers = {}
  /\ owner # "joinPeers" => closing = {}

(* The links of the discovery thread, wherever it is. *)
DiscoveryOK ==
  /\ discovery = "off" => dialed = {} /\ lost = {} /\ peers \cap DiscoveredLink = {}
  /\ discovery = "loop" => dialed = peers \cap DiscoveredLink /\ lost = {}
  /\ discovery = "dial" => /\ dialed = (peers \cap DiscoveredLink) \cup subject /\ lost = {}
                           /\ \E l \in DiscoveredLink : subject = {l}
  /\ discovery \in {"drop", "join"} => /\ dialed \cup lost = peers \cap DiscoveredLink
                                      /\ dialed \cap lost = {}

Inv == TypeOK /\ LinksOK /\ ShutdownOK /\ DiscoveryOK

LEMMA InitLemma == LinkAssumption /\ Init => Inv
<1> SUFFICES ASSUME LinkAssumption, Init PROVE Inv
  OBVIOUS
<1>0. 0 \in 0..QueueMax /\ 0 \in 0..OutMax
  BY DEF LinkAssumption
<1>1. TypeOK
  BY <1>0 DEF Init, TypeOK
<1>2. LinksOK /\ ShutdownOK /\ DiscoveryOK
  BY DEF Init, LinksOK, ShutdownOK, DiscoveryOK, Alive
<1>3. QED
  BY <1>1, <1>2 DEF Inv

(* A worker's own steps leave everything but itself and the queues alone. *)
LEMMA WorkerLemma ==
  ASSUME LinkAssumption, Inv, NEW l \in Link, WorkerRecv(l) \/ WorkerStep(l) PROVE Inv'
<1> USE DEF Inv, WorkerStep, ownerVars, brokerVars, discoveryVars, queueVars
<1>0. /\ inbound \in Int /\ QueueMax \in Nat /\ outbound[l] \in Int
      /\ UNCHANGED <<running, inboundStopped, peers, owner, closing, broker, floodLeft,
                     discovery, discoveryOn, dialed, lost, subject, workerOn>>
  BY DEF TypeOK, LinkAssumption, WorkerRecv, WorkerPoll, WorkerPush, WorkerSend, WorkerExit
<1>1. inbound' \in 0..QueueMax
  BY <1>0 DEF TypeOK, WorkerRecv, WorkerPoll, WorkerPush, WorkerSend, WorkerExit
<1>2. outbound' \in [Link -> 0..OutMax]
  BY <1>0 DEF TypeOK, LinkAssumption, WorkerRecv, WorkerPoll, WorkerPush, WorkerSend, WorkerExit
<1>3. worker' \in [Link -> {"none", "recv", "push", "send", "done"}]
  BY DEF TypeOK, WorkerRecv, WorkerPoll, WorkerPush, WorkerSend, WorkerExit
<1>4. TypeOK'
  BY <1>0, <1>1, <1>2, <1>3 DEF TypeOK
<1>5. LinksOK'
  BY <1>0 DEF TypeOK, LinksOK, Alive, WorkerRecv, WorkerPoll, WorkerPush, WorkerSend, WorkerExit
<1>6. QED
  BY <1>0, <1>4, <1>5 DEF ShutdownOK, DiscoveryOK

LEMMA BrokerLemma ==
  ASSUME LinkAssumption, Inv, BrokerLocal \/ BrokerStep PROVE Inv'
<1> USE DEF Inv, BrokerStep, ownerVars, brokerVars, discoveryVars, queueVars, workerVars
<1>0. /\ inbound \in Int /\ QueueMax \in Nat /\ OutMax \in Nat
      /\ UNCHANGED <<running, inboundStopped, peers, owner, closing,
                     discovery, discoveryOn, dialed, lost, subject, worker, workerOn>>
  BY DEF TypeOK, LinkAssumption, BrokerLocal, BrokerPoll, BrokerDrain, BrokerDrained, FloodPush, FloodTimeout, FloodDone
<1>1. inbound' \in 0..QueueMax
  BY <1>0 DEF TypeOK, BrokerLocal, BrokerPoll, BrokerDrain, BrokerDrained, FloodPush, FloodTimeout, FloodDone
<1>2. outbound' \in [Link -> 0..OutMax]
  <2>1. ASSUME NEW l \in Link, FloodPush(l) PROVE outbound' \in [Link -> 0..OutMax]
    <3>1. outbound[l] + 1 \in 0..OutMax
      BY <1>0, <2>1 DEF TypeOK, FloodPush
    <3>2. QED
      BY <2>1, <3>1 DEF TypeOK, FloodPush
  <2>2. CASE UNCHANGED outbound
    BY <2>2 DEF TypeOK
  <2>3. QED
    BY <2>1, <2>2 DEF BrokerLocal, BrokerPoll, BrokerDrain, BrokerDrained, FloodTimeout, FloodDone
<1>3. /\ broker' \in {"poll", "drain", "flood", "done"} /\ floodLeft' \subseteq Link
      /\ broker \notin {"off", "done"}
      /\ broker' = "flood" => floodLeft' \subseteq peers
  BY DEF TypeOK, LinksOK, BrokerLocal, BrokerPoll, BrokerDrain, BrokerDrained, FloodPush, FloodTimeout, FloodDone
<1>4. TypeOK'
  BY <1>0, <1>1, <1>2, <1>3 DEF TypeOK
<1>5. LinksOK'
  BY <1>0, <1>3 DEF LinksOK, Alive
<1>6. ShutdownOK'
  BY <1>0, <1>3 DEF ShutdownOK
<1>7. QED
  BY <1>0, <1>4, <1>5, <1>6 DEF DiscoveryOK

(* A link that is entered into m_peers, by either thread. *)
LEMMA AddPeerLemma ==
  ASSUME LinkAssumption, TypeOK, LinksOK, NEW l \in Link, addPeer(l)
  PROVE  /\ peers' = peers \cup {l}
         /\ worker' \in [Link -> {"none", "recv", "push", "send", "done"}]
         /\ workerOn' \in [Link -> BOOLEAN] /\ outbound' \in [Link -> 0..OutMax]
         /\ \A k \in peers' : Alive(k)' /\ workerOn'[k]
         /\ \A k \in Link : Alive(k)' => Alive(k) \/ k = l
<1>1. CASE l \in peers
  BY <1>1 DEF addPeer, TypeOK, LinksOK, Alive, workerVars
<1>2. CASE l \notin peers
  <2>1. 0 \in 0..OutMax
    BY DEF LinkAssumption
  <2>2. QED
    <3>1. /\ peers' = peers \cup {l}
          /\ worker' = [worker EXCEPT ![l] = "recv"]
          /\ workerOn' = [workerOn EXCEPT ![l] = TRUE]
          /\ outbound' = [outbound EXCEPT ![l] = 0]
      BY <1>2 DEF addPeer
    <3>2. outbound' \in [Link -> 0..OutMax]
      BY <2>1, <3>1 DEF TypeOK
    <3>3. /\ worker' \in [Link -> {"none", "recv", "push", "send", "done"}]
          /\ workerOn' \in [Link -> BOOLEAN]
      BY <3>1 DEF TypeOK
    <3>4. \A k \in Link : /\ worker'[k] = IF k = l THEN "recv" ELSE worker[k]
                         /\ workerOn'[k] = IF k = l THEN TRUE ELSE workerOn[k]
      BY <3>1 DEF TypeOK
    <3>5. peers \subseteq Link
      BY DEF TypeOK
    <3>6. \A k \in peers' : Alive(k)' /\ workerOn'[k]
      BY <3>1, <3>4, <3>5 DEF LinksOK, Alive
    <3>7. \A k \in Link : Alive(k)' => Alive(k) \/ k = l
      BY <3>4 DEF Alive
    <3>8. QED
      BY <3>1, <3>2, <3>3, <3>6, <3>7
<1>3. QED
  BY <1>1, <1>2

DiscoveryStep ==
  \/ Dial \/ ExpireStale \/ JoinLost \/ DropsDone \/ DiscoveryExit
  \/ \E l \in DiscoveredLink : OnDatagram(l) \/ RemovePeer(l)

LEMMA DiscoveryLemma ==
  ASSUME LinkAssumption, Inv, DiscoveryStep PROVE Inv'
<1> USE DEF Inv, Link, ownerVars, brokerVars, discoveryVars, queueVars
<1>1. CASE Dial
  <2>1. PICK l \in DiscoveredLink : subject = {l}
    BY <1>1 DEF DiscoveryOK, Dial
  <2>2. addPeer(l) /\ l \in Link
    BY <1>1, <2>1 DEF Dial
  <2>3. /\ peers' = peers \cup {l}
        /\ worker' \in [Link -> {"none", "recv", "push", "send", "done"}]
        /\ workerOn' \in [Link -> BOOLEAN] /\ outbound' \in [Link -> 0..OutMax]
        /\ \A k \in peers' : Alive(k)' /\ workerOn'[k]
        /\ \A k \in Link : Alive(k)' => Alive(k) \/ k = l
    BY <2>2, AddPeerLemma
  <2>4. TypeOK'
    BY <1>1, <2>1, <2>3 DEF TypeOK, Dial
  <2>5. LinksOK'
    BY <1>1, <2>1, <2>3 DEF LinksOK, Dial, MutexFree
  <2>6. ShutdownOK'
    BY <1>1 DEF ShutdownOK, Dial
  <2>7. DiscoveryOK'
    BY <1>1, <2>1, <2>3 DEF DiscoveryOK, Dial
  <2>8. QED
    BY <2>4, <2>5, <2>6, <2>7
<1>2. CASE ExpireStale
  BY <1>2 DEF ExpireStale, TypeOK, LinksOK, ShutdownOK, DiscoveryOK, Alive, workerVars
<1>3. CASE JoinLost
  BY <1>3 DEF JoinLost, TypeOK, LinksOK, ShutdownOK, DiscoveryOK, Alive, workerVars
<1>4. CASE DropsDone
  BY <1>4 DEF DropsDone, TypeOK, LinksOK, ShutdownOK, DiscoveryOK, Alive, workerVars
<1>5. CASE DiscoveryExit
  BY <1>5 DEF DiscoveryExit, TypeOK, LinksOK, ShutdownOK, DiscoveryOK, Alive, workerVars
<1>6. ASSUME NEW l \in DiscoveredLink, OnDatagram(l) PROVE Inv'
  BY <1>6 DEF OnDatagram, TypeOK, LinksOK, ShutdownOK, DiscoveryOK, Alive, workerVars
<1>7. ASSUME NEW l \in DiscoveredLink, RemovePeer(l) PROVE Inv'
  <2>1. l \in peers
    BY <1>7 DEF RemovePeer, DiscoveryOK
  <2>2. TypeOK'
    BY <1>7, <2>1 DEF RemovePeer, TypeOK
  <2>3. LinksOK'
    BY <1>7, <2>1 DEF RemovePeer, TypeOK, LinksOK, Alive, MutexFree
  <2>4. ShutdownOK'
    BY <1>7, <2>1 DEF RemovePeer, ShutdownOK
  <2>5. DiscoveryOK'
    BY <1>7, <2>1 DEF RemovePeer, DiscoveryOK, TypeOK
  <2>6. QED
    BY <2>2, <2>3, <2>4, <2>5
<1>8. QED
  BY <1>1, <1>2, <1>3, <1>4, <1>5, <1>6, <1>7 DEF DiscoveryStep

OwnerStep == Start \/ Stop \/ StopStep \/ \E l \in ManualLink : ConnectToPeer(l)

LEMMA OwnerLemma ==
  ASSUME LinkAssumption, Inv, OwnerStep PROVE Inv'
<1> USE DEF Inv, Link, ownerVars, brokerVars, discoveryVars, queueVars
<1>1. CASE Start
  BY <1>1 DEF Start, TypeOK, LinksOK, ShutdownOK, DiscoveryOK, Alive, workerVars
<1>2. CASE Stop
  <2>1. TypeOK'
    BY <1>2 DEF Stop, TypeOK, workerVars
  <2>2. LinksOK' /\ DiscoveryOK'
    BY <1>2 DEF Stop, LinksOK, DiscoveryOK, Alive, workerVars
  <2>3. ShutdownOK'
    BY <1>2 DEF Stop, TypeOK, ShutdownOK, workerVars
  <2>4. QED
    BY <2>1, <2>2, <2>3
<1>3. CASE JoinDiscovery \/ StopQueue \/ JoinBroker \/ StopReturn
  <2>1. /\ UNCHANGED <<running, inbound, peers, closing, broker, floodLeft, discovery, discoveryOn, dialed,
                       lost, subject, worker, workerOn, outbound>>
        /\ inboundStopped' \in BOOLEAN
    BY <1>3 DEF JoinDiscovery, StopQueue, JoinBroker, StopReturn, TypeOK, workerVars
  <2>2. TypeOK'
    BY <1>3, <2>1 DEF JoinDiscovery, StopQueue, JoinBroker, StopReturn, TypeOK
  <2>3. LinksOK' /\ DiscoveryOK'
    BY <2>1 DEF LinksOK, DiscoveryOK, Alive
  <2>4. ShutdownOK'
    BY <1>3, <2>1 DEF JoinDiscovery, StopQueue, JoinBroker, StopReturn, ShutdownOK
  <2>5. QED
    BY <2>2, <2>3, <2>4
<1>4. CASE SwapPeers
  BY <1>4 DEF SwapPeers, TypeOK, LinksOK, ShutdownOK, DiscoveryOK, Alive, workerVars
<1>5. ASSUME NEW l \in Link, StopPeer(l) PROVE Inv'
  BY <1>5 DEF StopPeer, TypeOK, LinksOK, ShutdownOK, DiscoveryOK, Alive
<1>6. ASSUME NEW l \in Link, JoinPeer(l) PROVE Inv'
  BY <1>6 DEF JoinPeer, TypeOK, LinksOK, ShutdownOK, DiscoveryOK, Alive, workerVars
<1>7. ASSUME NEW l \in ManualLink, ConnectToPeer(l) PROVE Inv'
  <2>1. addPeer(l) /\ l \in Link /\ l \notin DiscoveredLink
    BY <1>7 DEF ConnectToPeer, LinkAssumption
  <2>2. /\ peers' = peers \cup {l}
        /\ worker' \in [Link -> {"none", "recv", "push", "send", "done"}]
        /\ workerOn' \in [Link -> BOOLEAN] /\ outbound' \in [Link -> 0..OutMax]
        /\ \A k \in peers' : Alive(k)' /\ workerOn'[k]
        /\ \A k \in Link : Alive(k)' => Alive(k) \/ k = l
    BY <2>1, AddPeerLemma
  <2>3. TypeOK'
    BY <1>7, <2>2 DEF TypeOK, ConnectToPeer
  <2>4. LinksOK'
    BY <1>7, <2>2 DEF LinksOK, ConnectToPeer, MutexFree
  <2>5. ShutdownOK'
    BY <1>7 DEF ShutdownOK, ConnectToPeer
  <2>6. DiscoveryOK'
    BY <1>7, <2>1, <2>2 DEF DiscoveryOK, ConnectToPeer
  <2>7. QED
    BY <2>3, <2>4, <2>5, <2>6
<1>8. QED
  BY <1>1, <1>2, <1>3, <1>4, <1>5, <1>6, <1>7 DEF OwnerStep, StopStep

-----------------------------------------------------------------------------
(* Every reachable state accounts for every worker thread. *)
THEOREM LinksInvariant == Spec => []Inv
<1>1. LinkAssumption /\ Init => Inv
  BY InitLemma
<1>2. LinkAssumption /\ Inv /\ [Next]_vars => Inv'
  <2> SUFFICES ASSUME LinkAssumption, Inv, [Next]_vars PROVE Inv'
    OBVIOUS
  <2>1. CASE UNCHANGED vars
    BY <2>1 DEF vars, Inv, TypeOK, LinksOK, ShutdownOK, DiscoveryOK, Alive, ownerVars, brokerVars,
                discoveryVars, queueVars, workerVars
  <2>2. CASE Next
    BY <2>2, WorkerLemma, BrokerLemma, DiscoveryLemma, OwnerLemma DEF Next, DiscoveryStep, OwnerStep
  <2>3. QED
    BY <2>1, <2>2
<1>3. QED
  BY <1>1, <1>2, LinkAssumption, PTL DEF Spec

(* The flood only pushes to links that are linked and running. *)
THEOREM FloodIsSafe == Spec => []FloodTargetsAlive
<1>1. Inv => FloodTargetsAlive
  BY DEF Inv, LinksOK, FloodTargetsAlive
<1>2. QED
  BY <1>1, LinksInvariant, PTL

(* m_dialed and m_peers agree on the discovered links. *)
THEOREM DiscoveryAgrees == Spec => []DialedAreLinked
<1>1. Inv => DialedAreLinked
  BY DEF Inv, DiscoveryOK, DialedAreLinked
<1>2. QED
  BY <1>1, LinksInvariant, PTL

(* A stop() that returns leaves no thread behind. *)
THEOREM StopIsComplete == Spec => []StoppedMeansQuiet
<1>1. Inv => StoppedMeansQuiet
  BY DEF Inv, LinksOK, ShutdownOK, StoppedMeansQuiet
<1>2. QED
  BY <1>1, LinksInvariant, PTL

(* Types, and the bounds of both queues. *)
THEOREM LinksTypes == Spec => []TypeOK
<1>1. Inv => TypeOK
  BY DEF Inv
<1>2. QED
  BY <1>1, LinksInvariant, PTL

=============================================================================
