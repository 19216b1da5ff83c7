----------------------------- MODULE PeerLinks -----------------------------
(***************************************************************************)
(* The threads around a broker's peer links, and how stop() takes them     *)
(* down: the thread that owns the ZmqBroker, the broker thread (run()),    *)
(* the discovery thread, and one worker thread per link.  They meet in     *)
(* m_peersMutex, in the bounded m_peerInboundQueue (workers push without a *)
(* timeout, the broker thread drains), in each link's bounded outbound     *)
(* queue (the broker thread pushes with a timeout, the worker drains) and  *)
(* in the joins.                                                           *)
(*                                                                         *)
(* Messages are counted, not told apart.  A SafeQueue push that has to     *)
(* wait is an action that is not enabled; SafeQueue!NoLostWakeup is why    *)
(* that is sound.  m_peersMutex is held across steps only by the flood;    *)
(* the other critical sections are single actions.                         *)
(***************************************************************************)
EXTENDS Integers, FiniteSets

CONSTANTS ManualLink,       \* links made by connectToPeer (keyed by address)
          DiscoveredLink,   \* links the discovery thread dials (keyed by uuid)
          QueueMax,         \* capacity of m_peerInboundQueue
          OutMax            \* capacity of a worker's m_outboundQueue

Link == ManualLink \cup DiscoveredLink

ASSUME LinkAssumption ==
  /\ ManualLink \cap DiscoveredLink = {}
  /\ QueueMax \in Nat \ {0}
  /\ OutMax \in Nat \ {0}

VARIABLES
  running,        \* ZmqBroker::m_running
  inbound,        \* m_peerInboundQueue.size()
  inboundStopped, \* m_peerInboundQueue's m_stop
  peers,          \* the keys of m_peers
  owner,          \* where the owning thread is
  closing,        \* the workers stop() has taken out of m_peers
  broker,         \* where the broker thread is
  floodLeft,      \* the links the flood has yet to push to
  discovery,      \* where the discovery thread is
  discoveryOn,    \* BrokerDiscovery::m_running
  dialed,         \* the keys of BrokerDiscovery::m_dialed
  lost,           \* expireStale's local vector
  subject,        \* the uuid it is about to dial, or whose worker it joins
  worker,         \* where each link's worker thread is
  workerOn,       \* ZmqWorker::m_running
  outbound        \* m_outboundQueue.size()

ownerVars == <<owner, closing>>
brokerVars == <<broker, floodLeft>>
discoveryVars == <<discovery, discoveryOn, dialed, lost, subject>>
workerVars == <<worker, workerOn, outbound>>
queueVars == <<inbound, inboundStopped>>
vars == <<running, queueVars, peers, ownerVars, brokerVars, discoveryVars, workerVars>>

Alive(l) == worker[l] \in {"recv", "push", "send"}
MutexFree == broker # "flood"

-----------------------------------------------------------------------------
(* A worker thread: ZmqWorker::run with the callback that addPeer installs.*)

(* One poll without a message, or with a RESET or a HEARTBEAT_ACK, none of *)
(* which reaches the inbound queue.                                        *)
WorkerPoll(l) ==
  /\ worker[l] = "recv" /\ workerOn[l]
  /\ worker' = [worker EXCEPT ![l] = "send"]
  /\ UNCHANGED <<running, queueVars, peers, ownerVars, brokerVars, discoveryVars, workerOn, outbound>>

WorkerRecv(l) ==
  /\ worker[l] = "recv" /\ workerOn[l]
  /\ worker' = [worker EXCEPT ![l] = "push"]
  /\ UNCHANGED <<running, queueVars, peers, ownerVars, brokerVars, discoveryVars, workerOn, outbound>>

(* m_peerInboundQueue.push: waits for room, gives up when stopped.         *)
WorkerPush(l) ==
  /\ worker[l] = "push"
  /\ inboundStopped \/ inbound < QueueMax
  /\ inbound' = IF inboundStopped THEN inbound ELSE inbound + 1
  /\ worker' = [worker EXCEPT ![l] = "send"]
  /\ UNCHANGED <<running, inboundStopped, peers, ownerVars, brokerVars, discoveryVars, workerOn, outbound>>

(* One turn of the drain; the send itself never blocks (dontwait).         *)
WorkerSend(l) ==
  /\ worker[l] = "send"
  /\ IF outbound[l] > 0
     THEN outbound' = [outbound EXCEPT ![l] = @ - 1] /\ UNCHANGED worker
     ELSE worker' = [worker EXCEPT ![l] = "recv"] /\ UNCHANGED outbound
  /\ UNCHANGED <<running, queueVars, peers, ownerVars, brokerVars, discoveryVars, workerOn>>

WorkerExit(l) ==
  /\ worker[l] = "recv" /\ ~workerOn[l]
  /\ worker' = [worker EXCEPT ![l] = "done"]
  /\ UNCHANGED <<running, queueVars, peers, ownerVars, brokerVars, discoveryVars, workerOn, outbound>>

WorkerStep(l) == WorkerPoll(l) \/ WorkerPush(l) \/ WorkerSend(l) \/ WorkerExit(l)

-----------------------------------------------------------------------------
(* The broker thread.                                                      *)

BrokerPoll ==
  /\ broker = "poll"
  /\ broker' = IF running THEN "drain" ELSE "done"
  /\ UNCHANGED <<running, queueVars, peers, ownerVars, floodLeft, discoveryVars, workerVars>>

(* A local client's message that has to be flooded; handled before the drain. *)
BrokerLocal ==
  /\ broker = "poll" /\ running
  /\ broker' = "flood"
  /\ floodLeft' = peers
  /\ UNCHANGED <<running, queueVars, peers, ownerVars, discoveryVars, workerVars>>

(* A peer's message: a duplicate is dropped, anything else is flooded.     *)
BrokerDrain ==
  /\ broker = "drain" /\ inbound > 0
  /\ inbound' = inbound - 1
  /\ \/ UNCHANGED brokerVars
     \/ broker' = "flood" /\ floodLeft' = peers
  /\ UNCHANGED <<running, inboundStopped, peers, ownerVars, discoveryVars, workerVars>>

BrokerDrained ==
  /\ broker = "drain" /\ inbound = 0
  /\ broker' = "poll"
  /\ UNCHANGED <<running, queueVars, peers, ownerVars, floodLeft, discoveryVars, workerVars>>

(* peer->writeMessage on the next link, under m_peersMutex.                *)
FloodPush(l) ==
  /\ broker = "flood" /\ l \in floodLeft
  /\ outbound[l] < OutMax
  /\ outbound' = [outbound EXCEPT ![l] = @ + 1]
  /\ floodLeft' = floodLeft \ {l}
  /\ UNCHANGED <<running, queueVars, peers, ownerVars, broker, discoveryVars, worker, workerOn>>

FloodTimeoutRetries(l) == broker = "flood" /\ l \in floodLeft /\ outbound[l] >= OutMax /\ UNCHANGED vars

(* The 100 ms of writeMessage are over: the message is dropped.            *)
FloodTimeout(l) ==
  /\ broker = "flood" /\ l \in floodLeft
  /\ outbound[l] >= OutMax
  /\ floodLeft' = floodLeft \ {l}
  /\ UNCHANGED <<running, queueVars, peers, ownerVars, broker, discoveryVars, workerVars>>

(* processMessage returns, to the poll or to the drain loop: in either     *)
(* case the drain loop is what runs next.                                  *)
FloodDone ==
  /\ broker = "flood" /\ floodLeft = {}
  /\ broker' = "drain"
  /\ UNCHANGED <<running, queueVars, peers, ownerVars, floodLeft, discoveryVars, workerVars>>

BrokerStep ==
  \/ BrokerPoll \/ BrokerDrain \/ BrokerDrained \/ FloodDone
  \/ \E l \in Link : FloodPush(l) \/ FloodTimeout(l)

-----------------------------------------------------------------------------
(* addPeer's critical section: nothing happens if the key is linked,       *)
(* otherwise a fresh worker is started and entered.                        *)
addPeer(l) ==
  IF l \in peers THEN UNCHANGED <<peers, workerVars>>
  ELSE /\ peers' = peers \cup {l}
       /\ worker' = [worker EXCEPT ![l] = "recv"]
       /\ workerOn' = [workerOn EXCEPT ![l] = TRUE]
       /\ outbound' = [outbound EXCEPT ![l] = 0]

(* The discovery thread.                                                   *)

(* A beacon of a peer we are to dial; from a known one it only refreshes   *)
(* lastSeen.                                                               *)
OnDatagram(l) ==
  /\ discovery = "loop" /\ discoveryOn
  /\ l \notin dialed
  /\ dialed' = dialed \cup {l}
  /\ subject' = {l}
  /\ discovery' = "dial"
  /\ UNCHANGED <<running, queueVars, peers, ownerVars, brokerVars, discoveryOn, lost, workerVars>>

Dial ==
  /\ discovery = "dial" /\ MutexFree
  /\ \A l \in subject : addPeer(l)
  /\ subject' = {}
  /\ discovery' = "loop"
  /\ UNCHANGED <<running, queueVars, ownerVars, brokerVars, discoveryOn, dialed, lost>>

ExpireStaleKeeps ==
  /\ discovery = "loop" /\ discoveryOn
  /\ \E stale \in SUBSET dialed \ {{}} : lost' = stale
  /\ discovery' = "drop"
  /\ UNCHANGED <<running, queueVars, peers, ownerVars, brokerVars, discoveryOn, dialed, subject, workerVars>>

(* Any links may have been silent for longer than the peer timeout.        *)
ExpireStale ==
  /\ discovery = "loop" /\ discoveryOn
  /\ \E stale \in SUBSET dialed \ {{}} :
       /\ lost' = stale
       /\ dialed' = dialed \ stale
  /\ discovery' = "drop"
  /\ UNCHANGED <<running, queueVars, peers, ownerVars, brokerVars, discoveryOn, subject, workerVars>>

RemovePeerUnlocked(l) ==
  /\ discovery = "drop" /\ l \in lost
  /\ lost' = lost \ {l}
  /\ peers' = peers \ {l}
  /\ workerOn' = [workerOn EXCEPT ![l] = FALSE]
  /\ discovery' = "join"
  /\ subject' = {l}
  /\ UNCHANGED <<running, queueVars, ownerVars, brokerVars, discoveryOn, dialed, worker, outbound>>

(* removePeer's critical section; the join comes after it.                 *)
RemovePeer(l) ==
  /\ discovery = "drop" /\ l \in lost /\ MutexFree
  /\ lost' = lost \ {l}
  /\ IF l \in peers
     THEN /\ peers' = peers \ {l}
          /\ workerOn' = [workerOn EXCEPT ![l] = FALSE]
          /\ discovery' = "join"
          /\ subject' = {l}
     ELSE UNCHANGED <<peers, workerOn, discovery, subject>>
  /\ UNCHANGED <<running, queueVars, ownerVars, brokerVars, discoveryOn, dialed, worker, outbound>>

JoinLost ==
  /\ discovery = "join" /\ \A l \in subject : worker[l] = "done"
  /\ discovery' = "drop"
  /\ subject' = {}
  /\ UNCHANGED <<running, queueVars, peers, ownerVars, brokerVars, discoveryOn, dialed, lost, workerVars>>

DropsDone ==
  /\ discovery = "drop" /\ lost = {}
  /\ discovery' = "loop"
  /\ UNCHANGED <<running, queueVars, peers, ownerVars, brokerVars, discoveryOn, dialed, lost, subject, workerVars>>

DiscoveryExit ==
  /\ discovery = "loop" /\ ~discoveryOn
  /\ discovery' = "done"
  /\ UNCHANGED <<running, queueVars, peers, ownerVars, brokerVars, discoveryOn, dialed, lost, subject, workerVars>>

-----------------------------------------------------------------------------
(* The owning thread.                                                      *)

(* With discovery enabled its thread starts too; it ends at once when the  *)
(* UDP socket cannot be opened or bound.                                   *)
Start ==
  /\ owner = "new"
  /\ owner' = "up"
  /\ running' = TRUE
  /\ broker' = "poll"
  /\ IF DiscoveredLink = {} THEN UNCHANGED <<discovery, discoveryOn>>
     ELSE discoveryOn' = TRUE /\ discovery' \in {"loop", "done"}
  /\ UNCHANGED <<queueVars, peers, closing, floodLeft, dialed, lost, subject, workerVars>>

ConnectToPeer(l) ==
  /\ owner \in {"new", "up"} /\ MutexFree
  /\ addPeer(l)
  /\ UNCHANGED <<running, queueVars, ownerVars, brokerVars, discoveryVars>>

(* stop(): from here on the steps of one call, in their order.             *)
Stop ==
  /\ owner \in {"new", "up"}
  /\ running' = FALSE
  /\ discoveryOn' = FALSE
  /\ owner' = "joinDiscovery"
  /\ UNCHANGED <<queueVars, peers, closing, brokerVars, discovery, dialed, lost, subject, workerVars>>

JoinDiscoverySkipped ==
  /\ owner = "joinDiscovery"
  /\ owner' = "stopQueue"
  /\ UNCHANGED <<running, queueVars, peers, closing, brokerVars, discoveryVars, workerVars>>

JoinDiscovery ==
  /\ owner = "joinDiscovery" /\ discovery \in {"off", "done"}
  /\ owner' = "stopQueue"
  /\ UNCHANGED <<running, queueVars, peers, closing, brokerVars, discoveryVars, workerVars>>

StopQueueSkipped ==
  /\ owner = "stopQueue"
  /\ owner' = "joinBroker"
  /\ UNCHANGED <<running, queueVars, peers, closing, brokerVars, discoveryVars, workerVars>>

StopQueue ==
  /\ owner = "stopQueue"
  /\ inboundStopped' = TRUE
  /\ owner' = "joinBroker"
  /\ UNCHANGED <<running, inbound, peers, closing, brokerVars, discoveryVars, workerVars>>

JoinBroker ==
  /\ owner = "joinBroker" /\ broker \in {"off", "done"}
  /\ owner' = "swapPeers"
  /\ UNCHANGED <<running, queueVars, peers, closing, brokerVars, discoveryVars, workerVars>>

SwapPeers ==
  /\ owner = "swapPeers" /\ MutexFree
  /\ closing' = peers
  /\ peers' = {}
  /\ owner' = "joinPeers"
  /\ UNCHANGED <<running, queueVars, brokerVars, discoveryVars, workerVars>>

(* peer->stop(), one link after the other.                                 *)
StopPeer(l) ==
  /\ owner = "joinPeers" /\ l \in closing
  /\ \A k \in closing : workerOn[k]
  /\ workerOn' = [workerOn EXCEPT ![l] = FALSE]
  /\ UNCHANGED <<running, queueVars, peers, ownerVars, brokerVars, discoveryVars, worker, outbound>>

JoinPeer(l) ==
  /\ owner = "joinPeers" /\ l \in closing
  /\ ~workerOn[l] /\ worker[l] = "done"
  /\ closing' = closing \ {l}
  /\ UNCHANGED <<running, queueVars, peers, owner, brokerVars, discoveryVars, workerVars>>

StopReturn ==
  /\ owner = "joinPeers" /\ closing = {}
  /\ owner' = "stopped"
  /\ UNCHANGED <<running, queueVars, peers, closing, brokerVars, discoveryVars, workerVars>>

StopStep ==
  \/ JoinDiscovery \/ StopQueue \/ JoinBroker \/ SwapPeers \/ StopReturn
  \/ \E l \in Link : StopPeer(l) \/ JoinPeer(l)

-----------------------------------------------------------------------------
Init ==
  /\ running = FALSE
  /\ inbound = 0 /\ inboundStopped = FALSE
  /\ peers = {}
  /\ owner = "new" /\ closing = {}
  /\ broker = "off" /\ floodLeft = {}
  /\ discovery = "off" /\ discoveryOn = FALSE
  /\ dialed = {} /\ lost = {} /\ subject = {}
  /\ worker = [l \in Link |-> "none"]
  /\ workerOn = [l \in Link |-> FALSE]
  /\ outbound = [l \in Link |-> 0]

Next ==
  \/ Start \/ Stop \/ StopStep
  \/ BrokerLocal \/ BrokerStep
  \/ Dial \/ ExpireStale \/ JoinLost \/ DropsDone \/ DiscoveryExit
  \/ \E l \in ManualLink : ConnectToPeer(l)
  \/ \E l \in DiscoveredLink : OnDatagram(l) \/ RemovePeer(l)
  \/ \E l \in Link : WorkerRecv(l) \/ WorkerStep(l)

Spec == Init /\ [][Next]_vars

(* Every thread that can run does, a thread waiting for m_peersMutex gets  *)
(* it if it is free again and again, and the 100 ms of a push pass.  No    *)
(* message or beacon is bound to arrive and nobody is bound to call stop().*)
FairSpec ==
  /\ Spec
  /\ WF_vars(BrokerStep) /\ WF_vars(StopStep)
  /\ WF_vars(JoinLost) /\ WF_vars(DropsDone) /\ WF_vars(DiscoveryExit)
  /\ SF_vars(Dial) /\ \A l \in DiscoveredLink : SF_vars(RemovePeer(l))
  /\ \A l \in Link : WF_vars(WorkerStep(l))

-----------------------------------------------------------------------------
TypeOK ==
  /\ running \in BOOLEAN /\ inboundStopped \in BOOLEAN /\ discoveryOn \in BOOLEAN
  /\ inbound \in 0..QueueMax
  /\ peers \subseteq Link /\ closing \subseteq Link /\ floodLeft \subseteq Link
  /\ dialed \subseteq DiscoveredLink /\ lost \subseteq DiscoveredLink /\ subject \subseteq DiscoveredLink
  /\ owner \in {"new", "up", "joinDiscovery", "stopQueue", "joinBroker", "swapPeers", "joinPeers", "stopped"}
  /\ broker \in {"off", "poll", "drain", "flood", "done"}
  /\ discovery \in {"off", "loop", "dial", "drop", "join", "done"}
  /\ worker \in [Link -> {"none", "recv", "push", "send", "done"}]
  /\ workerOn \in [Link -> BOOLEAN]
  /\ outbound \in [Link -> 0..OutMax]

(* The flood never touches a link that is gone: while the broker thread    *)
(* walks m_peers, every link it has yet to push to is still in the map     *)
(* (the iterator and the ZmqWorker are valid) and its worker has not been  *)
(* told to stop, whatever the discovery thread dials, drops and joins.     *)
FloodTargetsAlive ==
  broker = "flood" => \A l \in floodLeft : l \in peers /\ Alive(l) /\ workerOn[l]

(* The two tables of discovered links, each under a mutex of its own, do   *)
(* not drift apart: whenever the discovery thread is back at its loop, the *)
(* uuids in m_dialed are the ones linked in m_peers.  A uuid kept in       *)
(* m_dialed only would never be dialed again, one kept in m_peers only     *)
(* would never be dropped.                                                 *)
DialedAreLinked ==
  discovery = "loop" => dialed = peers \cap DiscoveredLink

(* When stop() returns, no thread of the broker is left: a link dialed     *)
(* while the shutdown was under way would never be joined, and its worker  *)
(* would push into the queue of a destroyed broker.                        *)
StoppedMeansQuiet ==
  owner = "stopped" =>
    /\ broker \in {"off", "done"} /\ discovery \in {"off", "done"}
    /\ peers = {} /\ \A l \in Link : ~Alive(l)

(* The wait of the broker thread for a worker that waits for the broker    *)
(* thread (full outbound queue, full inbound queue) ends, because          *)
(* writeMessage has a timeout: every flood comes to its end and lets go of *)
(* m_peersMutex.                                                           *)
FloodEnds == broker = "flood" ~> broker # "flood"

(* stop() returns: "Wake any peer worker blocked pushing into the inbound  *)
(* queue; without this, the peer joins below can wait forever"             *)
(* (zmqbroker.cpp:101).                                                    *)
StopReturns == owner = "joinDiscovery" ~> owner = "stopped"

(* The same when stop() does not find the discovery thread inside a drop:  *)
(* with the queue stopped before the peers are joined, the joins of        *)
(* stop() itself end, however full the queues are.                         *)
StopReturnsUnlessDropping ==
  owner = "joinDiscovery" /\ discovery \notin {"drop", "join"} ~> owner = "stopped"

=============================================================================
