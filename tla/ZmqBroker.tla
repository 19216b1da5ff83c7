----------------------------- MODULE ZmqBroker -----------------------------
(***************************************************************************)
(* server/zmqbroker.cpp: the broker thread.  One iteration of run() polls  *)
(* for one local message, drains the peers' queue, removes the clients     *)
(* that went silent and broadcasts statistics; phase says where in the     *)
(* iteration the thread is.  All of this state is owned by that thread     *)
(* (zmqbroker.h:64-66), so a step of the loop is one action.               *)
(*                                                                         *)
(* clients is m_clients, a client's value the ticks since its lastSeen;    *)
(* seen and order are m_seenMessageIds and m_messageIdOrder; sent is what  *)
(* the last step passed to sendToClient, as copies per client.  Ages stop  *)
(* counting one tick past the limit they are compared with.                *)
(*                                                                         *)
(* Payloads, the inspector tap and the counters of the statistics are left *)
(* out.  A uuid stamped by this broker and one that a link brought along   *)
(* are both just some uuid here: any may arrive at any time, again or for  *)
(* the first time.  The flood to the peers' links is in PeerLinks.         *)
(***************************************************************************)
EXTENDS SubscriptionRegistry, FiniteSets

CONSTANTS Wildcard, StatsTopic,   \* "" and Keys::SYS_STATS
          Uuid,                   \* message uuids
          ClientTimeout, CleanupInterval, StatsInterval,   \* in ticks
          MaxHistory              \* MaxHistorySize

ASSUME BrokerAssumption ==
  /\ {Wildcard, StatsTopic} \subseteq Topic
  /\ {ClientTimeout, CleanupInterval, StatsInterval, MaxHistory} \subseteq Nat
  /\ "PEER" \notin Client

VARIABLES clients, seen, order, sent, phase,
          sweep,          \* the clients the cleanup loop has yet to visit
          sinceCleanup,   \* ticks since lastCleanup
          sinceStats,     \* ticks since m_lastStatsTime
          since           \* auxiliary: messages routed since this uuid was, up to MaxHistory

histVars == <<seen, order, since>>
loopVars == <<sweep, sinceCleanup, sinceStats>>
vars == <<regVars, clients, histVars, sent, phase, loopVars>>

-----------------------------------------------------------------------------
Least(m, n) == IF m < n THEN m ELSE n

Once(S) == [c \in Client |-> IF c \in S THEN 1 ELSE 0]
Sent(kind, to) == [kind |-> kind, to |-> to]
Nothing == Sent("none", Once({}))

Occurrences(s, c) == Cardinality({i \in DOMAIN s : s[i] = c})

DeliverWithoutSkip(t, from) ==
  [c \in Client |->
     IF c = from \/ c \notin DOMAIN clients THEN 0
     ELSE Occurrences(subscribersOf(t), c)
          + (IF t = Wildcard THEN 0 ELSE Occurrences(subscribersOf(Wildcard), c))]

(* The copies the two delivery loops hand to each client: the wildcard     *)
(* loop skips whoever the exact loop met, and is not run for the topic "". *)
Deliver(t, from) ==
  [c \in Client |->
     IF c = from \/ c \notin DOMAIN clients THEN 0
     ELSE IF t = Wildcard \/ c \in Range(subscribersOf(t))
          THEN Occurrences(subscribersOf(t), c)
          ELSE Occurrences(subscribersOf(Wildcard), c)]

(* The second half of isDuplicate: remember, and evict when over the limit. *)
Remember(u) ==
  LET o == Append(order, u)
      full == Len(o) > MaxHistory
  IN  /\ order' = IF full THEN Tail(o) ELSE o
      /\ seen' = (seen \cup {u}) \ (IF full THEN {Head(o)} ELSE {})
      /\ since' = [v \in Uuid |-> IF v = u THEN 0 ELSE Least(since[v] + 1, MaxHistory)]

RouteAlways(from, t, u) ==
  /\ Remember(u)
  /\ sent' = Sent("DATA", Deliver(t, from))

(* The tail of processMessage: a uuid in the window is dropped, any other  *)
(* is remembered and delivered.                                            *)
Route(from, t, u) ==
  \/ /\ u \in seen
     /\ sent' = Nothing
     /\ UNCHANGED histVars
  \/ /\ u \notin seen
     /\ Remember(u)
     /\ sent' = Sent("DATA", Deliver(t, from))

(* ZmqBroker::removeClient *)
brokerRemoveClient(c) ==
  /\ removeClient(c)
  /\ clients' = Erase(clients, c)

-----------------------------------------------------------------------------
(* processMessage for a message of local client c, one action per key.     *)
Disconnect(c) ==
  /\ brokerRemoveClient(c)
  /\ sent' = Nothing
  /\ UNCHANGED histVars

Touch(c) == clients' = Put(clients, c, 0)   \* lastSeen = now

(* Any other first message registers the client and is swallowed. *)
NewClient(c) ==
  /\ c \notin DOMAIN clients
  /\ Touch(c)
  /\ sent' = Sent("RESET", Once({c}))
  /\ UNCHANGED <<regVars, histVars>>

Connect(c) ==
  /\ c \in DOMAIN clients
  /\ Touch(c)
  /\ sent' = Nothing
  /\ UNCHANGED <<regVars, histVars>>

Heartbeat(c) ==
  /\ c \in DOMAIN clients
  /\ Touch(c)
  /\ sent' = Sent("HEARTBEAT_ACK", Once({c}))
  /\ UNCHANGED <<regVars, histVars>>

Subscribe(c, t) ==
  /\ c \in DOMAIN clients
  /\ Touch(c)
  /\ subscribe(c, t)
  /\ sent' = Nothing
  /\ UNCHANGED histVars

Unsubscribe(c, t) ==
  /\ c \in DOMAIN clients
  /\ Touch(c)
  /\ unsubscribe(c, t)
  /\ sent' = Nothing
  /\ UNCHANGED histVars

(* Every other key is data, RESET and HEARTBEAT_ACK from a client included. *)
Publish(c, t, u) ==
  /\ c \in DOMAIN clients
  /\ Touch(c)
  /\ Route(c, t, u)
  /\ UNCHANGED regVars

-----------------------------------------------------------------------------
(* The loop of run().  A poll that times out, or a message wire::recv      *)
(* cannot parse, goes on to the peers' queue as well.                      *)
PollLocal ==
  /\ phase = "poll" /\ phase' = "drain"
  /\ \/ \E c \in Client :
          \/ Disconnect(c) \/ NewClient(c) \/ Connect(c) \/ Heartbeat(c)
          \/ \E t \in Topic : \/ Subscribe(c, t) \/ Unsubscribe(c, t)
                              \/ \E u \in Uuid : Publish(c, t, u)
     \/ sent' = Nothing /\ UNCHANGED <<regVars, clients, histVars>>
  /\ UNCHANGED loopVars

(* A single-part message is dropped with continue: the rest of the         *)
(* iteration is skipped.                                                   *)
PollSinglePart ==
  /\ phase = "poll"
  /\ sent' = Nothing
  /\ UNCHANGED <<regVars, clients, histVars, phase, loopVars>>

(* Messages from the peers' queue, until it is empty; RESET, HEARTBEAT and *)
(* HEARTBEAT_ACK from a peer are ignored, everything else is routed.       *)
DrainPeer ==
  /\ phase = "drain"
  /\ \/ \E t \in Topic, u \in Uuid : Route("PEER", t, u)
     \/ sent' = Nothing /\ UNCHANGED histVars
  /\ UNCHANGED <<regVars, clients, phase, loopVars>>

DrainDone ==
  /\ phase = "drain" /\ phase' = "cleanup"
  /\ sent' = Nothing
  /\ UNCHANGED <<regVars, clients, histVars, loopVars>>

CleanupSkipResets ==
  /\ phase = "cleanup" /\ phase' = "stats"
  /\ sinceCleanup <= CleanupInterval
  /\ sinceCleanup' = 0
  /\ sent' = Nothing
  /\ UNCHANGED <<regVars, clients, histVars, sweep, sinceStats>>

CleanupSkip ==
  /\ phase = "cleanup" /\ phase' = "stats"
  /\ sinceCleanup <= CleanupInterval
  /\ sent' = Nothing
  /\ UNCHANGED <<regVars, clients, histVars, loopVars>>

CleanupBegin ==
  /\ phase = "cleanup" /\ phase' = "sweep"
  /\ sinceCleanup > CleanupInterval
  /\ sweep' = DOMAIN clients
  /\ sent' = Nothing
  /\ UNCHANGED <<regVars, clients, histVars, sinceCleanup, sinceStats>>

SweepEager(c) ==
  /\ phase = "sweep" /\ c \in sweep
  /\ sweep' = sweep \ {c}
  /\ IF clients[c] >= ClientTimeout THEN brokerRemoveClient(c) ELSE UNCHANGED <<regVars, clients>>
  /\ sent' = Nothing
  /\ UNCHANGED <<histVars, phase, sinceCleanup, sinceStats>>

(* The loop over m_clients, in the order of the hash map: any.             *)
Sweep(c) ==
  /\ phase = "sweep" /\ c \in sweep
  /\ sweep' = sweep \ {c}
  /\ IF clients[c] > ClientTimeout THEN brokerRemoveClient(c) ELSE UNCHANGED <<regVars, clients>>
  /\ sent' = Nothing
  /\ UNCHANGED <<histVars, phase, sinceCleanup, sinceStats>>

CleanupEnd ==
  /\ phase = "sweep" /\ sweep = {} /\ phase' = "stats"
  /\ sinceCleanup' = 0
  /\ sent' = Nothing
  /\ UNCHANGED <<regVars, clients, histVars, sweep, sinceStats>>

StatsSkip ==
  /\ phase = "stats" /\ phase' = "poll"
  /\ sinceStats <= StatsInterval
  /\ sent' = Nothing
  /\ UNCHANGED <<regVars, clients, histVars, loopVars>>

(* The only delivery that does not check m_clients.                        *)
broadcastStats ==
  /\ phase = "stats" /\ phase' = "poll"
  /\ sinceStats > StatsInterval
  /\ sent' = Sent("SYS_STATS", [c \in Client |-> Occurrences(subscribersOf(StatsTopic), c)])
  /\ sinceStats' = 0
  /\ UNCHANGED <<regVars, clients, histVars, sweep, sinceCleanup>>

(* Time passes while the thread polls or handles messages; from the        *)
(* reading of now to the end of the iteration takes less than a tick.      *)
Tick ==
  /\ phase \in {"poll", "drain"}
  /\ clients' = [c \in DOMAIN clients |-> Least(clients[c] + 1, ClientTimeout + 1)]
  /\ sinceCleanup' = Least(sinceCleanup + 1, CleanupInterval + 1)
  /\ sinceStats' = Least(sinceStats + 1, StatsInterval + 1)
  /\ UNCHANGED <<regVars, histVars, sent, phase, sweep>>

-----------------------------------------------------------------------------
Init ==
  /\ RegInit
  /\ clients = <<>>
  /\ seen = {} /\ order = <<>> /\ since = [u \in Uuid |-> MaxHistory]
  /\ sent = Nothing
  /\ phase = "poll"
  /\ sweep = {} /\ sinceCleanup = 0 /\ sinceStats = 0

Loop ==
  \/ PollLocal \/ DrainDone \/ CleanupSkip \/ CleanupBegin
  \/ \E c \in Client : Sweep(c)
  \/ CleanupEnd \/ StatsSkip \/ broadcastStats

Next == Loop \/ PollSinglePart \/ DrainPeer \/ Tick

Spec == Init /\ [][Next]_vars

(* The thread keeps iterating and the clock keeps ticking; the clock is    *)
(* strongly fair because it stands still in some phases of the model.  The *)
(* peers let the drain loop end, and single-part messages do not arrive so *)
(* fast that every poll meets one.                                         *)
FairSpec == Spec /\ WF_vars(Loop) /\ SF_vars(Tick)

-----------------------------------------------------------------------------
TypeOK ==
  /\ RegTypeOK
  /\ DOMAIN clients \subseteq Client
  /\ \A c \in DOMAIN clients : clients[c] \in 0..(ClientTimeout + 1)
  /\ seen \subseteq Uuid /\ order \in Seq(Uuid) /\ Len(order) <= MaxHistory
  /\ since \in [Uuid -> 0..MaxHistory]
  /\ sent \in [kind : {"none", "RESET", "HEARTBEAT_ACK", "DATA", "SYS_STATS"}, to : [Client -> Nat]]
  /\ phase \in {"poll", "drain", "cleanup", "sweep", "stats"}
  /\ sweep \subseteq DOMAIN clients
  /\ sinceCleanup \in 0..(CleanupInterval + 1)
  /\ sinceStats \in 0..(StatsInterval + 1)

(* Only clients in m_clients have subscriptions: registration precedes the *)
(* first SUBSCRIBE and removeClient clears both sides, whether a client    *)
(* leaves by DISCONNECT or by timeout.  deliver's check of m_clients never *)
(* fails because of it, and broadcastStats, which does not check, sends to *)
(* nobody who has gone.                                                    *)
SubscribersKnown == DOMAIN clientTopics \subseteq DOMAIN clients

(* Loop protection: the uuids isDuplicate recognises are exactly those of  *)
(* the last MaxHistorySize messages routed.  A message can come round the  *)
(* mesh again and be routed twice only after that many others.             *)
DedupWindow == \A u \in Uuid : u \in seen <=> since[u] < MaxHistory

(* m_clients loses a client only to its own DISCONNECT or to the cleanup   *)
(* loop, and to the latter only after ClientTimeout without a message.     *)
OnlyLeaversAndZombies ==
  [][\A c \in DOMAIN clients :
       c \notin DOMAIN clients' => clients[c] > ClientTimeout \/ (phase = "poll" /\ Disconnect(c))]_vars

(* A client that stays silent is removed in the end, however much traffic  *)
(* the others cause.                                                       *)
SilentClientsExpire ==
  \A c \in Client :
    (c \in DOMAIN clients /\ clients[c] > 0) ~> (c \notin DOMAIN clients \/ clients[c] = 0)

(* The broker implements PubSub: with the vectors, the two delivery loops, *)
(* the uuid window and the cleanup loop, every routed message still goes   *)
(* once to each known client with a matching subscription, never back to   *)
(* its local sender, and to nobody else.                                   *)
Subscriptions == {p \in Client \X Topic : p[2] \in subscriptionsOf(p[1])}
Abstract == INSTANCE PubSub WITH known <- DOMAIN clients, subs <- Subscriptions
ImplementsPubSub == Abstract!Spec

=============================================================================
