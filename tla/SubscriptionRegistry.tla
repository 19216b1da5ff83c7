------------------------ MODULE SubscriptionRegistry ------------------------
(***************************************************************************)
(* server/subscriptionregistry.h: the two maps in which the broker keeps   *)
(* who subscribes to what.                                                 *)
(*                                                                         *)
(* clientTopics is m_clientTopics (client -> std::set of topics) and       *)
(* topicSubscribers is m_topicSubscribers (topic -> std::vector of         *)
(* clients).  Both are functions whose domain is the set of keys present,  *)
(* so an entry that exists but is empty is told apart from one that does   *)
(* not exist.  The vector is a sequence: it can hold a client twice, and   *)
(* dropSubscriber moves its last element into the hole it makes.           *)
(*                                                                         *)
(* The three modifying methods are the actions subscribe, unsubscribe and  *)
(* removeClient, which ZmqBroker conjoins to its handlers; RegInit and     *)
(* RegNext drive the registry alone, with any sequence of calls.           *)
(***************************************************************************)
EXTENDS Integers, Sequences, Functions

CONSTANTS Client,   \* ids a client may connect under
          Topic     \* topics a client may name

VARIABLES clientTopics, topicSubscribers

regVars == <<clientTopics, topicSubscribers>>

-----------------------------------------------------------------------------
(* Map primitives: operator[] on a key, and erase of one. *)
Put(f, k, v) == [x \in DOMAIN f \cup {k} |-> IF x = k THEN v ELSE f[x]]
Erase(f, k) == Restrict(f, DOMAIN f \ {k})

(* What the two lookups return; the code's nullptr is an empty collection. *)
subscriptionsOf(c) == IF c \in DOMAIN clientTopics THEN clientTopics[c] ELSE {}
subscribersOf(t) == IF t \in DOMAIN topicSubscribers THEN topicSubscribers[t] ELSE <<>>

\* Mutants of the definitions that follow them.
SwapRemoveDropsLast(s, c) ==
  IF c \in Range(s) THEN SubSeq(s, 1, Len(s) - 1) ELSE s

(* The first match is overwritten by the last element, which is popped. *)
SwapRemove(s, c) ==
  IF c \in Range(s)
  THEN LET pos == CHOOSE i \in DOMAIN s : s[i] = c /\ \A j \in 1..(i - 1) : s[j] # c
       IN  SubSeq([s EXCEPT ![pos] = s[Len(s)]], 1, Len(s) - 1)
  ELSE s

(* dropSubscriber for every topic of a set: the calls touch different keys *)
(* and so commute.  A vector that becomes empty loses its key.             *)
dropSubscriber(topics, c) ==
  LET left(t) == SwapRemove(topicSubscribers[t], c)
  IN  [t \in {u \in DOMAIN topicSubscribers : u \in topics => left(u) # <<>>} |->
         IF t \in topics THEN left(t) ELSE topicSubscribers[t]]

-----------------------------------------------------------------------------
(* Only the insertion that is new in the set is appended to the vector. *)
subscribe(c, t) ==
  \/ /\ t \in subscriptionsOf(c)
     /\ UNCHANGED regVars
  \/ /\ t \notin subscriptionsOf(c)
     /\ clientTopics' = Put(clientTopics, c, subscriptionsOf(c) \cup {t})
     /\ topicSubscribers' = Put(topicSubscribers, t, Append(subscribersOf(t), c))

(* The client's entry goes with its last topic. *)
unsubscribe(c, t) ==
  \/ /\ t \notin subscriptionsOf(c)
     /\ UNCHANGED regVars
  \/ /\ t \in subscriptionsOf(c)
     /\ clientTopics' = IF clientTopics[c] = {t}
                        THEN Erase(clientTopics, c)
                        ELSE Put(clientTopics, c, clientTopics[c] \ {t})
     /\ topicSubscribers' = dropSubscriber({t}, c)

removeClient(c) ==
  /\ clientTopics' = Erase(clientTopics, c)
  /\ topicSubscribers' = dropSubscriber(subscriptionsOf(c), c)

-----------------------------------------------------------------------------
RegInit == clientTopics = <<>> /\ topicSubscribers = <<>>

RegNext ==
  \E c \in Client :
    \/ \E t \in Topic : subscribe(c, t) \/ unsubscribe(c, t)
    \/ removeClient(c)

RegSpec == RegInit /\ [][RegNext]_regVars

-----------------------------------------------------------------------------
(* The maps hold what they are declared to, and no empty collection: what  *)
(* unsubscribe and removeClient empty they erase, so the maps do not grow  *)
(* with the topics and clients that come and go, and a lookup's nullptr    *)
(* means exactly "nobody" or "nothing".                                    *)
RegTypeOK ==
  /\ DOMAIN clientTopics \subseteq Client
  /\ \A c \in DOMAIN clientTopics : clientTopics[c] \in SUBSET Topic /\ clientTopics[c] # {}
  /\ DOMAIN topicSubscribers \subseteq Topic
  /\ \A t \in DOMAIN topicSubscribers : topicSubscribers[t] \in Seq(Client) /\ topicSubscribers[t] # <<>>

(* "The two sides can never drift apart" (subscriptionregistry.h:10-11):   *)
(* after any sequence of subscribe, unsubscribe and removeClient calls a   *)
(* client is in a topic's vector exactly when the topic is in its set.     *)
SidesAgree ==
  \A c \in Client, t \in Topic :
    c \in Range(subscribersOf(t)) <=> t \in subscriptionsOf(c)

(* subscribe pushes a client into a vector at most once and dropSubscriber *)
(* takes the right element out, so no vector ever names a client twice (a  *)
(* message would be delivered to it twice).                                *)
NoDuplicateSubscriber == \A t \in DOMAIN topicSubscribers : IsInjective(topicSubscribers[t])

=============================================================================
