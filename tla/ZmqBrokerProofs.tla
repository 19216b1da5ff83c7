--------------------------- MODULE ZmqBrokerProofs ---------------------------
(***************************************************************************)
(* The broker thread keeps its invariants and implements PubSub, for every *)
(* set of clients, topics and uuids and every length of the window and of  *)
(* the timeouts.                                                           *)
(*                                                                         *)
(* Inv is the inductive invariant.  SubscribersKnown needs the registry's  *)
(* own invariant (removeClient clears what it must only if the two sides   *)
(* agree), and DedupWindow needs to know where in the window each uuid is: *)
(* the i-th of n entries was followed by n - i others.                     *)
(*                                                                         *)
(* RegInv is the registry's.  SidesAgree alone is not inductive, because   *)
(* dropSubscriber takes one element out of a vector and so needs           *)
(* NoDuplicateSubscriber.                                                  *)
(***************************************************************************)
EXTENDS ZmqBroker, SequenceTheorems, FiniteSetTheorems, TLAPS

-----------------------------------------------------------------------------
(* The registry *)

RegInv == RegTypeOK /\ SidesAgree /\ NoDuplicateSubscriber

-----------------------------------------------------------------------------
(* What dropSubscriber does to one vector: the client is gone, everyone    *)
(* else is still there, once.                                              *)
LEMMA SwapRemoveLemma ==
  ASSUME NEW S, NEW s \in Seq(S), NEW c, IsInjective(s)
  PROVE  /\ SwapRemove(s, c) \in Seq(S)
         /\ IsInjective(SwapRemove(s, c))
         /\ Range(SwapRemove(s, c)) = Range(s) \ {c}
<1>1. CASE c \notin Range(s)
  BY <1>1 DEF SwapRemove
<1>2. CASE c \in Range(s)
  <2> DEFINE First(i) == s[i] = c /\ \A j \in 1..(i - 1) : s[j] # c
  <2> DEFINE pos == CHOOSE i \in DOMAIN s : First(i)
  <2> DEFINE n == Len(s)
  <2>0. n \in Nat /\ DOMAIN s = 1..n /\ \A i \in 1..n : s[i] \in S
    BY LenProperties, ElementOfSeq
  <2>1. PICK k \in 1..n : s[k] = c
    BY <1>2, <2>0 DEF Range
  <2>2. \A j \in 1..(k - 1) : s[j] # c
    BY <2>0, <2>1 DEF IsInjective
  <2>3. pos \in 1..n /\ s[pos] = c
    BY <2>0, <2>1, <2>2
  <2> DEFINE r == SubSeq([s EXCEPT ![pos] = s[n]], 1, n - 1)
  <2>4. SwapRemove(s, c) = r
    BY <1>2 DEF SwapRemove
  <2>5. /\ r \in Seq(S)
        /\ Len(r) = n - 1
        /\ \A i \in 1..(n - 1) : r[i] = IF i = pos THEN s[n] ELSE s[i]
    <3> DEFINE e == [s EXCEPT ![pos] = s[n]]
    <3>1. \A i \in 1..(n - 1) : e[i] \in S /\ e[i] = IF i = pos THEN s[n] ELSE s[i]
      BY <2>0, <2>3
    <3>2. n - 1 \in Int /\ 1 \in Int /\ n - 1 >= 0
      BY <2>0, <2>1
    <3> HIDE DEF e, n, pos
    <3>3. /\ SubSeq(e, 1, n - 1) \in Seq(S)
          /\ Len(SubSeq(e, 1, n - 1)) = IF 1 <= n - 1 THEN n - 1 - 1 + 1 ELSE 0
          /\ \A i \in 1..(n - 1 - 1 + 1) : SubSeq(e, 1, n - 1)[i] = e[1 + i - 1]
      BY <3>1, <3>2, SubSeqProperties
    <3>4. QED
      BY <3>1, <3>2, <3>3, <2>0 DEF e
  <2> HIDE DEF r, pos, n
  <2>6. DOMAIN r = 1..(n - 1)
    BY <2>5, LenProperties
  <2>7. \A i, j \in 1..n : s[i] = s[j] => i = j
    BY <2>0 DEF IsInjective
  <2>8. IsInjective(r)
    BY <2>0, <2>3, <2>5, <2>6, <2>7 DEF IsInjective
  <2>9. Range(r) \subseteq Range(s) \ {c}
    BY <2>0, <2>3, <2>5, <2>6, <2>7 DEF Range
  <2>10. Range(s) \ {c} \subseteq Range(r)
    <3> SUFFICES ASSUME NEW x \in Range(s) \ {c} PROVE x \in Range(r)
      OBVIOUS
    <3>1. PICK i \in 1..n : s[i] = x
      BY <2>0 DEF Range
    <3>2. i # pos
      BY <2>3, <3>1
    <3>3. CASE i = n
      BY <2>0, <2>3, <2>5, <2>6, <3>1, <3>2, <3>3 DEF Range
    <3>4. CASE i # n
      BY <2>0, <2>5, <2>6, <3>1, <3>2, <3>4 DEF Range
    <3>5. QED
      BY <3>3, <3>4
  <2>11. QED
    BY <2>4, <2>5, <2>8, <2>9, <2>10
<1>3. QED
  BY <1>1, <1>2

(* The vectors after dropSubscriber ran for a set of topics. *)
LEMMA DropSubscriberLemma ==
  ASSUME RegTypeOK, NoDuplicateSubscriber,
         NEW c, NEW topics, topicSubscribers' = dropSubscriber(topics, c)
  PROVE  /\ DOMAIN topicSubscribers' \subseteq Topic
         /\ \A t \in DOMAIN topicSubscribers' :
              /\ topicSubscribers'[t] \in Seq(Client)
              /\ IsInjective(topicSubscribers'[t])
              /\ topicSubscribers'[t] # <<>>
         /\ \A t \in Topic :
              Range(subscribersOf(t))' =
                IF t \in topics THEN Range(subscribersOf(t)) \ {c} ELSE Range(subscribersOf(t))
<1> DEFINE left(t) == SwapRemove(topicSubscribers[t], c)
<1>1. \A t \in DOMAIN topicSubscribers :
        /\ topicSubscribers[t] \in Seq(Client)
        /\ IsInjective(topicSubscribers[t])
        /\ topicSubscribers[t] # <<>>
  BY DEF RegTypeOK, NoDuplicateSubscriber
<1>2. \A t \in DOMAIN topicSubscribers :
        /\ left(t) \in Seq(Client)
        /\ IsInjective(left(t))
        /\ Range(left(t)) = Range(topicSubscribers[t]) \ {c}
  BY <1>1, SwapRemoveLemma
<1> HIDE DEF left
<1> DEFINE D == {u \in DOMAIN topicSubscribers : u \in topics => left(u) # <<>>}
<1>3. topicSubscribers' = [t \in D |-> IF t \in topics THEN left(t) ELSE topicSubscribers[t]]
  BY DEF dropSubscriber, left
<1>4. /\ DOMAIN topicSubscribers' = D
      /\ \A t \in D : topicSubscribers'[t] = IF t \in topics THEN left(t) ELSE topicSubscribers[t]
  BY <1>3
<1>5. Range(<<>>) = {}
  BY DEF Range
<1>6. ASSUME NEW t \in Topic
      PROVE  Range(subscribersOf(t))' =
               IF t \in topics THEN Range(subscribersOf(t)) \ {c} ELSE Range(subscribersOf(t))
  <2>1. Range(subscribersOf(t))' = Range(subscribersOf(t)')
    BY DEF Range
  <2>2. subscribersOf(t)' = IF t \in DOMAIN topicSubscribers' THEN topicSubscribers'[t] ELSE <<>>
    BY DEF subscribersOf
  <2>3. CASE t \in D
    <3>1. subscribersOf(t)' = IF t \in topics THEN left(t) ELSE topicSubscribers[t]
      BY <1>4, <2>2, <2>3
    <3>2. subscribersOf(t) = topicSubscribers[t]
      BY <2>3 DEF subscribersOf
    <3>3. QED
      BY <1>2, <2>1, <2>3, <3>1, <3>2
  <2>4. CASE t \in DOMAIN topicSubscribers /\ t \notin D
    <3>1. t \in topics /\ left(t) = <<>>
      BY <2>4
    <3>2. subscribersOf(t)' = <<>> /\ subscribersOf(t) = topicSubscribers[t]
      BY <1>4, <2>2, <2>4 DEF subscribersOf
    <3>3. QED
      BY <1>2, <1>5, <2>1, <2>4, <3>1, <3>2
  <2>5. CASE t \notin DOMAIN topicSubscribers
    BY <1>4, <1>5, <2>1, <2>2, <2>5 DEF subscribersOf
  <2>6. QED
    BY <2>3, <2>4, <2>5
<1>7. DOMAIN topicSubscribers \subseteq Topic
  BY DEF RegTypeOK
<1>8. QED
  BY <1>1, <1>2, <1>4, <1>6, <1>7

(* The vectors after push_back of a client that is not in the vector. *)
LEMMA PushBackLemma ==
  ASSUME RegTypeOK, NoDuplicateSubscriber,
         NEW c \in Client, NEW t \in Topic, c \notin Range(subscribersOf(t)),
         topicSubscribers' = Put(topicSubscribers, t, Append(subscribersOf(t), c))
  PROVE  /\ DOMAIN topicSubscribers' \subseteq Topic
         /\ \A u \in DOMAIN topicSubscribers' :
              /\ topicSubscribers'[u] \in Seq(Client)
              /\ IsInjective(topicSubscribers'[u])
              /\ topicSubscribers'[u] # <<>>
         /\ \A u \in Topic :
              Range(subscribersOf(u))' =
                IF u = t THEN Range(subscribersOf(u)) \cup {c} ELSE Range(subscribersOf(u))
<1> DEFINE s == subscribersOf(t)
<1> DEFINE a == Append(s, c)
<1>1. \A u \in DOMAIN topicSubscribers :
        /\ topicSubscribers[u] \in Seq(Client)
        /\ IsInjective(topicSubscribers[u])
        /\ topicSubscribers[u] # <<>>
  BY DEF RegTypeOK, NoDuplicateSubscriber
<1>2. s \in Seq(Client) /\ IsInjective(s)
  BY <1>1 DEF subscribersOf, IsInjective
<1> HIDE DEF s
<1>3. /\ a \in Seq(Client) /\ a # <<>>
      /\ Len(a) = Len(s) + 1
      /\ \A i \in 1..Len(s) : a[i] = s[i]
      /\ a[Len(s) + 1] = c
  BY <1>2, AppendProperties
<1>4. Len(s) \in Nat /\ DOMAIN s = 1..Len(s) /\ DOMAIN a = 1..(Len(s) + 1)
  BY <1>2, <1>3, LenProperties
<1>5. c \notin Range(s)
  BY DEF s
<1> HIDE DEF a
<1>6. Range(a) = Range(s) \cup {c}
  <2>1. Range(a) \subseteq Range(s) \cup {c}
    BY <1>3, <1>4 DEF Range
  <2>2. \A i \in 1..Len(s) : i \in DOMAIN a /\ a[i] = s[i]
    BY <1>3, <1>4
  <2>3. Len(s) + 1 \in DOMAIN a
    BY <1>4
  <2>4. QED
    BY <1>3, <1>4, <2>1, <2>2, <2>3 DEF Range
<1>7. IsInjective(a)
  BY <1>2, <1>3, <1>4, <1>5 DEF IsInjective, Range
<1>8. /\ DOMAIN topicSubscribers' = DOMAIN topicSubscribers \cup {t}
      /\ \A u \in DOMAIN topicSubscribers' :
           topicSubscribers'[u] = IF u = t THEN a ELSE topicSubscribers[u]
  BY DEF Put, a, s
<1>9. \A u \in Topic : subscribersOf(u)' = IF u = t THEN a ELSE subscribersOf(u)
  BY <1>8 DEF subscribersOf
<1>10. \A u \in Topic : Range(subscribersOf(u))' = Range(subscribersOf(u)')
  BY DEF Range
<1>11. DOMAIN topicSubscribers \subseteq Topic
  BY DEF RegTypeOK
<1>12. QED
  BY <1>1, <1>3, <1>6, <1>7, <1>8, <1>9, <1>10, <1>11 DEF s

-----------------------------------------------------------------------------
(* RegInv' put together from the facts each side's lemmas give. *)
LEMMA RegInvPrime ==
  ASSUME DOMAIN topicSubscribers' \subseteq Topic,
         \A t \in DOMAIN topicSubscribers' :
           /\ topicSubscribers'[t] \in Seq(Client)
           /\ IsInjective(topicSubscribers'[t])
           /\ topicSubscribers'[t] # <<>>,
         DOMAIN clientTopics' \subseteq Client,
         \A c \in DOMAIN clientTopics' : clientTopics'[c] \in SUBSET Topic /\ clientTopics'[c] # {},
         \A c \in Client, t \in Topic : c \in Range(subscribersOf(t))' <=> t \in subscriptionsOf(c)'
  PROVE  RegInv'
<1>1. RegTypeOK'
  BY DEF RegTypeOK
<1>2. NoDuplicateSubscriber'
  BY DEF NoDuplicateSubscriber, IsInjective
<1>3. SidesAgree'
  BY DEF SidesAgree
<1>4. QED
  BY <1>1, <1>2, <1>3 DEF RegInv

(* A step that leaves the registry alone keeps its invariant. *)
LEMMA RegUnchangedLemma ==
  ASSUME RegInv, UNCHANGED regVars
  PROVE  RegInv' /\ \A d \in Client : subscriptionsOf(d)' = subscriptionsOf(d)
BY DEF RegInv, regVars, RegTypeOK, SidesAgree, NoDuplicateSubscriber,
       subscriptionsOf, subscribersOf, Range, IsInjective

(* subscribe keeps the invariant and adds exactly one pair to the relation. *)
LEMMA SubscribeLemma ==
  ASSUME RegInv, NEW c \in Client, NEW t \in Topic, subscribe(c, t)
  PROVE  /\ RegInv'
         /\ \A d \in Client : subscriptionsOf(d)' =
              IF d = c THEN subscriptionsOf(d) \cup {t} ELSE subscriptionsOf(d)
<1>1. CASE t \in subscriptionsOf(c) /\ UNCHANGED regVars
  <2>1. RegInv' /\ \A d \in Client : subscriptionsOf(d)' = subscriptionsOf(d)
    BY <1>1, RegUnchangedLemma
  <2>2. QED
    BY <1>1, <2>1
<1> USE DEF RegInv
<1>2. CASE /\ t \notin subscriptionsOf(c)
           /\ clientTopics' = Put(clientTopics, c, subscriptionsOf(c) \cup {t})
           /\ topicSubscribers' = Put(topicSubscribers, t, Append(subscribersOf(t), c))
  <2>1. c \notin Range(subscribersOf(t))
    BY <1>2 DEF SidesAgree
  <2>2. /\ DOMAIN clientTopics' = DOMAIN clientTopics \cup {c}
        /\ \A d \in DOMAIN clientTopics' : clientTopics'[d] =
             IF d = c THEN subscriptionsOf(c) \cup {t} ELSE clientTopics[d]
    BY <1>2 DEF Put
  <2>3. \A d \in Client : subscriptionsOf(d)' =
          IF d = c THEN subscriptionsOf(d) \cup {t} ELSE subscriptionsOf(d)
    BY <2>2 DEF subscriptionsOf
  <2>4. DOMAIN clientTopics' \subseteq Client
    BY <2>2 DEF RegTypeOK
  <2>5. \A d \in DOMAIN clientTopics' : clientTopics'[d] \in SUBSET Topic /\ clientTopics'[d] # {}
    BY <2>2 DEF RegTypeOK, subscriptionsOf
  <2>6. \A d \in Client, u \in Topic : d \in Range(subscribersOf(u))' <=> u \in subscriptionsOf(d)'
    BY <1>2, <2>1, <2>3, PushBackLemma DEF SidesAgree
  <2>7. RegInv'
    BY <1>2, <2>1, <2>4, <2>5, <2>6, PushBackLemma, RegInvPrime
  <2>8. QED
    BY <2>3, <2>7
<1>3. QED
  BY <1>1, <1>2 DEF subscribe

(* unsubscribe keeps the invariant and takes exactly one pair out. *)
LEMMA UnsubscribeLemma ==
  ASSUME RegInv, NEW c \in Client, NEW t \in Topic, unsubscribe(c, t)
  PROVE  /\ RegInv'
         /\ \A d \in Client : subscriptionsOf(d)' =
              IF d = c THEN subscriptionsOf(d) \ {t} ELSE subscriptionsOf(d)
<1>1. CASE t \notin subscriptionsOf(c) /\ UNCHANGED regVars
  <2>1. RegInv' /\ \A d \in Client : subscriptionsOf(d)' = subscriptionsOf(d)
    BY <1>1, RegUnchangedLemma
  <2>2. QED
    BY <1>1, <2>1
<1> USE DEF RegInv
<1>2. CASE /\ t \in subscriptionsOf(c)
           /\ clientTopics' = IF clientTopics[c] = {t}
                              THEN Erase(clientTopics, c)
                              ELSE Put(clientTopics, c, clientTopics[c] \ {t})
           /\ topicSubscribers' = dropSubscriber({t}, c)
  <2>1. c \in DOMAIN clientTopics /\ t \in clientTopics[c] /\ clientTopics[c] = subscriptionsOf(c)
    BY <1>2 DEF subscriptionsOf
  <2>2. /\ DOMAIN clientTopics' =
             IF clientTopics[c] = {t} THEN DOMAIN clientTopics \ {c} ELSE DOMAIN clientTopics
        /\ \A d \in DOMAIN clientTopics' : clientTopics'[d] =
             IF d = c THEN clientTopics[c] \ {t} ELSE clientTopics[d]
    BY <1>2, <2>1 DEF Put, Erase, Restrict
  <2>3. \A d \in Client : subscriptionsOf(d)' =
          IF d = c THEN subscriptionsOf(d) \ {t} ELSE subscriptionsOf(d)
    BY <2>1, <2>2 DEF subscriptionsOf
  <2>4. DOMAIN clientTopics' \subseteq Client
    BY <2>2 DEF RegTypeOK
  <2>5. \A d \in DOMAIN clientTopics' : clientTopics'[d] \in SUBSET Topic /\ clientTopics'[d] # {}
    BY <2>1, <2>2 DEF RegTypeOK
  <2>6. \A d \in Client, u \in Topic : d \in Range(subscribersOf(u))' <=> u \in subscriptionsOf(d)'
    BY <1>2, <2>3, DropSubscriberLemma DEF SidesAgree
  <2>7. RegInv'
    BY <1>2, <2>4, <2>5, <2>6, DropSubscriberLemma, RegInvPrime
  <2>8. QED
    BY <2>3, <2>7
<1>3. QED
  BY <1>1, <1>2 DEF unsubscribe

(* removeClient keeps the invariant and takes the client out everywhere. *)
LEMMA RemoveClientLemma ==
  ASSUME RegInv, NEW c \in Client, removeClient(c)
  PROVE  /\ RegInv'
         /\ \A d \in Client : subscriptionsOf(d)' =
              IF d = c THEN {} ELSE subscriptionsOf(d)
         /\ DOMAIN clientTopics' = DOMAIN clientTopics \ {c}
<1> USE DEF RegInv
<1>1. /\ DOMAIN clientTopics' = DOMAIN clientTopics \ {c}
      /\ \A d \in DOMAIN clientTopics' : clientTopics'[d] = clientTopics[d]
  BY DEF removeClient, Erase, Restrict
<1>2. \A d \in Client : subscriptionsOf(d)' = IF d = c THEN {} ELSE subscriptionsOf(d)
  BY <1>1 DEF subscriptionsOf
<1>3. DOMAIN clientTopics' \subseteq Client
  BY <1>1 DEF RegTypeOK
<1>4. \A d \in DOMAIN clientTopics' : clientTopics'[d] \in SUBSET Topic /\ clientTopics'[d] # {}
  BY <1>1 DEF RegTypeOK
<1>5. topicSubscribers' = dropSubscriber(subscriptionsOf(c), c)
  BY DEF removeClient
<1>6. \A d \in Client, u \in Topic : d \in Range(subscribersOf(u))' <=> u \in subscriptionsOf(d)'
  BY <1>2, <1>5, DropSubscriberLemma DEF SidesAgree
<1>7. RegInv'
  BY <1>3, <1>4, <1>5, <1>6, DropSubscriberLemma, RegInvPrime
<1>8. QED
  BY <1>1, <1>2, <1>7

(* A registry that was just constructed satisfies the invariant. *)
LEMMA RegInitLemma == RegInit => RegInv
BY DEF RegInit, RegInv, RegTypeOK, SidesAgree, NoDuplicateSubscriber,
       subscriptionsOf, subscribersOf, Range

-----------------------------------------------------------------------------
(* For any clients and topics, and any sequence of subscribe, unsubscribe  *)
(* and removeClient calls, the client -> topics and topic -> clients maps  *)
(* agree, hold no duplicates and no empty entry.                           *)
THEOREM RegistryCorrect == RegSpec => []RegInv
<1>1. RegInv /\ [RegNext]_regVars => RegInv'
  <2> SUFFICES ASSUME RegInv, [RegNext]_regVars PROVE RegInv'
    OBVIOUS
  <2>1. CASE \E c \in Client, t \in Topic : subscribe(c, t)
    BY <2>1, SubscribeLemma
  <2>2. CASE \E c \in Client, t \in Topic : unsubscribe(c, t)
    BY <2>2, UnsubscribeLemma
  <2>3. CASE \E c \in Client : removeClient(c)
    BY <2>3, RemoveClientLemma
  <2>4. CASE UNCHANGED regVars
    BY <2>4, RegUnchangedLemma
  <2>5. QED
    BY <2>1, <2>2, <2>3, <2>4 DEF RegNext
<1>2. QED
  BY <1>1, RegInitLemma, PTL DEF RegSpec

(* The sentence at the head of subscriptionregistry.h, for every instance. *)
THEOREM SidesNeverDrift == RegSpec => []SidesAgree
<1>1. RegInv => SidesAgree
  BY DEF RegInv
<1>2. QED
  BY <1>1, RegistryCorrect, PTL

(* Types, and no entry left empty behind in either map. *)
THEOREM RegistryTypes == RegSpec => []RegTypeOK
<1>1. RegInv => RegTypeOK
  BY DEF RegInv
<1>2. QED
  BY <1>1, RegistryCorrect, PTL

(* No client is twice in the subscribers of a topic, whatever was          *)
(* subscribed, removed and swapped before.                                 *)
THEOREM SubscribersDistinct == RegSpec => []NoDuplicateSubscriber
<1>1. RegInv => NoDuplicateSubscriber
  BY DEF RegInv
<1>2. QED
  BY <1>1, RegistryCorrect, PTL

-----------------------------------------------------------------------------
(* The broker *)

ClientsOK ==
  /\ DOMAIN clients \subseteq Client
  /\ \A c \in DOMAIN clients : clients[c] \in 0..(ClientTimeout + 1)

HistoryOK ==
  /\ order \in Seq(Uuid) /\ Len(order) <= MaxHistory
  /\ IsInjective(order)
  /\ seen = Range(order)
  /\ since \in [Uuid -> 0..MaxHistory]
  /\ \A i \in DOMAIN order : since[order[i]] = Len(order) - i
  /\ \A u \in Uuid \ seen : since[u] = MaxHistory

SentOK ==
  sent \in [kind : {"none", "RESET", "HEARTBEAT_ACK", "DATA", "SYS_STATS"}, to : [Client -> Nat]]

LoopOK ==
  /\ phase \in {"poll", "drain", "cleanup", "sweep", "stats"}
  /\ sweep \subseteq DOMAIN clients
  /\ phase # "sweep" => sweep = {}
  /\ sinceCleanup \in 0..(CleanupInterval + 1)
  /\ sinceStats \in 0..(StatsInterval + 1)

Inv == RegInv /\ ClientsOK /\ HistoryOK /\ SentOK /\ LoopOK /\ SubscribersKnown

-----------------------------------------------------------------------------
(* A vector without duplicates hands out at most one copy. *)
LEMMA OccurrencesLemma ==
  ASSUME NEW S, NEW s \in Seq(S), IsInjective(s), NEW c
  PROVE  Occurrences(s, c) = IF c \in Range(s) THEN 1 ELSE 0
<1> DEFINE O == {i \in DOMAIN s : s[i] = c}
<1>1. CASE c \notin Range(s)
  <2>1. O = {}
    BY <1>1 DEF Range
  <2>2. QED
    BY <1>1, <2>1, FS_EmptySet DEF Occurrences
<1>2. CASE c \in Range(s)
  <2>1. PICK i \in DOMAIN s : s[i] = c
    BY <1>2 DEF Range
  <2>2. O = {i}
    BY <2>1 DEF IsInjective
  <2>3. QED
    BY <1>2, <2>2, FS_Singleton DEF Occurrences
<1>3. QED
  BY <1>1, <1>2

(* What the registry's invariant says about one lookup. *)
LEMMA LookupLemma ==
  ASSUME RegInv, NEW t \in Topic, NEW c \in Client
  PROVE  /\ Occurrences(subscribersOf(t), c) = IF t \in subscriptionsOf(c) THEN 1 ELSE 0
         /\ c \in Range(subscribersOf(t)) <=> t \in subscriptionsOf(c)
<1>1. subscribersOf(t) \in Seq(Client) /\ IsInjective(subscribersOf(t))
  BY DEF RegInv, RegTypeOK, NoDuplicateSubscriber, subscribersOf, IsInjective
<1>2. c \in Range(subscribersOf(t)) <=> t \in subscriptionsOf(c)
  BY DEF RegInv, SidesAgree
<1>3. QED
  BY <1>1, <1>2, OccurrencesLemma

(* The delivery loops reach every matching client once and nobody else. *)
LEMMA DeliverLemma ==
  ASSUME RegInv, BrokerAssumption, NEW t \in Topic, NEW from
  PROVE  Deliver(t, from) =
           Once({c \in DOMAIN clients \ {from} : {t, Wildcard} \cap subscriptionsOf(c) # {}})
<1> DEFINE R == {c \in DOMAIN clients \ {from} : {t, Wildcard} \cap subscriptionsOf(c) # {}}
<1>1. Wildcard \in Topic
  BY DEF BrokerAssumption
<1>2. ASSUME NEW c \in Client
      PROVE  (IF c = from \/ c \notin DOMAIN clients THEN 0
              ELSE IF t = Wildcard \/ c \in Range(subscribersOf(t))
                   THEN Occurrences(subscribersOf(t), c)
                   ELSE Occurrences(subscribersOf(Wildcard), c))
             = IF c \in R THEN 1 ELSE 0
  BY <1>1, LookupLemma
<1>3. QED
  BY <1>2 DEF Deliver, Once

-----------------------------------------------------------------------------
(* isDuplicate's window after a uuid it did not hold was remembered. *)
LEMMA RememberLemma ==
  ASSUME BrokerAssumption, HistoryOK, NEW u \in Uuid, u \notin seen, Remember(u)
  PROVE  HistoryOK'
<1> DEFINE n == Len(order)
<1> DEFINE o == Append(order, u)
<1>1. /\ n \in Nat /\ MaxHistory \in Nat /\ n <= MaxHistory
      /\ DOMAIN order = 1..n
      /\ \A i \in 1..n : order[i] \in Uuid
  BY LenProperties, ElementOfSeq DEF HistoryOK, BrokerAssumption
<1>2. /\ o \in Seq(Uuid) /\ o # <<>> /\ Len(o) = n + 1
      /\ \A i \in 1..n : o[i] = order[i]
      /\ o[n + 1] = u
      /\ DOMAIN o = 1..(n + 1)
  BY AppendProperties, LenProperties DEF HistoryOK
<1> HIDE DEF n, o
<1>3. since' = [v \in Uuid |-> IF v = u THEN 0 ELSE Least(since[v] + 1, MaxHistory)]
  BY DEF Remember
<1>4. \A v \in Uuid : /\ since[v] \in 0..MaxHistory
                      /\ since'[v] = IF v = u THEN 0 ELSE Least(since[v] + 1, MaxHistory)
  BY <1>3 DEF HistoryOK
<1>5. since' \in [Uuid -> 0..MaxHistory]
  BY <1>1, <1>3, <1>4 DEF Least
<1>6. \A i, j \in 1..(n + 1) : o[i] = o[j] => i = j
  <2>0. \A i \in 1..n : order[i] \in seen
    BY <1>1 DEF HistoryOK, Range
  <2>1. \A i \in 1..n : o[i] # u
    BY <1>2, <2>0
  <2>2. \A i, j \in 1..n : o[i] = o[j] => i = j
    BY <1>1, <1>2 DEF HistoryOK, IsInjective
  <2>3. \A i \in 1..(n + 1) : i \in 1..n \/ i = n + 1
    BY <1>1
  <2>4. QED
    BY <1>2, <2>1, <2>2, <2>3
<1>7. \A i \in 1..(n + 1) : o[i] \in Uuid
  BY <1>1, <1>2
<1>8. \A i \in 1..n : order[i] # u /\ since[order[i]] = n - i
  BY <1>1 DEF HistoryOK, Range, n
<1>9. \A v \in Uuid : v \notin seen => since[v] = MaxHistory
  BY DEF HistoryOK
<1>10. \A v : v \in seen <=> \E i \in 1..n : v = order[i]
  BY <1>1 DEF HistoryOK, Range
<1>11. CASE n + 1 <= MaxHistory
  <2>1. order' = o /\ seen' = seen \cup {u}
    BY <1>1, <1>2, <1>11 DEF Remember, o
  <2>2. \A v : v \in seen' <=> \E i \in 1..(n + 1) : v = o[i]
    BY <1>1, <1>2, <1>10, <2>1
  <2>3. seen' = Range(order')
    BY <1>2, <2>1, <2>2 DEF Range
  <2>4. \A i \in DOMAIN order' : since'[order'[i]] = Len(order') - i
    <3>0. DOMAIN order' = 1..(n + 1) /\ Len(order') = n + 1 /\ \A i \in 1..(n + 1) : order'[i] = o[i]
      BY <1>2, <2>1
    <3>1. ASSUME NEW i \in 1..(n + 1) PROVE since'[o[i]] = n + 1 - i
      <4>1. CASE i = n + 1
        BY <1>1, <1>2, <1>4, <4>1
      <4>2. CASE i # n + 1
        <5>1. i \in 1..n /\ o[i] = order[i]
          BY <1>1, <1>2, <4>2
        <5>2. since'[o[i]] = Least(n - i + 1, MaxHistory)
          BY <1>1, <1>4, <1>8, <5>1
        <5>3. QED
          BY <1>1, <1>11, <5>1, <5>2 DEF Least
      <4>3. QED
        BY <4>1, <4>2
    <3>2. QED
      BY <1>1, <3>0, <3>1
  <2>5. \A v \in Uuid \ seen' : since'[v] = MaxHistory
    BY <1>1, <1>4, <1>9, <2>1 DEF Least
  <2>6. IsInjective(order') /\ Len(order') <= MaxHistory /\ order' \in Seq(Uuid)
    BY <1>2, <1>6, <1>11, <2>1 DEF IsInjective
  <2>7. QED
    BY <1>5, <2>3, <2>4, <2>5, <2>6 DEF HistoryOK, IsInjective, Range
<1>12. CASE n + 1 > MaxHistory
  <2>1. order' = Tail(o) /\ seen' = (seen \cup {u}) \ {Head(o)}
    BY <1>1, <1>2, <1>12 DEF Remember, o
  <2>2. n = MaxHistory
    BY <1>1, <1>12
  <2>3. /\ Tail(o) \in Seq(Uuid) /\ Len(Tail(o)) = n
        /\ \A i \in 1..n : Tail(o)[i] = o[i + 1]
    BY <1>1, <1>2, HeadTailProperties
  <2>4. DOMAIN order' = 1..n /\ Head(o) = o[1]
    BY <1>2, <2>1, <2>3, LenProperties
  <2>5. \A i \in 1..n : i + 1 \in 1..(n + 1) /\ order'[i] = o[i + 1]
    BY <1>1, <2>1, <2>3
  <2>6. \A v : v \in seen' <=> \E i \in 1..n : v = o[i + 1]
    <3>1. \A v : v \in seen \cup {u} <=> \E i \in 1..(n + 1) : v = o[i]
      BY <1>1, <1>2, <1>10
    <3>2. \A i \in 1..(n + 1) : o[i] = o[1] => i = 1
      BY <1>1, <1>6
    <3>3. \A i \in 1..(n + 1) : i = 1 \/ (i - 1 \in 1..n /\ i - 1 + 1 = i)
      BY <1>1
    <3>4. ASSUME NEW v \in seen' PROVE \E i \in 1..n : v = o[i + 1]
      <4>1. PICK i \in 1..(n + 1) : v = o[i]
        BY <2>1, <3>1
      <4>2. i # 1
        BY <2>1, <2>4, <4>1
      <4>3. QED
        BY <3>3, <4>1, <4>2
    <3>5. ASSUME NEW i \in 1..n PROVE o[i + 1] \in seen'
      <4>1. o[i + 1] \in seen \cup {u}
        BY <2>5, <3>1
      <4>2. o[i + 1] # o[1]
        BY <1>1, <2>5, <3>2
      <4>3. QED
        BY <2>1, <2>4, <4>1, <4>2
    <3>6. QED
      BY <3>4, <3>5
  <2>7. seen' = Range(order')
    BY <2>4, <2>5, <2>6 DEF Range
  <2>8. \A i \in DOMAIN order' : since'[order'[i]] = Len(order') - i
    <3> SUFFICES ASSUME NEW i \in 1..n PROVE since'[o[i + 1]] = n - i
      BY <2>1, <2>3, <2>4, <2>5
    <3>1. CASE i = n
      BY <1>1, <1>2, <1>4, <3>1
    <3>2. CASE i # n
      <4>1. i + 1 \in 1..n /\ o[i + 1] = order[i + 1]
        BY <1>1, <1>2, <3>2
      <4>2. since'[o[i + 1]] = Least(n - (i + 1) + 1, MaxHistory)
        BY <1>1, <1>4, <1>8, <4>1
      <4>3. QED
        BY <1>1, <2>2, <4>1, <4>2 DEF Least
    <3>3. QED
      BY <3>1, <3>2
  <2>9. \A v \in Uuid \ seen' : since'[v] = MaxHistory
    <3> SUFFICES ASSUME NEW v \in Uuid, v \notin seen' PROVE since'[v] = MaxHistory
      OBVIOUS
    <3>1. CASE v = u
      <4>1. n = 0
        BY <1>1, <1>2, <2>6, <3>1
      <4>2. QED
        BY <1>4, <2>2, <3>1, <4>1
    <3>2. CASE v # u /\ v \notin seen
      BY <1>1, <1>4, <1>9, <3>2 DEF Least
    <3>3. CASE v # u /\ v \in seen
      <4>1. v = o[1]
        BY <2>1, <2>4, <3>3
      <4>2. 1 \in 1..n /\ v = order[1]
        BY <1>1, <1>2, <1>10, <3>3, <4>1
      <4>3. since[v] = n - 1
        BY <1>8, <4>2
      <4>4. QED
        BY <1>1, <1>4, <2>2, <3>3, <4>3 DEF Least
    <3>4. QED
      BY <3>1, <3>2, <3>3
  <2>10. IsInjective(order') /\ Len(order') <= MaxHistory /\ order' \in Seq(Uuid)
    BY <1>1, <1>6, <2>1, <2>2, <2>3, <2>4, <2>5 DEF IsInjective
  <2>11. QED
    BY <1>5, <2>7, <2>8, <2>9, <2>10 DEF HistoryOK, IsInjective, Range
<1>13. QED
  BY <1>1, <1>11, <1>12

-----------------------------------------------------------------------------
(* The pieces a step is made of, each with the part of Inv it keeps. *)
LEMMA OnceLemma == \A S : Once(S) \in [Client -> Nat]
BY DEF Once

LEMMA QuietLemma == ASSUME sent' = Nothing PROVE SentOK'
BY OnceLemma DEF SentOK, Nothing, Sent

LEMMA HistoryUnchangedLemma == ASSUME HistoryOK, UNCHANGED histVars PROVE HistoryOK'
BY DEF HistoryOK, histVars, IsInjective, Range

LEMMA RouteLemma ==
  ASSUME Inv, BrokerAssumption, NEW from, NEW t \in Topic, NEW u \in Uuid, Route(from, t, u)
  PROVE  HistoryOK' /\ SentOK'
<1>1. CASE u \in seen /\ sent' = Nothing /\ UNCHANGED histVars
  BY <1>1, QuietLemma, HistoryUnchangedLemma DEF Inv
<1>2. CASE u \notin seen /\ Remember(u) /\ sent' = Sent("DATA", Deliver(t, from))
  <2>1. HistoryOK'
    BY <1>2, RememberLemma DEF Inv
  <2>2. Deliver(t, from) \in [Client -> Nat]
    <3>1. RegInv
      BY DEF Inv
    <3>2. \E S : Deliver(t, from) = Once(S)
      BY <3>1, DeliverLemma
    <3>3. QED
      BY <3>2, OnceLemma
  <2>3. SentOK'
    BY <1>2, <2>2 DEF SentOK, Sent
  <2>4. QED
    BY <2>1, <2>3
<1>3. QED
  BY <1>1, <1>2 DEF Route

LEMMA TouchLemma ==
  ASSUME ClientsOK, BrokerAssumption, NEW c \in Client, Touch(c)
  PROVE  ClientsOK' /\ DOMAIN clients' = DOMAIN clients \cup {c}
<1>1. /\ DOMAIN clients' = DOMAIN clients \cup {c}
      /\ \A d \in DOMAIN clients' : clients'[d] = IF d = c THEN 0 ELSE clients[d]
  BY DEF Touch, Put
<1>2. 0 \in 0..(ClientTimeout + 1)
  BY DEF BrokerAssumption
<1>3. QED
  BY <1>1, <1>2 DEF ClientsOK

LEMMA EraseClientLemma ==
  ASSUME ClientsOK, NEW c, clients' = Erase(clients, c)
  PROVE  ClientsOK' /\ DOMAIN clients' = DOMAIN clients \ {c}
BY DEF ClientsOK, Erase, Restrict

(* SubscribersKnown', from what became of the subscription relation. *)
LEMMA SubscribersKnownLemma ==
  ASSUME RegInv', \A c \in Client : subscriptionsOf(c)' # {} => c \in DOMAIN clients'
  PROVE  SubscribersKnown'
BY DEF RegInv, RegTypeOK, SubscribersKnown, subscriptionsOf

(* Before the step, the same said of the relation. *)
LEMMA KnownLemma ==
  ASSUME Inv, NEW c \in Client, subscriptionsOf(c) # {}
  PROVE  c \in DOMAIN clients
BY DEF Inv, SubscribersKnown, subscriptionsOf

LEMMA RemoveLemma ==
  ASSUME Inv, NEW c \in Client, brokerRemoveClient(c)
  PROVE  /\ RegInv' /\ ClientsOK' /\ SubscribersKnown'
         /\ DOMAIN clients' = DOMAIN clients \ {c}
         /\ \A d \in Client : subscriptionsOf(d)' = IF d = c THEN {} ELSE subscriptionsOf(d)
<1>1. /\ RegInv'
      /\ \A d \in Client : subscriptionsOf(d)' = IF d = c THEN {} ELSE subscriptionsOf(d)
  BY RemoveClientLemma DEF Inv, brokerRemoveClient
<1>2. ClientsOK' /\ DOMAIN clients' = DOMAIN clients \ {c}
  BY EraseClientLemma DEF Inv, brokerRemoveClient
<1>3. \A d \in Client : subscriptionsOf(d)' # {} => d \in DOMAIN clients'
  BY <1>1, <1>2, KnownLemma
<1>4. QED
  BY <1>1, <1>2, <1>3, SubscribersKnownLemma

(* A step that leaves registry and clients alone, or only ages or adds     *)
(* clients, keeps SubscribersKnown.                                        *)
LEMMA KeepLemma ==
  ASSUME Inv, UNCHANGED regVars, DOMAIN clients \subseteq DOMAIN clients'
  PROVE  RegInv' /\ SubscribersKnown'
<1>1. RegInv' /\ \A d \in Client : subscriptionsOf(d)' = subscriptionsOf(d)
  BY RegUnchangedLemma DEF Inv
<1>2. QED
  BY <1>1, KnownLemma, SubscribersKnownLemma

LEMMA ClientsUnchangedLemma ==
  ASSUME ClientsOK, UNCHANGED clients
  PROVE  ClientsOK' /\ DOMAIN clients' = DOMAIN clients
BY DEF ClientsOK

-----------------------------------------------------------------------------
(* Everything but the loop's own variables, after one local message. *)
DataOK == RegInv /\ ClientsOK /\ HistoryOK /\ SentOK /\ SubscribersKnown

LEMMA LocalMessageLemma ==
  ASSUME Inv, BrokerAssumption, NEW c \in Client,
         \/ Disconnect(c) \/ NewClient(c) \/ Connect(c) \/ Heartbeat(c)
         \/ \E t \in Topic : \/ Subscribe(c, t) \/ Unsubscribe(c, t)
                             \/ \E u \in Uuid : Publish(c, t, u)
  PROVE  DataOK'
<1> USE DEF DataOK
<1>0. RegInv /\ ClientsOK /\ HistoryOK
  BY DEF Inv
<1>1. CASE Disconnect(c)
  BY <1>0, <1>1, RemoveLemma, QuietLemma, HistoryUnchangedLemma DEF Disconnect
<1>2. CASE NewClient(c)
  <2>1. SentOK'
    BY <1>2, OnceLemma DEF NewClient, SentOK, Sent
  <2>2. ClientsOK' /\ DOMAIN clients' = DOMAIN clients \cup {c}
    BY <1>0, <1>2, TouchLemma DEF NewClient
  <2>3. QED
    BY <1>0, <1>2, <2>1, <2>2, KeepLemma, HistoryUnchangedLemma DEF NewClient
<1>3. CASE Connect(c)
  <2>1. ClientsOK' /\ DOMAIN clients' = DOMAIN clients \cup {c}
    BY <1>0, <1>3, TouchLemma DEF Connect
  <2>2. QED
    BY <1>0, <1>3, <2>1, QuietLemma, KeepLemma, HistoryUnchangedLemma DEF Connect
<1>4. CASE Heartbeat(c)
  <2>1. SentOK'
    BY <1>4, OnceLemma DEF Heartbeat, SentOK, Sent
  <2>2. ClientsOK' /\ DOMAIN clients' = DOMAIN clients \cup {c}
    BY <1>0, <1>4, TouchLemma DEF Heartbeat
  <2>3. QED
    BY <1>0, <1>4, <2>1, <2>2, KeepLemma, HistoryUnchangedLemma DEF Heartbeat
<1>5. ASSUME NEW t \in Topic, Subscribe(c, t) PROVE DataOK'
  <2>1. ClientsOK' /\ DOMAIN clients' = DOMAIN clients \cup {c}
    BY <1>0, <1>5, TouchLemma DEF Subscribe
  <2>2. /\ RegInv'
        /\ \A d \in Client : subscriptionsOf(d)' =
             IF d = c THEN subscriptionsOf(d) \cup {t} ELSE subscriptionsOf(d)
    BY <1>0, <1>5, SubscribeLemma DEF Subscribe
  <2>3. SubscribersKnown'
    BY <2>1, <2>2, KnownLemma, SubscribersKnownLemma
  <2>4. QED
    BY <1>0, <1>5, <2>1, <2>2, <2>3, QuietLemma, HistoryUnchangedLemma DEF Subscribe
<1>6. ASSUME NEW t \in Topic, Unsubscribe(c, t) PROVE DataOK'
  <2>1. ClientsOK' /\ DOMAIN clients' = DOMAIN clients \cup {c}
    BY <1>0, <1>6, TouchLemma DEF Unsubscribe
  <2>2. /\ RegInv'
        /\ \A d \in Client : subscriptionsOf(d)' =
             IF d = c THEN subscriptionsOf(d) \ {t} ELSE subscriptionsOf(d)
    BY <1>0, <1>6, UnsubscribeLemma DEF Unsubscribe
  <2>3. SubscribersKnown'
    BY <2>1, <2>2, KnownLemma, SubscribersKnownLemma
  <2>4. QED
    BY <1>0, <1>6, <2>1, <2>2, <2>3, QuietLemma, HistoryUnchangedLemma DEF Unsubscribe
<1>7. ASSUME NEW t \in Topic, NEW u \in Uuid, Publish(c, t, u) PROVE DataOK'
  <2>1. ClientsOK' /\ DOMAIN clients' = DOMAIN clients \cup {c}
    BY <1>0, <1>7, TouchLemma DEF Publish
  <2>2. QED
    BY <1>7, <2>1, KeepLemma, RouteLemma DEF Publish
<1>8. QED
  BY <1>1, <1>2, <1>3, <1>4, <1>5, <1>6, <1>7

-----------------------------------------------------------------------------
LEMMA InitLemma == BrokerAssumption /\ Init => Inv
<1> SUFFICES ASSUME BrokerAssumption, Init PROVE Inv
  OBVIOUS
<1>1. RegInv
  BY RegInitLemma DEF Init
<1>2. ClientsOK /\ SubscribersKnown
  BY DEF Init, RegInit, ClientsOK, SubscribersKnown
<1>3. HistoryOK
  BY DEF Init, HistoryOK, IsInjective, Range, BrokerAssumption
<1>4. SentOK
  BY OnceLemma DEF Init, SentOK, Nothing, Sent
<1>5. LoopOK
  BY DEF Init, LoopOK, BrokerAssumption
<1>6. QED
  BY <1>1, <1>2, <1>3, <1>4, <1>5 DEF Inv

LEMMA StepLemma == BrokerAssumption /\ Inv /\ [Next]_vars => Inv'
<1> SUFFICES ASSUME BrokerAssumption, Inv, [Next]_vars PROVE Inv'
  OBVIOUS
<1>0. RegInv /\ ClientsOK /\ HistoryOK /\ SentOK /\ LoopOK /\ SubscribersKnown
  BY DEF Inv
<1>a. ASSUME UNCHANGED <<regVars, clients, histVars>> 
      PROVE  RegInv' /\ ClientsOK' /\ HistoryOK' /\ SubscribersKnown' /\ DOMAIN clients' = DOMAIN clients
  BY <1>0, <1>a, KeepLemma, ClientsUnchangedLemma, HistoryUnchangedLemma
<1>1. CASE PollLocal
  <2>1. DataOK'
    <3>1. CASE sent' = Nothing /\ UNCHANGED <<regVars, clients, histVars>>
      BY <1>a, <3>1, QuietLemma DEF DataOK
    <3>2. QED
      BY <1>1, <3>1, LocalMessageLemma DEF PollLocal
  <2>2. LoopOK'
    BY <1>0, <1>1 DEF PollLocal, LoopOK, loopVars
  <2>3. QED
    BY <2>1, <2>2 DEF DataOK, Inv
<1>2. CASE PollSinglePart
  <2>1. LoopOK'
    BY <1>0, <1>2 DEF PollSinglePart, LoopOK, loopVars
  <2>2. QED
    BY <1>2, <1>a, <2>1, QuietLemma DEF PollSinglePart, Inv
<1>3. CASE DrainPeer
  <2>1. HistoryOK' /\ SentOK'
    BY <1>0, <1>3, RouteLemma, QuietLemma, HistoryUnchangedLemma DEF DrainPeer
  <2>2. RegInv' /\ SubscribersKnown' /\ ClientsOK' /\ DOMAIN clients' = DOMAIN clients
    BY <1>0, <1>3, KeepLemma, ClientsUnchangedLemma DEF DrainPeer
  <2>3. LoopOK'
    BY <1>0, <1>3 DEF DrainPeer, LoopOK, loopVars
  <2>4. QED
    BY <2>1, <2>2, <2>3 DEF Inv
<1>4. CASE DrainDone \/ CleanupSkip \/ StatsSkip
  <2>1. sent' = Nothing /\ UNCHANGED <<regVars, clients, histVars>>
    BY <1>4 DEF DrainDone, CleanupSkip, StatsSkip
  <2>2. LoopOK'
    BY <1>0, <1>4 DEF DrainDone, CleanupSkip, StatsSkip, LoopOK, loopVars
  <2>3. QED
    BY <1>a, <2>1, <2>2, QuietLemma DEF Inv
<1>5. CASE CleanupBegin
  <2>1. LoopOK'
    BY <1>0, <1>5 DEF CleanupBegin, LoopOK
  <2>2. QED
    BY <1>5, <1>a, <2>1, QuietLemma DEF CleanupBegin, Inv
<1>6. ASSUME NEW c \in Client, Sweep(c) PROVE Inv'
  <2>1. HistoryOK' /\ SentOK'
    BY <1>0, <1>6, QuietLemma, HistoryUnchangedLemma DEF Sweep
  <2>2. CASE brokerRemoveClient(c)
    <3>1. LoopOK'
      BY <1>0, <1>6, <2>2, RemoveLemma DEF Sweep, LoopOK
    <3>2. QED
      BY <2>1, <2>2, <3>1, RemoveLemma DEF Inv
  <2>3. CASE UNCHANGED <<regVars, clients>>
    <3>1. RegInv' /\ SubscribersKnown' /\ ClientsOK' /\ DOMAIN clients' = DOMAIN clients
      BY <1>0, <2>3, KeepLemma, ClientsUnchangedLemma
    <3>2. LoopOK'
      BY <1>0, <1>6, <3>1 DEF Sweep, LoopOK
    <3>3. QED
      BY <2>1, <3>1, <3>2 DEF Inv
  <2>4. QED
    BY <1>6, <2>2, <2>3 DEF Sweep
<1>7. CASE CleanupEnd
  <2>1. LoopOK'
    BY <1>0, <1>7 DEF CleanupEnd, LoopOK, BrokerAssumption
  <2>2. QED
    BY <1>7, <1>a, <2>1, QuietLemma DEF CleanupEnd, Inv
<1>8. CASE broadcastStats
  <2>1. \A c \in Client : Occurrences(subscribersOf(StatsTopic), c) \in Nat
    BY <1>0, LookupLemma DEF BrokerAssumption
  <2>2. SentOK'
    BY <1>8, <2>1 DEF broadcastStats, SentOK, Sent
  <2>3. LoopOK'
    BY <1>0, <1>8 DEF broadcastStats, LoopOK, BrokerAssumption
  <2>4. QED
    BY <1>8, <1>a, <2>2, <2>3 DEF broadcastStats, Inv
<1>9. CASE Tick
  <2>1. DOMAIN clients' = DOMAIN clients /\ ClientsOK'
    BY <1>0, <1>9 DEF Tick, ClientsOK, Least, BrokerAssumption
  <2>2. LoopOK'
    BY <1>0, <1>9, <2>1 DEF Tick, LoopOK, Least, BrokerAssumption
  <2>3. SentOK'
    BY <1>0, <1>9 DEF Tick, SentOK
  <2>4. RegInv' /\ SubscribersKnown' /\ HistoryOK'
    BY <1>0, <1>9, <2>1, KeepLemma, HistoryUnchangedLemma DEF Tick
  <2>5. QED
    BY <2>1, <2>2, <2>3, <2>4 DEF Inv
<1>10. CASE UNCHANGED vars
  <2>1. LoopOK' /\ SentOK'
    BY <1>0, <1>10 DEF vars, LoopOK, SentOK, loopVars
  <2>2. QED
    BY <1>10, <1>a, <2>1 DEF vars, Inv
<1>11. QED
  BY <1>1, <1>2, <1>3, <1>4, <1>5, <1>6, <1>7, <1>8, <1>9, <1>10 DEF Next, Loop

-----------------------------------------------------------------------------
(* The broker thread's state always satisfies the inductive invariant: its *)
(* type, the agreement of the two subscription maps, and the two below.    *)
THEOREM BrokerInvariant == Spec => []Inv
BY InitLemma, StepLemma, BrokerAssumption, PTL DEF Spec

(* Type correctness of the broker's state, for every instance. *)
THEOREM BrokerTypes == Spec => []TypeOK
<1>1. Inv => TypeOK
  BY RangeOfSeq DEF Inv, RegInv, ClientsOK, HistoryOK, SentOK, LoopOK, TypeOK
<1>2. QED
  BY <1>1, BrokerInvariant, PTL

(* No client that was removed, by DISCONNECT or by timeout, keeps a        *)
(* subscription (zmqbroker.cpp:474-479).                                   *)
THEOREM SubscribersAlwaysKnown == Spec => []SubscribersKnown
<1>1. Inv => SubscribersKnown
  BY DEF Inv
<1>2. QED
  BY <1>1, BrokerInvariant, PTL

(* isDuplicate recognises exactly the last MaxHistorySize uuids routed. *)
THEOREM DedupWindowExact == Spec => []DedupWindow
<1>1. BrokerAssumption /\ Inv => DedupWindow
  <2> SUFFICES ASSUME BrokerAssumption, HistoryOK, NEW u \in Uuid
               PROVE  u \in seen <=> since[u] < MaxHistory
    BY DEF Inv, DedupWindow
  <2>1. Len(order) \in Nat /\ DOMAIN order = 1..Len(order) /\ MaxHistory \in Nat
    BY LenProperties DEF HistoryOK, BrokerAssumption
  <2>2. CASE u \in seen
    <3>1. PICK i \in 1..Len(order) : u = order[i]
      BY <2>1, <2>2 DEF HistoryOK, Range
    <3>2. since[u] = Len(order) - i
      BY <2>1, <3>1 DEF HistoryOK
    <3>3. QED
      BY <2>1, <2>2, <3>1, <3>2 DEF HistoryOK
  <2>3. CASE u \notin seen
    BY <2>1, <2>3 DEF HistoryOK
  <2>4. QED
    BY <2>2, <2>3
<1>2. QED
  BY <1>1, BrokerInvariant, BrokerAssumption, PTL

(* m_clients loses a client only to DISCONNECT or to ClientTimeout. *)
THEOREM RemovalsJustified == Spec => OnlyLeaversAndZombies
<1> DEFINE Justified ==
      \A c \in DOMAIN clients :
        c \notin DOMAIN clients' => clients[c] > ClientTimeout \/ (phase = "poll" /\ Disconnect(c))
<1>1. Inv /\ [Next]_vars => [Justified]_vars
  <2> SUFFICES ASSUME Inv, Next PROVE Justified
    OBVIOUS
  <2>0. ClientsOK
    BY DEF Inv
  <2>1. CASE DOMAIN clients \subseteq DOMAIN clients'
    BY <2>1
  <2>2. CASE PollLocal
    <3> SUFFICES ASSUME NEW d \in Client, ~(DOMAIN clients \subseteq DOMAIN clients'), 
                        \/ Disconnect(d) \/ NewClient(d) \/ Connect(d) \/ Heartbeat(d)
                        \/ \E t \in Topic : \/ Subscribe(d, t) \/ Unsubscribe(d, t)
                                            \/ \E u \in Uuid : Publish(d, t, u)
                 PROVE  Justified
      BY <2>1, <2>2 DEF PollLocal
    <3>1. Touch(d) => DOMAIN clients \subseteq DOMAIN clients'
      BY DEF Touch, Put
    <3>2. Disconnect(d)
      BY <3>1 DEF NewClient, Connect, Heartbeat, Subscribe, Unsubscribe, Publish
    <3>3. DOMAIN clients' = DOMAIN clients \ {d}
      BY <2>0, <3>2, EraseClientLemma DEF Disconnect, brokerRemoveClient
    <3>4. QED
      BY <2>2, <3>2, <3>3 DEF PollLocal
  <2>3. ASSUME NEW d \in Client, Sweep(d) PROVE Justified
    <3>1. CASE clients[d] > ClientTimeout /\ brokerRemoveClient(d)
      <4>1. DOMAIN clients' = DOMAIN clients \ {d}
        BY <2>0, <3>1, EraseClientLemma DEF brokerRemoveClient
      <4>2. QED
        BY <3>1, <4>1
    <3>2. CASE UNCHANGED clients
      BY <3>2
    <3>3. QED
      BY <2>3, <3>1, <3>2 DEF Sweep
  <2>4. CASE Tick
    BY <2>4 DEF Tick
  <2>5. CASE \/ PollSinglePart \/ DrainPeer \/ DrainDone \/ CleanupSkip \/ CleanupBegin
             \/ CleanupEnd \/ StatsSkip \/ broadcastStats
    BY <2>5 DEF PollSinglePart, DrainPeer, DrainDone, CleanupSkip, CleanupBegin, CleanupEnd,
                StatsSkip, broadcastStats
  <2>6. QED
    BY <2>2, <2>3, <2>4, <2>5 DEF Next, Loop
<1>2. QED
  BY <1>1, BrokerInvariant, PTL DEF Spec, OnlyLeaversAndZombies

-----------------------------------------------------------------------------
(* The subscription relation as the abstract specification sees it. *)
LEMMA RelationLemma ==
  \A c \in Client, t \in Topic : <<c, t>> \in Subscriptions <=> t \in subscriptionsOf(c)
BY DEF Subscriptions

LEMMA SameRelationLemma ==
  ASSUME Inv, UNCHANGED regVars PROVE Subscriptions' = Subscriptions
<1>1. \A d \in Client : subscriptionsOf(d)' = subscriptionsOf(d)
  BY RegUnchangedLemma DEF Inv
<1>2. QED
  BY <1>1 DEF Subscriptions

LEMMA RemovedRelationLemma ==
  ASSUME Inv, NEW c \in Client, brokerRemoveClient(c), sent' = Nothing
  PROVE  Abstract!Leave(c)
<1>1. /\ DOMAIN clients' = DOMAIN clients \ {c}
      /\ \A d \in Client : subscriptionsOf(d)' = IF d = c THEN {} ELSE subscriptionsOf(d)
  BY RemoveLemma
<1>2. Subscriptions' = {p \in Subscriptions : p[1] # c}
  BY <1>1 DEF Subscriptions
<1>3. QED
  BY <1>1, <1>2 DEF Abstract!Leave, Abstract!Nothing, Abstract!Sent, Abstract!Once,
                    Nothing, Sent, Once

(* A routed message maps to an abstract Publish, a duplicate to Silent. *)
LEMMA RouteRefines ==
  ASSUME Inv, BrokerAssumption, NEW from \in Client \cup {"PEER"}, NEW t \in Topic, NEW u \in Uuid,
         Route(from, t, u), UNCHANGED regVars, DOMAIN clients' = DOMAIN clients
  PROVE  Abstract!Next
<1>1. Subscriptions' = Subscriptions
  BY SameRelationLemma
<1>2. CASE sent' = Nothing
  <2>1. Abstract!Silent
    BY <1>1, <1>2 DEF Abstract!Silent, Abstract!Nothing, Abstract!Sent, Abstract!Once,
                      Nothing, Sent, Once
  <2>2. QED
    BY <2>1 DEF Abstract!Next
<1>3. CASE sent' = Sent("DATA", Deliver(t, from))
  <2> DEFINE M == {c \in DOMAIN clients \ {from} : {t, Wildcard} \cap subscriptionsOf(c) # {}}
  <2> DEFINE A == {c \in DOMAIN clients \ {from} : {<<c, t>>, <<c, Wildcard>>} \cap Subscriptions # {}}
  <2>1. Deliver(t, from) = Once(M)
    BY DeliverLemma DEF Inv
  <2>2. M = A
    <3>1. Wildcard \in Topic /\ DOMAIN clients \subseteq Client
      BY DEF BrokerAssumption, Inv, ClientsOK
    <3>2. \A c \in DOMAIN clients : /\ <<c, t>> \in Subscriptions <=> t \in subscriptionsOf(c)
                                    /\ <<c, Wildcard>> \in Subscriptions <=> Wildcard \in subscriptionsOf(c)
      BY <3>1, RelationLemma
    <3>3. \A c \in DOMAIN clients : {t, Wildcard} \cap subscriptionsOf(c) # {}
             <=> {<<c, t>>, <<c, Wildcard>>} \cap Subscriptions # {}
      BY <3>2
    <3>4. QED
      BY <3>3
  <2> HIDE DEF M
  <2>3. Abstract!Publish(from, t)
    BY <1>1, <1>3, <2>1, <2>2 DEF Abstract!Publish, Abstract!Sent, Abstract!Once, Sent, Once
  <2>4. QED
    BY <2>3 DEF Abstract!Next
<1>4. QED
  BY <1>2, <1>3 DEF Route

LEMMA SilentRefines ==
  ASSUME Inv, UNCHANGED regVars, DOMAIN clients' = DOMAIN clients, sent' = Nothing
  PROVE  Abstract!Next
<1>1. Abstract!Silent
  BY SameRelationLemma DEF Abstract!Silent, Abstract!Nothing, Abstract!Sent, Abstract!Once,
                           Nothing, Sent, Once
<1>2. QED
  BY <1>1 DEF Abstract!Next

(* Every local message is one abstract step of its sender. *)
LEMMA LocalMessageRefines ==
  ASSUME Inv, BrokerAssumption, NEW c \in Client,
         \/ Disconnect(c) \/ NewClient(c) \/ Connect(c) \/ Heartbeat(c)
         \/ \E t \in Topic : \/ Subscribe(c, t) \/ Unsubscribe(c, t)
                             \/ \E u \in Uuid : Publish(c, t, u)
  PROVE  Abstract!Next
<1>0. RegInv /\ ClientsOK
  BY DEF Inv
<1>a. Touch(c) => DOMAIN clients' = DOMAIN clients \cup {c}
  BY <1>0, TouchLemma
<1>1. CASE Disconnect(c)
  <2>1. Abstract!Leave(c)
    BY <1>1, RemovedRelationLemma DEF Disconnect
  <2>2. QED
    BY <2>1 DEF Abstract!Next
<1>2. CASE NewClient(c)
  <2>1. Abstract!Join(c)
    BY <1>2, <1>a, SameRelationLemma DEF NewClient, Abstract!Join, Abstract!Sent, Abstract!Once, Sent, Once
  <2>2. QED
    BY <2>1 DEF Abstract!Next
<1>3. CASE Connect(c)
  <2>1. DOMAIN clients' = DOMAIN clients
    BY <1>3, <1>a DEF Connect
  <2>2. QED
    BY <1>3, <2>1, SilentRefines DEF Connect
<1>4. CASE Heartbeat(c)
  <2>1. DOMAIN clients' = DOMAIN clients
    BY <1>4, <1>a DEF Heartbeat
  <2>2. Abstract!Ack(c)
    BY <1>4, <2>1, SameRelationLemma DEF Heartbeat, Abstract!Ack, Abstract!Sent, Abstract!Once, Sent, Once
  <2>3. QED
    BY <2>2 DEF Abstract!Next
<1>5. ASSUME NEW t \in Topic, Subscribe(c, t) PROVE Abstract!Next
  <2>1. DOMAIN clients' = DOMAIN clients
    BY <1>5, <1>a DEF Subscribe
  <2>2. \A d \in Client : subscriptionsOf(d)' =
          IF d = c THEN subscriptionsOf(d) \cup {t} ELSE subscriptionsOf(d)
    BY <1>0, <1>5, SubscribeLemma DEF Subscribe
  <2>3. Subscriptions' = Subscriptions \cup {<<c, t>>}
    BY <2>2 DEF Subscriptions
  <2>4. Abstract!Subscribe(c, t)
    BY <1>5, <2>1, <2>3 DEF Subscribe, Abstract!Subscribe, Abstract!Nothing, Abstract!Sent,
                            Abstract!Once, Nothing, Sent, Once
  <2>5. QED
    BY <2>4 DEF Abstract!Next
<1>6. ASSUME NEW t \in Topic, Unsubscribe(c, t) PROVE Abstract!Next
  <2>1. DOMAIN clients' = DOMAIN clients
    BY <1>6, <1>a DEF Unsubscribe
  <2>2. \A d \in Client : subscriptionsOf(d)' =
          IF d = c THEN subscriptionsOf(d) \ {t} ELSE subscriptionsOf(d)
    BY <1>0, <1>6, UnsubscribeLemma DEF Unsubscribe
  <2>3. Subscriptions' = Subscriptions \ {<<c, t>>}
    BY <2>2 DEF Subscriptions
  <2>4. Abstract!Unsubscribe(c, t)
    BY <1>6, <2>1, <2>3 DEF Unsubscribe, Abstract!Unsubscribe, Abstract!Nothing, Abstract!Sent,
                            Abstract!Once, Nothing, Sent, Once
  <2>5. QED
    BY <2>4 DEF Abstract!Next
<1>7. ASSUME NEW t \in Topic, NEW u \in Uuid, Publish(c, t, u) PROVE Abstract!Next
  <2>1. DOMAIN clients' = DOMAIN clients
    BY <1>7, <1>a DEF Publish
  <2>2. QED
    BY <1>7, <2>1, RouteRefines DEF Publish
<1>8. QED
  BY <1>1, <1>2, <1>3, <1>4, <1>5, <1>6, <1>7

LEMMA StepRefines == BrokerAssumption /\ Inv /\ [Next]_vars => [Abstract!Next]_(Abstract!vars)
<1> SUFFICES ASSUME BrokerAssumption, Inv, [Next]_vars
             PROVE  Abstract!Next \/ UNCHANGED Abstract!vars
  OBVIOUS
<1>0. ClientsOK /\ RegInv
  BY DEF Inv
<1>1. CASE PollLocal
  BY <1>1, LocalMessageRefines, SilentRefines DEF PollLocal
<1>2. CASE DrainPeer
  BY <1>2, RouteRefines, SilentRefines DEF DrainPeer
<1>3. CASE \/ PollSinglePart \/ DrainDone \/ CleanupSkip \/ CleanupBegin \/ CleanupEnd \/ StatsSkip
  <2>1. sent' = Nothing /\ UNCHANGED <<regVars, clients>>
    BY <1>3 DEF PollSinglePart, DrainDone, CleanupSkip, CleanupBegin, CleanupEnd, StatsSkip
  <2>2. QED
    BY <2>1, SilentRefines
<1>4. ASSUME NEW c \in Client, Sweep(c) PROVE Abstract!Next
  <2>1. CASE brokerRemoveClient(c)
    <3>1. Abstract!Leave(c)
      BY <1>4, <2>1, RemovedRelationLemma DEF Sweep
    <3>2. QED
      BY <3>1 DEF Abstract!Next
  <2>2. CASE UNCHANGED <<regVars, clients>>
    BY <1>4, <2>2, SilentRefines DEF Sweep
  <2>3. QED
    BY <1>4, <2>1, <2>2 DEF Sweep
<1>5. CASE broadcastStats
  <2> DEFINE A == {c \in DOMAIN clients : <<c, StatsTopic>> \in Subscriptions}
  <2>1. StatsTopic \in Topic
    BY DEF BrokerAssumption
  <2>2. ASSUME NEW c \in Client
        PROVE  Occurrences(subscribersOf(StatsTopic), c) = IF c \in A THEN 1 ELSE 0
    <3>1. Occurrences(subscribersOf(StatsTopic), c) = IF StatsTopic \in subscriptionsOf(c) THEN 1 ELSE 0
      BY <1>0, <2>1, LookupLemma
    <3>2. StatsTopic \in subscriptionsOf(c) => c \in DOMAIN clients
      BY KnownLemma
    <3>3. QED
      BY <2>1, <3>1, <3>2, RelationLemma
  <2>3. [c \in Client |-> Occurrences(subscribersOf(StatsTopic), c)] = Once(A)
    BY <2>2 DEF Once
  <2>4. Subscriptions' = Subscriptions /\ DOMAIN clients' = DOMAIN clients
    BY <1>5, SameRelationLemma DEF broadcastStats
  <2>5. Abstract!Report
    BY <1>5, <2>3, <2>4 DEF broadcastStats, Abstract!Report, Abstract!Sent, Abstract!Once, Sent, Once
  <2>6. QED
    BY <2>5 DEF Abstract!Next
<1>6. CASE Tick \/ UNCHANGED vars
  <2>1. UNCHANGED regVars /\ sent' = sent /\ DOMAIN clients' = DOMAIN clients
    BY <1>6 DEF Tick, vars
  <2>2. QED
    BY <2>1, SameRelationLemma DEF Abstract!vars
<1>7. QED
  BY <1>1, <1>2, <1>3, <1>4, <1>5, <1>6 DEF Next, Loop

(* The broker implements PubSub: exactly one copy of every routed message  *)
(* to every known client with an exact or wildcard subscription, none to   *)
(* its local sender and none to anybody else; a client joins without       *)
(* subscriptions and leaves with all of them.                              *)
THEOREM BrokerImplementsPubSub == Spec => ImplementsPubSub
<1>1. Init => Abstract!Init
  BY DEF Init, RegInit, Abstract!Init, Abstract!Nothing, Abstract!Sent, Abstract!Once,
         Nothing, Sent, Once, Subscriptions, subscriptionsOf
<1>2. QED
  BY <1>1, StepRefines, BrokerInvariant, BrokerAssumption, PTL
     DEF Spec, ImplementsPubSub, Abstract!Spec

=============================================================================
