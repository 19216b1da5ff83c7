--------------------------- MODULE SessionProofs ---------------------------
(***************************************************************************)
(* For any topics, queue sizes and numbers of faults: as long as no queue  *)
(* or pipe fills up and the connection does not break, a quiet connected   *)
(* client is subscribed to everything it has a callback for.               *)
(***************************************************************************)
EXTENDS Session, FiniteSetTheorems, SequenceTheorems, TLAPS

(* Nothing a running client or its broker puts into a queue or a pipe is   *)
(* dropped: SafeQueue::push and a send on a full pipe only drop when there *)
(* is no room.                                                             *)
HasRoom ==
  life = "up" => /\ Len(control) < ControlMax /\ Len(inbox) < InMax
                 /\ Len(up) < PipeMax /\ Len(down) < PipeMax

-----------------------------------------------------------------------------
(* A broker that has the topics T will have t once it has processed the    *)
(* messages of s: it is in T or they subscribe to it, and no later one     *)
(* unsubscribes.                                                           *)
WillHave(t, s, T) ==
  \/ t \in T /\ \A i \in 1..Len(s) : s[i] # Unsub(t)
  \/ \E i \in 1..Len(s) : s[i] = Sub(t) /\ \A j \in 1..Len(s) : j > i => s[j] # Unsub(t)

(* A RESET that will make the client repeat its subscriptions. *)
ResetComing == Holds(down, "RESET") \/ Holds(inbox, "RESET") \/ processing = "reset"

Types ==
  /\ handlers \subseteq Topic \X Instance /\ IsFiniteSet(handlers)
  /\ control \in Seq(UpMsg) /\ up \in Seq(UpMsg)
  /\ outbound \in Seq({Bare("DATA")})
  /\ inbox \in Seq(DownMsg) /\ down \in Seq(DownMsg)
  /\ faults \in [Fault -> Nat]

(* A running client has said no goodbye. *)
NoGoodbye ==
  life = "up" => ~Holds(up, Bare("DISCONNECT")) /\ ~Holds(control, Bare("DISCONNECT"))

(* What makes up for a subscription the broker does not have: the client   *)
(* repeats all when it gets online or gets a RESET; a broker that does not *)
(* know the client will send one; otherwise the SUBSCRIBE is on its way.   *)
Resyncs ==
  life = "up" /\ ~Broken =>
    \/ ~connected \/ ~known \/ ResetComing
    \/ \A t \in Keys : WillHave(t, up \o control, subs)

Inv == Types /\ NoGoodbye /\ Resyncs

-----------------------------------------------------------------------------
(* Offer drops nothing when it leaves room. *)
LEMMA OfferKeepsAll ==
  ASSUME NEW M, NEW q \in Seq(M), NEW ms \in Seq(M), NEW max \in Nat
  PROVE  /\ Offer(q, max, ms) \in Seq(M)
         /\ Len(Offer(q, max, ms)) < max => Offer(q, max, ms) = q \o ms
<1> DEFINE all == q \o ms
           n == IF Len(all) > max THEN max ELSE Len(all)
<1>1. all \in Seq(M) /\ Len(all) \in Nat /\ n \in 0..Len(all)
  OBVIOUS
<1>2. Offer(q, max, ms) = SubSeq(all, 1, n)
  BY DEF Offer
<1>3. \A i \in 1..n : all[i] \in M
  BY <1>1
<1>4. SubSeq(all, 1, n) \in Seq(M) /\ Len(SubSeq(all, 1, n)) = n
  BY <1>1, <1>3, SubSeqProperties, Z3
<1>5. Len(all) <= max => SubSeq(all, 1, n) = all
  BY <1>1, SubSeqFull
<1>6. QED
  BY <1>1, <1>2, <1>4, <1>5

(* What is in a sequence that was extended or lost its head. *)
LEMMA HoldsConcat ==
  ASSUME NEW M, NEW s \in Seq(M), NEW ms \in Seq(M), NEW e
  PROVE  Holds(s \o ms, e) <=> Holds(s, e) \/ Holds(ms, e)
<1> DEFINE all == s \o ms
<1>1. /\ all \in Seq(M) /\ Len(all) = Len(s) + Len(ms)
      /\ \A i \in 1..Len(s) : i \in 1..Len(all) /\ all[i] = s[i]
      /\ \A k \in 1..Len(ms) : Len(s) + k \in 1..Len(all) /\ all[Len(s) + k] = ms[k]
      /\ \A j \in 1..Len(all) : j > Len(s) => j - Len(s) \in 1..Len(ms) /\ all[j] = ms[j - Len(s)]
  OBVIOUS
<1> HIDE DEF all
<1>2. ASSUME NEW j \in 1..Len(all), all[j] = e
      PROVE  Holds(s, e) \/ Holds(ms, e)
  <2>1. j \in 1..Len(s) \/ j > Len(s)
    BY <1>1
  <2>2. QED
    BY <1>1, <1>2, <2>1 DEF Holds
<1>3. Holds(s, e) \/ Holds(ms, e) => Holds(all, e)
  BY <1>1 DEF Holds
<1>4. QED
  BY <1>2, <1>3 DEF all, Holds

LEMMA HoldsTail ==
  ASSUME NEW M, NEW s \in Seq(M), s # <<>>, NEW e
  PROVE  /\ Holds(Tail(s), e) => Holds(s, e)
         /\ Holds(s, e) => Head(s) = e \/ Holds(Tail(s), e)
<1>1. /\ Tail(s) \in Seq(M) /\ Len(s) \in Nat \ {0} /\ Len(Tail(s)) = Len(s) - 1
      /\ Head(s) = s[1]
      /\ \A i \in 1..Len(Tail(s)) : i + 1 \in 1..Len(s) /\ Tail(s)[i] = s[i + 1]
      /\ \A i \in 1..Len(s) : i # 1 => i - 1 \in 1..Len(Tail(s)) /\ Tail(s)[i - 1] = s[i]
  OBVIOUS
<1>2. QED
  BY <1>1 DEF Holds

LEMMA HoldsOne ==
  ASSUME NEW d, NEW e
  PROVE  Holds(<<d>>, e) <=> d = e
BY DEF Holds

(* InSomeOrder lists every element of a finite set. *)
LEMMA OrderLists ==
  ASSUME NEW S, IsFiniteSet(S)
  PROVE  /\ Cardinality(S) \in Nat
         /\ InSomeOrder(S) \in [1..Cardinality(S) -> S]
         /\ \A x \in S : \E k \in 1..Cardinality(S) : InSomeOrder(S)[k] = x
<1> DEFINE n == Cardinality(S)
           f == InSomeOrder(S)
<1>1. n \in Nat /\ ExistsBijection(1..n, S)
  BY FS_CardinalityType
<1>2. \E g \in [1..n -> S] : IsInjective(g)
  BY <1>1 DEF ExistsBijection, Bijection, Injection
<1>3. f \in [1..n -> S] /\ IsInjective(f)
  BY <1>2 DEF InSomeOrder
<1>4. f \in Injection(1..n, S)
  BY <1>3 DEF Injection
<1>5. Cardinality(1..n) = n
  BY <1>1, FS_Interval
<1>6. f \in Surjection(1..n, S)
  BY <1>4, <1>5, FS_Injection
<1>7. QED
  BY <1>1, <1>3, <1>6 DEF Surjection

(* The keys of finitely many handlers. *)
LEMMA KeysFinite ==
  ASSUME IsFiniteSet(handlers)
  PROVE  IsFiniteSet(Keys)
<1> DEFINE f == [h \in handlers |-> h[1]]
<1>1. f \in Surjection(handlers, Keys)
  BY DEF Surjection, Keys
<1>2. QED
  BY <1>1, FS_Surjection

(* What resubscribing sends: a SUBSCRIBE for every key and nothing else. *)
LEMMA SubscribeAllCovers ==
  ASSUME Types
  PROVE  /\ SubscribeAll \in Seq(UpMsg)
         /\ \A t \in Keys : \E k \in 1..Len(SubscribeAll) : SubscribeAll[k] = Sub(t)
         /\ \A k \in 1..Len(SubscribeAll) : SubscribeAll[k] \in {Sub(t) : t \in Topic}
<1> DEFINE n == Cardinality(Keys)
           f == InSomeOrder(Keys)
<1>1. Keys \subseteq Topic
  BY DEF Types, Keys
<1>2. n \in Nat /\ f \in [1..n -> Keys] /\ \A t \in Keys : \E k \in 1..n : f[k] = t
  BY KeysFinite, OrderLists DEF Types
<1>3. SubscribeAll = [k \in 1..n |-> Sub(f[k])]
  BY DEF SubscribeAll
<1> HIDE DEF n, f
<1>4. \A k \in 1..n : Sub(f[k]) \in {Sub(t) : t \in Topic}
  BY <1>1, <1>2
<1>5. {Sub(t) : t \in Topic} \subseteq UpMsg
  BY DEF Sub, UpMsg
<1>6. SubscribeAll \in Seq(UpMsg) /\ Len(SubscribeAll) = n
  BY <1>2, <1>3, <1>4, <1>5
<1>7. QED
  BY <1>2, <1>3, <1>4, <1>6

-----------------------------------------------------------------------------
(* Messages that do not unsubscribe from t change nothing for it. *)
LEMMA WillHaveAppend ==
  ASSUME NEW t, NEW T, NEW s \in Seq(UpMsg), NEW ms \in Seq(UpMsg),
         \A k \in 1..Len(ms) : ms[k] # Unsub(t),
         WillHave(t, s, T) \/ \E k \in 1..Len(ms) : ms[k] = Sub(t)
  PROVE  WillHave(t, s \o ms, T)
<1> DEFINE all == s \o ms
<1>1. /\ all \in Seq(UpMsg) /\ Len(all) = Len(s) + Len(ms)
      /\ \A i \in 1..Len(s) : all[i] = s[i]
      /\ \A k \in 1..Len(ms) : all[Len(s) + k] = ms[k]
      /\ \A j \in 1..Len(all) : j > Len(s) => j - Len(s) \in 1..Len(ms) /\ all[j] = ms[j - Len(s)]
  OBVIOUS
<1> HIDE DEF all
<1>2. \A j \in 1..Len(all) : j > Len(s) => all[j] # Unsub(t)
  BY <1>1
<1>3. CASE t \in T /\ \A i \in 1..Len(s) : s[i] # Unsub(t)
  <2>1. \A j \in 1..Len(all) : all[j] # Unsub(t)
    BY <1>1, <1>2, <1>3
  <2>2. QED
    BY <1>3, <2>1 DEF WillHave, all
<1>4. ASSUME NEW i \in 1..Len(s), s[i] = Sub(t), \A j \in 1..Len(s) : j > i => s[j] # Unsub(t)
      PROVE  WillHave(t, all, T)
  <2>1. i \in 1..Len(all) /\ all[i] = Sub(t)
    BY <1>1, <1>4
  <2>2. ASSUME NEW j \in 1..Len(all), j > i
        PROVE  all[j] # Unsub(t)
    <3>1. CASE j <= Len(s)
      <4>1. j \in 1..Len(s)
        BY <1>1, <3>1
      <4>2. QED
        BY <1>1, <1>4, <2>2, <4>1
    <3>2. CASE j > Len(s)
      BY <1>2, <3>2
    <3>3. QED
      BY <1>1, <3>1, <3>2
  <2>3. QED
    BY <2>1, <2>2 DEF WillHave
<1>5. ASSUME NEW k \in 1..Len(ms), ms[k] = Sub(t)
      PROVE  WillHave(t, all, T)
  <2>1. Len(s) + k \in 1..Len(all) /\ all[Len(s) + k] = Sub(t)
    BY <1>1, <1>5
  <2>2. \A j \in 1..Len(all) : j > Len(s) + k => all[j] # Unsub(t)
    BY <1>1, <1>2
  <2>3. QED
    BY <2>1, <2>2 DEF WillHave
<1>6. QED
  BY <1>3, <1>4, <1>5 DEF WillHave, all

(* The broker takes the first message. *)
LEMMA WillHaveTail ==
  ASSUME NEW t, NEW T, NEW s \in Seq(UpMsg), s # <<>>, WillHave(t, s, T),
         NEW U, Head(s) = Sub(t) => t \in U, Head(s) # Unsub(t) /\ t \in T => t \in U
  PROVE  WillHave(t, Tail(s), U)
<1>1. /\ Tail(s) \in Seq(UpMsg) /\ Len(s) \in Nat \ {0} /\ Len(Tail(s)) = Len(s) - 1
      /\ Head(s) = s[1]
      /\ \A i \in 1..Len(Tail(s)) : i + 1 \in 1..Len(s) /\ Tail(s)[i] = s[i + 1]
  OBVIOUS
<1>2. CASE t \in T /\ \A i \in 1..Len(s) : s[i] # Unsub(t)
  <2>1. Head(s) # Unsub(t)
    BY <1>1, <1>2
  <2>2. \A i \in 1..Len(Tail(s)) : Tail(s)[i] # Unsub(t)
    BY <1>1, <1>2
  <2>3. QED
    BY <1>2, <2>1, <2>2 DEF WillHave
<1>3. ASSUME NEW i \in 1..Len(s), s[i] = Sub(t), \A j \in 1..Len(s) : j > i => s[j] # Unsub(t)
      PROVE  WillHave(t, Tail(s), U)
  <2>1. \A j \in 1..Len(Tail(s)) : j > i - 1 => Tail(s)[j] # Unsub(t)
    BY <1>1, <1>3
  <2>2. CASE i = 1
    BY <1>1, <1>3, <2>1, <2>2 DEF WillHave
  <2>3. CASE i # 1
    <3>1. i - 1 \in 1..Len(Tail(s)) /\ Tail(s)[i - 1] = Sub(t)
      BY <1>1, <1>3, <2>3
    <3>2. QED
      BY <2>1, <3>1 DEF WillHave
  <2>4. QED
    BY <2>2, <2>3
<1>4. QED
  BY <1>2, <1>3 DEF WillHave

-----------------------------------------------------------------------------
(* The messages there are. *)
LEMMA Messages ==
  /\ \A k \in {"CONNECT", "DISCONNECT", "HEARTBEAT", "DATA"} : Bare(k) \in UpMsg
  /\ \A t \in Topic : Sub(t) \in UpMsg /\ Unsub(t) \in UpMsg
  /\ {"RESET", "HEARTBEAT_ACK", "DATA"} = DownMsg
BY DEF UpMsg, Bare, Sub, Unsub, DownMsg

LEMMA MessageShape ==
  ASSUME NEW m \in UpMsg
  PROVE  /\ m[1] = "DISCONNECT" => m = Bare("DISCONNECT")
         /\ m[1] = "UNSUBSCRIBE" => m = Unsub(m[2])
<1>1. CASE m \in {Bare(k) : k \in {"CONNECT", "DISCONNECT", "HEARTBEAT", "DATA"}}
  <2>1. PICK k \in {"CONNECT", "DISCONNECT", "HEARTBEAT", "DATA"} : m = <<k, "">>
    BY <1>1 DEF Bare
  <2>2. m[1] = k
    BY <2>1
  <2>3. QED
    BY <2>1, <2>2 DEF Bare
<1>2. CASE \E k \in {"SUBSCRIBE", "UNSUBSCRIBE"}, t \in Topic : m = <<k, t>>
  BY <1>2 DEF Unsub
<1>3. QED
  BY <1>1, <1>2 DEF UpMsg

LEMMA SessionInit == Init => Inv
<1> SUFFICES ASSUME Init PROVE Inv
  OBVIOUS
<1>1. Types
  <2>1. IsFiniteSet(handlers)
    BY FS_EmptySet DEF Init
  <2>2. QED
    BY <2>1 DEF Init, Types
<1>2. NoGoodbye
  BY DEF Init, NoGoodbye, Holds
<1>3. Resyncs
  BY DEF Init, Resyncs
<1>4. QED
  BY <1>1, <1>2, <1>3 DEF Inv

(* Every queue holds messages of its kind. *)
LEMMA TypesStep == SessionAssumption /\ Types /\ [Next]_vars => Types'
<1> SUFFICES ASSUME SessionAssumption, Types, [Next]_vars
             PROVE  Types'
  OBVIOUS
<1> USE Messages
<1>0. /\ \A q, ms \in Seq(UpMsg) : \A max \in Nat : Offer(q, max, ms) \in Seq(UpMsg)
      /\ \A q, ms \in Seq(DownMsg) : \A max \in Nat : Offer(q, max, ms) \in Seq(DownMsg)
      /\ \A q, ms \in Seq({Bare("DATA")}) : \A max \in Nat : Offer(q, max, ms) \in Seq({Bare("DATA")})
  BY OfferKeepsAll
<1>m. /\ \A m \in UpMsg : <<m>> \in Seq(UpMsg)
      /\ \A m \in DownMsg : <<m>> \in Seq(DownMsg)
      /\ <<Bare("DATA")>> \in Seq({Bare("DATA")})
      /\ <<>> \in Seq(UpMsg) /\ <<>> \in Seq({Bare("DATA")})
  OBVIOUS
<1>f. ASSUME NEW k, Fail(k)
      PROVE  faults' \in [Fault -> Nat]
  BY <1>f DEF Fail, Types
<1>l. ASSUME LoseInFlight
      PROVE  up' \in Seq(UpMsg) /\ down' \in Seq(DownMsg)
  <2>1. PICK j \in 1..Len(up) + 1 : up' = SubSeq(up, j, Len(up))
    BY <1>l DEF LoseInFlight
  <2>2. PICK k \in 0..Len(down) : down' = SubSeq(down, 1, k)
    BY <1>l DEF LoseInFlight
  <2>3. QED
    BY <2>1, <2>2 DEF Types
<1>1. ASSUME NEW t \in Topic, NEW i \in Instance, performRegistration(t, i)
      PROVE  Types'
  <2>1. IsFiniteSet(handlers') /\ handlers' \subseteq Topic \X Instance
    <3>1. handlers' = handlers \cup {<<t, i>>}
      BY <1>1 DEF performRegistration
    <3>2. IsFiniteSet(handlers')
      BY <3>1, FS_AddElement DEF Types
    <3>3. QED
      BY <3>1, <3>2 DEF Types
  <2>2. control' \in Seq(UpMsg)
    BY <1>0, <1>m, <1>1 DEF performRegistration, Types, SessionAssumption
  <2>3. QED
    BY <1>1, <2>1, <2>2 DEF performRegistration, Types, threadVars, netVars, brokerVars
<1>2. ASSUME NEW t \in Topic, NEW i \in Instance, performUnregistration(t, i)
      PROVE  Types'
  <2>1. IsFiniteSet(handlers') /\ handlers' \subseteq Topic \X Instance
    BY <1>2, FS_RemoveElement DEF performUnregistration, Types
  <2>2. control' \in Seq(UpMsg)
    BY <1>0, <1>m, <1>2 DEF performUnregistration, Types, SessionAssumption
  <2>3. QED
    BY <1>2, <2>1, <2>2 DEF performUnregistration, Types, threadVars, netVars, brokerVars
<1>3. CASE sendDataInternal
  BY <1>0, <1>m, <1>3 DEF sendDataInternal, Types, SessionAssumption, threadVars, netVars, brokerVars
<1>4. CASE Shutdown
  BY <1>0, <1>m, <1>4 DEF Shutdown, Types, SessionAssumption, netVars, brokerVars
<1>5. CASE Destroy
  BY <1>5 DEF Destroy, Types, queueVars, netVars, brokerVars
<1>6. CASE PollNothing
  BY <1>6 DEF PollNothing, Types, queueVars, netVars, brokerVars
<1>7. CASE PollMessage
  <2>1. <<Bare("CONNECT")>> \o SubscribeAll \in Seq(UpMsg)
    BY SubscribeAllCovers
  <2>2. control' \in Seq(UpMsg)
    BY <1>0, <1>m, <1>7, <2>1 DEF PollMessage, Types, SessionAssumption
  <2>3. down' \in Seq(DownMsg) /\ Head(down) \in DownMsg
    BY <1>7 DEF PollMessage, Types
  <2>4. inbox' \in Seq(DownMsg)
    BY <1>0, <1>m, <1>7, <2>3 DEF PollMessage, Types, SessionAssumption
  <2>5. QED
    BY <1>7, <2>2, <2>3, <2>4 DEF PollMessage, Types, brokerVars
<1>s. ASSUME NEW beat \in {<<>>, <<Bare("HEARTBEAT")>>}, Send(beat)
      PROVE  up' \in Seq(UpMsg) /\ control' \in Seq(UpMsg) /\ outbound' \in Seq({Bare("DATA")})
  <2>1. outbound \in Seq(UpMsg) /\ beat \in Seq(UpMsg)
    <3>1. {Bare("DATA")} \subseteq UpMsg
      OBVIOUS
    <3>2. outbound \in Seq(UpMsg)
      BY <3>1, SeqMonotonic DEF Types
    <3>3. QED
      BY <1>m, <3>2
  <2>2. control \o outbound \o beat \in Seq(UpMsg)
    BY <2>1 DEF Types
  <2>3. QED
    BY <1>0, <1>m, <1>s, <2>2 DEF Send, Types, SessionAssumption
<1>8. CASE sendHeartbeat
  BY <1>8, <1>s DEF sendHeartbeat, Types, brokerVars
<1>9. CASE NoHeartbeat
  BY <1>9, <1>s DEF NoHeartbeat, Types, brokerVars
<1>10. CASE ServerTimeout
  BY <1>10, <1>s, <1>f DEF ServerTimeout, Types, brokerVars
<1>11. CASE FinalDrain
  BY <1>0, <1>m, <1>11 DEF FinalDrain, Types, SessionAssumption, brokerVars
<1>12. CASE ProcessingPop
  BY <1>12 DEF ProcessingPop, Types, netVars, brokerVars
<1>13. CASE ProcessingStopped
  BY <1>13 DEF ProcessingStopped, Types, queueVars, netVars, brokerVars
<1>14. CASE resubscribeAll
  BY <1>0, <1>m, <1>14, SubscribeAllCovers DEF resubscribeAll, Types, SessionAssumption, netVars, brokerVars
<1>15. CASE processMessage
  <2>1. up' \in Seq(UpMsg)
    BY <1>15 DEF processMessage, Types
  <2>2. down' \in Seq(DownMsg)
    <3>1. \/ down' = down \/ down' = Offer(down, PipeMax, <<"RESET">>)
          \/ down' = Offer(down, PipeMax, <<"HEARTBEAT_ACK">>)
      BY <1>15, Zenon DEF processMessage
    <3>2. QED
      BY <1>0, <1>m, <3>1 DEF Types, SessionAssumption
  <2>3. QED
    BY <1>15, <2>1, <2>2 DEF processMessage, Types, queueVars, threadVars
<1>16. CASE RouteToClient
  BY <1>0, <1>m, <1>16 DEF RouteToClient, Types, SessionAssumption, queueVars, threadVars, brokerVars
<1>17. CASE ZombieTimeout
  BY <1>17, <1>f DEF ZombieTimeout, Types, queueVars, threadVars, netVars
<1>18. CASE BrokerRestart
  BY <1>18, <1>f, <1>l DEF BrokerRestart, Types, queueVars, threadVars
<1>19. CASE ConnectionBreak
  BY <1>19, <1>f, <1>l DEF ConnectionBreak, Types, queueVars, threadVars, brokerVars
<1>20. CASE UNCHANGED vars
  BY <1>20 DEF vars, Types, queueVars, netVars
<1>21. QED
  BY <1>1, <1>2, <1>3, <1>4, <1>5, <1>6, <1>7, <1>8, <1>9, <1>10, <1>11, <1>12, <1>13, <1>14, <1>15,
     <1>16, <1>17, <1>18, <1>19, <1>20 DEF Next, WorkerStep, ProcessingStep

-----------------------------------------------------------------------------
(* With room in the queues, what is offered is what is in them afterwards. *)
LEMMA OfferExact ==
  /\ \A q, ms \in Seq(UpMsg) : \A max \in Nat : Len(Offer(q, max, ms)) < max => Offer(q, max, ms) = q \o ms
  /\ \A q, ms \in Seq(DownMsg) : \A max \in Nat : Len(Offer(q, max, ms)) < max => Offer(q, max, ms) = q \o ms
BY OfferKeepsAll

(* Concatenation is associative; named, for the provers. *)
Assoc(q, r, ms) == (q \o r) \o ms = q \o (r \o ms)

LEMMA ConcatIn ==
  ASSUME NEW M, NEW q \in Seq(M), NEW r \in Seq(M)
  PROVE  q \o r \in Seq(M)
OBVIOUS

LEMMA ConcatAssoc ==
  ASSUME NEW M, NEW q \in Seq(M), NEW r \in Seq(M), NEW ms \in Seq(M)
  PROVE  Assoc(q, r, ms)
<1>1. (q \o r) \o ms = q \o (r \o ms)
  OBVIOUS
<1>2. QED
  BY <1>1 DEF Assoc

LEMMA ConcatUp ==
  /\ \A q, r \in Seq(UpMsg) : q \o r \in Seq(UpMsg)
  /\ \A q, r, ms \in Seq(UpMsg) : Assoc(q, r, ms)
<1>1. \A q, r \in Seq(UpMsg) : q \o r \in Seq(UpMsg)
  BY ConcatIn, Zenon
<1>2. \A q, r, ms \in Seq(UpMsg) : Assoc(q, r, ms)
  BY ConcatAssoc, Zenon
<1>3. QED
  BY <1>1, <1>2, Zenon

(* What the three kinds of sending put into the pipe of a running client. *)
LEMMA SendLemma ==
  ASSUME SessionAssumption, Types, HasRoom', life' = "up",
         NEW beat \in {<<>>, <<Bare("HEARTBEAT")>>}, Send(beat)
  PROVE  \E ms \in Seq(UpMsg) :
           /\ up' = up \o (control \o ms) /\ control' = <<>>
           /\ \A k \in 1..Len(ms) : ms[k] \in {Bare("DATA"), Bare("HEARTBEAT")}
<1> DEFINE ms == outbound \o beat
<1>0. Bare("DATA") \in UpMsg /\ Bare("HEARTBEAT") \in UpMsg
  BY Messages
<1>1. outbound \in Seq(UpMsg) /\ beat \in Seq(UpMsg) /\ control \in Seq(UpMsg) /\ up \in Seq(UpMsg)
  <2>1. {Bare("DATA")} \subseteq UpMsg
    BY <1>0
  <2>2. outbound \in Seq(UpMsg)
    BY <2>1, SeqMonotonic DEF Types
  <2>3. <<>> \in Seq(UpMsg) /\ <<Bare("HEARTBEAT")>> \in Seq(UpMsg)
    BY <1>0
  <2>4. QED
    BY <2>2, <2>3 DEF Types
<1> HIDE DEF ms
<1>2. ms \in Seq(UpMsg) /\ control \o ms \in Seq(UpMsg) /\ control \o outbound \o beat = control \o ms
  <2>1. ms \in Seq(UpMsg)
    BY <1>1 DEF ms
  <2>2. control \o outbound \o beat = control \o ms
    <3>1. Assoc(control, outbound, beat)
      BY <1>1, ConcatUp, Zenon
    <3>2. QED
      BY <3>1 DEF Assoc, ms
  <2>3. QED
    BY <1>1, <2>1, <2>2
<1>3. \A k \in 1..Len(ms) : ms[k] \in {Bare("DATA"), Bare("HEARTBEAT")}
  <2>1. outbound \in Seq({Bare("DATA"), Bare("HEARTBEAT")})
    BY SeqMonotonic DEF Types
  <2>2. /\ <<>> \in Seq({Bare("DATA"), Bare("HEARTBEAT")})
        /\ <<Bare("HEARTBEAT")>> \in Seq({Bare("DATA"), Bare("HEARTBEAT")})
    OBVIOUS
  <2>3. beat \in Seq({Bare("DATA"), Bare("HEARTBEAT")})
    BY <2>2
  <2>4. ms \in Seq({Bare("DATA"), Bare("HEARTBEAT")})
    BY <2>1, <2>3, ConcatProperties DEF ms
  <2>5. QED
    BY <2>4
<1>4. up' = Offer(up, PipeMax, control \o ms) /\ control' = <<>>
  BY <1>2 DEF Send
<1>5. Len(up') < PipeMax
  BY DEF HasRoom
<1>6. up' = up \o (control \o ms)
  <2>1. PipeMax \in Nat
    BY DEF SessionAssumption
  <2> DEFINE all == control \o ms
  <2>2. all \in Seq(UpMsg) /\ up' = Offer(up, PipeMax, all) /\ up \in Seq(UpMsg)
    BY <1>1, <1>2, <1>4
  <2> HIDE DEF all
  <2>3. Offer(up, PipeMax, all) = up \o all
    BY <1>5, <2>1, <2>2, OfferExact
  <2>4. QED
    BY <2>2, <2>3 DEF all
<1>7. QED
  BY <1>2, <1>3, <1>4, <1>6

LEMMA StillUp == ASSUME [Next]_vars, life' = "up" PROVE life = "up"
<1>1. CASE UNCHANGED vars
  BY <1>1 DEF vars, threadVars
<1>2. CASE Next
  BY <1>2 DEF Next, WorkerStep, ProcessingStep, performRegistration, performUnregistration, sendDataInternal,
     Shutdown, Destroy, PollNothing, PollMessage, sendHeartbeat, NoHeartbeat, ServerTimeout, FinalDrain,
     ProcessingPop, ProcessingStopped, resubscribeAll, processMessage, RouteToClient, ZombieTimeout,
     BrokerRestart, ConnectionBreak, threadVars
<1>3. QED
  BY <1>1, <1>2

(* Only shutdown() queues a DISCONNECT. *)
LEMMA GoodbyeStep ==
  ASSUME SessionAssumption, Types, NoGoodbye, HasRoom', [Next]_vars
  PROVE  NoGoodbye'
<1> SUFFICES ASSUME life' = "up"
             PROVE  ~Holds(up', Bare("DISCONNECT")) /\ ~Holds(control', Bare("DISCONNECT"))
  BY DEF NoGoodbye, Holds
<1> DEFINE bye_ == Bare("DISCONNECT")
<1>0. /\ life = "up" /\ ~Holds(up, bye_) /\ ~Holds(control, bye_)
      /\ up \in Seq(UpMsg) /\ control \in Seq(UpMsg)
  BY StillUp DEF NoGoodbye, Types
<1>c. \A q, ms \in Seq(UpMsg) : Holds(q \o ms, bye_) <=> Holds(q, bye_) \/ Holds(ms, bye_)
  BY HoldsConcat
<1>1. \A t : Sub(t) # bye_ /\ Unsub(t) # bye_ /\ Bare("CONNECT") # bye_
             /\ Bare("DATA") # bye_ /\ Bare("HEARTBEAT") # bye_
  BY DEF Sub, Unsub, Bare
<1>2. ASSUME NEW ms \in Seq(UpMsg), ~Holds(ms, bye_), control' = Offer(control, ControlMax, ms)
      PROVE  ~Holds(control', bye_)
  <2>1. control' = control \o ms
    BY <1>0, <1>2, OfferExact DEF HasRoom, SessionAssumption
  <2>2. QED
    BY <1>0, <1>2, <2>1, <1>c
<1>3. ~Holds(SubscribeAll, bye_) /\ SubscribeAll \in Seq(UpMsg)
  BY <1>1, SubscribeAllCovers DEF Holds
<1>4. ASSUME NEW beat \in {<<>>, <<Bare("HEARTBEAT")>>}, Send(beat)
      PROVE  ~Holds(up', bye_) /\ ~Holds(control', bye_)
  <2>1. PICK ms \in Seq(UpMsg) :
           /\ up' = up \o (control \o ms) /\ control' = <<>>
           /\ \A k \in 1..Len(ms) : ms[k] \in {Bare("DATA"), Bare("HEARTBEAT")}
    BY <1>4, SendLemma
  <2>2. ~Holds(ms, bye_)
    BY <1>1, <2>1 DEF Holds
  <2>3. ~Holds(control \o ms, bye_) /\ control \o ms \in Seq(UpMsg)
    BY <1>0, <2>2, <1>c
  <2>4. ~Holds(up', bye_)
    BY <1>0, <2>1, <2>3, <1>c
  <2>5. QED
    BY <2>1, <2>4 DEF Holds
<1>5. ASSUME NEW m \in UpMsg, m # bye_
      PROVE  <<m>> \in Seq(UpMsg) /\ ~Holds(<<m>>, bye_)
  BY <1>5, HoldsOne
<1>6. ASSUME LoseInFlight
      PROVE  ~Holds(up', bye_)
  <2>1. PICK j \in 1..Len(up) + 1 : up' = SubSeq(up, j, Len(up))
    BY <1>6 DEF LoseInFlight
  <2>2. \A i \in 1..Len(up') : up'[i] = up[j + i - 1] /\ j + i - 1 \in 1..Len(up)
    BY <1>0, <2>1
  <2>3. QED
    BY <1>0, <2>2 DEF Holds
<1>7. ASSUME NEW t \in Topic, NEW i \in Instance, performRegistration(t, i)
      PROVE  ~Holds(up', bye_) /\ ~Holds(control', bye_)
  <2>1. <<Sub(t)>> \in Seq(UpMsg) /\ ~Holds(<<Sub(t)>>, bye_)
    BY <1>1, <1>5, Messages
  <2>2. QED
    BY <1>0, <1>2, <1>7, <2>1 DEF performRegistration, netVars
<1>8. ASSUME NEW t \in Topic, NEW i \in Instance, performUnregistration(t, i)
      PROVE  ~Holds(up', bye_) /\ ~Holds(control', bye_)
  <2>1. <<Unsub(t)>> \in Seq(UpMsg) /\ ~Holds(<<Unsub(t)>>, bye_)
    BY <1>1, <1>5, Messages
  <2>2. QED
    BY <1>0, <1>2, <1>8, <2>1 DEF performUnregistration, netVars
<1>9. CASE PollMessage
  <2> DEFINE hello == <<Bare("CONNECT")>>
  <2>1. hello \in Seq(UpMsg) /\ ~Holds(hello, bye_)
    BY <1>1, <1>5, Messages
  <2>2. ~connected => control' = Offer(control, ControlMax, hello \o SubscribeAll)
    BY <1>9 DEF PollMessage
  <2> HIDE DEF hello
  <2>3. hello \o SubscribeAll \in Seq(UpMsg) /\ ~Holds(hello \o SubscribeAll, bye_)
    BY <1>3, <1>c, <2>1, ConcatUp
  <2>4. QED
    BY <1>0, <1>2, <1>9, <2>2, <2>3 DEF PollMessage
<1>10. CASE sendHeartbeat \/ NoHeartbeat \/ ServerTimeout
  BY <1>4, <1>10 DEF sendHeartbeat, NoHeartbeat, ServerTimeout
<1>11. CASE resubscribeAll
  BY <1>0, <1>2, <1>3, <1>11 DEF resubscribeAll, netVars
<1>12. CASE processMessage
  BY <1>0, <1>12, HoldsTail DEF processMessage, queueVars
<1>13. CASE BrokerRestart \/ ConnectionBreak
  BY <1>0, <1>6, <1>13 DEF BrokerRestart, ConnectionBreak, queueVars
<1>14. CASE \/ sendDataInternal \/ PollNothing \/ ProcessingPop \/ ProcessingStopped
            \/ RouteToClient \/ ZombieTimeout \/ UNCHANGED vars
  BY <1>0, <1>14 DEF sendDataInternal, PollNothing, ProcessingPop, ProcessingStopped, RouteToClient,
     ZombieTimeout, vars, queueVars, netVars
<1>15. CASE Shutdown \/ Destroy \/ FinalDrain
  BY <1>0, <1>15 DEF Shutdown, Destroy, FinalDrain
<1>16. QED
  BY <1>7, <1>8, <1>9, <1>10, <1>11, <1>12, <1>13, <1>14, <1>15 DEF Next, WorkerStep, ProcessingStep

-----------------------------------------------------------------------------
(* More messages for the broker that unsubscribe from no key. *)
LEMMA PipeGrows ==
  ASSUME Types, NEW K, NEW T, NEW ms \in Seq(UpMsg), NEW q \in Seq(UpMsg), q = (up \o control) \o ms,
         \A t \in K : \A k \in 1..Len(ms) : ms[k] # Unsub(t),
         \A t \in K : \/ WillHave(t, up \o control, T)
                     \/ \E k \in 1..Len(ms) : ms[k] = Sub(t)
  PROVE  \A t \in K : WillHave(t, q, T)
<1>1. up \o control \in Seq(UpMsg)
  BY ConcatUp DEF Types
<1>2. QED
  BY <1>1, WillHaveAppend

(* What the processing thread of a running client takes out of the queue   *)
(* and the worker puts in keeps a RESET in sight.                          *)
LEMMA ResetKept ==
  ASSUME SessionAssumption, Types, HasRoom', life = "up", life' = "up", ResetComing,
         PollMessage \/ ProcessingPop
  PROVE  ResetComing'
<1>1. inbox \in Seq(DownMsg) /\ down \in Seq(DownMsg)
  BY DEF Types
<1>2. CASE PollMessage
  <2>1. down # <<>> /\ down' = Tail(down) /\ processing' = processing
    BY <1>2 DEF PollMessage
  <2>2. Head(down) \in DownMsg /\ <<Head(down)>> \in Seq(DownMsg)
    BY <1>1, <2>1
  <2>3. CASE Head(down) = "HEARTBEAT_ACK"
    <3>1. inbox' = inbox
      BY <1>2, <2>3 DEF PollMessage
    <3>2. Holds(down, "RESET") => Holds(down', "RESET")
      BY <1>1, <2>1, <2>3, HoldsTail
    <3>3. QED
      BY <2>1, <3>1, <3>2 DEF ResetComing
  <2>4. CASE Head(down) # "HEARTBEAT_ACK"
    <3>1. inbox' = Offer(inbox, InMax, <<Head(down)>>)
      BY <1>2, <2>4 DEF PollMessage
    <3>2. inbox' = inbox \o <<Head(down)>>
      BY <1>1, <2>2, <3>1, OfferExact DEF HasRoom, SessionAssumption
    <3>3. Holds(inbox', "RESET") <=> Holds(inbox, "RESET") \/ Head(down) = "RESET"
      BY <1>1, <2>2, <3>2, HoldsConcat, HoldsOne
    <3>4. Holds(down, "RESET") => Head(down) = "RESET" \/ Holds(down', "RESET")
      BY <1>1, <2>1, HoldsTail
    <3>5. QED
      BY <2>1, <3>3, <3>4 DEF ResetComing
  <2>5. QED
    BY <2>3, <2>4
<1>3. CASE ProcessingPop
  <2>1. processing = "pop" /\ inbox # <<>> /\ inbox' = Tail(inbox) /\ down' = down
        /\ (Head(inbox) = "RESET" => processing' = "reset")
    BY <1>3 DEF ProcessingPop, netVars
  <2>2. Holds(inbox, "RESET") => Head(inbox) = "RESET" \/ Holds(inbox', "RESET")
    BY <1>1, <2>1, HoldsTail
  <2>3. QED
    BY <2>1, <2>2 DEF ResetComing
<1>4. QED
  BY <1>2, <1>3

(* A message reaches the broker. *)
LEMMA ProcessLemma ==
  ASSUME SessionAssumption, Types, NoGoodbye, Resyncs, HasRoom', life = "up", life' = "up", processMessage
  PROVE  Resyncs'
<1> SUFFICES ASSUME ~Broken, connected, known', ~ResetComing'
             PROVE  \A t \in Keys : WillHave(t, up' \o control, subs')
  BY DEF Resyncs, processMessage, Broken, queueVars, Keys, threadVars
<1> DEFINE m == Head(up)
<1>0. /\ up \in Seq(UpMsg) /\ control \in Seq(UpMsg) /\ down \in Seq(DownMsg)
      /\ up # <<>> /\ up' = Tail(up) /\ inbox' = inbox /\ processing' = processing
  BY DEF Types, processMessage, queueVars, threadVars
<1>1. m \in UpMsg /\ m # Bare("DISCONNECT")
  BY <1>0 DEF NoGoodbye, Holds
<1>2. m[1] # "DISCONNECT"
  BY <1>1, MessageShape
<1>3. ASSUME NEW d \in DownMsg, down' = Offer(down, PipeMax, <<d>>)
      PROVE  Holds(down', "RESET") <=> Holds(down, "RESET") \/ d = "RESET"
  <2>1. <<d>> \in Seq(DownMsg)
    OBVIOUS
  <2>2. down' = down \o <<d>>
    BY <1>0, <1>3, <2>1, OfferExact DEF HasRoom, SessionAssumption
  <2>3. QED
    BY <1>0, <2>1, <2>2, HoldsConcat, HoldsOne
<1>4. known
  <2>1. SUFFICES ASSUME ~known PROVE FALSE
    OBVIOUS
  <2>2. down' = Offer(down, PipeMax, <<"RESET">>)
    BY <1>2, <2>1 DEF processMessage
  <2>3. Holds(down', "RESET")
    BY <1>3, <2>2, Messages
  <2>4. QED
    BY <2>3 DEF ResetComing
<1>5. ~ResetComing
  <2>1. down' = down \/ down' = Offer(down, PipeMax, <<"HEARTBEAT_ACK">>)
    BY <1>2, <1>4 DEF processMessage
  <2>2. Holds(down, "RESET") => Holds(down', "RESET")
    BY <1>3, <2>1, Messages
  <2>3. QED
    BY <1>0, <2>2 DEF ResetComing
<1>6. \A t \in Keys : WillHave(t, up \o control, subs)
  BY <1>4, <1>5 DEF Resyncs
<1>7. subs' = CASE m[1] = "SUBSCRIBE" -> subs \cup {m[2]}
                [] m[1] = "UNSUBSCRIBE" -> subs \ {m[2]}
                [] OTHER -> subs
  BY <1>2, <1>4 DEF processMessage
<1>8. ASSUME NEW t \in Keys
      PROVE  (m = Sub(t) => t \in subs') /\ (m # Unsub(t) /\ t \in subs => t \in subs')
  <2>1. m = Sub(t) => t \in subs'
    BY <1>7 DEF Sub
  <2>2. ASSUME m[1] = "UNSUBSCRIBE", m[2] = t
        PROVE  m = Unsub(t)
    BY <1>1, <2>2, MessageShape
  <2>3. QED
    BY <1>7, <2>1, <2>2
<1>9. /\ up \o control \in Seq(UpMsg) /\ up \o control # <<>>
      /\ Head(up \o control) = m /\ Tail(up \o control) = up' \o control
  <2>1. up' \o control = Tail(up \o control)
    BY <1>0
  <2>2. QED
    BY <1>0, <2>1
<1>10. QED
  BY <1>6, <1>8, <1>9, WillHaveTail

(* What made up for a missing subscription before a step still does. *)
LEMMA ResyncStep ==
  ASSUME SessionAssumption, Inv, Types', HasRoom', [Next]_vars
  PROVE  Resyncs'
<1> SUFFICES ASSUME life' = "up"
             PROVE  Resyncs'
  BY DEF Resyncs
<1>0. /\ life = "up" /\ Types /\ NoGoodbye /\ Resyncs
      /\ up \in Seq(UpMsg) /\ control \in Seq(UpMsg) /\ up \o control \in Seq(UpMsg)
      /\ down \in Seq(DownMsg) /\ up' \in Seq(UpMsg) /\ control' \in Seq(UpMsg) /\ up' \o control' \in Seq(UpMsg)
  BY StillUp, ConcatUp DEF Inv, Types
<1>1. \A t, u : Sub(t) # Unsub(u) /\ Bare("CONNECT") # Unsub(u) /\ Bare("DATA") # Unsub(u)
                /\ Bare("HEARTBEAT") # Unsub(u) /\ (Unsub(t) = Unsub(u) => t = u)
  BY DEF Sub, Unsub, Bare
<1>2. ASSUME NEW ms \in Seq(UpMsg), control' = Offer(control, ControlMax, ms), up' = up
      PROVE  up' \o control' = (up \o control) \o ms
  <2>1. control' = control \o ms
    BY <1>0, <1>2, OfferExact DEF HasRoom, SessionAssumption
  <2>2. Assoc(up, control, ms)
    BY <1>0, ConcatUp, Zenon
  <2>3. QED
    BY <1>2, <2>1, <2>2 DEF Assoc
<1>3. /\ SubscribeAll \in Seq(UpMsg)
      /\ \A t \in Keys : \E k \in 1..Len(SubscribeAll) : SubscribeAll[k] = Sub(t)
      /\ \A t : \A k \in 1..Len(SubscribeAll) : SubscribeAll[k] # Unsub(t)
  <2>1. /\ SubscribeAll \in Seq(UpMsg)
        /\ \A t \in Keys : \E k \in 1..Len(SubscribeAll) : SubscribeAll[k] = Sub(t)
        /\ \A k \in 1..Len(SubscribeAll) : SubscribeAll[k] \in {Sub(t) : t \in Topic}
    BY <1>0, SubscribeAllCovers, Zenon
  <2>2. QED
    BY <1>1, <2>1
<1>4. ASSUME NEW t \in Topic, NEW i \in Instance, performRegistration(t, i)
      PROVE  Resyncs'
  <2> SUFFICES ASSUME ~Broken, connected, known, ~ResetComing
               PROVE  \A k \in Keys' : WillHave(k, up' \o control', subs)
    BY <1>4 DEF performRegistration, Resyncs, Broken, ResetComing, brokerVars, netVars, threadVars
  <2>1. \A k \in Keys : WillHave(k, up \o control, subs)
    BY <1>0 DEF Resyncs
  <2>2. Keys' = Keys \cup {t}
    <3>1. handlers' = handlers \cup {<<t, i>>} /\ <<t, i>>[1] = t
      BY <1>4 DEF performRegistration
    <3>2. QED
      BY <3>1 DEF Keys
  <2> DEFINE ms == <<Sub(t)>>
  <2>3. ms \in Seq(UpMsg) /\ Len(ms) = 1 /\ ms[1] = Sub(t)
    BY Messages
  <2>4. control' = Offer(control, ControlMax, ms) /\ up' = up
    BY <1>4 DEF performRegistration, netVars
  <2> HIDE DEF ms
  <2>5. up' \o control' = (up \o control) \o ms
    BY <1>2, <2>3, <2>4
  <2>6. /\ \A k \in Keys' : \A j \in 1..Len(ms) : ms[j] # Unsub(k)
        /\ \A k \in Keys' : WillHave(k, up \o control, subs) \/ \E j \in 1..Len(ms) : ms[j] = Sub(k)
    BY <1>1, <2>1, <2>2, <2>3
  <2>7. QED
    BY <1>0, <2>3, <2>5, <2>6, PipeGrows
<1>5. ASSUME NEW t \in Topic, NEW i \in Instance, performUnregistration(t, i)
      PROVE  Resyncs'
  <2> SUFFICES ASSUME ~Broken, connected, known, ~ResetComing
               PROVE  \A k \in Keys' : WillHave(k, up' \o control', subs)
    BY <1>5 DEF performUnregistration, Resyncs, Broken, ResetComing, brokerVars, netVars, threadVars
  <2>1. \A k \in Keys : WillHave(k, up \o control, subs)
    BY <1>0 DEF Resyncs
  <2>2. Keys' \subseteq Keys
    BY <1>5 DEF performUnregistration, Keys
  <2>3. CASE t \in Keys'
    BY <1>5, <2>1, <2>2, <2>3 DEF performUnregistration, netVars
  <2>4. CASE t \notin Keys'
    <3> DEFINE ms == <<Unsub(t)>>
    <3>1. ms \in Seq(UpMsg) /\ Len(ms) = 1 /\ ms[1] = Unsub(t)
      BY Messages
    <3>2. control' = Offer(control, ControlMax, ms) /\ up' = up
      BY <1>5, <2>4 DEF performUnregistration, netVars
    <3> HIDE DEF ms
    <3>3. up' \o control' = (up \o control) \o ms
      BY <1>2, <3>1, <3>2
    <3>4. /\ \A k \in Keys' : \A j \in 1..Len(ms) : ms[j] # Unsub(k)
          /\ \A k \in Keys' : WillHave(k, up \o control, subs)
      BY <1>1, <2>1, <2>2, <2>4, <3>1
    <3>5. QED
      BY <1>0, <3>1, <3>3, <3>4, PipeGrows
  <2>5. QED
    BY <2>3, <2>4
<1>6. CASE PollMessage /\ connected
  <2>1. UNCHANGED <<handlers, connected, control, up, brokerVars, faults>>
    BY <1>6 DEF PollMessage
  <2>2. ResetComing => ResetComing'
    BY <1>0, <1>6, ResetKept
  <2>3. QED
    BY <1>0, <2>1, <2>2 DEF Resyncs, Broken, Keys, brokerVars
<1>7. CASE PollMessage /\ ~connected
  <2> DEFINE hello == <<Bare("CONNECT")>>
             ms == hello \o SubscribeAll
  <2>1. hello \in Seq(UpMsg) /\ Len(hello) = 1 /\ hello[1] = Bare("CONNECT")
    BY Messages
  <2>2. control' = Offer(control, ControlMax, ms) /\ up' = up /\ subs' = subs /\ Keys' = Keys
    BY <1>7 DEF PollMessage, brokerVars, Keys
  <2> HIDE DEF hello
  <2>3. ms \in Seq(UpMsg)
    BY <1>3, <2>1, ConcatUp
  <2>4. /\ Len(ms) = 1 + Len(SubscribeAll)
        /\ \A k \in 1..Len(ms) : ms[k] = IF k <= 1 THEN hello[k] ELSE SubscribeAll[k - 1]
    BY <1>3, <2>1, ConcatProperties
  <2> HIDE DEF ms
  <2>5. \A t \in Keys : \E k \in 1..Len(ms) : ms[k] = Sub(t)
    <3>1. \A k \in 1..Len(SubscribeAll) : k + 1 \in 1..Len(ms) /\ ms[k + 1] = SubscribeAll[k]
      BY <1>3, <2>4
    <3>2. QED
      BY <1>3, <3>1
  <2>6. \A t \in Keys : \A k \in 1..Len(ms) : ms[k] # Unsub(t)
    <3>1. Len(SubscribeAll) \in Nat /\ ms[1] = Bare("CONNECT")
      BY <1>3, <2>1, <2>4
    <3>2. \A k \in 1..Len(ms) : k # 1 => k - 1 \in 1..Len(SubscribeAll) /\ ms[k] = SubscribeAll[k - 1]
      BY <2>4, <3>1
    <3>3. QED
      BY <1>1, <1>3, <3>1, <3>2
  <2>7. \A t \in Keys : WillHave(t, up' \o control', subs)
    <3>1. up' \o control' = (up \o control) \o ms
      BY <1>2, <2>2, <2>3
    <3>2. QED
      BY <1>0, <2>3, <2>5, <2>6, <3>1, PipeGrows
  <2>8. QED
    BY <2>2, <2>7 DEF Resyncs
<1>8. ASSUME NEW beat \in {<<>>, <<Bare("HEARTBEAT")>>}, Send(beat),
             UNCHANGED <<handlers, connected, inbox, processing, down, brokerVars, faults>>
      PROVE  Resyncs'
  <2> SUFFICES ASSUME ~Broken, connected, known, ~ResetComing
               PROVE  \A t \in Keys : WillHave(t, up' \o control', subs)
    BY <1>8 DEF Resyncs, Broken, ResetComing, brokerVars, Keys
  <2>1. PICK ms \in Seq(UpMsg) :
           /\ up' = up \o (control \o ms) /\ control' = <<>>
           /\ \A k \in 1..Len(ms) : ms[k] \in {Bare("DATA"), Bare("HEARTBEAT")}
    BY <1>0, <1>8, SendLemma
  <2>2. up' \o control' = (up \o control) \o ms
    <3>1. up' = (up \o control) \o ms
      <4>1. up \in Seq(UpMsg) /\ control \in Seq(UpMsg) /\ ms \in Seq(UpMsg)
        BY <1>0
      <4>2. Assoc(up, control, ms)
        BY <4>1, ConcatUp, Zenon
      <4>3. QED
        BY <2>1, <4>2 DEF Assoc
    <3>2. up' \o control' = up'
      BY <1>0, <2>1, ConcatEmptySeq
    <3>3. QED
      BY <3>1, <3>2
  <2>3. \A t \in Keys : WillHave(t, up \o control, subs)
    BY <1>0 DEF Resyncs
  <2>4. \A t \in Keys : \A k \in 1..Len(ms) : ms[k] # Unsub(t)
    BY <1>1, <2>1
  <2>5. QED
    BY <1>0, <2>2, <2>3, <2>4, PipeGrows
<1>9. CASE sendHeartbeat \/ NoHeartbeat
  BY <1>8, <1>9 DEF sendHeartbeat, NoHeartbeat
<1>10. CASE ServerTimeout
  BY <1>10 DEF ServerTimeout, Resyncs
<1>11. CASE ProcessingPop
  <2>1. UNCHANGED <<handlers, connected, control, up, subs, known, faults>>
    BY <1>11 DEF ProcessingPop, netVars, brokerVars
  <2>2. ResetComing => ResetComing'
    BY <1>0, <1>11, ResetKept
  <2>3. QED
    BY <1>0, <2>1, <2>2 DEF Resyncs, Broken, Keys
<1>12. CASE resubscribeAll
  <2>1. control' = Offer(control, ControlMax, SubscribeAll) /\ up' = up /\ subs' = subs /\ Keys' = Keys
    BY <1>12 DEF resubscribeAll, netVars, brokerVars, Keys
  <2>2. up' \o control' = (up \o control) \o SubscribeAll
    BY <1>2, <1>3, <2>1
  <2>3. \A t \in Keys : WillHave(t, up' \o control', subs)
    BY <1>0, <1>3, <2>2, PipeGrows
  <2>4. QED
    BY <2>1, <2>3 DEF Resyncs
<1>13. CASE processMessage
  BY <1>0, <1>13, ProcessLemma
<1>14. CASE RouteToClient
  <2>1. UNCHANGED <<handlers, connected, control, inbox, processing, up, subs, known, faults>>
    BY <1>14 DEF RouteToClient, queueVars, threadVars, brokerVars
  <2>2. <<"DATA">> \in Seq(DownMsg)
    BY Messages
  <2>3. down' = down \o <<"DATA">>
    BY <1>0, <1>14, <2>2, OfferExact DEF RouteToClient, HasRoom, SessionAssumption
  <2>4. Holds(down, "RESET") => Holds(down', "RESET")
    BY <1>0, <2>2, <2>3, HoldsConcat
  <2>5. QED
    BY <1>0, <2>1, <2>4 DEF Resyncs, Broken, Keys, ResetComing
<1>15. CASE ZombieTimeout \/ BrokerRestart
  BY <1>15 DEF ZombieTimeout, BrokerRestart, Resyncs
<1>16. CASE ConnectionBreak
  <2>1. "break" \in Fault /\ faults'["break"] = faults["break"] + 1 /\ faults["break"] \in Nat
    BY <1>0, <1>16 DEF ConnectionBreak, Fail, Types
  <2>2. Broken'
    BY <2>1 DEF Broken
  <2>3. QED
    BY <2>2 DEF Resyncs
<1>17. CASE sendDataInternal \/ PollNothing \/ ProcessingStopped \/ UNCHANGED vars
  <2>1. UNCHANGED <<handlers, connected, control, inbox, processing, up, down, subs, known, faults>>
    BY <1>0, <1>17 DEF sendDataInternal, PollNothing, ProcessingStopped, vars, queueVars, netVars, threadVars, brokerVars
  <2>2. QED
    BY <1>0, <2>1 DEF Resyncs, Broken, Keys, ResetComing
<1>18. CASE Shutdown \/ Destroy \/ FinalDrain
  BY <1>0, <1>18 DEF Shutdown, Destroy, FinalDrain
<1>19. QED
  BY <1>4, <1>5, <1>6, <1>7, <1>9, <1>10, <1>11, <1>12, <1>13, <1>14, <1>15, <1>16, <1>17, <1>18
     DEF Next, WorkerStep, ProcessingStep

-----------------------------------------------------------------------------
LEMMA SessionStep == SessionAssumption /\ Inv /\ HasRoom' /\ [Next]_vars => Inv'
<1> SUFFICES ASSUME SessionAssumption, Inv, HasRoom', [Next]_vars
             PROVE  Inv'
  OBVIOUS
<1>1. Types'
  BY TypesStep DEF Inv
<1>2. NoGoodbye'
  BY GoodbyeStep DEF Inv
<1>3. Resyncs'
  BY <1>1, ResyncStep
<1>4. QED
  BY <1>1, <1>2, <1>3 DEF Inv

(* While no queue or pipe fills up and the connection does not break, a    *)
(* quiet connected client is subscribed to all it has callbacks for        *)
(* (SettledUnlessBroken), however registrations, timeouts on either side,  *)
(* restarts of the broker and RESETs interleave (resubscribeAll, the       *)
(* status handler of zmqworker.cpp).                                       *)
THEOREM HandshakeResyncs == Spec /\ []HasRoom => []SettledUnlessBroken
<1>1. Init => Inv
  BY SessionInit
<1>2. Inv /\ HasRoom' /\ [Next]_vars => Inv'
  BY SessionAssumption, SessionStep
<1>3. Inv => SettledUnlessBroken
  <2> SUFFICES ASSUME Inv, ~Broken, Settled, NEW t \in Keys
               PROVE  t \in subs
    BY DEF SettledUnlessBroken, SettledSubscribed
  <2>1. /\ life = "up" /\ connected /\ known /\ processing = "pop" /\ ~Holds(inbox, "RESET")
        /\ control = <<>> /\ up = <<>> /\ down = <<>>
    BY DEF Settled
  <2>2. ~ResetComing
    BY <2>1 DEF ResetComing, Holds
  <2>3. WillHave(t, up \o control, subs)
    BY <2>1, <2>2 DEF Inv, Resyncs
  <2>4. Len(up \o control) = 0
    BY <2>1
  <2>5. QED
    BY <2>3, <2>4 DEF WillHave
<1>4. QED
  BY <1>1, <1>2, <1>3, PTL DEF Spec
=============================================================================
