--------------------------- MODULE SafeQueueProofs ---------------------------
(***************************************************************************)
(* SafeQueue loses no wakeup, for any number of threads and any capacity.  *)
(* NoLostWakeup is inductive together with TypeOK: it counts threads, not  *)
(* just "somebody is awake", because the one thread a pop wakes may find   *)
(* its place taken while another place becomes free.                       *)
(***************************************************************************)
EXTENDS SafeQueue, FiniteSetTheorems, TLAPS

Inv == TypeOK /\ NoLostWakeup

(* What adding or removing one thread does to a count. *)
LEMMA CountLemma ==
  ASSUME QueueAssumption, NEW S \in SUBSET Thread, NEW t \in Thread
  PROVE  /\ Cardinality(S) \in Nat
         /\ t \notin S => Cardinality(S \cup {t}) = Cardinality(S) + 1
         /\ Cardinality(S \cup {t}) >= Cardinality(S)
         /\ t \in S => Cardinality(S \ {t}) = Cardinality(S) - 1
<1>1. IsFiniteSet(S) /\ Cardinality(S) \in Nat
  BY FS_Subset, FS_CardinalityType DEF QueueAssumption
<1>2. t \notin S => Cardinality(S \cup {t}) = Cardinality(S) + 1
  BY <1>1, FS_AddElement
<1>3. t \in S => S \cup {t} = S
  OBVIOUS
<1>4. t \in S => Cardinality(S \ {t}) = Cardinality(S) - 1
  BY <1>1, FS_RemoveElement
<1>5. QED
  BY <1>1, <1>2, <1>3, <1>4

LEMMA GrowLemma ==
  ASSUME QueueAssumption, NEW S \in SUBSET Thread, NEW t \in Thread, NEW T, T = S \/ T = S \cup {t}
  PROVE  Cardinality(T) \in Nat /\ Cardinality(T) >= Cardinality(S)
<1>0. Cardinality(S) \in Nat
  BY CountLemma
<1>1. CASE T = S
  BY <1>0, <1>1
<1>2. CASE T = S \cup {t}
  <2>1. T \in SUBSET Thread
    BY <1>2
  <2>2. QED
    BY <1>2, <2>1, CountLemma
<1>3. QED
  BY <1>1, <1>2

(* The counts do not matter once the queue is stopped. *)
LEMMA StoppedLemma ==
  ASSUME stopped' => asleep' = {}, asleep' = {} PROVE NoLostWakeup'
BY DEF NoLostWakeup, CondFull, CondEmpty

-----------------------------------------------------------------------------
LEMMA TypeLemma == QueueAssumption /\ TypeOK /\ [Next]_vars => TypeOK'
<1> SUFFICES ASSUME QueueAssumption, TypeOK, [Next]_vars PROVE TypeOK'
  OBVIOUS
<1> USE DEF QueueAssumption, TypeOK, Op, PushOp, Return, Sleep, AwakeInPush
<1>1. ASSUME NEW t \in Thread, Call(t) PROVE TypeOK'
  BY <1>1 DEF Call
<1>2. ASSUME NEW t \in Thread, PushSleep(t) \/ PopSleep(t) PROVE TypeOK'
  BY <1>2 DEF PushSleep, PopSleep
<1>3. ASSUME NEW t \in Thread, PushGiveUp(t) \/ PushRefused(t) \/ PopRefused(t) PROVE TypeOK'
  BY <1>3 DEF PushGiveUp, PushRefused, PopRefused
<1>4. ASSUME NEW t \in Thread, PushDone(t) PROVE TypeOK'
  <2>1. asleep' \subseteq asleep
    BY <1>4 DEF PushDone, NotifyOne
  <2>2. QED
    BY <1>4, <2>1 DEF PushDone
<1>5. ASSUME NEW t \in Thread, PopDone(t) PROVE TypeOK'
  <2>1. asleep' \subseteq asleep
    BY <1>5 DEF PopDone, NotifyOne
  <2>2. QED
    BY <1>5, <2>1 DEF PopDone
<1>6. ASSUME NEW t \in Thread, TryPop(t) PROVE TypeOK'
  <2>1. asleep' \subseteq asleep
    BY <1>6 DEF TryPop, NotifyOne
  <2>2. QED
    BY <1>6, <2>1 DEF TryPop
<1>7. ASSUME NEW t \in Thread, PushTimeout(t) PROVE TypeOK'
  BY <1>7 DEF PushTimeout
<1>8. ASSUME NEW t \in Thread, Stop(t) \/ SpuriousWakeup(t) PROVE TypeOK'
  BY <1>8 DEF Stop, SpuriousWakeup
<1>9. CASE UNCHANGED vars
  BY <1>9 DEF vars
<1>10. QED
  BY <1>1, <1>2, <1>3, <1>4, <1>5, <1>6, <1>7, <1>8, <1>9 DEF Next, Run

-----------------------------------------------------------------------------
(* NoLostWakeup', from what a step did to the two groups of threads. *)
LEMMA CombineLemma ==
  ASSUME CondFull' # {} => Cardinality(AwakePushers') >= MaxSize - size',
         CondEmpty' # {} => Cardinality(AwakePoppers') >= size',
         stopped' => asleep' = {}
  PROVE  NoLostWakeup'
<1>1. Cardinality(AwakePushers)' = Cardinality(AwakePushers') /\ Cardinality(AwakePoppers)' = Cardinality(AwakePoppers')
  BY DEF Cardinality
<1>2. QED
  BY <1>1 DEF NoLostWakeup

LEMMA WakeLemma == QueueAssumption /\ Inv /\ [Next]_vars => NoLostWakeup'
<1> SUFFICES ASSUME QueueAssumption, Inv, [Next]_vars PROVE NoLostWakeup'
  OBVIOUS
<1> DEFINE P == AwakePushers
<1> DEFINE Q == AwakePoppers
<1>0. /\ size \in 0..MaxSize /\ MaxSize \in Nat /\ stopped \in BOOLEAN
      /\ op \in [Thread -> Op] /\ asleep \subseteq Thread
      /\ \A t \in asleep : op[t] \notin {"idle", "expiredPush"}
      /\ P \in SUBSET Thread /\ Q \in SUBSET Thread
  BY DEF Inv, TypeOK, QueueAssumption, AwakePushers, AwakePoppers
<1>a. /\ CondFull # {} => Cardinality(P) >= MaxSize - size
      /\ CondEmpty # {} => Cardinality(Q) >= size
      /\ stopped => asleep = {}
  BY DEF Inv, NoLostWakeup
<1>n. \A S \in SUBSET Thread : Cardinality(S) \in Nat
  BY FS_Subset, FS_CardinalityType DEF QueueAssumption
<1>b. \A t \in Thread, S \in SUBSET Thread :
        /\ Cardinality(S) \in Nat
        /\ t \notin S => Cardinality(S \cup {t}) = Cardinality(S) + 1
        /\ Cardinality(S \cup {t}) >= Cardinality(S)
        /\ t \in S => Cardinality(S \ {t}) = Cardinality(S) - 1
  BY CountLemma
<1>c. Cardinality(P) \in Nat /\ Cardinality(Q) \in Nat
  BY <1>0, <1>n
<1> HIDE DEF P, Q
<1>1. ASSUME NEW t \in Thread, Call(t) PROVE NoLostWakeup'
  <2>1. /\ (P' = P \/ P' = P \cup {t}) /\ (Q' = Q \/ Q' = Q \cup {t})
        /\ CondFull' = CondFull /\ CondEmpty' = CondEmpty
        /\ UNCHANGED <<size, stopped, asleep>>
    BY <1>0, <1>1 DEF Call, P, Q, CondFull, CondEmpty, AwakePushers, AwakePoppers, PushOp
  <2>2. Cardinality(P') >= Cardinality(P) /\ Cardinality(Q') >= Cardinality(Q)
    BY <1>0, <2>1, GrowLemma
  <2>3. Cardinality(P') \in Nat /\ Cardinality(Q') \in Nat
    BY <1>0, <2>1, GrowLemma
  <2>4. QED
    BY <1>0, <1>a, <1>b, <1>c, <2>1, <2>2, <2>3, CombineLemma DEF P, Q
<1>2. ASSUME NEW t \in Thread, PushSleep(t) \/ PushGiveUp(t) PROVE NoLostWakeup'
  <2>1. /\ size = MaxSize /\ P' = P \ {t} /\ Q' = Q /\ CondEmpty' = CondEmpty
        /\ UNCHANGED <<size, stopped>> /\ ~stopped
    BY <1>0, <1>2 DEF PushSleep, PushGiveUp, AwakeInPush, Sleep, Return, P, Q, CondFull, CondEmpty, AwakePushers, AwakePoppers, PushOp
  <2>2. Cardinality(P') \in Nat
    BY <1>0, <1>b, <1>c, <2>1
  <2>3. QED
    BY <1>0, <1>a, <2>1, <2>2, CombineLemma DEF P, Q
<1>3. ASSUME NEW t \in Thread, PopSleep(t) PROVE NoLostWakeup'
  <2>1. /\ size = 0 /\ Q' = Q \ {t} /\ P' = P /\ CondFull' = CondFull
        /\ UNCHANGED <<size, stopped>> /\ ~stopped
    BY <1>0, <1>3 DEF PopSleep, Sleep, P, Q, CondFull, CondEmpty, AwakePushers, AwakePoppers, PushOp
  <2>2. Cardinality(Q') \in Nat
    BY <1>0, <1>b, <1>c, <2>1
  <2>3. QED
    BY <1>0, <1>a, <2>1, <2>2, CombineLemma DEF P, Q
<1>4. ASSUME NEW t \in Thread, PushRefused(t) \/ PopRefused(t) PROVE NoLostWakeup'
  <2>1. asleep' = {}
    BY <1>4, <1>a DEF PushRefused, PopRefused
  <2>2. QED
    BY <2>1, StoppedLemma
<1>5. ASSUME NEW t \in Thread, PushDone(t) PROVE NoLostWakeup'
  <2>1. /\ t \in P /\ P' = P \ {t} /\ CondFull' = CondFull
        /\ size' = size + 1 /\ ~stopped' 
    BY <1>0, <1>5 DEF PushDone, AwakeInPush, Return, NotifyOne, P, Q, CondFull, CondEmpty, AwakePushers, AwakePoppers, PushOp
  <2>a. Cardinality(P') = Cardinality(P) - 1
    BY <1>0, <1>b, <2>1
  <2>2. CondFull' # {} => Cardinality(P') >= MaxSize - size'
    BY <1>0, <1>a, <1>c, <2>1, <2>a
  <2>3. CASE CondEmpty = {} /\ UNCHANGED asleep
    <3>1. CondEmpty' = {}
      BY <1>0, <1>5, <2>3 DEF PushDone, AwakeInPush, Return, P, Q, CondFull, CondEmpty, AwakePushers, AwakePoppers, PushOp
    <3>2. QED
      BY <2>1, <2>2, <3>1, CombineLemma DEF P, Q
  <2>4. ASSUME NEW w \in CondEmpty, asleep' = asleep \ {w} PROVE NoLostWakeup'
    <3>1. w \in Thread /\ w \notin Q /\ Q' = Q \cup {w}
      BY <1>0, <1>5, <2>4 DEF PushDone, AwakeInPush, Return, P, Q, CondFull, CondEmpty, AwakePushers, AwakePoppers, PushOp
    <3>2. Cardinality(Q') >= size'
      BY <1>0, <1>a, <1>b, <1>c, <2>1, <2>4, <3>1
    <3>3. QED
      BY <2>1, <2>2, <3>2, CombineLemma DEF P, Q
  <2>5. QED
    BY <1>5, <2>3, <2>4 DEF PushDone, NotifyOne
<1>6. ASSUME NEW t \in Thread, PopDone(t) \/ TryPop(t) PROVE NoLostWakeup'
  <2>1. /\ size' = size - 1 /\ stopped' = stopped
        /\ NotifyOne(CondFull)
        /\ op[t] \in {"idle", "pop"} /\ t \notin asleep
    BY <1>0, <1>6 DEF PopDone, TryPop
  <2>2. op' \in {op, [op EXCEPT ![t] = "idle"]}
    BY <1>6 DEF PopDone, TryPop, Return
  <2>3. CondEmpty' = CondEmpty
    BY <1>0, <2>1, <2>2 DEF NotifyOne, P, Q, CondFull, CondEmpty, AwakePushers, AwakePoppers, PushOp
  <2>4. Q' = Q \/ (t \in Q /\ Q' = Q \ {t})
    BY <1>0, <2>1, <2>2 DEF NotifyOne, P, Q, CondFull, CondEmpty, AwakePushers, AwakePoppers, PushOp
  <2>a. Cardinality(Q') = Cardinality(Q) \/ Cardinality(Q') = Cardinality(Q) - 1
    BY <1>0, <1>b, <2>4
  <2>5. CondEmpty' # {} => Cardinality(Q') >= size'
    BY <1>0, <1>a, <1>c, <2>1, <2>3, <2>a
  <2>6. stopped' => asleep' = {}
    BY <1>a, <2>1 DEF NotifyOne
  <2>7. CASE CondFull = {} /\ UNCHANGED asleep
    <3>1. CondFull' = {}
      BY <1>0, <2>1, <2>2, <2>7 DEF P, Q, CondFull, CondEmpty, AwakePushers, AwakePoppers, PushOp
    <3>2. QED
      BY <2>5, <2>6, <3>1, CombineLemma DEF P, Q
  <2>8. ASSUME NEW w \in CondFull, asleep' = asleep \ {w} PROVE NoLostWakeup'
    <3>1. w \in Thread /\ w \notin P /\ P' = P \cup {w}
      BY <1>0, <2>1, <2>2, <2>8 DEF P, Q, CondFull, CondEmpty, AwakePushers, AwakePoppers, PushOp
    <3>a. Cardinality(P') = Cardinality(P) + 1
      BY <1>0, <1>b, <3>1
    <3>2. Cardinality(P') >= MaxSize - size'
      BY <1>0, <1>a, <1>c, <2>1, <2>8, <3>a
    <3>3. QED
      BY <2>5, <2>6, <3>2, CombineLemma DEF P, Q
  <2>9. QED
    BY <2>1, <2>7, <2>8 DEF NotifyOne
<1>7. ASSUME NEW t \in Thread, Stop(t) PROVE NoLostWakeup'
  BY <1>7, StoppedLemma DEF Stop
<1>8. ASSUME NEW t \in Thread, PushTimeout(t) \/ SpuriousWakeup(t) PROVE NoLostWakeup'
  <2>1. /\ (P' = P \/ P' = P \cup {t}) /\ (Q' = Q \/ Q' = Q \cup {t})
        /\ CondFull' \subseteq CondFull /\ CondEmpty' \subseteq CondEmpty
        /\ UNCHANGED <<size, stopped>> /\ asleep' \subseteq asleep
    BY <1>0, <1>8 DEF PushTimeout, SpuriousWakeup, P, Q, CondFull, CondEmpty, AwakePushers, AwakePoppers, PushOp
  <2>2. /\ Cardinality(P') >= Cardinality(P) /\ Cardinality(Q') >= Cardinality(Q)
        /\ Cardinality(P') \in Nat /\ Cardinality(Q') \in Nat
    BY <1>0, <2>1, GrowLemma
  <2>3. /\ CondFull' # {} => Cardinality(P') >= MaxSize - size'
        /\ CondEmpty' # {} => Cardinality(Q') >= size'
        /\ stopped' => asleep' = {}
    <3>1. CondFull' # {} => CondFull # {}
      BY <2>1 DEF P, Q, CondFull, CondEmpty, AwakePushers, AwakePoppers, PushOp
    <3>2. CondEmpty' # {} => CondEmpty # {}
      BY <2>1 DEF P, Q, CondFull, CondEmpty, AwakePushers, AwakePoppers, PushOp
    <3>3. QED
      BY <1>0, <1>a, <1>b, <1>c, <2>1, <2>2, <3>1, <3>2
  <2>4. QED
    BY <2>3, CombineLemma DEF P, Q
<1>9. CASE UNCHANGED vars
  BY <1>9 DEF vars, Inv, NoLostWakeup, CondFull, CondEmpty, AwakePushers, AwakePoppers
<1>10. QED
  BY <1>1, <1>2, <1>3, <1>4, <1>5, <1>6, <1>7, <1>8, <1>9 DEF Next, Run, vars

-----------------------------------------------------------------------------
(* The queue's types and counters are sound and no wakeup is lost, for any *)
(* number of threads, any capacity and any mix of operations.              *)
THEOREM QueueInvariant == Spec => []Inv
<1>1. QueueAssumption /\ Init => Inv
  <2> SUFFICES ASSUME QueueAssumption, Init PROVE Inv
    OBVIOUS
  <2>0. op \in [Thread -> Op] /\ asleep = {} /\ stopped = FALSE
    BY DEF Init, Op
  <2>a. size \in 0..MaxSize
    BY DEF Init, QueueAssumption
  <2>1. TypeOK
    BY <2>0, <2>a DEF TypeOK
  <2>2. CondFull = {} /\ CondEmpty = {} /\ ~stopped
    BY DEF Init, CondFull, CondEmpty
  <2>3. QED
    BY <2>1, <2>2 DEF Inv, NoLostWakeup
<1>2. QueueAssumption /\ Inv /\ [Next]_vars => Inv'
  BY TypeLemma, WakeLemma DEF Inv
<1>3. QED
  BY <1>1, <1>2, QueueAssumption, PTL DEF Spec

(* safequeue.h's notify_one calls suffice: see NoLostWakeup. *)
THEOREM WakeupsNotLost == Spec => []NoLostWakeup
<1>1. Inv => NoLostWakeup
  BY DEF Inv
<1>2. QED
  BY <1>1, QueueInvariant, PTL

(* Once stop() was called the queue only drains. *)
THEOREM StopClosesQueue == Spec => OnlyDrainsAfterStop
<1>1. Inv /\ [Next]_vars => [stopped => size' <= size]_vars
  <2> SUFFICES ASSUME Inv, Next, stopped PROVE size' <= size
    OBVIOUS
  <2>1. size \in Int
    BY DEF Inv, TypeOK
  <2>2. size' = size \/ size' = size - 1
    BY DEF Next, Run, Call, PushSleep, PushGiveUp, PushRefused, PushDone, PushTimeout, PopSleep,
           PopRefused, PopDone, TryPop, Stop, SpuriousWakeup
  <2>3. QED
    BY <2>1, <2>2
<1>2. QED
  BY <1>1, QueueInvariant, PTL DEF Spec, OnlyDrainsAfterStop

(* The queue never holds more than its capacity. *)
THEOREM QueueTypes == Spec => []TypeOK
<1>1. Inv => TypeOK
  BY DEF Inv
<1>2. QED
  BY <1>1, QueueInvariant, PTL

=============================================================================
