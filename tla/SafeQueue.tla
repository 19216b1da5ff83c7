----------------------------- MODULE SafeQueue -----------------------------
(***************************************************************************)
(* common/safequeue.h: the bounded queue between every two threads of the  *)
(* system.  Any thread may call any operation.  A critical section under   *)
(* m_mutex is one action; a thread that finds its predicate false sleeps   *)
(* on a condition variable (m_condFull for pushes, m_condEmpty for pops)   *)
(* and evaluates the predicate again when it is notified, when it wakes up *)
(* for no reason, or when its timeout ends the wait.                       *)
(*                                                                         *)
(* The elements are left out: std::queue keeps their order, and what can   *)
(* go wrong here is who sleeps while there is something to do.             *)
(***************************************************************************)
EXTENDS Integers, FiniteSets

CONSTANTS Thread, MaxSize   \* the calling threads, m_maxSize

ASSUME QueueAssumption == IsFiniteSet(Thread) /\ MaxSize \in Nat \ {0}

VARIABLES size,      \* m_queue.size()
          stopped,   \* m_stop
          op,        \* the operation each thread is inside of
          asleep     \* the threads in a wait of a condition variable

vars == <<size, stopped, op, asleep>>

PushOp == {"push", "timedPush", "expiredPush"}   \* the last: its timeout has passed
Op == PushOp \cup {"idle", "pop"}

CondFull == {t \in asleep : op[t] \in PushOp}
CondEmpty == {t \in asleep : op[t] = "pop"}
AwakePushers == {t \in Thread \ asleep : op[t] \in PushOp}
AwakePoppers == {t \in Thread \ asleep : op[t] = "pop"}

(* notify_one: some waiter if there is one.                                *)
NotifyOne(waiters) ==
  \/ waiters = {} /\ UNCHANGED asleep
  \/ \E w \in waiters : asleep' = asleep \ {w}

Return(t) == op' = [op EXCEPT ![t] = "idle"]
Sleep(t) == asleep' = asleep \cup {t}

-----------------------------------------------------------------------------
Call(t) ==
  /\ op[t] = "idle"
  /\ \E o \in {"push", "timedPush", "pop"} : op' = [op EXCEPT ![t] = o]
  /\ UNCHANGED <<size, stopped, asleep>>

(* Holding the mutex, about to evaluate the predicate. *)
AwakeInPush(t) == t \notin asleep /\ op[t] \in PushOp

PushSleep(t) ==
  /\ AwakeInPush(t) /\ op[t] # "expiredPush"
  /\ size >= MaxSize /\ ~stopped
  /\ Sleep(t)
  /\ UNCHANGED <<size, stopped, op>>

(* wait_for returns the predicate when the time is up: false.              *)
PushGiveUp(t) ==
  /\ AwakeInPush(t) /\ op[t] = "expiredPush"
  /\ size >= MaxSize /\ ~stopped
  /\ Return(t)
  /\ UNCHANGED <<size, stopped, asleep>>

PushRefused(t) ==
  /\ AwakeInPush(t)
  /\ stopped
  /\ Return(t)
  /\ UNCHANGED <<size, stopped, asleep>>

PushDoneNotifyIfEmpty(t) ==
  /\ AwakeInPush(t)
  /\ size < MaxSize /\ ~stopped
  /\ size' = size + 1
  /\ NotifyOne(IF size = 0 THEN CondEmpty ELSE {})
  /\ Return(t)
  /\ UNCHANGED stopped

PushDoneAfterStop(t) ==
  /\ AwakeInPush(t)
  /\ size < MaxSize
  /\ size' = size + 1
  /\ NotifyOne(CondEmpty)
  /\ Return(t)
  /\ UNCHANGED stopped

PushDone(t) ==
  /\ AwakeInPush(t)
  /\ size < MaxSize /\ ~stopped
  /\ size' = size + 1
  /\ NotifyOne(CondEmpty)
  /\ Return(t)
  /\ UNCHANGED stopped

(* The deadline is absolute: it passes whether the thread sleeps, was just *)
(* notified, or has yet to sleep for the first time.                       *)
PushTimeout(t) ==
  /\ op[t] = "timedPush"
  /\ op' = [op EXCEPT ![t] = "expiredPush"]
  /\ asleep' = asleep \ {t}
  /\ UNCHANGED <<size, stopped>>

PopSleep(t) ==
  /\ t \notin asleep /\ op[t] = "pop"
  /\ size = 0 /\ ~stopped
  /\ Sleep(t)
  /\ UNCHANGED <<size, stopped, op>>

PopRefused(t) ==
  /\ t \notin asleep /\ op[t] = "pop"
  /\ size = 0 /\ stopped
  /\ Return(t)
  /\ UNCHANGED <<size, stopped, asleep>>

PopDone(t) ==
  /\ t \notin asleep /\ op[t] = "pop"
  /\ size > 0
  /\ size' = size - 1
  /\ NotifyOne(CondFull)
  /\ Return(t)
  /\ UNCHANGED stopped

(* try_pop of an empty queue returns at once and changes nothing.          *)
TryPop(t) ==
  /\ op[t] = "idle"
  /\ size > 0
  /\ size' = size - 1
  /\ NotifyOne(CondFull)
  /\ UNCHANGED <<stopped, op>>

StopNotifyOne(t) ==
  /\ op[t] = "idle" /\ ~stopped
  /\ stopped' = TRUE
  /\ NotifyOne(asleep)
  /\ UNCHANGED <<size, op>>

Stop(t) ==
  /\ op[t] = "idle" /\ ~stopped
  /\ stopped' = TRUE
  /\ asleep' = {}
  /\ UNCHANGED <<size, op>>

SpuriousWakeup(t) ==
  /\ t \in asleep
  /\ asleep' = asleep \ {t}
  /\ UNCHANGED <<size, stopped, op>>

-----------------------------------------------------------------------------
Init ==
  /\ size = 0
  /\ stopped = FALSE
  /\ op = [t \in Thread |-> "idle"]
  /\ asleep = {}

Run(t) ==
  \/ PushSleep(t) \/ PushGiveUp(t) \/ PushRefused(t) \/ PushDone(t)
  \/ PopSleep(t) \/ PopRefused(t) \/ PopDone(t)

Next ==
  \E t \in Thread :
    Run(t) \/ Call(t) \/ PushTimeout(t) \/ TryPop(t) \/ Stop(t) \/ SpuriousWakeup(t)

Spec == Init /\ [][Next]_vars

(* A thread that is awake inside an operation gets the mutex and runs, and *)
(* a timeout passes.  Nothing makes anyone call an operation.              *)
FairSpec == Spec /\ \A t \in Thread : WF_vars(Run(t)) /\ WF_vars(PushTimeout(t))

-----------------------------------------------------------------------------
TypeOK ==
  /\ size \in 0..MaxSize
  /\ stopped \in BOOLEAN
  /\ op \in [Thread -> Op]
  /\ asleep \subseteq {t \in Thread : op[t] \in Op \ {"idle", "expiredPush"}}

(* No wakeup is lost, although each push and pop notifies one thread only, *)
(* a newcomer may take what a notified thread was woken for, and a timed   *)
(* push may be notified as its time runs out: while a push sleeps, at      *)
(* least as many pushes are awake as there are free places; while a pop    *)
(* sleeps, at least as many pops are awake as there are elements; and      *)
(* after stop() nobody sleeps.                                             *)
NoLostWakeup ==
  /\ CondFull # {} => Cardinality(AwakePushers) >= MaxSize - size
  /\ CondEmpty # {} => Cardinality(AwakePoppers) >= size
  /\ stopped => asleep = {}

(* stop() closes the queue for writing even for a push that was waiting    *)
(* when it was called: from then on the queue only drains.                 *)
OnlyDrainsAfterStop == [][stopped => size' <= size]_vars

(* stop() releases everybody: a push or pop that is blocked, or about to   *)
(* block, when the queue is stopped returns.  ~ConnectionManager and       *)
(* ZmqBroker::stop rely on this to join their threads.                     *)
StopReleases == \A t \in Thread : (stopped /\ op[t] # "idle") ~> (op[t] = "idle")

=============================================================================
