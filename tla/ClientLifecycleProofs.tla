----------------------- MODULE ClientLifecycleProofs -----------------------
(***************************************************************************)
(* The life of the client under concurrent calls, for any threads,         *)
(* instances, topics, requests and bounds.  The inductive invariant says   *)
(* who may hold an instance at each stage of its life (References), what a *)
(* processing thread is doing while it makes calls (Callbacks), and where  *)
(* the handler of a request is registered (Requests).                      *)
(***************************************************************************)
EXTENDS ClientLifecycle, TLAPS

Types ==
  /\ m_instance \in Inst \cup {None}
  /\ life \in [Inst -> {"unused", "live", "destroying", "gone"}]
  /\ m_running \in [Inst -> BOOLEAN] /\ stopped \in [Inst -> BOOLEAN] /\ aborted \in BOOLEAN
  /\ worker \in [Inst -> {"none", "run", "exited"}]
  /\ proc \in [Inst -> {"none", "pop", "run", "call", "exited"}]
  /\ pc \in [Thread -> {"idle", "unregister", "request", "wait", "finish", "release", "join", "joinWorker"}]
  /\ held \in [Thread -> Inst \cup {None}]
  /\ arg \in [Thread -> Req \cup (Key \X Owner) \cup {None}]
  /\ promise \in [Req -> BOOLEAN] /\ asked \subseteq Req

(* The sequences, and the functions whose values are sequences. *)
Shapes ==
  /\ queue \in [Inst -> Seq(Topic)] /\ \A i \in Inst : Len(queue[i]) <= QueueMax
  /\ pending \in Seq(Key \X Owner)
  /\ cbs = [i \in Inst |-> cbs[i]]
  /\ handlers = [i \in Inst |-> handlers[i]]
  /\ \A i \in Inst : handlers[i] = [k \in Topic |-> handlers[i][k]]

(* An instance is destroyed by the thread that held the last reference,    *)
(* and by nobody else.                                                     *)
References ==
  /\ m_instance # None => life[m_instance] = "live"
  /\ \A t \in Thread : held[t] = None <=> pc[t] = "idle"
  /\ HeldIsAlive
  /\ \A t \in Thread : pc[t] \in {"join", "joinWorker"} =>
       life[held[t]] = "destroying" /\ \A u \in Thread : held[u] = held[t] => u = t
  /\ \A t \in Thread : pc[t] = "joinWorker" => proc[held[t]] = "exited"
  /\ FreedIsQuiet
  /\ \A i \in Inst : life[i] = "unused" => proc[i] = "none"

(* A processing thread is in a call only while one of its direct callbacks *)
(* runs.                                                                   *)
Callbacks ==
  /\ \A i \in Inst : pc[i] # "idle" => proc[i] = "call"
  /\ \A i \in Inst : proc[i] = "call" => Head(cbs[i]) \in Direct
  /\ AbortsOnlyInCallback

(* A request belongs to one thread, and until it is cleaned up its handler *)
(* is with the instance that thread holds (Placed), and nowhere else.      *)
Requests ==
  /\ \A t \in Thread : /\ pc[t] \in {"request", "wait", "finish"} <=> arg[t] \in Req
                       /\ pc[t] = "unregister" <=> arg[t] \in Key \X Owner
  /\ \A t \in Thread, u \in Thread : arg[t] \in Req /\ arg[t] = arg[u] => t = u
  /\ \A t \in Thread : pc[t] = "request" => arg[t] \notin asked

Waits(t, r, i) == arg[t] = r /\ held[t] = i /\ pc[t] \in {"wait", "finish"}

Placed ==
  \A i \in Inst, r \in Req : handlers[i][r] # <<>> =>
    /\ handlers[i][r] = <<r>>
    /\ \E t \in Thread : Waits(t, r, i)

Inv == Types /\ Shapes /\ References /\ Callbacks /\ Requests /\ Placed /\ PendingFlushed

(* What the calls do to the handlers. *)
LEMMA HandlersShape ==
  ASSUME NEW hs, hs = [k \in Topic |-> hs[k]], NEW k \in Topic, NEW o
  PROVE  /\ performRegistration(hs, k, o) = [l \in Topic |-> IF l = k THEN Append(hs[l], o) ELSE hs[l]]
         /\ \A l \in Topic : l # k => performUnregistration(hs, k, o)[l] = hs[l]
         /\ hs[k] = <<o>> \/ hs[k] = <<>> => performUnregistration(hs, k, o)[k] = <<>>
         /\ performUnregistration(hs, k, o) = [l \in Topic |-> performUnregistration(hs, k, o)[l]]
<1>1. DOMAIN hs = Topic
  OBVIOUS
<1>2. performRegistration(hs, k, o) = [l \in Topic |-> IF l = k THEN Append(hs[l], o) ELSE hs[l]]
  BY <1>1 DEF performRegistration
<1>3. /\ \A l \in Topic : l # k => performUnregistration(hs, k, o)[l] = hs[l]
      /\ performUnregistration(hs, k, o) = [l \in Topic |-> performUnregistration(hs, k, o)[l]]
  BY <1>1 DEF performUnregistration
<1>4. hs[k] = <<o>> \/ hs[k] = <<>> => performUnregistration(hs, k, o)[k] = <<>>
  <2>1. hs[k] = <<o>> \/ hs[k] = <<>> => \A n \in DOMAIN hs[k] : hs[k][n] = o
    OBVIOUS
  <2>2. QED
    BY <1>1, <2>1 DEF performUnregistration
<1>5. QED
  BY <1>2, <1>3, <1>4

(* Unregistering the only owner of a topic erases the topic and no other. *)
LEMMA HandlersCleared ==
  ASSUME NEW hs, hs = [k \in Topic |-> hs[k]], NEW k \in Topic, NEW o, hs[k] \in {<<>>, <<o>>}
  PROVE  /\ performUnregistration(hs, k, o)[k] = <<>>
         /\ \A l \in Topic : l # k => performUnregistration(hs, k, o)[l] = hs[l]
<1>1. hs[k] = <<o>> \/ hs[k] = <<>>
  OBVIOUS
<1>2. \A n \in DOMAIN hs[k] : hs[k][n] = o
  BY <1>1
<1>3. DOMAIN hs = Topic
  OBVIOUS
<1>4. QED
  BY <1>2, <1>3 DEF performUnregistration

LEMMA FlushShape ==
  ASSUME LifecycleAssumption, pending \in Seq(Key \X Owner), NEW hs
  PROVE  /\ Flush(hs) = [k \in Topic |-> Flush(hs)[k]]
         /\ \A r \in Req : Flush(hs)[r] = hs[r]
<1>1. Flush(hs) = [k \in Topic |-> Flush(hs)[k]]
  BY DEF Flush
<1>2. \A n \in DOMAIN pending : pending[n][1] \in Key
  OBVIOUS
<1>3. ASSUME NEW r \in Req PROVE \A n \in DOMAIN pending : pending[n][1] # r
  BY <1>2 DEF LifecycleAssumption
<1>4. QED
  BY <1>1, <1>3 DEF Flush, Topic

(* Only the handlers of one instance change in a step. *)
LEMMA HandlersStep ==
  ASSUME Shapes, NEW i \in Inst, NEW hs, hs = [k \in Topic |-> hs[k]], handlers' = [handlers EXCEPT ![i] = hs]
  PROVE  /\ handlers' = [j \in Inst |-> handlers'[j]]
         /\ \A j \in Inst : handlers'[j] = [k \in Topic |-> handlers'[j][k]]
         /\ handlers'[i] = hs
         /\ \A j \in Inst : j # i => handlers'[j] = handlers[j]
<1>1. handlers = [j \in Inst |-> handlers[j]] /\ \A j \in Inst : handlers[j] = [k \in Topic |-> handlers[j][k]]
  BY DEF Shapes
<1>2. handlers' = [j \in Inst |-> IF j = i THEN hs ELSE handlers[j]]
  BY <1>1
<1>3. handlers' = [j \in Inst |-> handlers'[j]] /\ handlers'[i] = hs /\ \A j \in Inst : j # i => handlers'[j] = handlers[j]
  BY <1>2
<1>4. \A j \in Inst : handlers'[j] = [k \in Topic |-> handlers'[j][k]]
  BY <1>1, <1>3
<1>5. QED
  BY <1>3, <1>4

LEMMA LifecycleInit == LifecycleAssumption /\ Init => Inv
<1>1. SUFFICES ASSUME LifecycleAssumption, Init PROVE Inv
  OBVIOUS
<1>2. Types
  BY <1>1 DEF Init, Types
<1>3. Shapes
  BY <1>1 DEF Init, Shapes, LifecycleAssumption
<1>4. References
  BY <1>1 DEF Init, References, HeldIsAlive, FreedIsQuiet
<1>5. Callbacks
  BY <1>1 DEF Init, Callbacks, AbortsOnlyInCallback, Thread
<1>6. Requests
  BY <1>1 DEF Init, Requests, LifecycleAssumption
<1>7. Placed
  BY <1>1 DEF Init, Placed, Topic
<1>8. QED
  BY <1>1, <1>2, <1>3, <1>4, <1>5, <1>6, <1>7 DEF Inv, Init, PendingFlushed
(* A thread in a call has an instance. *)
LEMMA CallHolds ==
  ASSUME LifecycleAssumption, Inv, NEW t \in Thread, pc[t] # "idle"
  PROVE  held[t] \in Inst
BY DEF Inv, Types, References

LEMMA TypesStep ==
  ASSUME LifecycleAssumption, Inv, Next
  PROVE  Types'
<1>1. ASSUME NEW t \in Thread, init(t)
     PROVE  Types'
  BY <1>1 DEF Inv, Types, init, CanCall, Unused, callVars, reqVars
<1>2. ASSUME NEW t \in Thread, shutdown(t)
     PROVE  Types'
  BY <1>2 DEF Inv, Types, shutdown, CanCall, reqVars
<1>3. ASSUME NEW t \in Thread, NEW k \in Key, NEW o \in Owner, registerInternal(t, k, o)
     PROVE  Types'
  BY <1>3 DEF Inv, Types, registerInternal, CanCall, callVars, reqVars
<1>4. ASSUME NEW t \in Thread, sendDataInternal(t)
     PROVE  Types'
  BY <1>4 DEF Inv, Types, sendDataInternal, getInstance, CanCall, instVars, reqVars
<1>5. ASSUME NEW t \in Thread, CanCall(t, "unregister"), NEW k \in Key, NEW o \in Owner,
        getInstance(t, "unregister", <<k, o>>)
     PROVE  Types'
  BY <1>5 DEF Inv, Types, getInstance, CanCall, instVars, reqVars
<1>6. ASSUME NEW t \in Thread, CanCall(t, "request"), NEW r \in Req, NotAsked(r),
        getInstance(t, "request", r)
     PROVE  Types'
  BY <1>6 DEF Inv, Types, getInstance, CanCall, NotAsked, instVars, reqVars
<1>7. ASSUME NEW t \in Thread, unregisterCallback(t)
     PROVE  Types'
  BY <1>7 DEF Inv, Types, unregisterCallback, Done, Goto, reqVars
<1>8. ASSUME NEW t \in Thread, sendRequest(t)
     PROVE  Types'
  <2>1. arg[t] \in Req
    BY <1>8 DEF Inv, Requests, sendRequest
  <2>2. QED
    BY <1>8, <2>1 DEF Inv, Types, sendRequest, Goto
<1>9. ASSUME NEW t \in Thread, WaitReady(t)
     PROVE  Types'
  BY <1>9 DEF Inv, Types, WaitReady, Goto, instVars
<1>10. ASSUME NEW t \in Thread, WaitTimeout(t)
     PROVE  Types'
  BY <1>10 DEF Inv, Types, WaitTimeout, Goto, instVars
<1>11. ASSUME NEW t \in Thread, RequestFinish(t)
     PROVE  Types'
  BY <1>11 DEF Inv, Types, RequestFinish, Done, Goto, reqVars
<1>12. ASSUME NEW t \in Thread, Release(t)
     PROVE  Types'
  <2>1. held[t] \in Inst
    BY <1>12, CallHolds DEF Release
  <2>2. CASE LastReference(t)
    <3>1. life' \in [Inst -> {"unused", "live", "destroying", "gone"}]
      BY <1>12, <2>1, <2>2 DEF Inv, Types, Release
    <3>2. m_running' \in [Inst -> BOOLEAN] /\ stopped' \in [Inst -> BOOLEAN]
      <4>1. /\ m_running' = [m_running EXCEPT ![held[t]] = FALSE]
            /\ stopped' = [stopped EXCEPT ![held[t]] = TRUE]
        BY <1>12, <2>2 DEF Release
      <4>2. m_running \in [Inst -> BOOLEAN] /\ stopped \in [Inst -> BOOLEAN]
        BY DEF Inv, Types
      <4>3. QED
        BY <2>1, <4>1, <4>2
    <3>3. pc' \in [Thread -> {"idle", "unregister", "request", "wait", "finish", "release", "join", "joinWorker"}]
      BY <1>12, <2>2 DEF Inv, Types, Release, Goto
    <3>4. UNCHANGED <<m_instance, aborted, worker, proc, held, arg, promise, asked>>
      BY <1>12, <2>2 DEF Release, reqVars
    <3>5. QED
      BY <3>1, <3>2, <3>3, <3>4 DEF Inv, Types
  <2>3. CASE ~LastReference(t)
    BY <1>12, <2>1, <2>3 DEF Inv, Types, Release, Goto, reqVars
  <2>4. QED
    BY <2>2, <2>3
<1>13. ASSUME NEW t \in Thread, Join(t)
     PROVE  Types'
  BY <1>13 DEF Inv, Types, Join, Goto, instVars, reqVars
<1>14. ASSUME NEW t \in Thread, JoinWorker(t)
     PROVE  Types'
  <2>1. held[t] \in Inst
    BY <1>14, CallHolds DEF JoinWorker
  <2>2. QED
    BY <1>14, <2>1 DEF Inv, Types, JoinWorker, Goto, reqVars
<1>15. ASSUME NEW i \in Inst, processingLoop(i)
     PROVE  Types'
  BY <1>15 DEF Inv, Types, processingLoop, Continue, callVars, reqVars
<1>16. ASSUME NEW i \in Inst, ProcessingEnds(i)
     PROVE  Types'
  BY <1>16 DEF Inv, Types, ProcessingEnds, callVars, reqVars
<1>17. ASSUME NEW i \in Inst, handleMessage(i)
     PROVE  Types'
  <2>1. promise' \in [Req -> BOOLEAN]
    <3>1. CASE promise' = promise
      BY <3>1 DEF Inv, Types
    <3>2. CASE promise' = [r \in Req |-> promise[r] \/ r = Head(cbs[i])]
      BY <3>2, Zenon
    <3>3. QED
      BY <1>17, <3>1, <3>2 DEF handleMessage
  <2>2. proc' \in [Inst -> {"none", "pop", "run", "call", "exited"}]
    BY <1>17 DEF Inv, Types, handleMessage, Continue
  <2>3. UNCHANGED <<m_instance, life, m_running, stopped, aborted, worker, pc, held, arg, asked>>
    BY <1>17 DEF handleMessage, callVars
  <2>4. QED
    BY <2>1, <2>2, <2>3 DEF Inv, Types
<1>18. ASSUME NEW i \in Inst, CallbackReturns(i)
     PROVE  Types'
  BY <1>18 DEF Inv, Types, CallbackReturns, Continue, callVars, reqVars
<1>19. ASSUME NEW i \in Inst, NEW topic \in Key \cup asked, Deliver(i, topic)
     PROVE  Types'
  BY <1>19 DEF Inv, Types, Deliver, callVars, reqVars
<1>20. QED
  BY <1>1, <1>2, <1>3, <1>4, <1>5, <1>6, <1>7, <1>8, <1>9, <1>10, <1>11, <1>12, <1>13, <1>14, <1>15, <1>16, <1>17, <1>18, <1>19 DEF Next, Start, Proceed, Processing

LEMMA ShapesStep ==
  ASSUME LifecycleAssumption, Inv, Next
  PROVE  Shapes'
<1>1. ASSUME NEW t \in Thread, init(t)
     PROVE  Shapes'
  <2>1. PICK i \in Inst : handlers' = [handlers EXCEPT ![i] = Flush(handlers[i])]
    BY <1>1 DEF init, Unused
  <2>2. Flush(handlers[i]) = [k \in Topic |-> Flush(handlers[i])[k]]
    BY FlushShape DEF Inv, Shapes
  <2>3. pending' = <<>> /\ pending' \in Seq(Key \X Owner) /\ UNCHANGED <<queue, cbs>>
    BY <1>1 DEF init
  <2>4. QED
    BY <2>1, <2>2, <2>3, HandlersStep DEF Inv, Shapes
<1>2. ASSUME NEW t \in Thread, shutdown(t)
     PROVE  Shapes'
  BY <1>2 DEF Inv, Types, Shapes, shutdown, CanCall, reqVars
<1>3. ASSUME NEW t \in Thread, NEW k \in Key, NEW o \in Owner, registerInternal(t, k, o)
     PROVE  Shapes'
  <2>1. CASE m_instance # None
    <3>1. m_instance \in Inst /\ k \in Topic
      BY <2>1 DEF Inv, Types, Topic
    <3>2. performRegistration(handlers[m_instance], k, o) = [l \in Topic |-> performRegistration(handlers[m_instance], k, o)[l]]
      BY <3>1, HandlersShape DEF Inv, Shapes
    <3>3. handlers' = [handlers EXCEPT ![m_instance] = performRegistration(handlers[m_instance], k, o)]
      BY <1>3, <2>1 DEF registerInternal
    <3>4. QED
      BY <1>3, <2>1, <3>1, <3>2, <3>3, HandlersStep DEF Inv, Shapes, registerInternal
  <2>2. CASE m_instance = None
    <3>1. pending' = Append(pending, <<k, o>>) /\ <<k, o>> \in Key \X Owner
      BY <1>3, <2>2 DEF registerInternal
    <3>2. pending' \in Seq(Key \X Owner)
      BY <3>1 DEF Inv, Shapes
    <3>3. QED
      BY <1>3, <2>2, <3>2 DEF Inv, Shapes, registerInternal
  <2>3. QED
    BY <2>1, <2>2
<1>4. ASSUME NEW t \in Thread, sendDataInternal(t)
     PROVE  Shapes'
  BY <1>4 DEF Inv, Types, Shapes, sendDataInternal, getInstance, CanCall, instVars, reqVars
<1>5. ASSUME NEW t \in Thread, CanCall(t, "unregister"), NEW k \in Key, NEW o \in Owner,
        getInstance(t, "unregister", <<k, o>>)
     PROVE  Shapes'
  BY <1>5 DEF Inv, Types, Shapes, getInstance, CanCall, instVars, reqVars
<1>6. ASSUME NEW t \in Thread, CanCall(t, "request"), NEW r \in Req, NotAsked(r),
        getInstance(t, "request", r)
     PROVE  Shapes'
  BY <1>6 DEF Inv, Types, Shapes, getInstance, CanCall, NotAsked, instVars, reqVars
<1>7. ASSUME NEW t \in Thread, unregisterCallback(t)
     PROVE  Shapes'
  <2>1. held[t] \in Inst /\ arg[t] \in Key \X Owner
    BY <1>7, CallHolds DEF Inv, Requests, unregisterCallback
  <2>2. handlers[held[t]] = [k \in Topic |-> handlers[held[t]][k]] /\ arg[t][1] \in Topic
    BY <2>1 DEF Inv, Shapes, Topic
  <2>3. performUnregistration(handlers[held[t]], arg[t][1], arg[t][2])
          = [k \in Topic |-> performUnregistration(handlers[held[t]], arg[t][1], arg[t][2])[k]]
    BY <2>2, HandlersShape
  <2>4. handlers' = [handlers EXCEPT ![held[t]] = performUnregistration(handlers[held[t]], arg[t][1], arg[t][2])]
    BY <1>7 DEF unregisterCallback
  <2>5. handlers' = [i \in Inst |-> handlers'[i]] /\ \A i \in Inst : handlers'[i] = [k \in Topic |-> handlers'[i][k]]
    BY <2>1, <2>3, <2>4, HandlersStep DEF Inv, Shapes
  <2>6. UNCHANGED <<queue, pending, cbs>>
    BY <1>7 DEF unregisterCallback
  <2>7. QED
    BY <2>5, <2>6 DEF Inv, Shapes
<1>8. ASSUME NEW t \in Thread, sendRequest(t)
     PROVE  Shapes'
  <2>1. held[t] \in Inst /\ arg[t] \in Req
    BY <1>8, CallHolds DEF Inv, Requests, sendRequest
  <2>2. handlers[held[t]] = [k \in Topic |-> handlers[held[t]][k]] /\ arg[t] \in Topic
    BY <2>1 DEF Inv, Shapes, Topic
  <2>3. performRegistration(handlers[held[t]], arg[t], arg[t]) = [k \in Topic |-> performRegistration(handlers[held[t]], arg[t], arg[t])[k]]
    BY <2>2, HandlersShape
  <2>4. handlers' = [handlers EXCEPT ![held[t]] = performRegistration(handlers[held[t]], arg[t], arg[t])]
    BY <1>8 DEF sendRequest
  <2>5. QED
    BY <1>8, <2>1, <2>3, <2>4, HandlersStep DEF Inv, Shapes, sendRequest, Goto
<1>9. ASSUME NEW t \in Thread, WaitReady(t)
     PROVE  Shapes'
  BY <1>9 DEF Inv, Types, Shapes, WaitReady, Goto, instVars
<1>10. ASSUME NEW t \in Thread, WaitTimeout(t)
     PROVE  Shapes'
  BY <1>10 DEF Inv, Types, Shapes, WaitTimeout, Goto, instVars
<1>11. ASSUME NEW t \in Thread, RequestFinish(t)
     PROVE  Shapes'
  <2>1. held[t] \in Inst /\ arg[t] \in Req
    BY <1>11, CallHolds DEF Inv, Requests, RequestFinish
  <2>2. handlers[held[t]] = [k \in Topic |-> handlers[held[t]][k]] /\ arg[t] \in Topic
    BY <2>1 DEF Inv, Shapes, Topic
  <2>3. performUnregistration(handlers[held[t]], arg[t], arg[t]) = [k \in Topic |-> performUnregistration(handlers[held[t]], arg[t], arg[t])[k]]
    BY <2>2, HandlersShape
  <2>4. handlers' = [handlers EXCEPT ![held[t]] = performUnregistration(handlers[held[t]], arg[t], arg[t])]
    BY <1>11 DEF RequestFinish
  <2>5. QED
    BY <1>11, <2>1, <2>3, <2>4, HandlersStep DEF Inv, Shapes, RequestFinish, Done, Goto
<1>12. ASSUME NEW t \in Thread, Release(t)
     PROVE  Shapes'
  BY <1>12 DEF Inv, Types, Shapes, Release, LastReference, Goto, reqVars
<1>13. ASSUME NEW t \in Thread, Join(t)
     PROVE  Shapes'
  BY <1>13 DEF Inv, Types, Shapes, Join, Goto, instVars, reqVars
<1>14. ASSUME NEW t \in Thread, JoinWorker(t)
     PROVE  Shapes'
  <2>1. held[t] \in Inst
    BY <1>14, CallHolds DEF JoinWorker
  <2>2. handlers' = [handlers EXCEPT ![held[t]] = [k \in Topic |-> <<>>]]
    BY <1>14 DEF JoinWorker
  <2>3. handlers' = [j \in Inst |-> handlers'[j]] /\ \A j \in Inst : handlers'[j] = [k \in Topic |-> handlers'[j][k]]
    BY <2>1, <2>2, HandlersStep DEF Inv
  <2>4. queue' \in [Inst -> Seq(Topic)] /\ \A i \in Inst : Len(queue'[i]) <= QueueMax
    BY <1>14, <2>1 DEF Inv, Shapes, JoinWorker, LifecycleAssumption
  <2>5. QED
    BY <1>14, <2>3, <2>4 DEF Inv, Shapes, JoinWorker
<1>15. ASSUME NEW i \in Inst, processingLoop(i)
     PROVE  Shapes'
  <2>1. cbs' = [j \in Inst |-> cbs'[j]]
    BY <1>15 DEF Inv, Shapes, processingLoop, Continue
  <2>2. queue' = [queue EXCEPT ![i] = Tail(queue[i])] /\ queue[i] # <<>>
    BY <1>15 DEF processingLoop
  <2>3. queue' \in [Inst -> Seq(Topic)] /\ \A j \in Inst : Len(queue'[j]) <= QueueMax
    BY <2>2 DEF Inv, Shapes, LifecycleAssumption
  <2>4. QED
    BY <1>15, <2>1, <2>3 DEF Inv, Shapes, processingLoop
<1>16. ASSUME NEW i \in Inst, ProcessingEnds(i)
     PROVE  Shapes'
  BY <1>16 DEF Inv, Types, Shapes, ProcessingEnds, callVars, reqVars
<1>17. ASSUME NEW i \in Inst, handleMessage(i)
     PROVE  Shapes'
  <2>1. cbs' = [j \in Inst |-> cbs'[j]]
    BY <1>17 DEF Inv, Shapes, handleMessage, Continue
  <2>2. QED
    BY <1>17, <2>1 DEF Inv, Shapes, handleMessage
<1>18. ASSUME NEW i \in Inst, CallbackReturns(i)
     PROVE  Shapes'
  <2>1. cbs' = [j \in Inst |-> cbs'[j]]
    BY <1>18 DEF Inv, Shapes, CallbackReturns, Continue
  <2>2. QED
    BY <1>18, <2>1 DEF Inv, Shapes, CallbackReturns
<1>19. ASSUME NEW i \in Inst, NEW topic \in Key \cup asked, Deliver(i, topic)
     PROVE  Shapes'
  <2>1. topic \in Topic
    BY <1>19 DEF Inv, Types, Topic
  <2>2. queue' \in [Inst -> Seq(Topic)] /\ \A j \in Inst : Len(queue'[j]) <= QueueMax
    BY <1>19, <2>1 DEF Inv, Shapes, Deliver, LifecycleAssumption
  <2>3. QED
    BY <1>19, <2>2 DEF Inv, Shapes, Deliver
<1>20. QED
  BY <1>1, <1>2, <1>3, <1>4, <1>5, <1>6, <1>7, <1>8, <1>9, <1>10, <1>11, <1>12, <1>13, <1>14, <1>15, <1>16, <1>17, <1>18, <1>19 DEF Next, Start, Proceed, Processing

LEMMA ReferencesStep ==
  ASSUME LifecycleAssumption, Inv, Next
  PROVE  References'
<1>1. ASSUME NEW t \in Thread, init(t)
     PROVE  References'
  BY <1>1 DEF Inv, Types, References, HeldIsAlive, FreedIsQuiet, Thread, LifecycleAssumption, init, CanCall, Unused, callVars, reqVars
<1>2. ASSUME NEW t \in Thread, shutdown(t)
     PROVE  References'
  BY <1>2 DEF Inv, Types, References, HeldIsAlive, FreedIsQuiet, Thread, LifecycleAssumption, shutdown, CanCall, reqVars
<1>3. ASSUME NEW t \in Thread, NEW k \in Key, NEW o \in Owner, registerInternal(t, k, o)
     PROVE  References'
  BY <1>3 DEF Inv, Types, References, HeldIsAlive, FreedIsQuiet, Thread, LifecycleAssumption, registerInternal, CanCall, callVars, reqVars
<1>4. ASSUME NEW t \in Thread, sendDataInternal(t)
     PROVE  References'
  BY <1>4 DEF Inv, Types, References, HeldIsAlive, FreedIsQuiet, Thread, LifecycleAssumption, sendDataInternal, getInstance, CanCall, instVars, reqVars
<1>5. ASSUME NEW t \in Thread, CanCall(t, "unregister"), NEW k \in Key, NEW o \in Owner,
        getInstance(t, "unregister", <<k, o>>)
     PROVE  References'
  BY <1>5 DEF Inv, Types, References, HeldIsAlive, FreedIsQuiet, Thread, LifecycleAssumption, getInstance, CanCall, instVars, reqVars
<1>6. ASSUME NEW t \in Thread, CanCall(t, "request"), NEW r \in Req, NotAsked(r),
        getInstance(t, "request", r)
     PROVE  References'
  BY <1>6 DEF Inv, Types, References, HeldIsAlive, FreedIsQuiet, Thread, LifecycleAssumption, getInstance, CanCall, NotAsked, instVars, reqVars
<1>7. ASSUME NEW t \in Thread, unregisterCallback(t)
     PROVE  References'
  BY <1>7 DEF Inv, Types, References, HeldIsAlive, FreedIsQuiet, Thread, LifecycleAssumption, unregisterCallback, Done, Goto, reqVars
<1>8. ASSUME NEW t \in Thread, sendRequest(t)
     PROVE  References'
  BY <1>8 DEF Inv, Types, References, HeldIsAlive, FreedIsQuiet, Thread, LifecycleAssumption, sendRequest, Goto
<1>9. ASSUME NEW t \in Thread, WaitReady(t)
     PROVE  References'
  BY <1>9 DEF Inv, Types, References, HeldIsAlive, FreedIsQuiet, Thread, LifecycleAssumption, WaitReady, Goto, instVars
<1>10. ASSUME NEW t \in Thread, WaitTimeout(t)
     PROVE  References'
  BY <1>10 DEF Inv, Types, References, HeldIsAlive, FreedIsQuiet, Thread, LifecycleAssumption, WaitTimeout, Goto, instVars
<1>11. ASSUME NEW t \in Thread, RequestFinish(t)
     PROVE  References'
  BY <1>11 DEF Inv, Types, References, HeldIsAlive, FreedIsQuiet, Thread, LifecycleAssumption, RequestFinish, Done, Goto, reqVars
<1>12. ASSUME NEW t \in Thread, Release(t)
     PROVE  References'
  <2>0. held[t] \in Inst
    BY <1>12, CallHolds DEF Release
  <2>1. CASE LastReference(t)
    BY <1>12, <2>0, <2>1 DEF Inv, Types, References, HeldIsAlive, FreedIsQuiet, Release, LastReference, Goto
  <2>2. CASE ~LastReference(t)
    BY <1>12, <2>0, <2>2 DEF Inv, Types, References, HeldIsAlive, FreedIsQuiet, Release, Goto
  <2>3. QED
    BY <2>1, <2>2
<1>13. ASSUME NEW t \in Thread, Join(t)
     PROVE  References'
  <2>1. CASE t = held[t] /\ aborted' = TRUE /\ UNCHANGED pc
    BY <1>13, <2>1 DEF Inv, References, HeldIsAlive, FreedIsQuiet, Join, instVars
  <2>2. CASE proc[held[t]] = "exited" /\ Goto(t, "joinWorker") /\ UNCHANGED aborted
    BY <1>13, <2>2, CallHolds DEF Inv, Types, References, HeldIsAlive, FreedIsQuiet, Join, Goto, instVars
  <2>3. QED
    BY <1>13, <2>1, <2>2 DEF Join
<1>14. ASSUME NEW t \in Thread, JoinWorker(t)
     PROVE  References'
  BY <1>14 DEF Inv, Types, References, HeldIsAlive, FreedIsQuiet, Thread, LifecycleAssumption, JoinWorker, Goto, reqVars
<1>15. ASSUME NEW i \in Inst, processingLoop(i)
     PROVE  References'
  BY <1>15 DEF Inv, Types, References, HeldIsAlive, FreedIsQuiet, Thread, LifecycleAssumption, processingLoop, Continue, callVars, reqVars
<1>16. ASSUME NEW i \in Inst, ProcessingEnds(i)
     PROVE  References'
  BY <1>16 DEF Inv, Types, References, HeldIsAlive, FreedIsQuiet, Thread, LifecycleAssumption, ProcessingEnds, callVars, reqVars
<1>17. ASSUME NEW i \in Inst, handleMessage(i)
     PROVE  References'
  BY <1>17 DEF Inv, Types, References, HeldIsAlive, FreedIsQuiet, Thread, LifecycleAssumption, handleMessage, Continue, callVars
<1>18. ASSUME NEW i \in Inst, CallbackReturns(i)
     PROVE  References'
  BY <1>18 DEF Inv, Types, References, HeldIsAlive, FreedIsQuiet, Thread, LifecycleAssumption, CallbackReturns, Continue, callVars, reqVars
<1>19. ASSUME NEW i \in Inst, NEW topic \in Key \cup asked, Deliver(i, topic)
     PROVE  References'
  BY <1>19 DEF Inv, Types, References, HeldIsAlive, FreedIsQuiet, Thread, LifecycleAssumption, Deliver, callVars, reqVars
<1>20. QED
  BY <1>1, <1>2, <1>3, <1>4, <1>5, <1>6, <1>7, <1>8, <1>9, <1>10, <1>11, <1>12, <1>13, <1>14, <1>15, <1>16, <1>17, <1>18, <1>19 DEF Next, Start, Proceed, Processing

LEMMA CallbacksStep ==
  ASSUME LifecycleAssumption, Inv, Next
  PROVE  Callbacks'
<1>1. ASSUME NEW t \in Thread, init(t)
     PROVE  Callbacks'
  BY <1>1 DEF Inv, Types, Shapes, Callbacks, References, AbortsOnlyInCallback, Thread, LifecycleAssumption, init, CanCall, Unused, callVars, reqVars
<1>2. ASSUME NEW t \in Thread, shutdown(t)
     PROVE  Callbacks'
  BY <1>2 DEF Inv, Types, Shapes, Callbacks, References, AbortsOnlyInCallback, Thread, LifecycleAssumption, shutdown, CanCall, reqVars
<1>3. ASSUME NEW t \in Thread, NEW k \in Key, NEW o \in Owner, registerInternal(t, k, o)
     PROVE  Callbacks'
  BY <1>3 DEF Inv, Types, Shapes, Callbacks, References, AbortsOnlyInCallback, Thread, LifecycleAssumption, registerInternal, CanCall, callVars, reqVars
<1>4. ASSUME NEW t \in Thread, sendDataInternal(t)
     PROVE  Callbacks'
  BY <1>4 DEF Inv, Types, Shapes, Callbacks, References, AbortsOnlyInCallback, Thread, LifecycleAssumption, sendDataInternal, getInstance, CanCall, instVars, reqVars
<1>5. ASSUME NEW t \in Thread, CanCall(t, "unregister"), NEW k \in Key, NEW o \in Owner,
        getInstance(t, "unregister", <<k, o>>)
     PROVE  Callbacks'
  BY <1>5 DEF Inv, Types, Shapes, Callbacks, References, AbortsOnlyInCallback, Thread, LifecycleAssumption, getInstance, CanCall, instVars, reqVars
<1>6. ASSUME NEW t \in Thread, CanCall(t, "request"), NEW r \in Req, NotAsked(r),
        getInstance(t, "request", r)
     PROVE  Callbacks'
  BY <1>6 DEF Inv, Types, Shapes, Callbacks, References, AbortsOnlyInCallback, Thread, LifecycleAssumption, getInstance, CanCall, NotAsked, instVars, reqVars
<1>7. ASSUME NEW t \in Thread, unregisterCallback(t)
     PROVE  Callbacks'
  BY <1>7 DEF Inv, Types, Shapes, Callbacks, References, AbortsOnlyInCallback, Thread, LifecycleAssumption, unregisterCallback, Done, Goto, reqVars
<1>8. ASSUME NEW t \in Thread, sendRequest(t)
     PROVE  Callbacks'
  BY <1>8 DEF Inv, Types, Shapes, Callbacks, References, AbortsOnlyInCallback, Thread, LifecycleAssumption, sendRequest, Goto
<1>9. ASSUME NEW t \in Thread, WaitReady(t)
     PROVE  Callbacks'
  BY <1>9 DEF Inv, Types, Shapes, Callbacks, References, AbortsOnlyInCallback, Thread, LifecycleAssumption, WaitReady, Goto, instVars
<1>10. ASSUME NEW t \in Thread, WaitTimeout(t)
     PROVE  Callbacks'
  BY <1>10 DEF Inv, Types, Shapes, Callbacks, References, AbortsOnlyInCallback, Thread, LifecycleAssumption, WaitTimeout, Goto, instVars
<1>11. ASSUME NEW t \in Thread, RequestFinish(t)
     PROVE  Callbacks'
  BY <1>11 DEF Inv, Types, Shapes, Callbacks, References, AbortsOnlyInCallback, Thread, LifecycleAssumption, RequestFinish, Done, Goto, reqVars
<1>12. ASSUME NEW t \in Thread, Release(t)
     PROVE  Callbacks'
  BY <1>12 DEF Inv, Types, Shapes, Callbacks, References, AbortsOnlyInCallback, Thread, LifecycleAssumption, Release, LastReference, Goto, reqVars
<1>13. ASSUME NEW t \in Thread, Join(t)
     PROVE  Callbacks'
  BY <1>13 DEF Inv, Types, Shapes, Callbacks, References, AbortsOnlyInCallback, Thread, LifecycleAssumption, Join, Goto, instVars, reqVars
<1>14. ASSUME NEW t \in Thread, JoinWorker(t)
     PROVE  Callbacks'
  BY <1>14 DEF Inv, Types, Shapes, Callbacks, References, AbortsOnlyInCallback, Thread, LifecycleAssumption, JoinWorker, Goto, reqVars
<1>15. ASSUME NEW i \in Inst, processingLoop(i)
     PROVE  Callbacks'
  BY <1>15 DEF Inv, Types, Shapes, Callbacks, References, AbortsOnlyInCallback, Thread, LifecycleAssumption, processingLoop, Continue, callVars, reqVars
<1>16. ASSUME NEW i \in Inst, ProcessingEnds(i)
     PROVE  Callbacks'
  BY <1>16 DEF Inv, Types, Shapes, Callbacks, References, AbortsOnlyInCallback, Thread, LifecycleAssumption, ProcessingEnds, callVars, reqVars
<1>17. ASSUME NEW i \in Inst, handleMessage(i)
     PROVE  Callbacks'
  <2>1. CASE Head(cbs[i]) \in Direct
    BY <1>17, <2>1 DEF Inv, Types, Callbacks, AbortsOnlyInCallback, handleMessage, callVars
  <2>2. CASE Head(cbs[i]) \notin Direct
    <3>1. proc' = [proc EXCEPT ![i] = proc'[i]] /\ cbs' = [cbs EXCEPT ![i] = cbs'[i]] /\ proc'[i] # "call"
      BY <1>17, <2>2 DEF Inv, Types, Shapes, handleMessage, Continue
    <3>2. ~aborted' /\ UNCHANGED pc /\ proc[i] = "run"
      BY <1>17 DEF handleMessage, callVars
    <3>3. QED
      BY <3>1, <3>2 DEF Inv, Types, Shapes, Callbacks, AbortsOnlyInCallback
  <2>3. QED
    BY <2>1, <2>2
<1>18. ASSUME NEW i \in Inst, CallbackReturns(i)
     PROVE  Callbacks'
  BY <1>18 DEF Inv, Types, Shapes, Callbacks, References, AbortsOnlyInCallback, Thread, LifecycleAssumption, CallbackReturns, Continue, callVars, reqVars
<1>19. ASSUME NEW i \in Inst, NEW topic \in Key \cup asked, Deliver(i, topic)
     PROVE  Callbacks'
  BY <1>19 DEF Inv, Types, Shapes, Callbacks, References, AbortsOnlyInCallback, Thread, LifecycleAssumption, Deliver, callVars, reqVars
<1>20. QED
  BY <1>1, <1>2, <1>3, <1>4, <1>5, <1>6, <1>7, <1>8, <1>9, <1>10, <1>11, <1>12, <1>13, <1>14, <1>15, <1>16, <1>17, <1>18, <1>19 DEF Next, Start, Proceed, Processing

LEMMA RequestsStep ==
  ASSUME LifecycleAssumption, Inv, Next
  PROVE  Requests'
<1>1. ASSUME NEW t \in Thread, init(t)
     PROVE  Requests'
  BY <1>1 DEF Inv, Types, Requests, LifecycleAssumption, init, CanCall, Unused, callVars, reqVars
<1>2. ASSUME NEW t \in Thread, shutdown(t)
     PROVE  Requests'
  BY <1>2 DEF Inv, Types, Requests, LifecycleAssumption, shutdown, CanCall, reqVars
<1>3. ASSUME NEW t \in Thread, NEW k \in Key, NEW o \in Owner, registerInternal(t, k, o)
     PROVE  Requests'
  BY <1>3 DEF Inv, Types, Requests, LifecycleAssumption, registerInternal, CanCall, callVars, reqVars
<1>4. ASSUME NEW t \in Thread, sendDataInternal(t)
     PROVE  Requests'
  BY <1>4 DEF Inv, Types, Requests, LifecycleAssumption, sendDataInternal, getInstance, CanCall, instVars, reqVars
<1>5. ASSUME NEW t \in Thread, CanCall(t, "unregister"), NEW k \in Key, NEW o \in Owner,
        getInstance(t, "unregister", <<k, o>>)
     PROVE  Requests'
  BY <1>5 DEF Inv, Types, Requests, LifecycleAssumption, getInstance, CanCall, instVars, reqVars
<1>6. ASSUME NEW t \in Thread, CanCall(t, "request"), NEW r \in Req, NotAsked(r),
        getInstance(t, "request", r)
     PROVE  Requests'
  BY <1>6 DEF Inv, Types, Requests, LifecycleAssumption, getInstance, CanCall, NotAsked, instVars, reqVars
<1>7. ASSUME NEW t \in Thread, unregisterCallback(t)
     PROVE  Requests'
  BY <1>7 DEF Inv, Types, Requests, LifecycleAssumption, unregisterCallback, Done, Goto, reqVars
<1>8. ASSUME NEW t \in Thread, sendRequest(t)
     PROVE  Requests'
  BY <1>8 DEF Inv, Types, Requests, LifecycleAssumption, sendRequest, Goto
<1>9. ASSUME NEW t \in Thread, WaitReady(t)
     PROVE  Requests'
  BY <1>9 DEF Inv, Types, Requests, LifecycleAssumption, WaitReady, Goto, instVars
<1>10. ASSUME NEW t \in Thread, WaitTimeout(t)
     PROVE  Requests'
  BY <1>10 DEF Inv, Types, Requests, LifecycleAssumption, WaitTimeout, Goto, instVars
<1>11. ASSUME NEW t \in Thread, RequestFinish(t)
     PROVE  Requests'
  BY <1>11 DEF Inv, Types, Requests, LifecycleAssumption, RequestFinish, Done, Goto, reqVars
<1>12. ASSUME NEW t \in Thread, Release(t)
     PROVE  Requests'
  BY <1>12 DEF Inv, Types, Requests, LifecycleAssumption, Release, LastReference, Goto, reqVars
<1>13. ASSUME NEW t \in Thread, Join(t)
     PROVE  Requests'
  BY <1>13 DEF Inv, Types, Requests, LifecycleAssumption, Join, Goto, instVars, reqVars
<1>14. ASSUME NEW t \in Thread, JoinWorker(t)
     PROVE  Requests'
  BY <1>14 DEF Inv, Types, Requests, LifecycleAssumption, JoinWorker, Goto, reqVars
<1>15. ASSUME NEW i \in Inst, processingLoop(i)
     PROVE  Requests'
  BY <1>15 DEF Inv, Types, Requests, LifecycleAssumption, processingLoop, Continue, callVars, reqVars
<1>16. ASSUME NEW i \in Inst, ProcessingEnds(i)
     PROVE  Requests'
  BY <1>16 DEF Inv, Types, Requests, LifecycleAssumption, ProcessingEnds, callVars, reqVars
<1>17. ASSUME NEW i \in Inst, handleMessage(i)
     PROVE  Requests'
  BY <1>17 DEF Inv, Types, Requests, LifecycleAssumption, handleMessage, Continue, callVars
<1>18. ASSUME NEW i \in Inst, CallbackReturns(i)
     PROVE  Requests'
  BY <1>18 DEF Inv, Types, Requests, LifecycleAssumption, CallbackReturns, Continue, callVars, reqVars
<1>19. ASSUME NEW i \in Inst, NEW topic \in Key \cup asked, Deliver(i, topic)
     PROVE  Requests'
  BY <1>19 DEF Inv, Types, Requests, LifecycleAssumption, Deliver, callVars, reqVars
<1>20. QED
  BY <1>1, <1>2, <1>3, <1>4, <1>5, <1>6, <1>7, <1>8, <1>9, <1>10, <1>11, <1>12, <1>13, <1>14, <1>15, <1>16, <1>17, <1>18, <1>19 DEF Next, Start, Proceed, Processing

(* Placed stays when no thread stops waiting and no request gets a handler. *)
LEMMA PlacedStays ==
  ASSUME Inv,
         \A i \in Inst, r \in Req : handlers'[i][r] = handlers[i][r] \/ handlers'[i][r] = <<>>,
         \A t \in Thread, i \in Inst, r \in Req : Waits(t, r, i) => Waits(t, r, i)'
  PROVE  Placed'
BY DEF Inv, Placed

LEMMA PlacedStep ==
  ASSUME LifecycleAssumption, Inv, Next
  PROVE  Placed'
<1>1. ASSUME NEW t \in Thread, init(t)
     PROVE  Placed'
  <2>1. \A u \in Thread, j \in Inst, q \in Req : Waits(u, q, j) => Waits(u, q, j)'
    BY <1>1 DEF Inv, Types, References, Waits, init, CanCall, Unused, callVars, LifecycleAssumption
  <2>2. \A j \in Inst, q \in Req : handlers'[j][q] = handlers[j][q] \/ handlers'[j][q] = <<>>
    <3>1. PICK i \in Inst : handlers' = [handlers EXCEPT ![i] = Flush(handlers[i])]
      BY <1>1 DEF init, Unused
    <3>2. \A r \in Req : Flush(handlers[i])[r] = handlers[i][r]
      BY FlushShape DEF Inv, Shapes
    <3>3. handlers = [j \in Inst |-> handlers[j]]
      BY DEF Inv, Shapes
    <3>4. QED
      BY <3>1, <3>2, <3>3
  <2>3. QED
    BY <2>1, <2>2, PlacedStays
<1>2. ASSUME NEW t \in Thread, shutdown(t)
     PROVE  Placed'
  <2>1. \A u \in Thread, j \in Inst, q \in Req : Waits(u, q, j) => Waits(u, q, j)'
    BY <1>2 DEF Inv, Types, References, Waits, shutdown, CanCall, callVars, LifecycleAssumption
  <2>2. \A j \in Inst, q \in Req : handlers'[j][q] = handlers[j][q] \/ handlers'[j][q] = <<>>
    BY <1>2 DEF shutdown, CanCall, instVars
  <2>3. QED
    BY <2>1, <2>2, PlacedStays
<1>3. ASSUME NEW t \in Thread, NEW k \in Key, NEW o \in Owner, registerInternal(t, k, o)
     PROVE  Placed'
  <2>1. \A u \in Thread, j \in Inst, q \in Req : Waits(u, q, j) => Waits(u, q, j)'
    BY <1>3 DEF Inv, Types, References, Waits, registerInternal, CanCall, callVars, LifecycleAssumption
  <2>2. \A j \in Inst, q \in Req : handlers'[j][q] = handlers[j][q] \/ handlers'[j][q] = <<>>
    <3>1. CASE m_instance # None
      <4>1. m_instance \in Inst /\ k \in Topic /\ Req \subseteq Topic /\ k \notin Req
        BY <3>1 DEF Inv, Types, Topic, LifecycleAssumption
      <4>2. \A r \in Req : performRegistration(handlers[m_instance], k, o)[r] = handlers[m_instance][r]
        BY <4>1, HandlersShape DEF Inv, Shapes
      <4>3. handlers' = [handlers EXCEPT ![m_instance] = performRegistration(handlers[m_instance], k, o)]
        BY <1>3, <3>1 DEF registerInternal
      <4>4. handlers = [j \in Inst |-> handlers[j]]
        BY DEF Inv, Shapes
      <4>5. QED
        BY <4>2, <4>3, <4>4
    <3>2. CASE m_instance = None
      BY <1>3, <3>2 DEF registerInternal
    <3>3. QED
      BY <3>1, <3>2
  <2>3. QED
    BY <2>1, <2>2, PlacedStays
<1>4. ASSUME NEW t \in Thread, sendDataInternal(t)
     PROVE  Placed'
  <2>1. \A u \in Thread, j \in Inst, q \in Req : Waits(u, q, j) => Waits(u, q, j)'
    BY <1>4 DEF Inv, Types, References, Waits, sendDataInternal, getInstance, CanCall, callVars, LifecycleAssumption
  <2>2. \A j \in Inst, q \in Req : handlers'[j][q] = handlers[j][q] \/ handlers'[j][q] = <<>>
    BY <1>4 DEF sendDataInternal, getInstance, CanCall, instVars
  <2>3. QED
    BY <2>1, <2>2, PlacedStays
<1>5. ASSUME NEW t \in Thread, CanCall(t, "unregister"), NEW k \in Key, NEW o \in Owner,
        getInstance(t, "unregister", <<k, o>>)
     PROVE  Placed'
  <2>1. \A u \in Thread, j \in Inst, q \in Req : Waits(u, q, j) => Waits(u, q, j)'
    BY <1>5 DEF Inv, Types, References, Waits, getInstance, CanCall, callVars, LifecycleAssumption
  <2>2. \A j \in Inst, q \in Req : handlers'[j][q] = handlers[j][q] \/ handlers'[j][q] = <<>>
    BY <1>5 DEF getInstance, CanCall, instVars
  <2>3. QED
    BY <2>1, <2>2, PlacedStays
<1>6. ASSUME NEW t \in Thread, CanCall(t, "request"), NEW r \in Req, NotAsked(r),
        getInstance(t, "request", r)
     PROVE  Placed'
  <2>1. \A u \in Thread, j \in Inst, q \in Req : Waits(u, q, j) => Waits(u, q, j)'
    BY <1>6 DEF Inv, Types, References, Waits, getInstance, CanCall, NotAsked, callVars, LifecycleAssumption
  <2>2. \A j \in Inst, q \in Req : handlers'[j][q] = handlers[j][q] \/ handlers'[j][q] = <<>>
    BY <1>6 DEF getInstance, CanCall, NotAsked, instVars
  <2>3. QED
    BY <2>1, <2>2, PlacedStays
<1>7. ASSUME NEW t \in Thread, unregisterCallback(t)
     PROVE  Placed'
  <2>1. \A u \in Thread, j \in Inst, q \in Req : Waits(u, q, j) => Waits(u, q, j)'
    BY <1>7 DEF Inv, Types, References, Waits, unregisterCallback, Done, Goto, callVars, LifecycleAssumption
  <2>2. \A j \in Inst, q \in Req : handlers'[j][q] = handlers[j][q] \/ handlers'[j][q] = <<>>
    <3>1. held[t] \in Inst /\ arg[t][1] \in Key
      BY <1>7, CallHolds DEF Inv, Requests, unregisterCallback
    <3>2. arg[t][1] \in Topic /\ Req \subseteq Topic /\ arg[t][1] \notin Req
      BY <3>1 DEF Topic, LifecycleAssumption
    <3>3. \A r \in Req : performUnregistration(handlers[held[t]], arg[t][1], arg[t][2])[r] = handlers[held[t]][r]
      <4>1. handlers[held[t]] = [k \in Topic |-> handlers[held[t]][k]]
        BY <3>1 DEF Inv, Shapes
      <4>2. QED
        BY <3>2, <4>1, HandlersShape
    <3>4. handlers' = [handlers EXCEPT ![held[t]] = performUnregistration(handlers[held[t]], arg[t][1], arg[t][2])]
      BY <1>7 DEF unregisterCallback
    <3>5. handlers = [j \in Inst |-> handlers[j]]
      BY DEF Inv, Shapes
    <3>6. QED
      BY <3>3, <3>4, <3>5
  <2>3. QED
    BY <2>1, <2>2, PlacedStays
<1>8. ASSUME NEW t \in Thread, sendRequest(t)
     PROVE  Placed'
  <2>1. held[t] \in Inst /\ arg[t] \in Req /\ arg[t] \in Topic
    BY <1>8, CallHolds DEF Inv, Requests, sendRequest, Topic
  <2>2. handlers[held[t]][arg[t]] = <<>>
    BY <1>8, <2>1 DEF Inv, Requests, Placed, Waits, sendRequest
  <2>3. /\ handlers' = [handlers EXCEPT ![held[t]] = performRegistration(handlers[held[t]], arg[t], arg[t])]
        /\ handlers = [j \in Inst |-> handlers[j]]
    BY <1>8 DEF sendRequest, Inv, Shapes
  <2>4. performRegistration(handlers[held[t]], arg[t], arg[t])
          = [l \in Topic |-> IF l = arg[t] THEN Append(handlers[held[t]][l], arg[t]) ELSE handlers[held[t]][l]]
    <3>1. handlers[held[t]] = [k \in Topic |-> handlers[held[t]][k]]
      BY <2>1 DEF Inv, Shapes
    <3>2. QED
      BY <2>1, <3>1 DEF performRegistration
  <2>5. \A i \in Inst, r \in Req : ~(i = held[t] /\ r = arg[t]) => handlers'[i][r] = handlers[i][r]
    BY <2>3, <2>4 DEF Topic
  <2>6. handlers'[held[t]][arg[t]] = <<arg[t]>>
    BY <2>1, <2>2, <2>3, <2>4
  <2>7. Waits(t, arg[t], held[t])' /\ arg' = arg /\ held' = held
    BY <1>8 DEF Waits, sendRequest, Goto, Inv, Types
  <2>8. \A u \in Thread, i \in Inst, r \in Req : Waits(u, r, i) => Waits(u, r, i)'
    BY <1>8 DEF Inv, Types, Waits, sendRequest, Goto
  <2>9. QED
    BY <2>1, <2>5, <2>6, <2>7, <2>8 DEF Inv, Placed
<1>9. ASSUME NEW t \in Thread, WaitReady(t)
     PROVE  Placed'
  <2>1. \A u \in Thread, j \in Inst, q \in Req : Waits(u, q, j) => Waits(u, q, j)'
    BY <1>9 DEF Inv, Types, References, Waits, WaitReady, Goto, callVars, LifecycleAssumption
  <2>2. \A j \in Inst, q \in Req : handlers'[j][q] = handlers[j][q] \/ handlers'[j][q] = <<>>
    BY <1>9 DEF WaitReady, Goto, instVars
  <2>3. QED
    BY <2>1, <2>2, PlacedStays
<1>10. ASSUME NEW t \in Thread, WaitTimeout(t)
     PROVE  Placed'
  <2>1. \A u \in Thread, j \in Inst, q \in Req : Waits(u, q, j) => Waits(u, q, j)'
    BY <1>10 DEF Inv, Types, References, Waits, WaitTimeout, Goto, callVars, LifecycleAssumption
  <2>2. \A j \in Inst, q \in Req : handlers'[j][q] = handlers[j][q] \/ handlers'[j][q] = <<>>
    BY <1>10 DEF WaitTimeout, Goto, instVars
  <2>3. QED
    BY <2>1, <2>2, PlacedStays
<1>11. ASSUME NEW t \in Thread, RequestFinish(t)
     PROVE  Placed'
  <2>1. held[t] \in Inst /\ arg[t] \in Req /\ arg[t] \in Topic
    BY <1>11, CallHolds DEF Inv, Requests, RequestFinish, Topic
  <2>2. /\ handlers' = [handlers EXCEPT ![held[t]] = performUnregistration(handlers[held[t]], arg[t], arg[t])]
        /\ handlers = [j \in Inst |-> handlers[j]]
    BY <1>11 DEF RequestFinish, Inv, Shapes
  <2>3. handlers[held[t]][arg[t]] \in {<<>>, <<arg[t]>>}
    BY <2>1 DEF Inv, Placed
  <2>4. /\ performUnregistration(handlers[held[t]], arg[t], arg[t])[arg[t]] = <<>>
        /\ \A l \in Topic : l # arg[t] => performUnregistration(handlers[held[t]], arg[t], arg[t])[l] = handlers[held[t]][l]
    <3>1. handlers[held[t]] = [k \in Topic |-> handlers[held[t]][k]]
      BY <2>1 DEF Inv, Shapes
    <3>2. QED
      BY <2>1, <2>3, <3>1, HandlersCleared
  <2>5. \A i \in Inst, r \in Req : ~(i = held[t] /\ r = arg[t]) => handlers'[i][r] = handlers[i][r]
    BY <2>2, <2>4 DEF Topic
  <2>6. handlers'[held[t]][arg[t]] = <<>>
    BY <2>1, <2>2, <2>4
  <2>7. \A u \in Thread, i \in Inst, r \in Req : u # t /\ Waits(u, r, i) => Waits(u, r, i)'
    BY <1>11 DEF Inv, Types, Waits, RequestFinish, Done, Goto
  <2>8. \A i \in Inst, r \in Req : Waits(t, r, i) => i = held[t] /\ r = arg[t]
    BY DEF Waits
  <2>9. QED
    BY <2>5, <2>6, <2>7, <2>8 DEF Inv, Placed
<1>12. ASSUME NEW t \in Thread, Release(t)
     PROVE  Placed'
  <2>1. \A u \in Thread, j \in Inst, q \in Req : Waits(u, q, j) => Waits(u, q, j)'
    BY <1>12 DEF Inv, Types, References, Waits, Release, LastReference, Goto, callVars, LifecycleAssumption
  <2>2. \A j \in Inst, q \in Req : handlers'[j][q] = handlers[j][q] \/ handlers'[j][q] = <<>>
    BY <1>12 DEF Release, LastReference, Goto, instVars
  <2>3. QED
    BY <2>1, <2>2, PlacedStays
<1>13. ASSUME NEW t \in Thread, Join(t)
     PROVE  Placed'
  <2>1. \A u \in Thread, j \in Inst, q \in Req : Waits(u, q, j) => Waits(u, q, j)'
    BY <1>13 DEF Inv, Types, References, Waits, Join, Goto, callVars, LifecycleAssumption
  <2>2. \A j \in Inst, q \in Req : handlers'[j][q] = handlers[j][q] \/ handlers'[j][q] = <<>>
    BY <1>13 DEF Join, Goto, instVars
  <2>3. QED
    BY <2>1, <2>2, PlacedStays
<1>14. ASSUME NEW t \in Thread, JoinWorker(t)
     PROVE  Placed'
  <2>1. \A u \in Thread, j \in Inst, q \in Req : Waits(u, q, j) => Waits(u, q, j)'
    BY <1>14 DEF Inv, Types, References, Waits, JoinWorker, Goto, callVars, LifecycleAssumption
  <2>2. \A j \in Inst, q \in Req : handlers'[j][q] = handlers[j][q] \/ handlers'[j][q] = <<>>
    BY <1>14 DEF Inv, Shapes, JoinWorker, Topic
  <2>3. QED
    BY <2>1, <2>2, PlacedStays
<1>15. ASSUME NEW i \in Inst, processingLoop(i)
     PROVE  Placed'
  <2>1. \A u \in Thread, j \in Inst, q \in Req : Waits(u, q, j) => Waits(u, q, j)'
    BY <1>15 DEF Inv, Types, References, Waits, processingLoop, Continue, callVars, LifecycleAssumption
  <2>2. \A j \in Inst, q \in Req : handlers'[j][q] = handlers[j][q] \/ handlers'[j][q] = <<>>
    BY <1>15 DEF processingLoop, Continue, instVars
  <2>3. QED
    BY <2>1, <2>2, PlacedStays
<1>16. ASSUME NEW i \in Inst, ProcessingEnds(i)
     PROVE  Placed'
  <2>1. \A u \in Thread, j \in Inst, q \in Req : Waits(u, q, j) => Waits(u, q, j)'
    BY <1>16 DEF Inv, Types, References, Waits, ProcessingEnds, callVars, LifecycleAssumption
  <2>2. \A j \in Inst, q \in Req : handlers'[j][q] = handlers[j][q] \/ handlers'[j][q] = <<>>
    BY <1>16 DEF ProcessingEnds, instVars
  <2>3. QED
    BY <2>1, <2>2, PlacedStays
<1>17. ASSUME NEW i \in Inst, handleMessage(i)
     PROVE  Placed'
  <2>1. \A u \in Thread, j \in Inst, q \in Req : Waits(u, q, j) => Waits(u, q, j)'
    BY <1>17 DEF Inv, Types, References, Waits, handleMessage, Continue, callVars, LifecycleAssumption
  <2>2. \A j \in Inst, q \in Req : handlers'[j][q] = handlers[j][q] \/ handlers'[j][q] = <<>>
    BY <1>17 DEF handleMessage, Continue, instVars
  <2>3. QED
    BY <2>1, <2>2, PlacedStays
<1>18. ASSUME NEW i \in Inst, CallbackReturns(i)
     PROVE  Placed'
  <2>1. \A u \in Thread, j \in Inst, q \in Req : Waits(u, q, j) => Waits(u, q, j)'
    BY <1>18 DEF Inv, Types, References, Waits, CallbackReturns, Continue, callVars, LifecycleAssumption
  <2>2. \A j \in Inst, q \in Req : handlers'[j][q] = handlers[j][q] \/ handlers'[j][q] = <<>>
    BY <1>18 DEF CallbackReturns, Continue, instVars
  <2>3. QED
    BY <2>1, <2>2, PlacedStays
<1>19. ASSUME NEW i \in Inst, NEW topic \in Key \cup asked, Deliver(i, topic)
     PROVE  Placed'
  <2>1. \A u \in Thread, j \in Inst, q \in Req : Waits(u, q, j) => Waits(u, q, j)'
    BY <1>19 DEF Inv, Types, References, Waits, Deliver, callVars, LifecycleAssumption
  <2>2. \A j \in Inst, q \in Req : handlers'[j][q] = handlers[j][q] \/ handlers'[j][q] = <<>>
    BY <1>19 DEF Deliver, instVars
  <2>3. QED
    BY <2>1, <2>2, PlacedStays
<1>20. QED
  BY <1>1, <1>2, <1>3, <1>4, <1>5, <1>6, <1>7, <1>8, <1>9, <1>10, <1>11, <1>12, <1>13, <1>14, <1>15, <1>16, <1>17, <1>18, <1>19 DEF Next, Start, Proceed, Processing

LEMMA PendingStep ==
  ASSUME LifecycleAssumption, Inv, Next
  PROVE  PendingFlushed'
<1>1. ASSUME NEW t \in Thread, init(t)
     PROVE  PendingFlushed'
  BY <1>1 DEF Inv, Types, PendingFlushed, LifecycleAssumption, init, CanCall, Unused, callVars, reqVars
<1>2. ASSUME NEW t \in Thread, shutdown(t)
     PROVE  PendingFlushed'
  BY <1>2 DEF Inv, Types, PendingFlushed, LifecycleAssumption, shutdown, CanCall, reqVars
<1>3. ASSUME NEW t \in Thread, NEW k \in Key, NEW o \in Owner, registerInternal(t, k, o)
     PROVE  PendingFlushed'
  BY <1>3 DEF Inv, Types, PendingFlushed, LifecycleAssumption, registerInternal, CanCall, callVars, reqVars
<1>4. ASSUME NEW t \in Thread, sendDataInternal(t)
     PROVE  PendingFlushed'
  BY <1>4 DEF Inv, Types, PendingFlushed, LifecycleAssumption, sendDataInternal, getInstance, CanCall, instVars, reqVars
<1>5. ASSUME NEW t \in Thread, CanCall(t, "unregister"), NEW k \in Key, NEW o \in Owner,
        getInstance(t, "unregister", <<k, o>>)
     PROVE  PendingFlushed'
  BY <1>5 DEF Inv, Types, PendingFlushed, LifecycleAssumption, getInstance, CanCall, instVars, reqVars
<1>6. ASSUME NEW t \in Thread, CanCall(t, "request"), NEW r \in Req, NotAsked(r),
        getInstance(t, "request", r)
     PROVE  PendingFlushed'
  BY <1>6 DEF Inv, Types, PendingFlushed, LifecycleAssumption, getInstance, CanCall, NotAsked, instVars, reqVars
<1>7. ASSUME NEW t \in Thread, unregisterCallback(t)
     PROVE  PendingFlushed'
  BY <1>7 DEF Inv, Types, PendingFlushed, LifecycleAssumption, unregisterCallback, Done, Goto, reqVars
<1>8. ASSUME NEW t \in Thread, sendRequest(t)
     PROVE  PendingFlushed'
  BY <1>8 DEF Inv, Types, PendingFlushed, LifecycleAssumption, sendRequest, Goto
<1>9. ASSUME NEW t \in Thread, WaitReady(t)
     PROVE  PendingFlushed'
  BY <1>9 DEF Inv, Types, PendingFlushed, LifecycleAssumption, WaitReady, Goto, instVars
<1>10. ASSUME NEW t \in Thread, WaitTimeout(t)
     PROVE  PendingFlushed'
  BY <1>10 DEF Inv, Types, PendingFlushed, LifecycleAssumption, WaitTimeout, Goto, instVars
<1>11. ASSUME NEW t \in Thread, RequestFinish(t)
     PROVE  PendingFlushed'
  BY <1>11 DEF Inv, Types, PendingFlushed, LifecycleAssumption, RequestFinish, Done, Goto, reqVars
<1>12. ASSUME NEW t \in Thread, Release(t)
     PROVE  PendingFlushed'
  BY <1>12 DEF Inv, Types, PendingFlushed, LifecycleAssumption, Release, LastReference, Goto, reqVars
<1>13. ASSUME NEW t \in Thread, Join(t)
     PROVE  PendingFlushed'
  BY <1>13 DEF Inv, Types, PendingFlushed, LifecycleAssumption, Join, Goto, instVars, reqVars
<1>14. ASSUME NEW t \in Thread, JoinWorker(t)
     PROVE  PendingFlushed'
  BY <1>14 DEF Inv, Types, PendingFlushed, LifecycleAssumption, JoinWorker, Goto, reqVars
<1>15. ASSUME NEW i \in Inst, processingLoop(i)
     PROVE  PendingFlushed'
  BY <1>15 DEF Inv, Types, PendingFlushed, LifecycleAssumption, processingLoop, Continue, callVars, reqVars
<1>16. ASSUME NEW i \in Inst, ProcessingEnds(i)
     PROVE  PendingFlushed'
  BY <1>16 DEF Inv, Types, PendingFlushed, LifecycleAssumption, ProcessingEnds, callVars, reqVars
<1>17. ASSUME NEW i \in Inst, handleMessage(i)
     PROVE  PendingFlushed'
  BY <1>17 DEF Inv, Types, PendingFlushed, LifecycleAssumption, handleMessage, Continue, callVars
<1>18. ASSUME NEW i \in Inst, CallbackReturns(i)
     PROVE  PendingFlushed'
  BY <1>18 DEF Inv, Types, PendingFlushed, LifecycleAssumption, CallbackReturns, Continue, callVars, reqVars
<1>19. ASSUME NEW i \in Inst, NEW topic \in Key \cup asked, Deliver(i, topic)
     PROVE  PendingFlushed'
  BY <1>19 DEF Inv, Types, PendingFlushed, LifecycleAssumption, Deliver, callVars, reqVars
<1>20. QED
  BY <1>1, <1>2, <1>3, <1>4, <1>5, <1>6, <1>7, <1>8, <1>9, <1>10, <1>11, <1>12, <1>13, <1>14, <1>15, <1>16, <1>17, <1>18, <1>19 DEF Next, Start, Proceed, Processing

(* The C API's results. *)
Replies == result = [r \in Req |-> result[r]] /\ ReplyFits

LEMMA RepliesStep ==
  ASSUME LifecycleAssumption, Inv, Replies, Next
  PROVE  Replies'
<1>1. ASSUME NEW t \in Thread, WaitReady(t) PROVE Replies'
  <2>1. arg[t] \in Req /\ promise[arg[t]] /\ promise' = promise
    BY <1>1 DEF Inv, Requests, WaitReady
  <2>2. PICK n \in ReplySize : result' = [result EXCEPT ![arg[t]] = CopyOut(n)]
    BY <1>1 DEF WaitReady
  <2>3. CopyOut(n)[2] <= OutCap
    BY DEF CopyOut, LifecycleAssumption
  <2>4. QED
    BY <2>1, <2>2, <2>3 DEF Replies, ReplyFits
<1>2. ASSUME NEW t \in Thread, WaitTimeout(t) PROVE Replies'
  BY <1>2 DEF Inv, Requests, Replies, ReplyFits, WaitTimeout, LifecycleAssumption
<1>3. ASSUME NEW i \in Inst, handleMessage(i) PROVE Replies'
  <2>1. result' = result /\ \A r \in Req : promise[r] => promise'[r]
    BY <1>3 DEF handleMessage
  <2>2. QED
    BY <2>1 DEF Replies, ReplyFits
<1>4. ASSUME UNCHANGED <<result, promise>> PROVE Replies'
  BY <1>4 DEF Replies, ReplyFits
<1>5. QED
  BY <1>1, <1>2, <1>3, <1>4
     DEF Next, Start, Proceed, Processing, init, shutdown, registerInternal, sendDataInternal, getInstance,
         unregisterCallback, sendRequest, RequestFinish, Release, Join, JoinWorker,
         processingLoop, ProcessingEnds, CallbackReturns, Deliver, reqVars

-----------------------------------------------------------------------------
(* The invariant holds for any number of threads and instances, any topics *)
(* and requests, and any order of init(), shutdown(), calls and callbacks. *)
THEOREM LifecycleInvariant == Spec => [](Inv /\ Replies)
<1>1. Init => Inv /\ Replies
  BY LifecycleInit, LifecycleAssumption DEF Init, Replies, ReplyFits, LifecycleAssumption
<1>2. Inv /\ Replies /\ [Next]_vars => (Inv /\ Replies)'
  <2> SUFFICES ASSUME Inv, Replies, [Next]_vars PROVE Inv' /\ Replies'
    OBVIOUS
  <2>1. CASE Next
    BY <2>1, LifecycleAssumption, TypesStep, ShapesStep, ReferencesStep, CallbacksStep, RequestsStep, PlacedStep,
       PendingStep, RepliesStep DEF Inv
  <2>2. CASE UNCHANGED vars
    <3>1. Types' /\ Shapes'
      BY <2>2 DEF vars, instVars, callVars, reqVars, Inv, Types, Shapes
    <3>2. References' /\ Callbacks'
      BY <2>2 DEF vars, instVars, callVars, Inv, References, HeldIsAlive, FreedIsQuiet, Callbacks, AbortsOnlyInCallback
    <3>3. Requests' /\ Placed' /\ PendingFlushed' /\ Replies'
      BY <2>2 DEF vars, instVars, callVars, reqVars, Inv, Requests, Placed, Waits, PendingFlushed, Replies, ReplyFits
    <3>4. QED
      BY <3>1, <3>2, <3>3 DEF Inv
  <2>3. QED
    BY <2>1, <2>2
<1>3. QED
  BY <1>1, <1>2, PTL DEF Spec

(* The types and the bound of the inbound queue. *)
THEOREM LifecycleTypes == Spec => []TypeOK
<1>1. Inv => TypeOK
  BY DEF Inv, Types, Shapes, TypeOK
<1>2. QED
  BY <1>1, LifecycleInvariant, PTL

(* No call in progress is left with a destroyed instance, whatever         *)
(* shutdown() and init() do meanwhile.                                     *)
THEOREM CallsHoldLiveInstances == Spec => []HeldIsAlive
<1>1. Inv => HeldIsAlive
  BY DEF Inv, References
<1>2. QED
  BY <1>1, LifecycleInvariant, PTL

(* Both threads of an instance have ended before its memory goes. *)
THEOREM FreedInstancesQuiet == Spec => []FreedIsQuiet
<1>1. Inv => FreedIsQuiet
  BY DEF Inv, References
<1>2. QED
  BY <1>1, LifecycleInvariant, PTL

(* init() leaves no registration behind in the pending list. *)
THEOREM RegistrationsFlushed == Spec => []PendingFlushed
<1>1. Inv => PendingFlushed
  BY DEF Inv
<1>2. QED
  BY <1>1, LifecycleInvariant, PTL

(* The destructor joins its own thread only under a direct callback. *)
THEOREM SelfJoinOnlyInCallback == Spec => []AbortsOnlyInCallback
<1>1. Inv => AbortsOnlyInCallback
  BY DEF Inv, Callbacks
<1>2. QED
  BY <1>1, LifecycleInvariant, PTL

(* The handler of a request that has returned is nowhere: not with an      *)
(* instance that outlived shutdown(), not with a new one, not pending.     *)
THEOREM RequestsLeaveNothing == Spec => []RequestsCleanUp
<1>1. Inv => RequestsCleanUp
  <2>1. SUFFICES ASSUME Inv, NEW r \in Req, \A t \in Thread : arg[t] = r => pc[t] \notin {"wait", "finish"}
                 PROVE  /\ \A i \in Inst : handlers[i][r] = <<>>
                        /\ \A n \in DOMAIN pending : pending[n][1] # r
    BY DEF RequestsCleanUp
  <2>2. \A i \in Inst : handlers[i][r] = <<>>
    BY <2>1 DEF Inv, Placed, Waits
  <2>3. \A n \in DOMAIN pending : pending[n] \in Key \X Owner
    BY <2>1 DEF Inv, Shapes
  <2>4. \A n \in DOMAIN pending : pending[n][1] # r
    BY <2>3, LifecycleAssumption DEF LifecycleAssumption
  <2>5. QED
    BY <2>2, <2>4
<1>2. QED
  BY <1>1, LifecycleInvariant, PTL

(* The C API writes at most outBufferCap bytes and reports success only    *)
(* for a reply that came.                                                  *)
THEOREM RepliesFitBuffer == Spec => []ReplyFits
<1>1. Replies => ReplyFits
  BY DEF Replies
<1>2. QED
  BY <1>1, LifecycleInvariant, PTL

=============================================================================
