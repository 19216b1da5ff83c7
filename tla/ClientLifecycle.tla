-------------------------- MODULE ClientLifecycle --------------------------
(***************************************************************************)
(* common/connectionmanager.cpp: the life of the ConnectionManager         *)
(* singleton under concurrent calls, and requests with their replies.      *)
(*                                                                         *)
(* Threads are the application's (App) and, while a callback runs on it,   *)
(* the processing thread of an instance, which is named like the instance. *)
(* held[t] is the shared_ptr a call of t has from getInstance() (or, in    *)
(* shutdown(), its tmp); a call is a program counter pc[t] with argument   *)
(* arg[t].  What runs under m_initMutex or m_mapMutex is one step.         *)
(*                                                                         *)
(* Owners are the void* of a registration.  Callbacks of an owner in       *)
(* Direct run on the processing thread and may call back into the API;     *)
(* those of the others only post an event to another thread, as the Qt     *)
(* adapter does.  A request's reply topic and promise are the request.     *)
(* The connection is in Session; here the worker only delivers messages.   *)
(***************************************************************************)
EXTENDS Integers, Sequences

CONSTANTS
  App, Inst, None,
  Key, Owner, Direct,
  Req,
  ReplySize, OutCap,   \* sizes of replies; outBufferCap of the C API
  QueueMax, PendingMax,
  May                  \* which thread makes which calls: pairs <<thread, call>>

ASSUME LifecycleAssumption ==
  /\ Direct \subseteq Owner /\ QueueMax \in Nat \ {0} /\ PendingMax \in Nat
  /\ ReplySize \subseteq Nat /\ OutCap \in Nat
  /\ App \cap Inst = {} /\ Key \cap Req = {}
  /\ None \notin Inst \cup Req \cup (Key \X Owner) /\ Req \cap (Key \X Owner) = {}

Thread == App \cup Inst
Topic == Key \cup Req

VARIABLES
  m_instance, pending,
  life,        \* of each instance: unused, live, destroying, gone
  m_running, stopped, handlers, queue, worker,
  proc, cbs,   \* the processing threads and the callbacks they still have to run
  pc, arg, held,
  promise,     \* per request: whether the reply's promise has been set
  result,      \* per request: what the C API returned, and how much it copied
  asked,       \* requests that have been sent and may be answered
  aborted      \* std::terminate was called

instVars == <<life, m_running, stopped, handlers, queue, worker, proc, cbs>>
callVars == <<pc, arg, held>>
reqVars == <<promise, result, asked>>
vars == <<m_instance, pending, instVars, callVars, reqVars, aborted>>

-----------------------------------------------------------------------------
CanCall(t, call) == <<t, call>> \in May /\ ~aborted /\ pc[t] = "idle" /\ t \in App \cup {i \in Inst : proc[i] = "call"}

performRegistration(hs, k, o) == [hs EXCEPT ![k] = Append(@, o)]

(* The registrations of an owner go; a topic left without any is erased. *)
performUnregistration(hs, k, o) ==
  [hs EXCEPT ![k] = IF \A n \in DOMAIN @ : @[n] = o THEN <<>> ELSE SelectSeq(@, LAMBDA owner : owner # o)]

(* The pending registrations, in order, on top of hs. *)
Flush(hs) ==
  LET Waiting(k) == SelectSeq(pending, LAMBDA p : p[1] = k)
  IN  [k \in Topic |-> IF \A n \in DOMAIN pending : pending[n][1] # k THEN hs[k]
                       ELSE hs[k] \o [n \in DOMAIN Waiting(k) |-> Waiting(k)[n][2]]]

Unused == {i \in Inst : life[i] = "unused"}

(* A new instance, with its threads, takes over the pending registrations. *)
init(t) ==
  /\ CanCall(t, "init") /\ m_instance = None
  /\ Unused # {}
  /\ LET i == CHOOSE j \in Unused : TRUE
     IN  /\ m_instance' = i
         /\ life' = [life EXCEPT ![i] = "live"]
         /\ m_running' = [m_running EXCEPT ![i] = TRUE]
         /\ handlers' = [handlers EXCEPT ![i] = Flush(@)]
         /\ proc' = [proc EXCEPT ![i] = "pop"]
         /\ worker' = [worker EXCEPT ![i] = "run"]
  /\ pending' = <<>>
  /\ UNCHANGED <<stopped, queue, cbs, callVars, reqVars, aborted>>

(* shutdown() up to the end of its locked block. *)
shutdown(t) ==
  /\ CanCall(t, "shutdown") /\ m_instance # None
  /\ m_running' = [m_running EXCEPT ![m_instance] = FALSE]
  /\ held' = [held EXCEPT ![t] = m_instance]
  /\ pc' = [pc EXCEPT ![t] = "release"]
  /\ m_instance' = None
  /\ UNCHANGED <<pending, life, stopped, handlers, queue, worker, proc, cbs, arg, reqVars, aborted>>

registerInternal(t, k, o) ==
  /\ CanCall(t, "register")
  /\ IF m_instance # None
     THEN /\ Len(handlers[m_instance][k]) < PendingMax
          /\ handlers' = [handlers EXCEPT ![m_instance] = performRegistration(@, k, o)]
          /\ UNCHANGED pending
     ELSE /\ Len(pending) < PendingMax
          /\ pending' = Append(pending, <<k, o>>)
          /\ UNCHANGED handlers
  /\ UNCHANGED <<m_instance, life, m_running, stopped, queue, worker, proc, cbs, callVars, reqVars, aborted>>

(* A call that starts with getInstance(); without an instance it fails and *)
(* changes nothing.                                                        *)
getInstance(t, call, a) ==
  /\ m_instance # None
  /\ held' = [held EXCEPT ![t] = m_instance]
  /\ pc' = [pc EXCEPT ![t] = call]
  /\ arg' = [arg EXCEPT ![t] = a]
  /\ UNCHANGED <<m_instance, pending, instVars, reqVars, aborted>>

Goto(t, l) == pc' = [pc EXCEPT ![t] = l]
Done(t) == Goto(t, "release") /\ arg' = [arg EXCEPT ![t] = None]

(* sendMessage, sendData, replyToSender: the envelope goes to the worker's *)
(* queue, and what is left of the call is the reference.                   *)
sendDataInternal(t) ==
  /\ CanCall(t, "send") /\ getInstance(t, "release", None)

unregisterCallback(t) ==
  /\ ~aborted /\ pc[t] = "unregister"
  /\ handlers' = [handlers EXCEPT ![held[t]] = performUnregistration(@, arg[t][1], arg[t][2])]
  /\ Done(t)
  /\ UNCHANGED <<m_instance, pending, life, m_running, stopped, queue, worker, proc, cbs, held, reqVars, aborted>>

sendRequestViaStatic(t) ==
  /\ ~aborted /\ pc[t] = "request"
  /\ IF m_instance # None
     THEN handlers' = [handlers EXCEPT ![m_instance] = performRegistration(@, arg[t], arg[t])] /\ UNCHANGED pending
     ELSE pending' = Append(pending, <<arg[t], arg[t]>>) /\ UNCHANGED handlers
  /\ asked' = asked \cup {arg[t]}
  /\ Goto(t, "wait")
  /\ UNCHANGED <<m_instance, life, m_running, stopped, queue, worker, proc, cbs, arg, held, promise, result, aborted>>

(* sendRequest: the reply handler is registered on the held instance, and  *)
(* the request sent.                                                       *)
sendRequest(t) ==
  /\ ~aborted /\ pc[t] = "request"
  /\ handlers' = [handlers EXCEPT ![held[t]] = performRegistration(@, arg[t], arg[t])]
  /\ asked' = asked \cup {arg[t]}
  /\ Goto(t, "wait")
  /\ UNCHANGED <<m_instance, pending, life, m_running, stopped, queue, worker, proc, cbs, arg, held, promise, result, aborted>>

(* The C API's view of a reply of n bytes: copied only if it fits. *)
CopyOut(n) == IF n > OutCap THEN <<"ERROR_INVALID_ARGS", 0>> ELSE <<"SUCCESS", n>>

WaitReady(t) ==
  /\ ~aborted /\ pc[t] = "wait" /\ promise[arg[t]]
  /\ \E n \in ReplySize : result' = [result EXCEPT ![arg[t]] = CopyOut(n)]
  /\ Goto(t, "finish")
  /\ UNCHANGED <<m_instance, pending, instVars, arg, held, promise, asked, aborted>>

WaitForever(t) == FALSE /\ UNCHANGED vars

WaitTimeout(t) ==
  /\ ~aborted /\ pc[t] = "wait" /\ ~promise[arg[t]]
  /\ result' = [result EXCEPT ![arg[t]] = <<"ERROR_GENERIC", 0>>]
  /\ Goto(t, "finish")
  /\ UNCHANGED <<m_instance, pending, instVars, arg, held, promise, asked, aborted>>

RequestFinish(t) ==
  /\ ~aborted /\ pc[t] = "finish"
  /\ handlers' = [handlers EXCEPT ![held[t]] = performUnregistration(@, arg[t], arg[t])]
  /\ Done(t)
  /\ UNCHANGED <<m_instance, pending, life, m_running, stopped, queue, worker, proc, cbs, held, reqVars, aborted>>

-----------------------------------------------------------------------------
LastReference(t) == m_instance # held[t] /\ \A u \in Thread \ {t} : held[u] # held[t]

ReleaseUncounted(t) ==
  /\ ~aborted /\ pc[t] = "release"
  /\ IF m_instance # held[t]
     THEN /\ life' = [life EXCEPT ![held[t]] = "destroying"]
          /\ stopped' = [stopped EXCEPT ![held[t]] = TRUE]
          /\ m_running' = [m_running EXCEPT ![held[t]] = FALSE]
          /\ Goto(t, "join")
          /\ UNCHANGED held
     ELSE /\ Goto(t, "idle")
          /\ held' = [held EXCEPT ![t] = None]
          /\ UNCHANGED <<life, stopped, m_running>>
  /\ UNCHANGED <<m_instance, pending, handlers, queue, worker, proc, cbs, arg, reqVars, aborted>>

ReleaseUnstopped(t) ==
  /\ ~aborted /\ pc[t] = "release"
  /\ IF LastReference(t)
     THEN /\ life' = [life EXCEPT ![held[t]] = "destroying"]
          /\ m_running' = [m_running EXCEPT ![held[t]] = FALSE]
          /\ Goto(t, "join")
          /\ UNCHANGED held
     ELSE /\ Goto(t, "idle")
          /\ held' = [held EXCEPT ![t] = None]
          /\ UNCHANGED <<life, m_running>>
  /\ UNCHANGED <<m_instance, pending, stopped, handlers, queue, worker, proc, cbs, arg, reqVars, aborted>>

(* The call's shared_ptr goes out of scope.  The last one to go runs the   *)
(* destructor, which stops the queue and joins the threads.                *)
Release(t) ==
  /\ ~aborted /\ pc[t] = "release"
  /\ IF LastReference(t)
     THEN /\ life' = [life EXCEPT ![held[t]] = "destroying"]
          /\ stopped' = [stopped EXCEPT ![held[t]] = TRUE]
          /\ m_running' = [m_running EXCEPT ![held[t]] = FALSE]
          /\ Goto(t, "join")
          /\ UNCHANGED held
     ELSE /\ Goto(t, "idle")
          /\ held' = [held EXCEPT ![t] = None]
          /\ UNCHANGED <<life, stopped, m_running>>
  /\ UNCHANGED <<m_instance, pending, handlers, queue, worker, proc, cbs, arg, reqVars, aborted>>

(* Joining the processing thread; from that thread itself, join() throws   *)
(* in a destructor and the program ends.                                   *)
Join(t) ==
  /\ ~aborted /\ pc[t] = "join"
  /\ \/ t = held[t] /\ aborted' = TRUE /\ UNCHANGED pc
     \/ proc[held[t]] = "exited" /\ Goto(t, "joinWorker") /\ UNCHANGED aborted
  /\ UNCHANGED <<m_instance, pending, instVars, arg, held, reqVars>>

JoinWorker(t) ==
  /\ ~aborted /\ pc[t] = "joinWorker"
  /\ worker' = [worker EXCEPT ![held[t]] = "exited"]
  /\ life' = [life EXCEPT ![held[t]] = "gone"]
  /\ handlers' = [handlers EXCEPT ![held[t]] = [k \in Topic |-> <<>>]]
  /\ queue' = [queue EXCEPT ![held[t]] = <<>>]
  /\ held' = [held EXCEPT ![t] = None]
  /\ Goto(t, "idle")
  /\ UNCHANGED <<m_instance, pending, m_running, stopped, proc, cbs, arg, reqVars, aborted>>

-----------------------------------------------------------------------------
(* The worker puts a message in the queue: one for a key, or a reply (the  *)
(* first, a second one, or one that comes too late).  A full queue drops   *)
(* it after 100 ms.                                                        *)
Deliver(i, topic) ==
  /\ ~aborted /\ worker[i] = "run" /\ ~stopped[i] /\ Len(queue[i]) < QueueMax
  /\ queue' = [queue EXCEPT ![i] = Append(@, topic)]
  /\ UNCHANGED <<m_instance, pending, life, m_running, stopped, handlers, worker, proc, cbs, callVars, reqVars, aborted>>

(* The processing thread goes on with the callbacks c, or to the next pop. *)
Continue(i, c) ==
  /\ cbs' = [cbs EXCEPT ![i] = c]
  /\ proc' = [proc EXCEPT ![i] = IF c = <<>> THEN "pop" ELSE "run"]

(* A message is popped; its callbacks are copied under the lock. *)
processingLoop(i) ==
  /\ ~aborted /\ proc[i] = "pop" /\ queue[i] # <<>> /\ m_running[i]
  /\ queue' = [queue EXCEPT ![i] = Tail(@)]
  /\ Continue(i, handlers[i][Head(queue[i])])
  /\ UNCHANGED <<m_instance, pending, life, m_running, stopped, handlers, worker, callVars, reqVars, aborted>>

(* pop fails once the queue is stopped and empty; a message popped after   *)
(* shutdown() is not handled.                                              *)
ProcessingEnds(i) ==
  /\ ~aborted /\ proc[i] = "pop"
  /\ IF queue[i] = <<>> THEN stopped[i] ELSE ~m_running[i]
  /\ proc' = [proc EXCEPT ![i] = "exited"]
  /\ UNCHANGED <<m_instance, pending, life, m_running, stopped, handlers, queue, worker, cbs, callVars, reqVars, aborted>>

handleMessageInline(i) ==
  /\ ~aborted /\ proc[i] = "run"
  /\ proc' = [proc EXCEPT ![i] = "call"]
  /\ UNCHANGED <<m_instance, pending, life, m_running, stopped, handlers, queue, worker, cbs, callVars, reqVars, aborted>>

(* The next callback: a promise is set unless it is already; the Qt        *)
(* adapter posts an event; any other callback runs here.                   *)
handleMessage(i) ==
  /\ ~aborted /\ proc[i] = "run"
  /\ IF Head(cbs[i]) \in Direct
     THEN proc' = [proc EXCEPT ![i] = "call"] /\ UNCHANGED <<cbs, promise>>
     ELSE /\ Continue(i, Tail(cbs[i]))
          /\ promise' = [r \in Req |-> promise[r] \/ r = Head(cbs[i])]
  /\ UNCHANGED <<m_instance, pending, life, m_running, stopped, handlers, queue, worker, callVars, result, asked, aborted>>

CallbackReturns(i) ==
  /\ ~aborted /\ proc[i] = "call" /\ pc[i] = "idle"
  /\ Continue(i, Tail(cbs[i]))
  /\ UNCHANGED <<m_instance, pending, life, m_running, stopped, handlers, queue, worker, callVars, reqVars, aborted>>

-----------------------------------------------------------------------------
Init ==
  /\ m_instance = None /\ pending = <<>>
  /\ life = [i \in Inst |-> "unused"]
  /\ m_running = [i \in Inst |-> FALSE] /\ stopped = [i \in Inst |-> FALSE]
  /\ handlers = [i \in Inst |-> [k \in Topic |-> <<>>]]
  /\ queue = [i \in Inst |-> <<>>]
  /\ worker = [i \in Inst |-> "none"] /\ proc = [i \in Inst |-> "none"]
  /\ cbs = [i \in Inst |-> <<>>]
  /\ pc = [t \in Thread |-> "idle"] /\ arg = [t \in Thread |-> None] /\ held = [t \in Thread |-> None]
  /\ promise = [r \in Req |-> FALSE] /\ result = [r \in Req |-> <<"none", 0>>]
  /\ asked = {} /\ aborted = FALSE

(* Every request is made once. *)
NotAsked(r) == r \notin asked /\ \A u \in Thread : arg[u] # r

Start(t) ==
  \/ init(t) \/ shutdown(t)
  \/ \E k \in Key, o \in Owner : registerInternal(t, k, o)
  \/ sendDataInternal(t)
  \/ CanCall(t, "unregister") /\ \E k \in Key, o \in Owner : getInstance(t, "unregister", <<k, o>>)
  \/ CanCall(t, "request") /\ \E r \in Req : NotAsked(r) /\ getInstance(t, "request", r)

Proceed(t) ==
  \/ unregisterCallback(t)
  \/ sendRequest(t) \/ WaitReady(t) \/ WaitTimeout(t) \/ RequestFinish(t)
  \/ Release(t) \/ Join(t) \/ JoinWorker(t)

Processing(i) == processingLoop(i) \/ ProcessingEnds(i) \/ handleMessage(i) \/ CallbackReturns(i)

Next ==
  \/ \E t \in Thread : Start(t) \/ Proceed(t)
  \/ \E i \in Inst : Processing(i)
  \/ \E i \in Inst, topic \in Key \cup asked : Deliver(i, topic)

Spec == Init /\ [][Next]_vars

(* Threads that are not blocked go on and timed waits end; a callback does *)
(* not call the API for ever.                                              *)
Fairness ==
  /\ \A t \in Thread : WF_vars(Proceed(t))
  /\ \A i \in Inst : WF_vars(Processing(i)) /\ SF_vars(CallbackReturns(i))

FairSpec == Spec /\ Fairness

-----------------------------------------------------------------------------
TypeOK ==
  /\ m_instance \in Inst \cup {None}
  /\ life \in [Inst -> {"unused", "live", "destroying", "gone"}]
  /\ m_running \in [Inst -> BOOLEAN] /\ stopped \in [Inst -> BOOLEAN] /\ aborted \in BOOLEAN
  /\ \A i \in Inst : Len(queue[i]) <= QueueMax
  /\ worker \in [Inst -> {"none", "run", "exited"}]
  /\ proc \in [Inst -> {"none", "pop", "run", "call", "exited"}]
  /\ pc \in [Thread -> {"idle", "unregister", "request", "wait", "finish", "release", "join", "joinWorker"}]
  /\ held \in [Thread -> Inst \cup {None}]
  /\ promise \in [Req -> BOOLEAN] /\ asked \subseteq Req

(* connectionmanager.h:262-264, "a concurrent shutdown() can't destroy the *)
(* instance out from under them": the instance of every call in progress   *)
(* is alive, whatever shutdown() and init() do meanwhile.                  *)
HeldIsAlive ==
  \A t \in Thread : held[t] # None /\ pc[t] \notin {"join", "joinWorker"} => life[held[t]] = "live"

(* An instance is freed only when neither of its threads is running: the   *)
(* threads use it without a shared_ptr.                                    *)
FreedIsQuiet == \A i \in Inst : life[i] = "gone" => proc[i] = "exited" /\ worker[i] = "exited"

(* Registrations made before init() are never left behind in the pending   *)
(* list once there is an instance (connectionmanager.cpp:34, 208).         *)
PendingFlushed == m_instance # None => pending = <<>>

(* connectionmanager.cpp:89-92: when sendRequest has unregistered, its     *)
(* reply handler is nowhere, neither with an instance nor stranded in the  *)
(* pending list, whichever of reply, timeout and shutdown() came first.    *)
RequestsCleanUp ==
  \A r \in Req : (r \in asked /\ \A t \in Thread : arg[t] = r => pc[t] \notin {"wait", "finish"}) =>
    /\ \A i \in Inst : handlers[i][r] = <<>>
    /\ \A n \in DOMAIN pending : pending[n][1] # r

(* The C API never writes past the caller's buffer (connectionapi.cpp:58), *)
(* and reports success only for a reply that arrived.                      *)
ReplyFits ==
  \A r \in Req : result[r][2] <= OutCap /\ (result[r][1] = "SUCCESS" => promise[r])

(* The destructor joins its own thread, which ends the program, only when  *)
(* a callback that runs on the processing thread makes a call of its own;  *)
(* callbacks through the Qt adapter never do.                              *)
AbortsOnlyInCallback ==
  aborted => \E i \in Inst : /\ held[i] = i /\ pc[i] = "join" /\ proc[i] = "call"
                             /\ Head(cbs[i]) \in Direct

(* Once the last reference is gone the destructor finishes: the processing *)
(* thread wakes from pop and comes back from its callbacks, and both       *)
(* threads are joined.                                                     *)
DestructorReturns == \A i \in Inst : life[i] = "destroying" ~> (life[i] = "gone" \/ aborted)

(* A request that was sent returns, answered or not, even if shutdown()    *)
(* ran meanwhile.                                                          *)
RequestReturns == \A r \in Req : r \in asked ~> (result[r][1] # "none" \/ aborted)

=============================================================================
