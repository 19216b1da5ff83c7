------------------------------ MODULE Session ------------------------------
(***************************************************************************)
(* One client process and the broker's record of it: how the subscriptions *)
(* a program registers with its ConnectionManager get to the broker and    *)
(* stay there.  Four threads: the program's (register, unregister, send,   *)
(* shutdown), the ZmqWorker's (socket, status), the processing thread      *)
(* (RESET, callbacks) and the broker's, joined by the manager's queues, by *)
(* m_mapMutex and by the two directions of the ZeroMQ connection.          *)
(*                                                                         *)
(* A critical section of m_mapMutex is one step, and so is each half of an *)
(* iteration of the worker's loop (what it receives; what it sends): the   *)
(* other threads only append to the queues it drains and only take from    *)
(* the pipe it fills.  Time is left out: a heartbeat is due, a side has    *)
(* been silent for too long, whenever the model chooses.  Timeouts, broker *)
(* restarts and breaks of the connection are counted and bounded.          *)
(***************************************************************************)
EXTENDS Integers, Sequences, FiniteSets, Functions

CONSTANTS Topic, Instance,            \* callback keys, registering objects
          ControlMax, OutMax, InMax,  \* SafeQueue capacities
          PipeMax,                    \* high water mark, either direction
          Backlog,                    \* the program calls with less than this under way
          Fault, MaxFaults            \* what goes wrong, and how often: of "timeout", "restart", "break"

ASSUME SessionAssumption ==
  ControlMax \in Nat /\ OutMax \in Nat /\ InMax \in Nat /\ PipeMax \in Nat

VARIABLES
  handlers,   \* the entries of m_msgHandlers: <<key, instance>>
  connected,  \* m_connected, and the worker's m_isOnline it follows
  control,    \* m_controlQueue
  outbound,   \* m_outboundQueue
  inbox,      \* m_queue
  worker,     \* where the worker thread is
  processing, \* where the processing thread is
  life,       \* how far shutdown() and the destructor have come
  bye,        \* shutdown() found the client connected and queued a DISCONNECT
  up, down,   \* the connection: messages to and from the broker
  known,      \* the client is in the broker's m_clients
  subs,       \* its topics in the broker's SubscriptionRegistry
  faults      \* how often each kind of fault has happened

queueVars == <<control, outbound, inbox>>
threadVars == <<worker, processing, life, bye>>
netVars == <<up, down>>
brokerVars == <<known, subs>>
vars == <<handlers, connected, queueVars, threadVars, netVars, brokerVars, faults>>

Keys == {h[1] : h \in handlers}
Bare(k) == <<k, "">>                 \* a message without a topic
Sub(t) == <<"SUBSCRIBE", t>>
Unsub(t) == <<"UNSUBSCRIBE", t>>
UpMsg == {Bare(k) : k \in {"CONNECT", "DISCONNECT", "HEARTBEAT", "DATA"}}
           \cup {<<k, t>> : k \in {"SUBSCRIBE", "UNSUBSCRIBE"}, t \in Topic}
DownMsg == {"RESET", "HEARTBEAT_ACK", "DATA"}

(* A bounded queue or pipe after messages are put into it one by one: what *)
(* finds no room (in time) is dropped.                                     *)
Offer(q, max, ms) == LET all == q \o ms IN SubSeq(all, 1, IF Len(all) > max THEN max ELSE Len(all))

(* A message that is somewhere in a queue or pipe. *)
Holds(q, m) == \E i \in 1..Len(q) : q[i] = m

FaultCount == FoldFunction(+, 0, faults)

Fail(kind) ==
  /\ kind \in Fault
  /\ FaultCount < MaxFaults
  /\ faults' = [faults EXCEPT ![kind] = @ + 1]

Broken == "break" \in Fault /\ faults["break"] > 0

(* A SUBSCRIBE for every key of m_msgHandlers, in the order the map has.   *)
InSomeOrder(S) == CHOOSE f \in [1..Cardinality(S) -> S] : IsInjective(f)
SubscribeAll == [k \in 1..Cardinality(Keys) |-> Sub(InSomeOrder(Keys)[k])]

-----------------------------------------------------------------------------
(* The program's calls.                                                    *)

(* The program does not run away from the broker.                          *)
Call == life = "up" /\ Len(control) + Len(outbound) + Len(up) < Backlog

performRegistrationUnsent(t, i) ==
  /\ Call
  /\ handlers' = handlers \cup {<<t, i>>}
  /\ UNCHANGED <<connected, queueVars, threadVars, netVars, brokerVars, faults>>

performRegistration(t, i) ==
  /\ Call
  /\ handlers' = handlers \cup {<<t, i>>}
  /\ control' = IF connected THEN Offer(control, ControlMax, <<Sub(t)>>) ELSE control
  /\ UNCHANGED <<connected, outbound, inbox, threadVars, netVars, brokerVars, faults>>

(* An UNSUBSCRIBE goes out with the key's last entry only. *)
performUnregistration(t, i) ==
  /\ Call
  /\ <<t, i>> \in handlers
  /\ handlers' = handlers \ {<<t, i>>}
  /\ control' = IF connected /\ t \notin Keys' THEN Offer(control, ControlMax, <<Unsub(t)>>) ELSE control
  /\ UNCHANGED <<connected, outbound, inbox, threadVars, netVars, brokerVars, faults>>

sendDataInternal ==
  /\ Call
  /\ outbound' = Offer(outbound, OutMax, <<Bare("DATA")>>)
  /\ UNCHANGED <<handlers, connected, control, inbox, threadVars, netVars, brokerVars, faults>>

Shutdown ==
  /\ life = "up"
  /\ life' = "shut"
  /\ bye' = connected
  /\ control' = IF connected THEN Offer(control, ControlMax, <<Bare("DISCONNECT")>>) ELSE control
  /\ UNCHANGED <<handlers, connected, outbound, inbox, worker, processing, netVars, brokerVars, faults>>

(* The destructor: stop m_queue, join the processing thread, stop the      *)
(* worker, join it.                                                        *)
Destroy ==
  /\ \/ life = "shut" /\ life' = "joinProcessing"
     \/ life = "joinProcessing" /\ processing = "done" /\ life' = "joinWorker"
     \/ life = "joinWorker" /\ worker = "closed" /\ life' = "closed"
  /\ UNCHANGED <<handlers, connected, queueVars, worker, processing, bye, netVars, brokerVars, faults>>

-----------------------------------------------------------------------------
(* The worker thread, ZmqWorker::run.                                      *)

(* The poll ends without a message.                                        *)
PollNothing ==
  /\ worker = "poll" /\ life # "joinWorker"
  /\ worker' = "send"
  /\ UNCHANGED <<handlers, connected, queueVars, processing, life, bye, netVars, brokerVars, faults>>

(* A message.  The first one after being offline runs the status handler   *)
(* (CONNECT and all subscriptions); then it goes to m_queue, which refuses *)
(* everything once it is stopped.                                          *)
PollMessage ==
  /\ worker = "poll" /\ life # "joinWorker"
  /\ down # <<>> /\ down' = Tail(down)
  /\ connected' = TRUE
  /\ control' = IF connected THEN control
                ELSE Offer(control, ControlMax, <<Bare("CONNECT")>> \o SubscribeAll)
  /\ inbox' = IF Head(down) = "HEARTBEAT_ACK" \/ life \notin {"up", "shut"} THEN inbox
              ELSE Offer(inbox, InMax, <<Head(down)>>)
  /\ worker' = "send"
  /\ UNCHANGED <<handlers, outbound, processing, life, bye, up, brokerVars, faults>>

(* What the loop sends: all of the control queue, then all data, then a    *)
(* heartbeat if HEARTBEAT_INTERVAL has passed.  An answer takes less than  *)
(* that, unless it or the heartbeat was lost.                              *)
Send(beat) ==
  /\ worker = "send"
  /\ beat # <<>> => ~Holds(up, Bare("HEARTBEAT")) /\ ~Holds(down, "HEARTBEAT_ACK")
  /\ up' = Offer(up, PipeMax, control \o outbound \o beat)
  /\ control' = <<>> /\ outbound' = <<>>
  /\ worker' = "poll"

sendHeartbeat ==
  /\ Send(<<Bare("HEARTBEAT")>>)
  /\ UNCHANGED <<handlers, connected, inbox, processing, life, bye, down, brokerVars, faults>>

NoHeartbeat ==
  /\ Send(<<>>)
  /\ UNCHANGED <<handlers, connected, inbox, processing, life, bye, down, brokerVars, faults>>

(* Nothing received for SERVER_TIMEOUT: the status handler again.          *)
ServerTimeout ==
  /\ Send(<<>>)
  /\ connected /\ connected' = FALSE
  /\ Fail("timeout")
  /\ UNCHANGED <<handlers, inbox, processing, life, bye, down, brokerVars>>

(* m_running is false: the final drain of the control queue. *)
FinalDrain ==
  /\ worker = "poll" /\ life = "joinWorker"
  /\ up' = Offer(up, PipeMax, control)
  /\ control' = <<>>
  /\ worker' = "closed"
  /\ UNCHANGED <<handlers, connected, outbound, inbox, processing, life, bye, down, brokerVars, faults>>

-----------------------------------------------------------------------------
(* The processing thread.                                                  *)

ProcessingPopGuarded ==
  /\ processing = "pop" /\ inbox # <<>>
  /\ inbox' = Tail(inbox)
  /\ processing' = IF life # "up" THEN "done" ELSE "pop"
  /\ UNCHANGED <<handlers, connected, control, outbound, worker, life, bye, netVars, brokerVars, faults>>

(* handleMessage only runs callbacks; what they call are program calls.    *)
ProcessingPop ==
  /\ processing = "pop" /\ inbox # <<>>
  /\ inbox' = Tail(inbox)
  /\ processing' = IF life # "up" THEN "done" ELSE IF Head(inbox) = "RESET" THEN "reset" ELSE "pop"
  /\ UNCHANGED <<handlers, connected, control, outbound, worker, life, bye, netVars, brokerVars, faults>>

ProcessingStoppedAsleep ==
  /\ processing = "pop" /\ inbox # <<>> /\ life \notin {"up", "shut"}
  /\ processing' = "done"
  /\ UNCHANGED <<handlers, connected, queueVars, worker, life, bye, netVars, brokerVars, faults>>

ProcessingStopped ==
  /\ processing = "pop" /\ inbox = <<>> /\ life \notin {"up", "shut"}
  /\ processing' = "done"
  /\ UNCHANGED <<handlers, connected, queueVars, worker, life, bye, netVars, brokerVars, faults>>

resubscribeAll ==
  /\ processing = "reset"
  /\ control' = Offer(control, ControlMax, SubscribeAll)
  /\ processing' = "pop"
  /\ UNCHANGED <<handlers, connected, outbound, inbox, worker, life, bye, netVars, brokerVars, faults>>

-----------------------------------------------------------------------------
(* The broker, as far as it concerns this client.                          *)

(* processMessage: the first message of a client the broker does not know  *)
(* is answered by a RESET and not looked at.                               *)
processMessage ==
  /\ up # <<>> /\ up' = Tail(up)
  /\ LET m == Head(up) IN
       \/ m[1] = "DISCONNECT" /\ known' = FALSE /\ subs' = {} /\ UNCHANGED down
       \/ /\ m[1] # "DISCONNECT" /\ ~known
          /\ known' = TRUE /\ down' = Offer(down, PipeMax, <<"RESET">>) /\ UNCHANGED subs
       \/ /\ m[1] # "DISCONNECT" /\ known
          /\ down' = IF m[1] = "HEARTBEAT" THEN Offer(down, PipeMax, <<"HEARTBEAT_ACK">>) ELSE down
          /\ subs' = CASE m[1] = "SUBSCRIBE" -> subs \cup {m[2]}
                       [] m[1] = "UNSUBSCRIBE" -> subs \ {m[2]}
                       [] OTHER -> subs
          /\ UNCHANGED known
  /\ UNCHANGED <<handlers, connected, queueVars, threadVars, faults>>

(* Somebody publishes on a topic the broker has for this client; one such  *)
(* message at a time is on its way.                                        *)
RouteToClient ==
  /\ subs # {}
  /\ ~Holds(down, "DATA") /\ ~Holds(inbox, "DATA")
  /\ down' = Offer(down, PipeMax, <<"DATA">>)
  /\ UNCHANGED <<handlers, connected, queueVars, threadVars, up, brokerVars, faults>>

(* The zombie sweep removes the client.                                    *)
ZombieTimeout ==
  /\ known /\ Fail("timeout")
  /\ known' = FALSE /\ subs' = {}
  /\ UNCHANGED <<handlers, connected, queueVars, threadVars, netVars>>

(* The connection breaks and ZeroMQ restores it.  Of what was under way to *)
(* the broker a first part is lost, of what came from it a last part.      *)
LoseInFlight ==
  /\ \E j \in 1..Len(up) + 1 : up' = SubSeq(up, j, Len(up))
  /\ \E k \in 0..Len(down) : down' = SubSeq(down, 1, k)

BrokerRestart ==
  /\ Fail("restart")
  /\ known' = FALSE /\ subs' = {}
  /\ LoseInFlight
  /\ UNCHANGED <<handlers, connected, queueVars, threadVars>>

ConnectionBreak ==
  /\ Fail("break")
  /\ LoseInFlight
  /\ UNCHANGED <<handlers, connected, queueVars, threadVars, brokerVars>>

-----------------------------------------------------------------------------
Init ==
  /\ handlers = {} /\ connected = FALSE
  /\ control = <<>> /\ outbound = <<>> /\ inbox = <<>>
  /\ worker = "poll" /\ processing = "pop" /\ life = "up" /\ bye = FALSE
  /\ up = <<>> /\ down = <<>>
  /\ known = FALSE /\ subs = {}
  /\ faults = [f \in Fault |-> 0]

WorkerStep == PollNothing \/ PollMessage \/ sendHeartbeat \/ NoHeartbeat \/ FinalDrain
ProcessingStep == ProcessingPop \/ ProcessingStopped \/ resubscribeAll

Next ==
  \/ \E t \in Topic, i \in Instance : performRegistration(t, i) \/ performUnregistration(t, i)
  \/ sendDataInternal \/ Shutdown \/ Destroy
  \/ WorkerStep \/ ServerTimeout \/ ProcessingStep
  \/ processMessage \/ RouteToClient
  \/ ZombieTimeout \/ BrokerRestart \/ ConnectionBreak

Spec == Init /\ [][Next]_vars

(* Every thread that can run does; a poll finds a message that stays       *)
(* there; a heartbeat is due again and again.                              *)
FairSpec ==
  /\ Spec
  /\ WF_vars(WorkerStep) /\ WF_vars(ProcessingStep) /\ WF_vars(processMessage) /\ WF_vars(Destroy)
  /\ SF_vars(PollMessage) /\ SF_vars(sendHeartbeat)

-----------------------------------------------------------------------------
(* Nothing is under way between the client and the broker. *)
Settled ==
  /\ life = "up" /\ connected /\ known
  /\ processing = "pop" /\ ~Holds(inbox, "RESET")
  /\ control = <<>> /\ up = <<>> /\ down = <<>>

(* When all is quiet on a connected client, the broker has a subscription  *)
(* for every key with a callback, whatever the order in which callbacks    *)
(* were registered and removed, either side timed the other out, the       *)
(* broker restarted and RESETs crossed with subscriptions: "subscriptions  *)
(* resync via the RESET handshake on reconnect" (zmqworker.cpp:98).        *)
SettledSubscribed == Settled => Keys \subseteq subs

(* The same as long as the connection has not broken, with the faults the  *)
(* RESET handshake is there for.                                           *)
SettledUnlessBroken == ~Broken => SettledSubscribed

(* A callback that stays registered is subscribed at the broker for good,  *)
(* once the timeouts and restarts are over (resubscribeAll after RESET).   *)
EventuallySubscribed ==
  \A t \in Topic : <>[](life = "up" /\ t \in Keys /\ ~Broken) => <>[](t \in subs)

(* shutdown() and the destructor come to an end, whatever the broker and   *)
(* the connection do: m_queue.stop() wakes the processing thread and the   *)
(* worker never blocks on a pipe.                                          *)
ShutdownCompletes == life = "shut" ~> life = "closed"

(* A client that was connected when it was shut down is gone from the      *)
(* broker once all it sent is processed: "Final drain so control messages  *)
(* queued during shutdown (DISCONNECT ...) are sent before the socket      *)
(* closes; without it the broker only notices the disconnect via its       *)
(* zombie timeout." (zmqworker.cpp:123)                                    *)
GoodbyeIsFinal == bye /\ life = "closed" /\ up = <<>> => ~known

=============================================================================
