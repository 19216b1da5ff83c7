----------------------------- MODULE Inspector -----------------------------
(***************************************************************************)
(* inspector/: the worker thread that receives the broker's tap, the       *)
(* window's packet history with its table model and filter proxy, and the  *)
(* replay of a selected packet, which comes back through the tap.          *)
(*                                                                         *)
(* Every slot of the window is one step of the GUI thread; the context     *)
(* menu runs an event loop of its own, so packets arrive while it is open. *)
(* A row is a position in the history.  Qt's part is external: the proxy   *)
(* keeps the set of source rows it accepted when they were inserted or the *)
(* filter changed, and the selection follows its row through insertions    *)
(* and removals that the model announces.                                  *)
(*                                                                         *)
(* A header keeps its topic, its sender, as the number of prefixes         *)
(* "REPLAY_" before a name, and its uuid; a payload is told by a number.   *)
(***************************************************************************)
EXTENDS Integers, Sequences, FiniteSets

CONSTANTS
  Topic, Name, Word, None,
  MaxPacketHistory, TrimChunk,
  MaxSent, TapMax, OutMax  \* packets published, replays included; frames in the
                           \* socket; messages in the injector's queue

ASSUME InspectorAssumption ==
  /\ MaxPacketHistory \in Nat /\ TrimChunk \in 1..MaxPacketHistory /\ MaxSent \in Nat
  /\ TapMax \in Nat /\ OutMax \in Nat /\ Topic # {} /\ Name # {}

Sender == (0..2) \X Name
Header == [topic : Topic, sender : Sender, uuid : 0..(2 * MaxSent + OutMax)]

Packet == [header : Header, payload : {0} \X (1..MaxSent)]

ASSUME NoneAssumption == None \notin Packet /\ None \notin Int

INSTANCE WireFrame

VARIABLES
  sent,            \* what was published on the tap, in order
  tap,             \* the frames in the worker's SUB socket
  worker, m_running,
  events,          \* queued packetReceived signals
  m_packetHistory,
  rows,            \* the rows the proxy accepted
  m_knownTopics, unchecked, m_filterBar,
  selected, detail,\* the selected row; the packet in the detail views
  menu, injected, window, raced

sourceVars == <<sent, tap>>
threadVars == <<worker, m_running>>
filterVars == <<m_knownTopics, unchecked, m_filterBar>>
viewVars == <<m_packetHistory, rows, selected, detail>>
windowVars == <<window, raced>>
vars == <<sourceVars, threadVars, events, viewVars, filterVars, menu, injected, windowVars>>

-----------------------------------------------------------------------------
(* The tap: processMessage and broadcastStats publish what the broker      *)
(* handles; a broker with a newer header format publishes what this        *)
(* inspector cannot decode, with a payload that happens to look like a     *)
(* header.                                                                 *)
Room == worker # "exited" /\ Len(sent) < MaxSent /\ Len(tap) < TapMax

Publish(env) ==
  /\ Room
  /\ sent' = Append(sent, env)
  /\ tap' = tap \o sendFrames(encodeHeader(env.header), env.payload)

PublishNew(topic, name) ==
  /\ LET n == Len(sent) + 1
     IN  Publish(Envelope([topic |-> topic, sender |-> <<0, name>>, uuid |-> n], <<0, n>>))
  /\ UNCHANGED <<threadVars, events, viewVars, filterVars, menu, injected, windowVars>>

PublishForeign ==
  /\ Room
  /\ sent' = Append(sent, None)
  /\ LET header == CHOOSE h \in Header : TRUE
     IN  tap' = tap \o sendFrames(<<Protobuf + 1, header>>, encodeHeader(header))
  /\ UNCHANGED <<threadVars, events, viewVars, filterVars, menu, injected, windowVars>>

PublishReplay ==
  /\ injected # <<>>
  /\ Publish(Head(injected))
  /\ injected' = Tail(injected)
  /\ UNCHANGED <<threadVars, events, viewVars, filterVars, menu, windowVars>>

-----------------------------------------------------------------------------
(* InspectorWorker *)
WorkerRun ==
  /\ worker = "new"
  /\ m_running' = TRUE
  /\ worker' = "loop"
  /\ UNCHANGED <<sourceVars, events, viewVars, filterVars, menu, injected, windowVars>>

WorkerReceive ==
  /\ worker = "loop" /\ m_running /\ tap # <<>>
  /\ LET r == recv(tap)
     IN  /\ tap' = r.sock
         /\ events' = IF r.ok THEN Append(events, r.env) ELSE events
  /\ UNCHANGED <<sent, threadVars, viewVars, filterVars, menu, injected, windowVars>>

WorkerExitAfterDrain ==
  /\ worker = "loop" /\ ~m_running /\ tap = <<>>
  /\ worker' = "exited"
  /\ UNCHANGED <<sourceVars, m_running, events, viewVars, filterVars, menu, injected, windowVars>>

WorkerExit ==
  /\ worker = "loop" /\ ~m_running
  /\ worker' = "exited"
  /\ UNCHANGED <<sourceVars, m_running, events, viewVars, filterVars, menu, injected, windowVars>>

-----------------------------------------------------------------------------
(* The proxy: what filterAcceptsRow says of a packet. *)
filterAcceptsRow(packet, known, off, text) ==
  /\ packet.header.topic \in known \ off
  /\ text = "" \/ text \in {packet.header.topic, packet.header.sender[2]}

Accepted(history, known, off, text) ==
  {r \in DOMAIN history : filterAcceptsRow(history[r], known, off, text)}

(* applyFilters: the proxy judges every row again; a selected row that     *)
(* disappears is no longer selected, and onSelectionChanged then returns   *)
(* early.                                                                  *)
applyFilters(history, sel, known, off, text) ==
  /\ rows' = Accepted(history, known, off, text)
  /\ selected' = IF sel \in rows' THEN sel ELSE None

(* Rows and the selection after the first n rows were removed. *)
Shift(R, n) == {r - n : r \in {s \in R : s > n}}
ShiftRow(r, n) == IF r # None /\ r > n THEN r - n ELSE None

(* The history, the proxy's rows and the selection after packetsAboutTo-   *)
(* BeTrimmed, the erase and packetsTrimmed.                                *)
Trim(history, R, sel) ==
  IF Len(history) > MaxPacketHistory
  THEN <<SubSeq(history, TrimChunk + 1, Len(history)), Shift(R, TrimChunk), ShiftRow(sel, TrimChunk)>>
  ELSE <<history, R, sel>>

onNewPacketUnfiltered ==
  /\ window = "open" /\ events # <<>>
  /\ LET packet == Head(events)
         topic == packet.header.topic
         history == Append(m_packetHistory, packet)
         added == IF filterAcceptsRow(packet, m_knownTopics, unchecked, m_filterBar)
                  THEN rows \cup {Len(history)} ELSE rows
         trimmed == Trim(history, added, selected)
     IN  /\ m_packetHistory' = trimmed[1]
         /\ m_knownTopics' = m_knownTopics \cup {topic}
         /\ rows' = trimmed[2] /\ selected' = trimmed[3]
  /\ events' = Tail(events)
  /\ UNCHANGED <<sourceVars, threadVars, unchecked, m_filterBar, detail, menu, injected, windowVars>>

(* onNewPacket: the packet is appended and announced, the oldest ones are  *)
(* trimmed, and a new topic joins the menu, checked, and the filter.       *)
onNewPacket ==
  /\ window = "open" /\ events # <<>>
  /\ LET packet == Head(events)
         topic == packet.header.topic
         history == Append(m_packetHistory, packet)
         added == IF filterAcceptsRow(packet, m_knownTopics, unchecked, m_filterBar)
                  THEN rows \cup {Len(history)} ELSE rows
         trimmed == Trim(history, added, selected)
     IN  /\ m_packetHistory' = trimmed[1]
         /\ m_knownTopics' = m_knownTopics \cup {topic}
         /\ IF topic \in m_knownTopics
            THEN rows' = trimmed[2] /\ selected' = trimmed[3]
            ELSE applyFilters(trimmed[1], trimmed[3], m_knownTopics', unchecked, m_filterBar)
  /\ events' = Tail(events)
  /\ UNCHANGED <<sourceVars, threadVars, unchecked, m_filterBar, detail, menu, injected, windowVars>>

-----------------------------------------------------------------------------
(* The user *)
Idle == window = "open" /\ ~menu

ToggleTopic(topic) ==
  /\ Idle /\ topic \in m_knownTopics
  /\ unchecked' = IF topic \in unchecked THEN unchecked \ {topic} ELSE unchecked \cup {topic}
  /\ applyFilters(m_packetHistory, selected, m_knownTopics, unchecked', m_filterBar)
  /\ UNCHANGED <<sourceVars, threadVars, events, m_packetHistory, m_knownTopics, m_filterBar, detail, menu, injected, windowVars>>

Search(text) ==
  /\ Idle /\ text # m_filterBar
  /\ m_filterBar' = text
  /\ applyFilters(m_packetHistory, selected, m_knownTopics, unchecked, text)
  /\ UNCHANGED <<sourceVars, threadVars, events, m_packetHistory, m_knownTopics, unchecked, detail, menu, injected, windowVars>>

(* A click on a row, and onSelectionChanged. *)
onSelectionChanged(r) ==
  /\ Idle /\ r # selected
  /\ selected' = r
  /\ detail' = m_packetHistory[r]
  /\ UNCHANGED <<sourceVars, threadVars, events, m_packetHistory, rows, filterVars, menu, injected, windowVars>>

showContextMenu ==
  /\ Idle /\ selected # None
  /\ menu' = TRUE
  /\ UNCHANGED <<sourceVars, threadVars, events, viewVars, filterVars, injected, windowVars>>

DismissMenu ==
  /\ window = "open" /\ menu
  /\ menu' = FALSE
  /\ UNCHANGED <<sourceVars, threadVars, events, viewVars, filterVars, injected, windowVars>>

(* "REPLAY_" goes before a sender that does not have it yet. *)
MarkTwice(sender) == <<sender[1] + 1, sender[2]>>
Mark(sender) == IF sender[1] = 0 THEN <<1, sender[2]>> ELSE sender

(* A number no message on the tap has had or will have. *)
generateUUID == MaxSent + Len(sent) + Len(injected)

(* The row the user sees selected when the action is triggered, if it is   *)
(* still there, goes out under a new uuid (or is dropped if the injector's *)
(* queue stays full).                                                      *)
replaySelectedMessage ==
  /\ window = "open" /\ menu
  /\ menu' = FALSE
  /\ injected' = IF selected = None \/ Len(injected) = OutMax THEN injected
                 ELSE LET packet == m_packetHistory[selected]
                          header == [packet.header EXCEPT !.uuid = generateUUID, !.sender = Mark(@)]
                      IN  Append(injected, Envelope(header, packet.payload))
  /\ UNCHANGED <<sourceVars, threadVars, events, viewVars, filterVars, windowVars>>

-----------------------------------------------------------------------------
(* ~MainWindow: stopWorker, then wait; raced says that the worker's thread *)
(* had not begun yet.                                                      *)
StopWorker ==
  /\ Idle
  /\ m_running' = FALSE
  /\ raced' = (worker = "new")
  /\ window' = "waiting"
  /\ UNCHANGED <<sourceVars, worker, events, viewVars, filterVars, menu, injected>>

WaitWorker ==
  /\ window = "waiting" /\ worker = "exited"
  /\ window' = "closed"
  /\ UNCHANGED <<sourceVars, threadVars, events, viewVars, filterVars, menu, injected, raced>>

Init ==
  /\ sent = <<>> /\ tap = <<>>
  /\ worker = "new" /\ m_running = FALSE
  /\ events = <<>> /\ m_packetHistory = <<>> /\ rows = {}
  /\ m_knownTopics = {} /\ unchecked = {} /\ m_filterBar = ""
  /\ selected = None /\ detail = None
  /\ menu = FALSE /\ injected = <<>>
  /\ window = "open" /\ raced = FALSE

Worker == WorkerRun \/ WorkerReceive \/ WorkerExit

User ==
  \/ \E topic \in Topic : ToggleTopic(topic)
  \/ \E text \in Word \cup {""} : Search(text)
  \/ \E r \in rows : onSelectionChanged(r)
  \/ showContextMenu \/ DismissMenu \/ replaySelectedMessage \/ StopWorker

Next ==
  \/ \E topic \in Topic, name \in Name : PublishNew(topic, name)
  \/ PublishForeign
  \/ PublishReplay
  \/ Worker \/ onNewPacket \/ User \/ WaitWorker

Spec == Init /\ [][Next]_vars

(* Both threads run. *)
FairSpec == Spec /\ WF_vars(Worker) /\ WF_vars(onNewPacket) /\ WF_vars(WaitWorker)

-----------------------------------------------------------------------------
(* The messages among the first n of s that can be decoded. *)
Legible(s, n) == {i \in 1..n : s[i] # None}

(* wireframe.h:105-109, "so the socket stays frame-aligned": what was      *)
(* captured is what was published, each header with its own payload, in    *)
(* order and without gaps, whatever came between that the inspector cannot *)
(* decode: after k trimmed packets, the c-th captured one is the k + c-th  *)
(* legible message.                                                        *)
CapturedIntact ==
  LET captured == m_packetHistory \o events
  IN  \E k \in 0..Len(sent) : \A c \in DOMAIN captured : \E i \in Legible(sent, Len(sent)) :
        Cardinality(Legible(sent, i)) = k + c /\ captured[c] = sent[i]

(* packettablemodel.h:22-26: the proxy shows exactly the rows the filter   *)
(* accepts, although it judges a row only when it is inserted or the       *)
(* filter changes, and a topic is learnt after its first row was inserted. *)
ShownIsFiltered == rows = Accepted(m_packetHistory, m_knownTopics, unchecked, m_filterBar)

(* A replay is the packet the user was shown, even if packets arrived and  *)
(* old ones were trimmed while the menu was open; it is marked once, even  *)
(* if it was a replay itself, and has a uuid the broker has not seen       *)
(* (mainwindow.cpp:246).                                                   *)
ReplaysWhatIsShown ==
  [][Len(injected') > Len(injected) =>
       LET replayed == injected'[Len(injected')]
       IN  /\ replayed.payload = detail.payload /\ replayed.header.topic = detail.header.topic
           /\ replayed.header.sender = <<1, detail.header.sender[2]>>
           /\ \A n \in DOMAIN sent : sent[n] # None => sent[n].header.uuid # replayed.header.uuid]_vars

(* inspectorworker.cpp:32, "exit cleanly": closing the window returns, if  *)
(* the worker's thread had begun to run; its first statement would undo an *)
(* earlier stopWorker.                                                     *)
ClosesOnceStarted == window = "waiting" /\ ~raced ~> window = "closed"

=============================================================================
