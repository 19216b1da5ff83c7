-------------------------- MODULE InspectorProofs --------------------------
(***************************************************************************)
(* What the inspector captures, shows and replays, for any topics, names   *)
(* and search words and any sizes of the history and of the queues.        *)
(***************************************************************************)
EXTENDS Inspector, FiniteSetTheorems, TLAPS

(* The socket holds whole messages, the last m published: two frames each, *)
(* of which the inspector can decode the first if the message is legible.  *)
FramesOf(f, g, env) ==
  /\ f.more = TRUE /\ g.more = FALSE
  /\ IF env = None THEN ~Decodable(f.bytes)
     ELSE f.bytes = encodeHeader(env.header) /\ g.bytes = env.payload

Aligned(sock, s, m) ==
  /\ Len(sock) = 2 * m /\ m <= Len(s)
  /\ \A i \in 1..m : FramesOf(sock[2 * i - 1], sock[2 * i], s[Len(s) - m + i])

-----------------------------------------------------------------------------
(* The inductive invariant *)

(* Packets that are replays at most once. *)
Once == {p \in Packet : p.header.sender[1] \in {0, 1}}
FrameSet == [bytes : ({1, 2} \X Header) \cup ({0} \X (1..MaxSent)), more : BOOLEAN]

Types ==
  /\ sent \in Seq(Once \cup {None}) /\ Len(sent) <= MaxSent
  /\ tap \in Seq(FrameSet)
  /\ events \in Seq(Once) /\ m_packetHistory \in Seq(Once)
  /\ injected \in Seq(Once) /\ Len(injected) <= OutMax

(* generateUUID is ahead of all uuids there are. *)
Fresh ==
  /\ \A n \in DOMAIN sent : sent[n] # None => sent[n].header.uuid < generateUUID
  /\ \A n \in DOMAIN injected : injected[n].header.uuid < generateUUID

(* The detail views show the selected row. *)
Selection == selected # None => selected \in rows /\ detail = m_packetHistory[selected]

(* x holds the legible ones of the first n messages of s but for the       *)
(* first k.                                                                *)
Got(s, x, k, n) ==
  /\ Cardinality(Legible(s, n)) = k + Len(x)
  /\ \A c \in 1..Len(x) : \E i \in Legible(s, n) : Cardinality(Legible(s, i)) = k + c /\ x[c] = s[i]

Capture ==
  \E k \in 0..Len(sent), m \in 0..Len(sent) :
    Aligned(tap, sent, m) /\ Got(sent, m_packetHistory \o events, k, Len(sent) - m)

Inv == Types /\ Fresh /\ ShownIsFiltered /\ Selection /\ Capture

-----------------------------------------------------------------------------
(* recv takes one message off an aligned socket. *)
LEMMA RecvWhole ==
  ASSUME NEW S, NEW sock \in Seq(S), Len(sock) >= 2, NEW env, env = None \/ env \in Packet,
         FramesOf(sock[1], sock[2], env)
  PROVE  /\ env = None => recv(sock).ok = FALSE
         /\ env # None => recv(sock).ok = TRUE /\ recv(sock).env = env
         /\ recv(sock).sock = SubSeq(sock, 3, Len(sock))
<1> DEFINE rest == Tail(sock)
<1>1. Head(sock) = sock[1] /\ rest \in Seq(S) /\ Len(rest) = Len(sock) - 1 /\ rest[1] = sock[2]
  OBVIOUS
<1>2. CASE env = None
  <2>1. ~Decodable(Head(sock).bytes) /\ Head(sock).more = TRUE /\ rest[1].more = FALSE
    BY <1>1, <1>2 DEF FramesOf
  <2>2. /\ 1 \in DOMAIN rest /\ ~rest[1].more /\ \A j \in 1..(1 - 1) : rest[j].more
        /\ \A i \in DOMAIN rest : ~rest[i].more /\ (\A j \in 1..(i - 1) : rest[j].more) => i = 1
    <3>1. 1 \in DOMAIN rest /\ DOMAIN rest = 1..Len(rest) /\ Len(rest) \in Nat
      BY <1>1
    <3>2. ASSUME NEW i \in DOMAIN rest, i # 1 PROVE 1 \in 1..(i - 1)
      BY <3>1, <3>2
    <3>3. QED
      BY <2>1, <3>1, <3>2
  <2>3. drainMultipart(rest, TRUE) = SubSeq(rest, 2, Len(rest))
    <3> HIDE DEF rest
    <3>1. (CHOOSE i \in DOMAIN rest : ~rest[i].more /\ \A j \in 1..(i - 1) : rest[j].more) = 1
      BY <2>2
    <3>2. drainMultipart(rest, TRUE) = SubSeq(rest, 1 + 1, Len(rest))
      BY <3>1, Zenon DEF drainMultipart
    <3>3. 1 + 1 = 2
      OBVIOUS
    <3>4. QED
      BY <3>2, <3>3, Zenon
  <2>4. SubSeq(rest, 2, Len(rest)) = SubSeq(sock, 3, Len(sock))
    BY <1>1
  <2>5. QED
    BY <1>2, <2>1, <2>3, <2>4 DEF recv
<1>3. CASE env # None
  <2> DEFINE f == sock[1]
             g == sock[2]
  <2>1. f.bytes = <<1, env.header>> /\ f.more = TRUE /\ g.more = FALSE /\ g.bytes = env.payload
    BY <1>3 DEF FramesOf, encodeHeader, defaultFormat, Protobuf
  <2>2. env = [header |-> env.header, payload |-> env.payload] /\ env.header \in Header
    BY <1>3 DEF Packet
  <2>3. Decodable(f.bytes) /\ f.bytes[2] = env.header
    <3> DEFINE b == <<1, env.header>>
    <3>1. b # << >> /\ b[1] = 1 /\ b[2] = env.header
      OBVIOUS
    <3>2. QED
      BY <2>1, <2>2, <3>1 DEF Decodable, Formats, Protobuf
  <2>4. recv(sock) = [ok |-> TRUE, env |-> Envelope(f.bytes[2], g.bytes), sock |-> Tail(rest)]
    <3>1. Head(sock) = f /\ Head(rest) = g
      BY <1>1
    <3>2. drainMultipart(Tail(rest), g.more) = Tail(rest)
      BY <2>1 DEF drainMultipart
    <3> HIDE DEF f, g, rest
    <3>3. recv(sock) = [ok |-> TRUE, env |-> Envelope(f.bytes[2], g.bytes), sock |-> drainMultipart(Tail(rest), g.more)]
      BY <2>1, <2>3, <3>1 DEF recv, rest
    <3>4. QED
      BY <3>2, <3>3
  <2>5. Tail(rest) = SubSeq(sock, 3, Len(sock))
    BY <1>1
  <2>6. Envelope(f.bytes[2], g.bytes) = env
    BY <2>1, <2>2, <2>3 DEF Envelope
  <2>7. recv(sock) = [ok |-> TRUE, env |-> env, sock |-> SubSeq(sock, 3, Len(sock))]
    BY <2>4, <2>5, <2>6
  <2>8. QED
    BY <1>3, <2>7
<1>4. QED
  BY <1>2, <1>3
-----------------------------------------------------------------------------
(* Types *)

(* A packet marked as a replay, under a new uuid. *)
ReplayOf(p, u) == Envelope([p.header EXCEPT !.uuid = u, !.sender = Mark(@)], p.payload)

LEMMA ReplayIsPacket ==
  ASSUME NEW p \in Once, NEW u \in 0..(2 * MaxSent + OutMax)
  PROVE  /\ ReplayOf(p, u) \in Once
         /\ ReplayOf(p, u).payload = p.payload
         /\ ReplayOf(p, u).header.topic = p.header.topic
         /\ ReplayOf(p, u).header.sender = <<1, p.header.sender[2]>>
         /\ ReplayOf(p, u).header.uuid = u
<1> DEFINE h == p.header
           k == [h EXCEPT !.uuid = u, !.sender = Mark(@)]
           l == [topic |-> h.topic, sender |-> <<1, h.sender[2]>>, uuid |-> u]
<1>1. p.payload \in {0} \X (1..MaxSent) /\ h \in Header /\ h.sender[1] \in {0, 1}
  BY DEF Once, Packet
<1>2. /\ h = [topic |-> h.topic, sender |-> h.sender, uuid |-> h.uuid]
      /\ h.topic \in Topic /\ h.sender \in (0..2) \X Name
  BY <1>1 DEF Header, Sender
<1>3. Mark(h.sender) = <<1, h.sender[2]>> /\ h.sender[2] \in Name
  <2>1. h.sender = <<h.sender[1], h.sender[2]>> /\ h.sender[2] \in Name
    BY <1>2
  <2>2. QED
    BY <1>1, <2>1 DEF Mark
<1>4. k = l
  <2>1. k = [[h EXCEPT !.uuid = u] EXCEPT !.sender = Mark(@)]
    OBVIOUS
  <2>2. [h EXCEPT !.uuid = u] = [topic |-> h.topic, sender |-> h.sender, uuid |-> u]
    BY <1>2
  <2>3. [[topic |-> h.topic, sender |-> h.sender, uuid |-> u] EXCEPT !.sender = Mark(@)]
          = [topic |-> h.topic, sender |-> Mark(h.sender), uuid |-> u]
    OBVIOUS
  <2> HIDE DEF h, k, l
  <2>4. k = [topic |-> h.topic, sender |-> Mark(h.sender), uuid |-> u]
    BY <2>1, <2>2, <2>3, Zenon
  <2>5. QED
    BY <1>3, <2>4 DEF l
<1>5. l \in Header
  <2>1. <<1, h.sender[2]>> \in (0..2) \X Name
    BY <1>3
  <2>2. QED
    BY <1>2, <2>1 DEF Header, Sender
<1>6. ReplayOf(p, u) = [header |-> l, payload |-> p.payload]
  BY <1>4 DEF ReplayOf, Envelope
<1>7. [header |-> l, payload |-> p.payload] \in Packet
  <2> HIDE DEF l
  <2> QED
    BY <1>1, <1>5 DEF Packet
<1>8. QED
  BY <1>6, <1>7 DEF Once

LEMMA NewIsPacket ==
  ASSUME NEW topic \in Topic, NEW name \in Name, NEW n \in 1..MaxSent
  PROVE  Envelope([topic |-> topic, sender |-> <<0, name>>, uuid |-> n], <<0, n>>) \in Once
<1> DEFINE h == [topic |-> topic, sender |-> <<0, name>>, uuid |-> n]
<1>1. <<0, name>> \in (0..2) \X Name /\ n \in 0..(2 * MaxSent + OutMax)
  BY InspectorAssumption
<1>2. h \in Header
  BY <1>1 DEF Header, Sender
<1>3. <<0, n>> \in {0} \X (1..MaxSent)
  OBVIOUS
<1>4. QED
  BY <1>2, <1>3 DEF Envelope, Once, Packet

(* Both frames of a message, legible or not, as they are sent. *)
LEMMA FramesSent ==
  ASSUME NEW p \in Once
  PROVE  LET F == sendFrames(encodeHeader(p.header), p.payload)
         IN  /\ F \in Seq(FrameSet) /\ Len(F) = 2 /\ FramesOf(F[1], F[2], p)
<1> DEFINE b == <<1, p.header>>
           F == <<[bytes |-> b, more |-> TRUE], [bytes |-> p.payload, more |-> FALSE]>>
<1>1. p \in Packet /\ p.header \in Header /\ p.payload \in {0} \X (1..MaxSent)
  BY DEF Once, Packet
<1>2. p.payload # << >> /\ p # None
  <2>1. PICK n \in 1..MaxSent : p.payload = <<0, n>>
    BY <1>1
  <2>2. <<0, n>> # << >>
    OBVIOUS
  <2>3. QED
    BY <1>1, <2>1, <2>2, NoneAssumption
<1>3. sendFrames(encodeHeader(p.header), p.payload) = F
  BY <1>2 DEF sendFrames, encodeHeader, defaultFormat, Protobuf, Frame
<1>4. b \in {1, 2} \X Header
  BY <1>1
<1>5. F[1] \in FrameSet /\ F[2] \in FrameSet
  BY <1>1, <1>4 DEF FrameSet
<1>6. F \in Seq(FrameSet) /\ Len(F) = 2
  BY <1>5
<1>7. FramesOf(F[1], F[2], p)
  BY <1>2 DEF FramesOf, encodeHeader, defaultFormat, Protobuf
<1>8. QED
  BY <1>3, <1>6, <1>7

LEMMA ForeignFrames ==
  ASSUME NEW h \in Header
  PROVE  LET F == sendFrames(<<Protobuf + 1, h>>, encodeHeader(h))
         IN  /\ F \in Seq(FrameSet) /\ Len(F) = 2 /\ FramesOf(F[1], F[2], None)
<1> DEFINE b == <<2, h>>
           c == <<1, h>>
           F == <<[bytes |-> b, more |-> TRUE], [bytes |-> c, more |-> FALSE]>>
<1>1. b \in {1, 2} \X Header /\ c \in {1, 2} \X Header /\ c # << >> /\ b[1] = 2
  OBVIOUS
<1>2. sendFrames(<<Protobuf + 1, h>>, encodeHeader(h)) = F
  BY <1>1 DEF sendFrames, encodeHeader, defaultFormat, Protobuf, Frame
<1>3. F[1] \in FrameSet /\ F[2] \in FrameSet
  BY <1>1 DEF FrameSet
<1>4. F \in Seq(FrameSet) /\ Len(F) = 2
  BY <1>3
<1>5. FramesOf(F[1], F[2], None)
  BY <1>1 DEF FramesOf, Decodable, Formats, Protobuf
<1>6. QED
  BY <1>2, <1>4, <1>5

(* What onNewPacket does to the history: the packet joins it, and d go. *)
LEMMA HistoryStep ==
  ASSUME Types, onNewPacket
  PROVE  LET H == Append(m_packetHistory, Head(events))
         IN  /\ Head(events) \in Once /\ H \in Seq(Once) /\ Len(H) = Len(m_packetHistory) + 1
             /\ events' = Tail(events) /\ events' \in Seq(Once) /\ Len(events) > 0
             /\ m_packetHistory' = Trim(H, rows, selected)[1]
             /\ m_packetHistory' \in Seq(Once)
             /\ \E d \in 0..Len(H) : /\ d = IF Len(H) > MaxPacketHistory THEN TrimChunk ELSE 0
                                     /\ Len(m_packetHistory') = Len(H) - d
                                     /\ \A i \in 1..Len(H) - d : m_packetHistory'[i] = H[i + d]
<1> DEFINE H == Append(m_packetHistory, Head(events))
           T(R) == Trim(H, R, selected)
<1>1. /\ Head(events) \in Once /\ H \in Seq(Once) /\ Len(H) = Len(m_packetHistory) + 1
      /\ events' = Tail(events) /\ events' \in Seq(Once) /\ Len(events) > 0
  BY DEF Types, onNewPacket
<1>2. \A R : T(R)[1] = IF Len(H) > MaxPacketHistory THEN SubSeq(H, TrimChunk + 1, Len(H)) ELSE H
  BY DEF Trim
<1>3. \E R : m_packetHistory' = T(R)[1]
  BY DEF onNewPacket
<1> HIDE DEF H
<1>4. m_packetHistory' = IF Len(H) > MaxPacketHistory THEN SubSeq(H, TrimChunk + 1, Len(H)) ELSE H
  BY <1>2, <1>3
<1>5. m_packetHistory' = T(rows)[1]
  BY <1>2, <1>4
<1>6. CASE Len(H) > MaxPacketHistory
  <2>1. TrimChunk \in 1..Len(H) /\ Len(H) \in Nat
    BY <1>1, <1>6, InspectorAssumption
  <2>2. m_packetHistory' = SubSeq(H, TrimChunk + 1, Len(H))
    BY <1>4, <1>6
  <2>3. /\ m_packetHistory' \in Seq(Once) /\ Len(m_packetHistory') = Len(H) - TrimChunk
        /\ \A i \in 1..Len(H) - TrimChunk : m_packetHistory'[i] = H[i + TrimChunk]
    BY <1>1, <2>1, <2>2
  <2>4. /\ TrimChunk \in 0..Len(H)
        /\ TrimChunk = IF Len(H) > MaxPacketHistory THEN TrimChunk ELSE 0
    BY <1>6, <2>1
  <2>5. QED
    BY <1>1, <1>5, <2>3, <2>4, Zenon DEF H
<1>7. CASE ~(Len(H) > MaxPacketHistory)
  <2>1. m_packetHistory' = H /\ 0 \in 0..Len(H) /\ Len(H) - 0 = Len(H) /\ \A i \in 1..Len(H) : i + 0 = i
    BY <1>1, <1>4, <1>7
  <2>2. QED
    BY <1>1, <1>5, <1>7, <2>1 DEF H
<1>8. QED
  BY <1>6, <1>7

(* What any of the three kinds of publishing does to the tap. *)
Published(env) ==
  /\ env \in Once \cup {None} /\ Len(sent) < MaxSent
  /\ sent' = Append(sent, env)
  /\ \E F \in Seq(FrameSet) : Len(F) = 2 /\ FramesOf(F[1], F[2], env) /\ tap' = tap \o F
  /\ UNCHANGED <<events, m_packetHistory>>

LEMMA NewPublished ==
  ASSUME Types, NEW topic \in Topic, NEW name \in Name, PublishNew(topic, name)
  PROVE  \E env \in Once : Published(env) /\ env.header.uuid = Len(sent) + 1 /\ UNCHANGED injected
<1> DEFINE n == Len(sent) + 1
           env == Envelope([topic |-> topic, sender |-> <<0, name>>, uuid |-> n], <<0, n>>)
<1>1. Publish(env) /\ UNCHANGED <<events, m_packetHistory, injected>>
  BY DEF PublishNew, viewVars
<1>2. n \in 1..MaxSent
  BY <1>1, InspectorAssumption DEF Publish, Room, Types
<1>3. env \in Once
  BY <1>2, NewIsPacket
<1>4. env.header.uuid = n
  BY DEF Envelope
<1> HIDE DEF env
<1>5. Published(env)
  BY <1>1, <1>3, FramesSent DEF Publish, Room, Published
<1>6. QED
  BY <1>1, <1>3, <1>4, <1>5

LEMMA ForeignPublished ==
  ASSUME Types, PublishForeign
  PROVE  Published(None) /\ UNCHANGED injected
<1> DEFINE h == CHOOSE h \in Header : TRUE
<1>1. h \in Header
  <2>1. PICK t \in Topic : TRUE
    BY InspectorAssumption
  <2>2. PICK n \in Name : TRUE
    BY InspectorAssumption
  <2>3. [topic |-> t, sender |-> <<0, n>>, uuid |-> 0] \in Header
    BY InspectorAssumption DEF Header, Sender
  <2>4. QED
    BY <2>3
<1>2. sent' = Append(sent, None) /\ tap' = tap \o sendFrames(<<Protobuf + 1, h>>, encodeHeader(h))
  BY DEF PublishForeign
<1> HIDE DEF h
<1>3. QED
  BY <1>1, <1>2, ForeignFrames DEF PublishForeign, Room, viewVars, Published

LEMMA ReplayPublished ==
  ASSUME Types, PublishReplay
  PROVE  /\ Head(injected) \in Once /\ Published(Head(injected))
         /\ injected # << >> /\ injected' = Tail(injected)
<1>1. Head(injected) \in Once /\ injected # << >> /\ injected' = Tail(injected)
  BY DEF PublishReplay, Types
<1>2. QED
  BY <1>1, FramesSent DEF PublishReplay, Publish, Room, viewVars, Published

LEMMA PublishedTypes ==
  ASSUME Types, NEW env, Published(env)
  PROVE  /\ sent' \in Seq(Once \cup {None}) /\ Len(sent') = Len(sent) + 1 /\ Len(sent') <= MaxSent
         /\ tap' \in Seq(FrameSet)
<1>1. sent \in Seq(Once \cup {None}) /\ tap \in Seq(FrameSet) /\ env \in Once \cup {None}
  BY DEF Types, Published
<1>2. PICK F \in Seq(FrameSet) : tap' = tap \o F
  BY DEF Published
<1>3. tap' \in Seq(FrameSet)
  BY <1>1, <1>2
<1>4. sent' \in Seq(Once \cup {None}) /\ Len(sent') = Len(sent) + 1
  BY <1>1 DEF Published
<1>5. QED
  BY <1>1, <1>3, <1>4, InspectorAssumption DEF Published

(* The worker takes the oldest message from an aligned socket. *)
LEMMA Received ==
  ASSUME Types, NEW m \in Nat, Aligned(tap, sent, m), WorkerReceive
  PROVE  LET env == sent[Len(sent) - m + 1]
         IN  /\ m >= 1 /\ env \in Once \cup {None}
             /\ events' = IF env = None THEN events ELSE Append(events, env)
             /\ tap' \in Seq(FrameSet) /\ Len(tap') = Len(tap) - 2
             /\ \A i \in 1..Len(tap) - 2 : tap'[i] = tap[i + 2]
             /\ UNCHANGED <<sent, m_packetHistory, injected>>
<1> DEFINE env == sent[Len(sent) - m + 1]
<1>1. tap \in Seq(FrameSet) /\ Len(tap) = 2 * m /\ m <= Len(sent) /\ m >= 1
  BY DEF Aligned, Types, WorkerReceive
<1>2. env \in Once \cup {None}
  <2>1. Len(sent) - m + 1 \in 1..Len(sent) /\ sent \in Seq(Once \cup {None})
    BY <1>1 DEF Types
  <2>2. QED
    BY <2>1
<1>3. FramesOf(tap[1], tap[2], env)
  <2>1. 1 \in 1..m /\ 2 * 1 - 1 = 1 /\ 2 * 1 = 2
    BY <1>1
  <2>2. QED
    BY <2>1 DEF Aligned
<1> HIDE DEF env
<1>4. env = None \/ env \in Packet
  BY <1>2 DEF Once
<1>5. /\ env = None => recv(tap).ok = FALSE
      /\ env # None => recv(tap).ok = TRUE /\ recv(tap).env = env
      /\ recv(tap).sock = SubSeq(tap, 3, Len(tap))
  <2>1. Len(tap) >= 2
    BY <1>1
  <2>2. QED
    BY <1>1, <1>3, <1>4, <2>1, RecvWhole
<1>6. tap' = SubSeq(tap, 3, Len(tap)) /\ events' = IF env = None THEN events ELSE Append(events, env)
  BY <1>5 DEF WorkerReceive
<1>7. tap' \in Seq(FrameSet) /\ Len(tap') = Len(tap) - 2 /\ \A i \in 1..Len(tap) - 2 : tap'[i] = tap[i + 2]
  BY <1>1, <1>6
<1>8. UNCHANGED <<sent, m_packetHistory, injected>>
  BY DEF WorkerReceive, viewVars
<1>9. QED
  BY <1>1, <1>2, <1>6, <1>7, <1>8 DEF env

(* A replay is one of the packet shown, with a uuid ahead of all others. *)
LEMMA Replayed ==
  ASSUME Types, ShownIsFiltered, Selection, replaySelectedMessage, injected' # injected
  PROVE  /\ detail \in Once /\ generateUUID \in 0..(2 * MaxSent + OutMax)
         /\ injected' = Append(injected, ReplayOf(detail, generateUUID))
         /\ Len(injected) < OutMax
<1>1. /\ selected # None /\ Len(injected) # OutMax
      /\ injected' = Append(injected, ReplayOf(m_packetHistory[selected], generateUUID))
  BY DEF replaySelectedMessage, ReplayOf
<1>2. selected \in DOMAIN m_packetHistory /\ detail = m_packetHistory[selected]
  BY <1>1 DEF Selection, ShownIsFiltered, Accepted
<1>3. detail \in Once
  BY <1>2 DEF Types
<1>4. Len(injected) < OutMax /\ generateUUID \in 0..(2 * MaxSent + OutMax)
  BY <1>1, InspectorAssumption DEF Types, generateUUID
<1>5. QED
  BY <1>1, <1>2, <1>3, <1>4

-----------------------------------------------------------------------------
(* What was captured *)

LEMMA LegibleCount ==
  ASSUME NEW s, NEW n \in Nat
  PROVE  /\ IsFiniteSet(Legible(s, n)) /\ Cardinality(Legible(s, n)) \in 0..n
         /\ Cardinality(Legible(s, n + 1)) = IF s[n + 1] = None THEN Cardinality(Legible(s, n))
                                          ELSE Cardinality(Legible(s, n)) + 1
<1>1. IsFiniteSet(1..n) /\ Cardinality(1..n) = n
  BY FS_Interval
<1>2. Legible(s, n) \subseteq 1..n
  BY DEF Legible
<1>3. IsFiniteSet(Legible(s, n)) /\ Cardinality(Legible(s, n)) <= n /\ Cardinality(Legible(s, n)) \in Nat
  BY <1>1, <1>2, FS_Subset, FS_CardinalityType
<1>4. CASE s[n + 1] = None
  <2>1. Legible(s, n + 1) = Legible(s, n)
    BY <1>4 DEF Legible
  <2>2. QED
    BY <1>3, <1>4, <2>1
<1>5. CASE s[n + 1] # None
  <2>1. Legible(s, n + 1) = Legible(s, n) \cup {n + 1} /\ n + 1 \notin Legible(s, n)
    BY <1>5 DEF Legible
  <2>2. Cardinality(Legible(s, n) \cup {n + 1}) = Cardinality(Legible(s, n)) + 1
    BY <1>3, <2>1, FS_AddElement
  <2>3. QED
    BY <1>3, <1>5, <2>1, <2>2
<1>6. QED
  BY <1>4, <1>5

(* Where the elements of x \o F are. *)
LEMMA ConcatAt ==
  ASSUME NEW S, NEW x \in Seq(S), NEW F \in Seq(S)
  PROVE  /\ x \o F \in Seq(S) /\ Len(x \o F) = Len(x) + Len(F)
         /\ \A i \in 1..Len(x) : (x \o F)[i] = x[i]
         /\ \A i \in 1..Len(F) : (x \o F)[Len(x) + i] = F[i]
<1>1. x \o F \in Seq(S) /\ Len(x \o F) = Len(x) + Len(F) /\ \A i \in 1..Len(x) : (x \o F)[i] = x[i]
  OBVIOUS
<1>2. ASSUME NEW i \in 1..Len(F) PROVE (x \o F)[Len(x) + i] = F[i]
  <2>1. Len(x) + i \in 1..Len(x) + Len(F) /\ Len(x) + i > Len(x) /\ (Len(x) + i) - Len(x) = i
    OBVIOUS
  <2>2. QED
    BY <2>1
<1>3. QED
  BY <1>1, <1>2

LEMMA TwoMore ==
  ASSUME NEW x \in Seq(FrameSet), NEW F \in Seq(FrameSet), Len(F) = 2
  PROVE  /\ Len(x \o F) = Len(x) + 2 /\ \A i \in 1..Len(x) : (x \o F)[i] = x[i]
         /\ (x \o F)[Len(x) + 1] = F[1] /\ (x \o F)[Len(x) + 2] = F[2]
<1> DEFINE y == x \o F
<1>1. /\ Len(y) = Len(x) + Len(F) /\ \A i \in 1..Len(x) : y[i] = x[i]
      /\ \A i \in 1..Len(F) : y[Len(x) + i] = F[i]
  BY ConcatAt
<1> HIDE DEF y
<1>2. y[Len(x) + 1] = F[1] /\ y[Len(x) + 2] = F[2]
  <2>1. 1 \in 1..Len(F) /\ 2 \in 1..Len(F)
    OBVIOUS
  <2>2. QED
    BY <1>1, <2>1
<1>3. QED
  BY <1>1, <1>2 DEF y

(* A published message adds to the socket and leaves what is before it. *)
LEMMA PublishedCapture ==
  ASSUME Types, Capture, NEW env, Published(env)
  PROVE  Capture'
<1>1. PICK k \in 0..Len(sent), m \in 0..Len(sent) :
        Aligned(tap, sent, m) /\ Got(sent, m_packetHistory \o events, k, Len(sent) - m)
  BY DEF Capture
<1> DEFINE N == Len(sent)
           x == m_packetHistory \o events
<1>2. N \in Nat /\ sent \in Seq(Once \cup {None}) /\ tap \in Seq(FrameSet)
  BY DEF Types
<1>3. Len(sent') = N + 1 /\ sent'[N + 1] = env /\ \A i \in 1..N : sent'[i] = sent[i]
  BY <1>2 DEF Published
<1>4. PICK F \in Seq(FrameSet) : Len(F) = 2 /\ FramesOf(F[1], F[2], env) /\ tap' = tap \o F
  BY DEF Published
<1>5. Len(tap) = 2 * m /\ \A i \in 1..m : FramesOf(tap[2 * i - 1], tap[2 * i], sent[N - m + i])
  BY <1>1 DEF Aligned
<1>6. /\ Len(tap') = 2 * (m + 1) /\ \A i \in 1..2 * m : tap'[i] = tap[i]
      /\ tap'[2 * m + 1] = F[1] /\ tap'[2 * m + 2] = F[2]
  <2>1. /\ Len(tap') = Len(tap) + 2 /\ \A i \in 1..Len(tap) : tap'[i] = tap[i]
        /\ tap'[Len(tap) + 1] = F[1] /\ tap'[Len(tap) + 2] = F[2]
    BY <1>2, <1>4, TwoMore
  <2>2. 2 * m + 2 = 2 * (m + 1)
    BY <1>1
  <2>3. QED
    BY <1>5, <2>1, <2>2
<1>7. Aligned(tap', sent', m + 1)
  <2>1. ASSUME NEW i \in 1..m + 1
        PROVE  FramesOf(tap'[2 * i - 1], tap'[2 * i], sent'[(N + 1) - (m + 1) + i])
    <3>1. CASE i = m + 1
      <4>1. 2 * i - 1 = 2 * m + 1 /\ 2 * i = 2 * m + 2 /\ (N + 1) - (m + 1) + i = N + 1
        BY <1>1, <1>2, <3>1
      <4>2. QED
        BY <1>3, <1>4, <1>6, <4>1
    <3>2. CASE i # m + 1
      <4>1. /\ i \in 1..m /\ 2 * i - 1 \in 1..2 * m /\ 2 * i \in 1..2 * m
            /\ (N + 1) - (m + 1) + i = N - m + i /\ N - m + i \in 1..N
        BY <1>1, <1>2, <3>2
      <4>2. QED
        BY <1>3, <1>5, <1>6, <4>1
    <3>3. QED
      BY <3>1, <3>2
  <2>2. m + 1 <= N + 1
    BY <1>1, <1>2
  <2>3. QED
    BY <1>3, <1>6, <2>1, <2>2 DEF Aligned
<1>8. \A i \in 0..N : Legible(sent', i) = Legible(sent, i)
  BY <1>2, <1>3 DEF Legible
<1>9. x' = x
  BY DEF Published
<1>10. Got(sent', x', k, N - m)
  <2>1. N - m \in 0..N
    BY <1>1, <1>2
  <2>2. Cardinality(Legible(sent', N - m)) = k + Len(x)
    BY <1>1, <1>8, <2>1 DEF Got
  <2>3. ASSUME NEW c \in 1..Len(x)
        PROVE  \E i \in Legible(sent', N - m) : Cardinality(Legible(sent', i)) = k + c /\ x[c] = sent'[i]
    <3>1. PICK i \in Legible(sent, N - m) : Cardinality(Legible(sent, i)) = k + c /\ x[c] = sent[i]
      BY <1>1 DEF Got
    <3>2. i \in 1..N /\ i \in 0..N
      BY <1>2, <2>1, <3>1 DEF Legible
    <3>3. QED
      BY <1>3, <1>8, <2>1, <3>1, <3>2
  <2> HIDE DEF x
  <2>4. QED
    BY <1>9, <2>2, <2>3 DEF Got
<1>11. (N + 1) - (m + 1) = N - m /\ k \in 0..N + 1 /\ m + 1 \in 0..N + 1
  BY <1>1, <1>2
<1>12. QED
  BY <1>3, <1>7, <1>10, <1>11 DEF Capture

(* A message the worker takes is appended if it is legible. *)
LEMMA ReceivedCapture ==
  ASSUME Types, Capture, WorkerReceive
  PROVE  Capture'
<1>1. PICK k \in 0..Len(sent), m \in 0..Len(sent) :
        Aligned(tap, sent, m) /\ Got(sent, m_packetHistory \o events, k, Len(sent) - m)
  BY DEF Capture
<1> DEFINE N == Len(sent)
           n == N - m
           env == sent[N - m + 1]
           x == m_packetHistory \o events
<1>2. N \in Nat /\ m_packetHistory \in Seq(Once) /\ events \in Seq(Once)
  BY DEF Types
<1>3. /\ m >= 1 /\ env \in Once \cup {None}
      /\ events' = IF env = None THEN events ELSE Append(events, env)
      /\ Len(tap') = Len(tap) - 2 /\ (\A i \in 1..Len(tap) - 2 : tap'[i] = tap[i + 2])
      /\ UNCHANGED <<sent, m_packetHistory, injected>>
  BY <1>1, <1>2, Received
<1>4. Len(tap) = 2 * m /\ \A i \in 1..m : FramesOf(tap[2 * i - 1], tap[2 * i], sent[N - m + i])
  BY <1>1 DEF Aligned
<1>5. Aligned(tap', sent', m - 1)
  <2>1. ASSUME NEW i \in 1..m - 1
        PROVE  FramesOf(tap'[2 * i - 1], tap'[2 * i], sent[N - (m - 1) + i])
    <3>1. /\ i + 1 \in 1..m /\ 2 * i - 1 \in 1..Len(tap) - 2 /\ 2 * i \in 1..Len(tap) - 2
          /\ (2 * i - 1) + 2 = 2 * (i + 1) - 1 /\ 2 * i + 2 = 2 * (i + 1)
          /\ N - (m - 1) + i = N - m + (i + 1)
      BY <1>1, <1>2, <1>3, <1>4
    <3>2. QED
      BY <1>3, <1>4, <3>1
  <2>2. Len(tap') = 2 * (m - 1) /\ m - 1 <= N
    BY <1>1, <1>2, <1>3, <1>4
  <2>3. QED
    BY <1>3, <2>1, <2>2 DEF Aligned
<1>6. sent' = sent
  BY <1>3
<1>7. /\ n \in Nat /\ N - (m - 1) = n + 1 /\ m - 1 \in 0..N
  BY <1>1, <1>2, <1>3
<1>8. Cardinality(Legible(sent, n)) = k + Len(x) /\ x \in Seq(Once) /\ Len(x) \in Nat
  BY <1>1, <1>2 DEF Got
<1>9. \A c \in 1..Len(x) : \E i \in Legible(sent, n) : Cardinality(Legible(sent, i)) = k + c /\ x[c] = sent[i]
  BY <1>1 DEF Got
<1>10. Legible(sent, n) \subseteq Legible(sent, n + 1)
  BY <1>7 DEF Legible
<1> HIDE DEF n
<1>11. CASE env = None
  <2>1. Cardinality(Legible(sent, n + 1)) = Cardinality(Legible(sent, n))
    BY <1>7, <1>11, LegibleCount DEF n
  <2>2. x' = x
    BY <1>3, <1>11
  <2> HIDE DEF x
  <2>3. Got(sent', x', k, n + 1)
    BY <1>3, <1>6, <1>8, <1>9, <1>10, <2>1, <2>2 DEF Got
  <2>4. QED
    BY <1>3, <1>5, <1>7, <2>3 DEF Capture, x
<1>12. CASE env # None
  <2>1. Cardinality(Legible(sent, n + 1)) = Cardinality(Legible(sent, n)) + 1
    BY <1>7, <1>12, LegibleCount DEF n
  <2>2. Len(x') = Len(x) + 1 /\ (\A c \in 1..Len(x) : x'[c] = x[c]) /\ x'[Len(x) + 1] = env
    <3>1. x' = m_packetHistory \o Append(events, env)
      BY <1>3, <1>12
    <3>2. m_packetHistory \o Append(events, env) = Append(x, env)
      <4>1. env \in Once
        BY <1>3, <1>12
      <4> HIDE DEF env
      <4>2. QED
        BY <1>2, <4>1
    <3>3. x' = Append(x, env) /\ env \in Once
      BY <1>3, <1>12, <3>1, <3>2
    <3> HIDE DEF x, env
    <3>4. QED
      BY <1>8, <3>3
  <2>3. n + 1 \in Legible(sent, n + 1) /\ sent[n + 1] = env
    BY <1>7, <1>12 DEF Legible, n
  <2> HIDE DEF x, env
  <2>4. ASSUME NEW c \in 1..Len(x')
        PROVE  \E i \in Legible(sent, n + 1) : Cardinality(Legible(sent, i)) = k + c /\ x'[c] = sent[i]
    <3>1. CASE c \in 1..Len(x)
      BY <1>9, <1>10, <2>2, <3>1
    <3>2. CASE c \notin 1..Len(x)
      <4>1. c = Len(x) + 1 /\ k + c = (k + Len(x)) + 1
        BY <1>1, <1>8, <2>2, <3>2
      <4>2. QED
        BY <1>8, <2>1, <2>2, <2>3, <4>1
    <3>3. QED
      BY <3>1, <3>2
  <2>5. Cardinality(Legible(sent, n + 1)) = k + Len(x')
    BY <1>1, <1>8, <2>1, <2>2
  <2>6. Got(sent', x', k, n + 1)
    BY <1>3, <1>6, <2>4, <2>5 DEF Got
  <2>7. QED
    BY <1>3, <1>5, <1>7, <2>6 DEF Capture, x
<1>13. QED
  BY <1>11, <1>12

(* The history and the queued packets, one after the other, lose d at the  *)
(* front when the window takes a packet.                                   *)
LEMMA CapturedShifts ==
  ASSUME Types, onNewPacket
  PROVE  LET x == m_packetHistory \o events
         IN  /\ Len(x) \in Nat /\ UNCHANGED <<sent, tap>>
             /\ \E d \in 0..Len(x) : Len(x') = Len(x) - d /\ \A c \in 1..Len(x) - d : x'[c] = x[c + d]
<1> DEFINE h == m_packetHistory
           e == events
           H == Append(h, Head(e))
           x == h \o e
           g == m_packetHistory'
           t == events'
<1>1. /\ Head(e) \in Once /\ H \in Seq(Once) /\ Len(H) = Len(h) + 1
      /\ t = Tail(e) /\ t \in Seq(Once) /\ Len(e) > 0 /\ g \in Seq(Once)
  BY HistoryStep
<1>2. PICK d \in 0..Len(H) : Len(g) = Len(H) - d /\ \A i \in 1..Len(H) - d : g[i] = H[i + d]
  BY HistoryStep
<1>3. h \in Seq(Once) /\ e \in Seq(Once) /\ Len(h) \in Nat /\ Len(e) \in Nat
  BY DEF Types
<1>4. H[Len(h) + 1] = e[1] /\ \A i \in 1..Len(h) : H[i] = h[i]
  BY <1>1, <1>3
<1>5. Len(t) = Len(e) - 1 /\ \A j \in 1..Len(e) - 1 : t[j] = e[j + 1]
  BY <1>1, <1>3
<1>6. UNCHANGED <<sent, tap>>
  BY DEF onNewPacket, sourceVars
<1> HIDE DEF h, e, H, g, t
<1>7. /\ Len(x) = Len(h) + Len(e) /\ \A i \in 1..Len(h) : x[i] = h[i]
      /\ \A i \in 1..Len(e) : x[Len(h) + i] = e[i]
  BY <1>3, ConcatAt
<1> DEFINE y == g \o t
<1>8. /\ Len(y) = Len(g) + Len(t) /\ \A i \in 1..Len(g) : y[i] = g[i]
      /\ \A i \in 1..Len(t) : y[Len(g) + i] = t[i]
  <2>1. g \in Seq(Once) /\ t \in Seq(Once)
    BY <1>1
  <2>2. QED
    BY <2>1, ConcatAt
<1> HIDE DEF x, y
<1>9. Len(x) \in Nat /\ d \in 0..Len(x) /\ Len(y) = Len(x) - d
  <2>1. /\ Len(H) = Len(h) + 1 /\ Len(e) > 0 /\ Len(g) = Len(H) - d /\ Len(t) = Len(e) - 1
        /\ Len(x) = Len(h) + Len(e) /\ Len(y) = Len(g) + Len(t)
    BY <1>1, <1>2, <1>5, <1>7, <1>8
  <2>2. d \in 0..Len(H) /\ Len(h) \in Nat /\ Len(e) \in Nat
    BY <1>2, <1>3
  <2>3. QED
    BY <2>1, <2>2
<1>10. ASSUME NEW c \in 1..Len(x) - d PROVE y[c] = x[c + d]
  <2>1. CASE c <= Len(g) /\ c + d <= Len(h)
    <3>1. c \in 1..Len(g) /\ c \in 1..Len(H) - d /\ c + d \in 1..Len(h)
      BY <1>1, <1>2, <1>3, <1>9, <2>1
    <3>2. QED
      BY <1>2, <1>4, <1>7, <1>8, <3>1
  <2>2. CASE c <= Len(g) /\ ~(c + d <= Len(h))
    <3>1. c \in 1..Len(g) /\ c \in 1..Len(H) - d /\ c + d = Len(h) + 1 /\ 1 \in 1..Len(e)
      BY <1>1, <1>2, <1>3, <1>9, <2>2
    <3>2. y[c] = H[Len(h) + 1]
      BY <1>2, <1>8, <3>1
    <3>3. x[Len(h) + 1] = e[1]
      BY <1>7, <3>1
    <3>4. QED
      BY <1>4, <3>1, <3>2, <3>3
  <2>3. CASE ~(c <= Len(g))
    <3> DEFINE j == c - Len(g)
    <3>1. /\ j \in 1..Len(t) /\ j \in 1..Len(e) - 1 /\ j + 1 \in 1..Len(e)
          /\ c = Len(g) + j /\ c + d = Len(h) + (j + 1)
      BY <1>1, <1>2, <1>3, <1>5, <1>7, <1>9, <2>3
    <3> HIDE DEF j
    <3>2. y[c] = t[j] /\ t[j] = e[j + 1]
      BY <1>5, <1>8, <3>1
    <3>3. x[Len(h) + (j + 1)] = e[j + 1]
      BY <1>7, <3>1
    <3>4. QED
      BY <3>1, <3>2, <3>3
  <2>4. QED
    BY <2>1, <2>2, <2>3
<1>11. QED
  BY <1>6, <1>9, <1>10 DEF x, y, h, e, g, t

LEMMA ShownCapture ==
  ASSUME Types, Capture, onNewPacket
  PROVE  Capture'
<1> DEFINE N == Len(sent)
           x == m_packetHistory \o events
<1>1. PICK k \in 0..N, m \in 0..N : Aligned(tap, sent, m) /\ Got(sent, x, k, N - m)
  BY DEF Capture
<1>2. N \in Nat
  BY DEF Types
<1>3. Len(x) \in Nat /\ UNCHANGED <<sent, tap>>
  BY CapturedShifts
<1>4. PICK d \in 0..Len(x) : Len(x') = Len(x) - d /\ \A c \in 1..Len(x) - d : x'[c] = x[c + d]
  BY CapturedShifts
<1> DEFINE y == x'
<1>5. Len(y) = Len(x) - d /\ \A c \in 1..Len(x) - d : y[c] = x[c + d]
  BY <1>4
<1> HIDE DEF x, y
<1>6. /\ Cardinality(Legible(sent, N - m)) = k + Len(x)
      /\ \A c \in 1..Len(x) : \E i \in Legible(sent, N - m) :
           Cardinality(Legible(sent, i)) = k + c /\ x[c] = sent[i]
  BY <1>1 DEF Got
<1>7. k + d \in 0..N /\ (k + d) + Len(y) = k + Len(x)
  <2>1. N - m \in Nat /\ N - m <= N
    BY <1>1, <1>2
  <2>2. Cardinality(Legible(sent, N - m)) \in 0..(N - m)
    BY <2>1, LegibleCount
  <2>3. QED
    BY <1>1, <1>2, <1>3, <1>4, <1>5, <1>6, <2>1, <2>2
<1>8. ASSUME NEW c \in 1..Len(y)
      PROVE  \E i \in Legible(sent, N - m) : Cardinality(Legible(sent, i)) = (k + d) + c /\ y[c] = sent[i]
  <2>1. c \in 1..Len(x) - d /\ c + d \in 1..Len(x) /\ k + (c + d) = (k + d) + c
    BY <1>1, <1>3, <1>4, <1>5
  <2>2. QED
    BY <1>5, <1>6, <2>1
<1>9. Got(sent, y, k + d, N - m)
  BY <1>6, <1>7, <1>8 DEF Got
<1>10. QED
  BY <1>1, <1>3, <1>7, <1>9 DEF Capture, x, y

LEMMA CaptureStep ==
  ASSUME Types, Capture, [Next]_vars
  PROVE  Capture'
<1>1. ASSUME UNCHANGED <<sent, tap, events, m_packetHistory>> PROVE Capture'
  BY <1>1 DEF Capture
<1>2. ASSUME NEW topic \in Topic, NEW name \in Name, PublishNew(topic, name) PROVE Capture'
  BY <1>2, NewPublished, PublishedCapture
<1>3. CASE PublishForeign
  BY <1>3, ForeignPublished, PublishedCapture
<1>4. CASE PublishReplay
  BY <1>4, ReplayPublished, PublishedCapture
<1>5. CASE WorkerReceive
  BY <1>5, ReceivedCapture
<1>6. CASE onNewPacket
  BY <1>6, ShownCapture
<1>7. CASE WorkerRun \/ WorkerExit \/ WaitWorker \/ User \/ UNCHANGED vars
  <2>1. UNCHANGED <<sent, tap, events, m_packetHistory>>
    BY <1>7 DEF WorkerRun, WorkerExit, WaitWorker, User, ToggleTopic, Search, onSelectionChanged, showContextMenu,
                DismissMenu, replaySelectedMessage, StopWorker, vars, sourceVars, viewVars
  <2>2. QED
    BY <1>1, <2>1
<1>8. QED
  BY <1>2, <1>3, <1>4, <1>5, <1>6, <1>7 DEF Next, Worker

-----------------------------------------------------------------------------
(* Types and uuids *)

LEMMA TypesStep ==
  ASSUME Types, ShownIsFiltered, Selection, Capture, [Next]_vars
  PROVE  Types'
<1>1. ASSUME UNCHANGED <<sent, tap, events, m_packetHistory, injected>> PROVE Types'
  BY <1>1 DEF Types
<1>2. ASSUME NEW topic \in Topic, NEW name \in Name, PublishNew(topic, name) PROVE Types'
  <2>1. PICK env \in Once : Published(env) /\ UNCHANGED injected
    BY <1>2, NewPublished
  <2>2. QED
    BY <2>1, PublishedTypes DEF Types, Published
<1>3. CASE PublishForeign
  BY <1>3, ForeignPublished, PublishedTypes DEF Types, Published
<1>4. CASE PublishReplay
  <2>1. Published(Head(injected)) /\ injected # << >> /\ injected' = Tail(injected)
    BY <1>4, ReplayPublished
  <2>2. injected' \in Seq(Once) /\ Len(injected') <= OutMax
    BY <2>1, InspectorAssumption DEF Types
  <2>3. QED
    BY <2>1, <2>2, PublishedTypes DEF Types, Published
<1>5. CASE WorkerReceive
  <2>1. PICK m \in 0..Len(sent) : Aligned(tap, sent, m)
    BY DEF Capture
  <2> DEFINE env == sent[Len(sent) - m + 1]
  <2>2. m \in Nat
    BY DEF Types
  <2>3. /\ env \in Once \cup {None} /\ events' = IF env = None THEN events ELSE Append(events, env)
        /\ tap' \in Seq(FrameSet) /\ UNCHANGED <<sent, m_packetHistory, injected>>
    BY <1>5, <2>1, <2>2, Received
  <2> HIDE DEF env
  <2>4. QED
    BY <2>3 DEF Types
<1>6. CASE onNewPacket
  <2>1. UNCHANGED <<sent, tap, injected>>
    BY <1>6 DEF onNewPacket, sourceVars
  <2>2. events' \in Seq(Once) /\ m_packetHistory' \in Seq(Once)
    BY <1>6, HistoryStep
  <2>3. QED
    BY <2>1, <2>2 DEF Types
<1>7. CASE replaySelectedMessage
  <2>1. UNCHANGED <<sent, tap, events, m_packetHistory>>
    BY <1>7 DEF replaySelectedMessage, sourceVars, viewVars
  <2>2. CASE injected' = injected
    BY <1>1, <2>1, <2>2
  <2>3. CASE injected' # injected
    <3>1. /\ injected' = Append(injected, ReplayOf(detail, generateUUID)) /\ Len(injected) < OutMax
          /\ ReplayOf(detail, generateUUID) \in Once
      BY <1>7, <2>3, Replayed, ReplayIsPacket
    <3>2. injected' \in Seq(Once) /\ Len(injected') <= OutMax
      BY <3>1, InspectorAssumption DEF Types
    <3>3. QED
      BY <2>1, <3>2 DEF Types
  <2>4. QED
    BY <2>2, <2>3
<1>8. ASSUME \/ WorkerRun \/ WorkerExit \/ WaitWorker \/ (User /\ ~replaySelectedMessage) \/ UNCHANGED vars
      PROVE  Types'
  <2>1. UNCHANGED <<sent, tap, events, m_packetHistory, injected>>
    BY <1>8 DEF WorkerRun, WorkerExit, WaitWorker, User, ToggleTopic, Search, onSelectionChanged, showContextMenu,
                DismissMenu, StopWorker, vars, sourceVars, viewVars
  <2>2. QED
    BY <1>1, <2>1
<1>9. QED
  BY <1>2, <1>3, <1>4, <1>5, <1>6, <1>7, <1>8 DEF Next, Worker

(* The bound that generateUUID is, before and after. *)
LEMMA FreshStep ==
  ASSUME Types, ShownIsFiltered, Selection, Capture, Fresh, [Next]_vars
  PROVE  Fresh'
<1> DEFINE G == generateUUID
<1>0. /\ G \in Nat /\ Len(sent) \in Nat /\ Len(injected) \in Nat /\ sent \in Seq(Once \cup {None})
      /\ injected \in Seq(Once) /\ DOMAIN sent = 1..Len(sent) /\ DOMAIN injected = 1..Len(injected)
  BY InspectorAssumption DEF Types, generateUUID
<1>u. \A p \in Once : p.header.uuid \in Nat /\ p # None
  <2>1. \A p \in Once : p \in Packet /\ p.header \in Header
    BY DEF Once, Packet
  <2>2. QED
    BY <2>1, NoneAssumption, InspectorAssumption DEF Header
<1>1. ASSUME UNCHANGED <<sent, injected>> PROVE Fresh'
  BY <1>1 DEF Fresh, generateUUID
<1>p. ASSUME NEW env, Published(env)
      PROVE  /\ Len(sent') = Len(sent) + 1 /\ DOMAIN sent' = 1..Len(sent) + 1
             /\ sent'[Len(sent) + 1] = env /\ \A i \in 1..Len(sent) : sent'[i] = sent[i]
  <2>1. sent' = Append(sent, env) /\ env \in Once \cup {None}
    BY <1>p DEF Published
  <2>2. QED
    BY <1>0, <2>1
<1>2. ASSUME NEW topic \in Topic, NEW name \in Name, PublishNew(topic, name) PROVE Fresh'
  <2>1. PICK env \in Once : Published(env) /\ env.header.uuid = Len(sent) + 1 /\ UNCHANGED injected
    BY <1>2, NewPublished
  <2>2. generateUUID' = G + 1 /\ Len(sent) + 1 < G + 1
    <3>1. Len(sent) < MaxSent
      BY <2>1 DEF Published
    <3>2. Len(sent') = Len(sent) + 1
      BY <1>p, <2>1
    <3>3. generateUUID' = MaxSent + Len(sent') + Len(injected)
      BY <2>1 DEF generateUUID
    <3>4. QED
      BY <1>0, <3>1, <3>2, <3>3, InspectorAssumption DEF generateUUID
  <2> HIDE DEF G
  <2>3. ASSUME NEW n \in DOMAIN sent', sent'[n] # None PROVE sent'[n].header.uuid < G + 1
    <3>1. CASE n \in 1..Len(sent)
      <4>1. sent'[n] = sent[n] /\ sent[n] \in Once
        BY <1>0, <1>p, <2>1, <2>3, <3>1
      <4>2. sent[n].header.uuid < G
        BY <1>0, <2>3, <3>1, <4>1 DEF Fresh, G
      <4>3. QED
        BY <1>0, <1>u, <4>1, <4>2
    <3>2. CASE n \notin 1..Len(sent)
      <4>1. n = Len(sent) + 1
        BY <1>0, <1>p, <2>1, <3>2
      <4>2. QED
        BY <1>p, <2>1, <2>2, <4>1
    <3>3. QED
      BY <3>1, <3>2
  <2>4. ASSUME NEW n \in DOMAIN injected PROVE injected[n].header.uuid < G + 1
    <3>1. injected[n] \in Once /\ injected[n].header.uuid < G
      BY <1>0 DEF Fresh, G
    <3>2. QED
      BY <1>0, <1>u, <3>1
  <2>5. QED
    BY <2>1, <2>2, <2>3, <2>4 DEF Fresh
<1>3. CASE PublishForeign
  <2>1. Published(None) /\ UNCHANGED injected
    BY <1>3, ForeignPublished
  <2>2. generateUUID' = G + 1
    BY <1>0, <1>p, <2>1, InspectorAssumption DEF generateUUID
  <2> HIDE DEF G
  <2>3. ASSUME NEW n \in DOMAIN sent', sent'[n] # None PROVE sent'[n].header.uuid < G + 1
    <3>1. n \in 1..Len(sent)
      BY <1>0, <1>p, <2>1, <2>3
    <3>2. sent'[n] = sent[n] /\ sent[n] \in Once
      BY <1>0, <1>p, <2>1, <2>3, <3>1
    <3>3. sent[n].header.uuid < G
      BY <1>0, <2>3, <3>1, <3>2 DEF Fresh, G
    <3>4. QED
      BY <1>0, <1>u, <3>2, <3>3
  <2>4. ASSUME NEW n \in DOMAIN injected PROVE injected[n].header.uuid < G + 1
    <3>1. injected[n] \in Once /\ injected[n].header.uuid < G
      BY <1>0 DEF Fresh, G
    <3>2. QED
      BY <1>0, <1>u, <3>1
  <2>5. QED
    BY <2>1, <2>2, <2>3, <2>4 DEF Fresh
<1>4. CASE PublishReplay
  <2> DEFINE env == Head(injected)
  <2>1. Published(env) /\ injected # << >> /\ injected' = Tail(injected)
    BY <1>4, ReplayPublished
  <2>2. /\ env = injected[1] /\ 1 \in DOMAIN injected /\ Len(injected') = Len(injected) - 1
        /\ DOMAIN injected' = 1..Len(injected) - 1 /\ \A n \in 1..Len(injected) - 1 : injected'[n] = injected[n + 1]
    BY <1>0, <2>1
  <2> HIDE DEF env
  <2>3. generateUUID' = G
    BY <1>0, <1>p, <2>1, <2>2, InspectorAssumption DEF generateUUID
  <2> HIDE DEF G
  <2>4. ASSUME NEW n \in DOMAIN sent', sent'[n] # None PROVE sent'[n].header.uuid < G
    <3>1. CASE n \in 1..Len(sent)
      BY <1>0, <1>p, <2>1, <2>4, <3>1 DEF Fresh, G
    <3>2. CASE n \notin 1..Len(sent)
      <4>1. n = Len(sent) + 1
        BY <1>0, <1>p, <2>1, <3>2
      <4>2. QED
        BY <1>p, <2>1, <2>2, <4>1 DEF Fresh, G
    <3>3. QED
      BY <3>1, <3>2
  <2>5. ASSUME NEW n \in DOMAIN injected' PROVE injected'[n].header.uuid < G
    <3>1. n + 1 \in DOMAIN injected /\ injected'[n] = injected[n + 1]
      BY <1>0, <2>2
    <3>2. QED
      BY <3>1 DEF Fresh, G
  <2>6. QED
    BY <2>3, <2>4, <2>5 DEF Fresh
<1>7. ASSUME replaySelectedMessage, injected' # injected PROVE Fresh'
  <2> DEFINE r == ReplayOf(detail, G)
  <2>1. sent' = sent
    BY <1>7 DEF replaySelectedMessage, sourceVars
  <2>2. injected' = Append(injected, r) /\ r \in Once /\ r.header.uuid = G
    BY <1>7, Replayed, ReplayIsPacket
  <2> HIDE DEF r
  <2>3. /\ Len(injected') = Len(injected) + 1 /\ DOMAIN injected' = 1..Len(injected) + 1
        /\ injected'[Len(injected) + 1] = r /\ \A n \in 1..Len(injected) : injected'[n] = injected[n]
    BY <1>0, <2>2
  <2>4. generateUUID' = G + 1
    BY <1>0, <2>1, <2>3, InspectorAssumption DEF generateUUID
  <2> HIDE DEF G
  <2>5. ASSUME NEW n \in DOMAIN sent, sent[n] # None PROVE sent[n].header.uuid < G + 1
    <3>1. sent[n] \in Once /\ sent[n].header.uuid < G
      BY <1>0, <2>5 DEF Fresh, G
    <3>2. QED
      BY <1>0, <1>u, <3>1
  <2>6. ASSUME NEW n \in DOMAIN injected' PROVE injected'[n].header.uuid < G + 1
    <3>1. CASE n \in 1..Len(injected)
      <4>1. injected'[n] = injected[n] /\ injected[n] \in Once /\ injected[n].header.uuid < G
        BY <1>0, <2>3, <3>1 DEF Fresh, G
      <4>2. QED
        BY <1>0, <1>u, <4>1
    <3>2. CASE n \notin 1..Len(injected)
      <4>1. n = Len(injected) + 1
        BY <1>0, <2>3, <3>2
      <4>2. QED
        BY <1>0, <2>2, <2>3, <4>1
    <3>3. QED
      BY <3>1, <3>2
  <2>7. QED
    BY <2>1, <2>4, <2>5, <2>6 DEF Fresh
<1>8. ASSUME \/ Worker \/ onNewPacket \/ WaitWorker \/ (User /\ ~replaySelectedMessage)
             \/ (replaySelectedMessage /\ injected' = injected) \/ UNCHANGED vars
      PROVE  Fresh'
  <2>1. UNCHANGED <<sent, injected>>
    BY <1>8 DEF Worker, WorkerRun, WorkerReceive, WorkerExit, onNewPacket, WaitWorker, User, ToggleTopic, Search,
                onSelectionChanged, showContextMenu, DismissMenu, replaySelectedMessage, StopWorker, vars, sourceVars
  <2>2. QED
    BY <1>1, <2>1
<1>9. QED
  BY <1>2, <1>3, <1>4, <1>7, <1>8 DEF Next

-----------------------------------------------------------------------------
(* What is shown *)

(* A row appended is judged alone; rows removed at the front take their    *)
(* judgement with them.                                                    *)
LEMMA AcceptedAppend ==
  ASSUME NEW h \in Seq(Once), NEW p \in Once, NEW known, NEW off, NEW text
  PROVE  Accepted(Append(h, p), known, off, text)
           = Accepted(h, known, off, text) \cup (IF filterAcceptsRow(p, known, off, text) THEN {Len(h) + 1} ELSE {})
<1> DEFINE H == Append(h, p)
           ok(q) == filterAcceptsRow(q, known, off, text)
<1>1. /\ DOMAIN H = 1..Len(h) + 1 /\ DOMAIN h = 1..Len(h) /\ Len(h) \in Nat
      /\ H[Len(h) + 1] = p /\ \A i \in 1..Len(h) : H[i] = h[i]
  OBVIOUS
<1>2. 1..Len(h) + 1 = 1..Len(h) \cup {Len(h) + 1}
  BY <1>1
<1> HIDE DEF H, ok
<1>3. {r \in DOMAIN H : ok(H[r])} = {r \in DOMAIN h : ok(h[r])} \cup (IF ok(p) THEN {Len(h) + 1} ELSE {})
  BY <1>1, <1>2
<1>4. QED
  BY <1>3 DEF Accepted, H, ok

LEMMA AcceptedShift ==
  ASSUME NEW H \in Seq(Once), NEW G \in Seq(Once), NEW d \in 0..Len(H), Len(G) = Len(H) - d,
         \A i \in 1..Len(H) - d : G[i] = H[i + d], NEW known, NEW off, NEW text
  PROVE  Accepted(G, known, off, text) = Shift(Accepted(H, known, off, text), d)
<1> DEFINE ok(q) == filterAcceptsRow(q, known, off, text)
           A == {r \in DOMAIN H : ok(H[r])}
<1>1. DOMAIN G = 1..Len(H) - d /\ DOMAIN H = 1..Len(H) /\ Len(H) \in Nat
  OBVIOUS
<1> HIDE DEF ok
<1>2. ASSUME NEW i \in DOMAIN G, ok(G[i]) PROVE i \in Shift(A, d)
  <2>1. i + d \in DOMAIN H /\ i + d > d /\ (i + d) - d = i /\ G[i] = H[i + d]
    BY <1>1
  <2>2. QED
    BY <1>2, <2>1 DEF Shift
<1>3. ASSUME NEW i \in Shift(A, d) PROVE i \in DOMAIN G /\ ok(G[i])
  <2>1. PICK r \in A : r > d /\ i = r - d
    BY DEF Shift
  <2>2. i \in 1..Len(H) - d /\ i + d = r
    BY <1>1, <2>1
  <2>3. QED
    BY <1>1, <2>1, <2>2
<1>4. {i \in DOMAIN G : ok(G[i])} = Shift(A, d)
  BY <1>2, <1>3
<1>5. QED
  BY <1>4 DEF Accepted, ok

(* What onNewPacket does to the rows and to the selection: H has the       *)
(* packet, d is what the trimming takes.                                   *)
Shown(H, d, sel) ==
  /\ H \in Seq(Once) /\ d \in 0..Len(H) /\ Len(m_packetHistory') = Len(H) - d /\ m_packetHistory' \in Seq(Once)
  /\ \A i \in 1..Len(H) - d : m_packetHistory'[i] = H[i + d]
  /\ sel = (IF d = 0 THEN selected ELSE ShiftRow(selected, d))
  /\ \/ /\ rows' = Shift(Accepted(H, m_knownTopics, unchecked, m_filterBar), d)
        /\ m_knownTopics' = m_knownTopics /\ selected' = sel
     \/ /\ rows' = Accepted(m_packetHistory', m_knownTopics', unchecked, m_filterBar)
        /\ selected' = IF sel \in rows' THEN sel ELSE None
  /\ UNCHANGED <<unchecked, m_filterBar, detail>>

LEMMA PacketShown ==
  ASSUME Types, ShownIsFiltered, onNewPacket
  PROVE  \E d, sel : Shown(Append(m_packetHistory, Head(events)), d, sel)
<1> DEFINE p == Head(events)
           H == Append(m_packetHistory, p)
           d == IF Len(H) > MaxPacketHistory THEN TrimChunk ELSE 0
           A == Accepted(H, m_knownTopics, unchecked, m_filterBar)
           added == IF filterAcceptsRow(p, m_knownTopics, unchecked, m_filterBar)
                    THEN rows \cup {Len(H)} ELSE rows
           T == Trim(H, added, selected)
           sel == IF d = 0 THEN selected ELSE ShiftRow(selected, d)
<1>1. /\ p \in Once /\ H \in Seq(Once) /\ Len(H) = Len(m_packetHistory) + 1 /\ m_packetHistory' \in Seq(Once)
      /\ d \in 0..Len(H) /\ Len(m_packetHistory') = Len(H) - d
      /\ \A i \in 1..Len(H) - d : m_packetHistory'[i] = H[i + d]
  BY HistoryStep
<1>2. added = A
  <2>1. m_packetHistory \in Seq(Once)
    BY DEF Types
  <2>2. A = rows \cup (IF filterAcceptsRow(p, m_knownTopics, unchecked, m_filterBar)
                       THEN {Len(m_packetHistory) + 1} ELSE {})
    <3>1. A = Accepted(m_packetHistory, m_knownTopics, unchecked, m_filterBar)
                \cup (IF filterAcceptsRow(p, m_knownTopics, unchecked, m_filterBar)
                      THEN {Len(m_packetHistory) + 1} ELSE {})
      <4>1. p \in Once
        BY <1>1
      <4> HIDE DEF p
      <4>2. QED
        BY <2>1, <4>1, AcceptedAppend
    <3>2. QED
      BY <3>1, Zenon DEF ShownIsFiltered
  <2>3. QED
    BY <1>1, <2>2, Zenon
<1>3. T[2] = Shift(A, d) /\ T[3] = sel
  <2> HIDE DEF A, added, H
  <2>1. A \subseteq 1..Len(H)
    <3>1. A \subseteq DOMAIN H
      BY DEF A, Accepted
    <3>2. QED
      BY <1>1, <3>1
  <2>2. CASE Len(H) > MaxPacketHistory
    BY <1>2, <2>2, InspectorAssumption DEF Trim
  <2>3. CASE ~(Len(H) > MaxPacketHistory)
    <3>1. Shift(A, 0) = A
      <4>1. \A r \in A : r > 0 /\ r - 0 = r
        BY <1>1, <2>1
      <4>2. QED
        BY <4>1 DEF Shift
    <3>2. T = <<H, added, selected>> /\ d = 0
      BY <2>3 DEF Trim
    <3>3. QED
      BY <1>2, <3>1, <3>2
  <2>4. QED
    BY <2>2, <2>3
<1>4. /\ m_packetHistory' = T[1] /\ m_knownTopics' = m_knownTopics \cup {p.header.topic}
      /\ IF p.header.topic \in m_knownTopics
         THEN rows' = T[2] /\ selected' = T[3]
         ELSE applyFilters(T[1], T[3], m_knownTopics', unchecked, m_filterBar)
      /\ UNCHANGED <<unchecked, m_filterBar, detail>>
  BY DEF onNewPacket
<1> HIDE DEF A, added, H, T, d, sel, p
<1>5. CASE p.header.topic \in m_knownTopics
  <2>1. rows' = Shift(A, d) /\ m_knownTopics' = m_knownTopics /\ selected' = sel
    BY <1>3, <1>4, <1>5
  <2>2. Shown(H, d, sel)
    BY <1>1, <1>4, <2>1 DEF Shown, A, sel
  <2>3. QED
    BY <2>2 DEF H, p
<1>6. CASE p.header.topic \notin m_knownTopics
  <2>1. /\ rows' = Accepted(m_packetHistory', m_knownTopics', unchecked, m_filterBar)
        /\ selected' = IF sel \in rows' THEN sel ELSE None
    BY <1>3, <1>4, <1>6 DEF applyFilters
  <2>2. Shown(H, d, sel)
    BY <1>1, <1>4, <2>1 DEF Shown, sel
  <2>3. QED
    BY <2>2 DEF H, p
<1>7. QED
  BY <1>5, <1>6

LEMMA ShownAfterPacket ==
  ASSUME Types, ShownIsFiltered, Selection, onNewPacket
  PROVE  ShownIsFiltered' /\ Selection'
<1> DEFINE h == m_packetHistory
           p == Head(events)
           H == Append(h, p)
           A == Accepted(H, m_knownTopics, unchecked, m_filterBar)
<1>1. PICK d, sel : Shown(H, d, sel)
  BY PacketShown
<1>2. h \in Seq(Once) /\ p \in Once /\ Len(h) \in Nat /\ Len(H) = Len(h) + 1
  <2>1. h \in Seq(Once) /\ Len(h) \in Nat
    BY DEF Types
  <2>2. p \in Once /\ Len(H) = Len(h) + 1
    BY HistoryStep
  <2>3. QED
    BY <2>1, <2>2
<1>3. rows \subseteq A /\ rows \subseteq 1..Len(h)
  <2>1. A = rows \cup (IF filterAcceptsRow(p, m_knownTopics, unchecked, m_filterBar) THEN {Len(h) + 1} ELSE {})
    <3>1. A = Accepted(h, m_knownTopics, unchecked, m_filterBar)
                \cup (IF filterAcceptsRow(p, m_knownTopics, unchecked, m_filterBar) THEN {Len(h) + 1} ELSE {})
      <4>1. p \in Once /\ h \in Seq(Once)
        BY <1>2
      <4> HIDE DEF p, h
      <4>2. QED
        BY <4>1, AcceptedAppend
    <3>2. QED
      BY <3>1, Zenon DEF ShownIsFiltered
  <2>2. rows \subseteq DOMAIN h
    BY DEF ShownIsFiltered, Accepted
  <2>3. DOMAIN h = 1..Len(h)
    BY <1>2
  <2> HIDE DEF A, h
  <2>4. QED
    BY <2>1, <2>2, <2>3
<1>4. \A i \in 1..Len(h) : H[i] = h[i]
  BY <1>2
<1> HIDE DEF h, p, H, A
<1>5. /\ H \in Seq(Once) /\ d \in 0..Len(H) /\ Len(m_packetHistory') = Len(H) - d /\ m_packetHistory' \in Seq(Once)
      /\ \A i \in 1..Len(H) - d : m_packetHistory'[i] = H[i + d]
      /\ sel = (IF d = 0 THEN selected ELSE ShiftRow(selected, d))
      /\ UNCHANGED <<unchecked, m_filterBar, detail>>
  BY <1>1 DEF Shown
<1>6. \/ rows' = Shift(A, d) /\ m_knownTopics' = m_knownTopics /\ selected' = sel
      \/ /\ rows' = Accepted(m_packetHistory', m_knownTopics', unchecked, m_filterBar)
         /\ selected' = IF sel \in rows' THEN sel ELSE None
  BY <1>1 DEF Shown, A
<1>7. ShownIsFiltered'
  <2>1. Shift(A, d) = Accepted(m_packetHistory', m_knownTopics, unchecked, m_filterBar)
    BY <1>5, AcceptedShift DEF A
  <2>2. rows' = Accepted(m_packetHistory', m_knownTopics', unchecked, m_filterBar)
    BY <1>6, <2>1
  <2>3. QED
    BY <1>5, <2>2 DEF ShownIsFiltered
<1>8. ASSUME selected' # None PROVE selected' \in rows' /\ detail' = m_packetHistory'[selected']
  <2>1. selected' = sel /\ (sel \in rows' \/ rows' = Shift(A, d))
    BY <1>6, <1>8
  <2>2. selected # None /\ selected \in Int /\ selected > d /\ sel = selected - d
    <3>1. CASE d = 0
      <4>1. selected # None
        BY <1>5, <1>8, <2>1, <3>1
      <4>2. selected \in 1..Len(h)
        BY <1>3, <4>1 DEF Selection
      <4>3. QED
        BY <1>2, <1>5, <3>1, <4>1, <4>2
    <3>2. CASE d # 0
      <4>1. selected # None /\ selected > d /\ sel = selected - d
        BY <1>5, <1>8, <2>1, <3>2 DEF ShiftRow
      <4>2. selected \in 1..Len(h)
        BY <1>3, <4>1 DEF Selection
      <4>3. QED
        BY <1>2, <4>1, <4>2
    <3>3. QED
      BY <3>1, <3>2
  <2>3. selected \in rows /\ detail = h[selected] /\ selected \in 1..Len(h) /\ selected \in A
    BY <1>3, <2>2 DEF Selection, h
  <2>4. sel \in rows'
    BY <2>1, <2>2, <2>3 DEF Shift
  <2>5. m_packetHistory'[sel] = detail
    <3>1. sel \in 1..Len(H) - d /\ sel + d = selected
      <4>1. d \in Int /\ Len(H) \in Int /\ selected <= Len(H)
        BY <1>2, <1>5, <2>3
      <4>2. QED
        BY <2>2, <4>1
    <3>2. QED
      BY <1>4, <1>5, <2>3, <3>1
  <2>6. QED
    BY <1>5, <2>1, <2>4, <2>5
<1>9. QED
  BY <1>7, <1>8 DEF Selection

LEMMA ShownStep ==
  ASSUME Types, ShownIsFiltered, Selection, [Next]_vars
  PROVE  ShownIsFiltered' /\ Selection'
<1> DEFINE filter == <<rows, m_packetHistory, m_knownTopics, unchecked, m_filterBar>>
<1>1. ASSUME UNCHANGED <<filter, selected, detail>> PROVE ShownIsFiltered' /\ Selection'
  BY <1>1 DEF ShownIsFiltered, Selection
<1>2. CASE onNewPacket
  BY <1>2, ShownAfterPacket
<1>3. ASSUME NEW known, NEW off, NEW text, applyFilters(m_packetHistory, selected, known, off, text),
             m_knownTopics' = known, unchecked' = off, m_filterBar' = text, UNCHANGED <<m_packetHistory, detail>>
      PROVE  ShownIsFiltered' /\ Selection'
  <2>1. rows' = Accepted(m_packetHistory, known, off, text) /\ selected' = IF selected \in rows' THEN selected ELSE None
    BY <1>3 DEF applyFilters
  <2>2. QED
    BY <1>3, <2>1 DEF ShownIsFiltered, Selection
<1>4. ASSUME NEW topic \in Topic, ToggleTopic(topic) PROVE ShownIsFiltered' /\ Selection'
  BY <1>3, <1>4 DEF ToggleTopic
<1>5. ASSUME NEW text, Search(text) PROVE ShownIsFiltered' /\ Selection'
  BY <1>3, <1>5 DEF Search
<1>6. ASSUME NEW r \in rows, onSelectionChanged(r) PROVE ShownIsFiltered' /\ Selection'
  BY <1>6 DEF onSelectionChanged, filterVars, ShownIsFiltered, Selection
<1>7. ASSUME \/ \E topic \in Topic, name \in Name : PublishNew(topic, name)
             \/ PublishForeign \/ PublishReplay \/ Worker \/ WaitWorker
             \/ showContextMenu \/ DismissMenu \/ replaySelectedMessage \/ StopWorker \/ UNCHANGED vars
      PROVE  ShownIsFiltered' /\ Selection'
  <2>1. UNCHANGED <<filter, selected, detail>>
    BY <1>7 DEF PublishNew, PublishForeign, PublishReplay, Worker, WorkerRun, WorkerReceive, WorkerExit, WaitWorker,
                showContextMenu, DismissMenu, replaySelectedMessage, StopWorker, vars, viewVars, filterVars
  <2>2. QED
    BY <1>1, <2>1
<1>8. QED
  BY <1>2, <1>4, <1>5, <1>6, <1>7 DEF Next, User

-----------------------------------------------------------------------------
LEMMA InvInit ==
  ASSUME Init
  PROVE  Inv
<1>0. /\ sent = << >> /\ tap = << >> /\ events = << >> /\ m_packetHistory = << >> /\ injected = << >>
      /\ rows = {} /\ selected = None
  BY DEF Init
<1>1. Types
  BY <1>0, InspectorAssumption DEF Types
<1>2. Fresh
  BY <1>0 DEF Fresh
<1>3. ShownIsFiltered /\ Selection
  BY <1>0 DEF ShownIsFiltered, Selection, Accepted
<1>4. Capture
  <2>1. Len(sent) = 0 /\ Len(tap) = 0 /\ m_packetHistory \o events = << >>
    BY <1>0
  <2>2. Legible(sent, 0) = {} /\ Cardinality({}) = 0
    BY FS_EmptySet DEF Legible
  <2>3. Aligned(tap, sent, 0)
    BY <2>1 DEF Aligned
  <2>4. Got(sent, << >>, 0, 0)
    BY <2>2 DEF Got
  <2>5. 0 \in 0..Len(sent) /\ Len(sent) - 0 = 0
    BY <2>1
  <2>6. QED
    BY <2>1, <2>3, <2>4, <2>5 DEF Capture
<1>5. QED
  BY <1>1, <1>2, <1>3, <1>4 DEF Inv

(* The inductive invariant, which the three results below follow from. *)
THEOREM InspectorInductive == Spec => []Inv
<1>1. Init => Inv
  BY InvInit
<1>2. Inv /\ [Next]_vars => Inv'
  BY CaptureStep, TypesStep, FreshStep, ShownStep DEF Inv
<1>3. QED
  BY <1>1, <1>2, PTL DEF Spec

(* The frames of the tap stay aligned (wireframe.h:105-109): the history   *)
(* and the queued signals hold the legible messages that were published,   *)
(* in order and without gaps, each header with its own payload.            *)
THEOREM CapturesIntact == Spec => []CapturedIntact
<1>1. Inv => CapturedIntact
  <2>1. SUFFICES ASSUME Types, Capture PROVE CapturedIntact
    BY DEF Inv
  <2> DEFINE N == Len(sent)
             x == m_packetHistory \o events
  <2>2. PICK k \in 0..N, m \in 0..N : Got(sent, x, k, N - m)
    BY <2>1 DEF Capture
  <2>3. x \in Seq(Once) /\ DOMAIN x = 1..Len(x) /\ N \in Nat
    BY <2>1 DEF Types
  <2>4. Legible(sent, N - m) \subseteq Legible(sent, N)
    BY <2>2, <2>3 DEF Legible
  <2> HIDE DEF x
  <2>5. \A c \in DOMAIN x : \E i \in Legible(sent, N) : Cardinality(Legible(sent, i)) = k + c /\ x[c] = sent[i]
    BY <2>2, <2>3, <2>4 DEF Got
  <2>6. QED
    BY <2>2, <2>5 DEF CapturedIntact, x
<1>2. QED
  BY <1>1, InspectorInductive, PTL

(* The proxy shows exactly the rows the filter accepts                     *)
(* (packettablemodel.h:22-26), although filterAcceptsRow judges a row only *)
(* when it is inserted or the filter changes.                              *)
THEOREM ShowsWhatIsFiltered == Spec => []ShownIsFiltered
<1>1. Inv => ShownIsFiltered
  BY DEF Inv
<1>2. QED
  BY <1>1, InspectorInductive, PTL

(* replaySelectedMessage sends the packet in the detail views, marked      *)
(* once, under a uuid no message published so far has (mainwindow.cpp:246).*)
THEOREM ReplaysTheShown == Spec => ReplaysWhatIsShown
<1> DEFINE Replay ==
      Len(injected') > Len(injected) =>
        LET replayed == injected'[Len(injected')]
        IN  /\ replayed.payload = detail.payload /\ replayed.header.topic = detail.header.topic
            /\ replayed.header.sender = <<1, detail.header.sender[2]>>
            /\ \A n \in DOMAIN sent : sent[n] # None => sent[n].header.uuid # replayed.header.uuid
<1>1. ASSUME Inv, [Next]_vars PROVE Replay
  <2>1. SUFFICES ASSUME Len(injected') > Len(injected) PROVE Replay
    OBVIOUS
  <2>2. injected \in Seq(Once) /\ Len(injected) \in Nat /\ injected' # injected /\ Types
    BY <1>1, <2>1 DEF Inv, Types
  <2>3. replaySelectedMessage
    <3>1. ASSUME PublishReplay PROVE FALSE
      <4>1. injected # << >> /\ injected' = Tail(injected)
        BY <3>1 DEF PublishReplay
      <4>2. QED
        BY <2>1, <2>2, <4>1
    <3>2. QED
      BY <1>1, <2>2, <3>1 DEF Next, PublishNew, PublishForeign, Worker, WorkerRun, WorkerReceive, WorkerExit,
           onNewPacket, WaitWorker, User, ToggleTopic, Search, onSelectionChanged, showContextMenu, DismissMenu,
           StopWorker, vars
  <2> DEFINE r == ReplayOf(detail, generateUUID)
  <2>4. /\ detail \in Once /\ generateUUID \in 0..(2 * MaxSent + OutMax) /\ injected' = Append(injected, r)
    BY <1>1, <2>2, <2>3, Replayed DEF Inv
  <2>5. /\ r \in Once /\ r.payload = detail.payload /\ r.header.topic = detail.header.topic
        /\ r.header.sender = <<1, detail.header.sender[2]>> /\ r.header.uuid = generateUUID
    BY <2>4, ReplayIsPacket
  <2> HIDE DEF r
  <2>6. injected'[Len(injected')] = r
    <3>1. r \in Once
      BY <2>5
    <3>2. QED
      BY <2>2, <2>4, <3>1
  <2>7. ASSUME NEW n \in DOMAIN sent, sent[n] # None PROVE sent[n].header.uuid # r.header.uuid
    <3>1. sent[n].header.uuid < generateUUID
      BY <1>1, <2>7 DEF Inv, Fresh
    <3>2. sent[n] \in Once
      BY <2>2, <2>7 DEF Types
    <3>3. sent[n].header \in Header
      BY <3>2 DEF Once, Packet
    <3>4. sent[n].header.uuid \in Int /\ generateUUID \in Int
      <4>1. 0..(2 * MaxSent + OutMax) \subseteq Int
        OBVIOUS
      <4>2. sent[n].header.uuid \in 0..(2 * MaxSent + OutMax)
        BY <3>3 DEF Header
      <4>3. QED
        BY <2>4, <4>1, <4>2
    <3>5. r.header.uuid = generateUUID
      BY <2>5
    <3> DEFINE u == sent[n].header.uuid
               v == generateUUID
    <3>6. u < v /\ u \in Int /\ v \in Int
      BY <3>1, <3>4
    <3> HIDE DEF u, v
    <3>7. u # v
      BY <3>6
    <3>8. QED
      BY <3>5, <3>7 DEF u, v
  <2>8. QED
    BY <2>5, <2>6, <2>7
<1>2. Inv /\ [Next]_vars => [Replay]_vars
  BY <1>1
<1>3. QED
  BY <1>2, InspectorInductive, PTL DEF Spec, ReplaysWhatIsShown

=============================================================================
