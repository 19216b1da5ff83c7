----------------------------- MODULE StatsProto -----------------------------
(***************************************************************************)
(* broker::ClientInfo and broker::SystemStats, which holds a list of them. *)
(***************************************************************************)
EXTENDS Protobuf, TLC

ClientInfo_proto == [id |-> <<1, "string">>, subscriptions |-> <<2, "strings">>]

ClientInfo_new ==
  [has |-> {}, unknown |-> <<>>, size |-> 0, subscriptions |-> <<>>, id |-> Default]

ClientInfo_copy(from) ==
  TakeOver(ClientInfo_new, from, {"has", "unknown", "subscriptions", "id"})

\* A repeated field has no has-bit of its own.
ClientInfo_table == 1 :> Entry("id", 0, "string") @@ 2 :> Entry("subscriptions", -1, "strings")

ClientInfo_Clear(m) ==
  [m EXCEPT !.subscriptions = <<>>,
            !.id = ClearNonDefault(m, "id", 0),
            !.has = {},
            !.unknown = <<>>]

ClientInfo_Serialize(m) ==
  WriteString(m, "id", 0, 1) \o WriteRepeated(m, "subscriptions", 2) \o m.unknown

ClientInfo_ByteSizeLong(m) ==
  CacheSize(m, RepeatedSize(m, "subscriptions") + StringSize(m, "id", 0))

\* A slip: the list is replaced where it should grow.
ClientInfo_MergeReplacing(to, from) ==
  [to EXCEPT !.subscriptions = from.subscriptions,
             !.id = MergeString(to, from, "id", 0),
             !.has = @ \union from.has,
             !.unknown = @ \o from.unknown]

ClientInfo_MergeImpl(to, from) ==
  [to EXCEPT !.subscriptions = @ \o from.subscriptions,
             !.id = MergeString(to, from, "id", 0),
             !.has = @ \union from.has,
             !.unknown = @ \o from.unknown]

ClientInfo_CopyFrom(to, from) == ClientInfo_MergeImpl(ClientInfo_Clear(to), from)

ClientInfo_InternalSwap(m, from) ==
  TakeOver(m, from, {"unknown", "has", "subscriptions", "id"})

ClientInfo_id(m, vs) == StringAccessors(m, "id", 0, vs)

ClientInfo_subscriptions(m, vs, max) == RepeatedAccessors(m, "subscriptions", vs, max)

ClientInfo_access(f, m, vs, max) ==
  CASE f = "id" -> ClientInfo_id(m, vs)
    [] f = "subscriptions" -> ClientInfo_subscriptions(m, vs, max)

SystemStats_proto ==
  [broker_id         |-> <<1, "string">>,
   clients_count     |-> <<2, "int">>,
   peers_count       |-> <<3, "int">>,
   msgs_per_sec      |-> <<4, "int">>,
   kb_per_sec        |-> <<5, "double">>,
   total_msgs        |-> <<6, "int">>,
   uptime_sec        |-> <<7, "int">>,
   connected_clients |-> <<8, "messages">>]

SystemStats_new ==
  [has |-> {}, unknown |-> <<>>, size |-> 0,
   connected_clients |-> <<>>, broker_id |-> Default,
   clients_count |-> 0, peers_count |-> 0, kb_per_sec |-> 0,
   total_msgs |-> 0, uptime_sec |-> 0, msgs_per_sec |-> 0]

\* The members from clients_count_ to msgs_per_sec_, which are copied,
\* swapped and zeroed as one block of memory.
SystemStats_numbers ==
  {"clients_count", "peers_count", "kb_per_sec", "total_msgs", "uptime_sec", "msgs_per_sec"}

\* Elements are copied one by one into new objects.
CopyClients(cs) == [i \in DOMAIN cs |-> ClientInfo_MergeImpl(ClientInfo_new, cs[i])]

SystemStats_copy(from) ==
  [TakeOver(SystemStats_new, from, {"has", "unknown", "broker_id"} \union SystemStats_numbers)
     EXCEPT !.connected_clients = CopyClients(from.connected_clients)]

SystemStats_table ==
     1 :> Entry("broker_id", 0, "string")
  @@ 2 :> Entry("clients_count", 1, "int")
  @@ 3 :> Entry("peers_count", 2, "int")
  @@ 4 :> Entry("msgs_per_sec", 6, "int")
  @@ 5 :> Entry("kb_per_sec", 3, "double")
  @@ 6 :> Entry("total_msgs", 4, "int")
  @@ 7 :> Entry("uptime_sec", 5, "int")
  @@ 8 :> [Entry("connected_clients", -1, "messages")
             EXCEPT !.sub = [table |-> ClientInfo_table, new |-> ClientInfo_new]]

\* The numbers are zeroed only when one of their bits, 0x7e, is on.
SystemStats_Clear(m) ==
  [f \in DOMAIN m |->
     CASE f \in SystemStats_numbers -> IF m.has \cap 1 .. 6 # {} THEN 0 ELSE m[f]
       [] f = "broker_id" -> ClearNonDefault(m, "broker_id", 0)
       [] f \in {"connected_clients", "unknown"} -> <<>>
       [] f = "has" -> {}
       [] OTHER -> m[f]]

\* A nested message is prefixed with the size its last ByteSizeLong cached.
SystemStats_Serialize(m) ==
     WriteString(m, "broker_id", 0, 1)
  \o WriteInt(m, "clients_count", 1, 2)
  \o WriteInt(m, "peers_count", 2, 3)
  \o WriteInt(m, "msgs_per_sec", 6, 4)
  \o WriteDouble(m, "kb_per_sec", 3, 5)
  \o WriteInt(m, "total_msgs", 4, 6)
  \o WriteInt(m, "uptime_sec", 5, 7)
  \o [i \in DOMAIN m.connected_clients |->
        LET c == m.connected_clients[i] IN Nested(8, c.size, ClientInfo_Serialize(c))]
  \o m.unknown

\* What the six numbers add to the size of m.
SystemStats_numbersSize(m) ==
    IntSizePlusOne(m, "clients_count", 1)
  + IntSizePlusOne(m, "peers_count", 2)
  + DoubleSize(m, "kb_per_sec", 3)
  + IntSizePlusOne(m, "total_msgs", 4)
  + IntSizePlusOne(m, "uptime_sec", 5)
  + IntSizePlusOne(m, "msgs_per_sec", 6)

\* One byte of tag per element, its length prefix and its body.
ClientsSize(cs) == FoldLeft(LAMBDA n, c : n + 1 + VarintSize(c.size) + c.size, 0, cs)

\* A slip: an element that already has a cached size is not measured again.
SystemStats_ByteSizeCached(m) ==
  LET cs == [i \in DOMAIN m.connected_clients |->
               LET c == m.connected_clients[i]
               IN IF c.size = 0 THEN ClientInfo_ByteSizeLong(c) ELSE c]
  IN CacheSize([m EXCEPT !.connected_clients = cs],
               ClientsSize(cs) + StringSize(m, "broker_id", 0) + SystemStats_numbersSize(m))

SystemStats_ByteSizeLong(m) ==
  LET cs == [i \in DOMAIN m.connected_clients |-> ClientInfo_ByteSizeLong(m.connected_clients[i])]
  IN CacheSize([m EXCEPT !.connected_clients = cs],
               ClientsSize(cs) + StringSize(m, "broker_id", 0) + SystemStats_numbersSize(m))

SystemStats_MergeImpl(to, from) ==
  [to EXCEPT !.connected_clients = @ \o CopyClients(from.connected_clients),
             !.broker_id = MergeString(to, from, "broker_id", 0),
             !.clients_count = MergeNumber(to, from, "clients_count", 1),
             !.peers_count = MergeNumber(to, from, "peers_count", 2),
             !.kb_per_sec = MergeNumber(to, from, "kb_per_sec", 3),
             !.total_msgs = MergeNumber(to, from, "total_msgs", 4),
             !.uptime_sec = MergeNumber(to, from, "uptime_sec", 5),
             !.msgs_per_sec = MergeNumber(to, from, "msgs_per_sec", 6),
             !.has = @ \union from.has,
             !.unknown = @ \o from.unknown]

SystemStats_CopyFrom(to, from) == SystemStats_MergeImpl(SystemStats_Clear(to), from)

SystemStats_InternalSwap(m, from) ==
  TakeOver(m, from, {"unknown", "has", "connected_clients", "broker_id"} \union SystemStats_numbers)

SystemStats_broker_id(m, vs) == StringAccessors(m, "broker_id", 0, vs)

SystemStats_clients_count(m, ns) == NumberAccessors(m, "clients_count", 1, ns)

SystemStats_peers_count(m, ns) == NumberAccessors(m, "peers_count", 2, ns)

SystemStats_msgs_per_sec(m, ns) == NumberAccessors(m, "msgs_per_sec", 6, ns)

SystemStats_kb_per_sec(m, ns) == NumberAccessors(m, "kb_per_sec", 3, ns)

SystemStats_total_msgs(m, ns) == NumberAccessors(m, "total_msgs", 4, ns)

SystemStats_uptime_sec(m, ns) == NumberAccessors(m, "uptime_sec", 5, ns)

\* add and clear, and mutable(i), which lets the caller change element i.
SystemStats_connected_clients(m, ids, max) ==
  {[m EXCEPT !.connected_clients = <<>>]}
    \union {[m EXCEPT !.connected_clients = Append(@, ClientInfo_new)] :
              n \in {Len(m.connected_clients)} \cap 0 .. max - 1}
    \union UNION {{[m EXCEPT !.connected_clients[i] = c] :
                     c \in ClientInfo_id(m.connected_clients[i], ids)} :
                    i \in DOMAIN m.connected_clients}

SystemStats_access(f, m, vs, ids, ns, max) ==
  CASE f = "broker_id" -> SystemStats_broker_id(m, vs)
    [] f = "clients_count" -> SystemStats_clients_count(m, ns)
    [] f = "peers_count" -> SystemStats_peers_count(m, ns)
    [] f = "msgs_per_sec" -> SystemStats_msgs_per_sec(m, ns)
    [] f = "kb_per_sec" -> SystemStats_kb_per_sec(m, ns)
    [] f = "total_msgs" -> SystemStats_total_msgs(m, ns)
    [] f = "uptime_sec" -> SystemStats_uptime_sec(m, ns)
    [] f = "connected_clients" -> SystemStats_connected_clients(m, ids, max)
=============================================================================
