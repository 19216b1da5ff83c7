----------------------------- MODULE CBindings -----------------------------
(***************************************************************************)
(* The protobuf-c bindings.  A C message is a plain struct, here a record  *)
(* of its members; packing and unpacking are done by libprotobuf-c, driven *)
(* by the descriptors protoc-c generates.                                  *)
(***************************************************************************)
EXTENDS Protobuf

NoDescriptor == <<>>

\* A field descriptor: name, number, label, type, and a nested descriptor.
Field(name, id, label, type, desc) ==
  [name |-> name, id |-> id, label |-> label, type |-> type, desc |-> desc]

Plain(name, id, type) == Field(name, id, "none", type, NoDescriptor)

broker__message_header__descriptor ==
  <<Plain("handler_key", 1, "string"),
    Plain("sender_id", 2, "string"),
    Plain("topic", 3, "string"),
    Plain("origin_broker_id", 5, "string"),
    Plain("message_uuid", 6, "string"),
    Plain("transfer_id", 7, "string"),
    Plain("sequence_number", 8, "int"),
    Plain("sequence_count", 9, "int"),
    Plain("reply_topic", 11, "string")>>

broker__client_info__descriptor ==
  <<Plain("id", 1, "string"),
    Field("subscriptions", 2, "repeated", "string", NoDescriptor)>>

\* A slip: generated before msgs_per_sec was added, so later numbers shift.
system_stats_stale ==
  <<Plain("broker_id", 1, "string"),
    Plain("clients_count", 2, "int"),
    Plain("peers_count", 3, "int"),
    Plain("kb_per_sec", 4, "double"),
    Plain("total_msgs", 5, "int"),
    Plain("uptime_sec", 6, "int"),
    Field("connected_clients", 7, "repeated", "message", broker__client_info__descriptor)>>

broker__system_stats__descriptor ==
  <<Plain("broker_id", 1, "string"),
    Plain("clients_count", 2, "int"),
    Plain("peers_count", 3, "int"),
    Plain("msgs_per_sec", 4, "int"),
    Plain("kb_per_sec", 5, "double"),
    Plain("total_msgs", 6, "int"),
    Plain("uptime_sec", 7, "int"),
    Field("connected_clients", 8, "repeated", "message", broker__client_info__descriptor)>>

communication__update__descriptor ==
  <<Plain("id", 1, "string"),
    Plain("message", 2, "string"),
    Plain("timestamp_utc", 3, "int")>>

(***************************************************************************)
(* libprotobuf-c: a field without label is skipped when it is zero.        *)
(***************************************************************************)
RECURSIVE c_pack(_, _)

c_token(fd, v) ==
  CASE fd.type = "string" -> Text(fd.id, v)
    [] fd.type = "int" -> Varint(fd.id, v)
    [] fd.type = "double" -> Fixed64(fd.id, v)
    [] fd.type = "message" -> LET w == c_pack(fd.desc, v) IN Nested(fd.id, WireSize(w), w)

c_field(fd, v) ==
  CASE fd.label = "repeated" -> [i \in DOMAIN v |-> c_token(fd, v[i])]
    [] fd.label = "none" /\ fd.type = "string" -> If(v # <<>>, <<c_token(fd, v)>>)
    [] OTHER -> If(v # 0, <<c_token(fd, v)>>)

c_pack(desc, c) ==
  FoldLeft(LAMBDA w, fd : w \o c_field(fd, c[fd.name]), <<>>, desc) \o c.unknown

\* The initial value of a member: what the INIT macro of its struct gives it.
c_init(desc) ==
  [name \in {desc[i].name : i \in DOMAIN desc} \union {"unknown"} |->
     IF \E i \in DOMAIN desc : desc[i].name = name /\ desc[i].label = "none" /\ desc[i].type # "string"
     THEN 0 ELSE <<>>]

RECURSIVE c_unpack(_, _)

c_value(fd, t) ==
  CASE fd.type = "string" -> t.chars
    [] fd.type = "message" -> c_unpack(fd.desc, t.toks)
    [] OTHER -> t.int

c_wire(fd) == WireType(fd.type)

c_member(desc, c, t) ==
  LET is == {i \in DOMAIN desc : desc[i].id = t.num /\ c_wire(desc[i]) = t.wire}
  IN IF is = {} THEN [c EXCEPT !.unknown = Append(@, t)]
     ELSE LET fd == desc[CHOOSE i \in is : TRUE]
          IN [c EXCEPT ![fd.name] = IF fd.label = "repeated" THEN Append(@, c_value(fd, t))
                                    ELSE c_value(fd, t)]

c_unpack(desc, w) == FoldLeft(LAMBDA c, t : c_member(desc, c, t), c_init(desc), w)

(***************************************************************************)
(* The generated entry points.                                             *)
(***************************************************************************)
broker__message_header__pack(c) == c_pack(broker__message_header__descriptor, c)

broker__message_header__unpack(w) == c_unpack(broker__message_header__descriptor, w)

broker__client_info__pack(c) == c_pack(broker__client_info__descriptor, c)

broker__client_info__unpack(w) == c_unpack(broker__client_info__descriptor, w)

broker__system_stats__pack(c) == c_pack(broker__system_stats__descriptor, c)

broker__system_stats__unpack(w) == c_unpack(broker__system_stats__descriptor, w)

communication__update__pack(c) == c_pack(communication__update__descriptor, c)

communication__update__unpack(w) == c_unpack(communication__update__descriptor, w)
=============================================================================
