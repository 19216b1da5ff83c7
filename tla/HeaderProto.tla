---------------------------- MODULE HeaderProto ----------------------------
(***************************************************************************)
(* broker::MessageHeader: the functions protoc generates for it, each with *)
(* the fields, has-bits and numbers it spells out for itself.  Nothing     *)
(* here is derived from anything else here: that the lists agree is what   *)
(* the properties of module Codecs are about.                              *)
(***************************************************************************)
EXTENDS Protobuf, TLC

\* broker.proto, the schema the generated code is to implement.
MessageHeader_proto ==
  [handler_key      |-> <<1, "string">>,
   sender_id        |-> <<2, "string">>,
   topic            |-> <<3, "string">>,
   origin_broker_id |-> <<5, "string">>,
   message_uuid     |-> <<6, "string">>,
   transfer_id      |-> <<7, "string">>,
   sequence_number  |-> <<8, "int">>,
   sequence_count   |-> <<9, "int">>,
   reply_topic      |-> <<11, "string">>]

MessageHeader_new ==
  [has |-> {}, unknown |-> <<>>, size |-> 0,
   handler_key |-> Default, sender_id |-> Default, topic |-> Default,
   origin_broker_id |-> Default, message_uuid |-> Default,
   transfer_id |-> Default, reply_topic |-> Default,
   sequence_number |-> 0, sequence_count |-> 0]

MessageHeader_copy(from) ==
  TakeOver(MessageHeader_new, from,
           {"has", "unknown", "handler_key", "sender_id", "topic", "origin_broker_id",
            "message_uuid", "transfer_id", "reply_topic", "sequence_number", "sequence_count"})

MessageHeader_table ==
     1 :> Entry("handler_key", 0, "string")
  @@ 2 :> Entry("sender_id", 1, "string")
  @@ 3 :> Entry("topic", 2, "string")
  @@ 5 :> Entry("origin_broker_id", 3, "string")
  @@ 6 :> Entry("message_uuid", 4, "string")
  @@ 7 :> Entry("transfer_id", 5, "string")
  @@ 8 :> Entry("sequence_number", 7, "int")
  @@ 9 :> Entry("sequence_count", 8, "int")
  @@ 11 :> Entry("reply_topic", 6, "string")

MessageHeader_Clear(m) ==
  [m EXCEPT !.handler_key = ClearNonDefault(m, "handler_key", 0),
            !.sender_id = ClearNonDefault(m, "sender_id", 1),
            !.topic = ClearNonDefault(m, "topic", 2),
            !.origin_broker_id = ClearNonDefault(m, "origin_broker_id", 3),
            !.message_uuid = ClearNonDefault(m, "message_uuid", 4),
            !.transfer_id = ClearNonDefault(m, "transfer_id", 5),
            !.reply_topic = ClearNonDefault(m, "reply_topic", 6),
            !.sequence_number = 0,
            !.sequence_count = 0,
            !.has = {},
            !.unknown = <<>>]

MessageHeader_Serialize(m) ==
     WriteString(m, "handler_key", 0, 1)
  \o WriteString(m, "sender_id", 1, 2)
  \o WriteString(m, "topic", 2, 3)
  \o WriteString(m, "origin_broker_id", 3, 5)
  \o WriteString(m, "message_uuid", 4, 6)
  \o WriteString(m, "transfer_id", 5, 7)
  \o WriteInt(m, "sequence_number", 7, 8)
  \o WriteInt(m, "sequence_count", 8, 9)
  \o WriteString(m, "reply_topic", 6, 11)
  \o m.unknown

MessageHeader_ByteSizeLong(m) ==
  CacheSize(m, StringSize(m, "handler_key", 0)
             + StringSize(m, "sender_id", 1)
             + StringSize(m, "topic", 2)
             + StringSize(m, "origin_broker_id", 3)
             + StringSize(m, "message_uuid", 4)
             + StringSize(m, "transfer_id", 5)
             + StringSize(m, "reply_topic", 6)
             + IntSizePlusOne(m, "sequence_number", 7)
             + IntSizePlusOne(m, "sequence_count", 8))

MessageHeader_MergeImpl(to, from) ==
  [to EXCEPT !.handler_key = MergeString(to, from, "handler_key", 0),
             !.sender_id = MergeString(to, from, "sender_id", 1),
             !.topic = MergeString(to, from, "topic", 2),
             !.origin_broker_id = MergeString(to, from, "origin_broker_id", 3),
             !.message_uuid = MergeString(to, from, "message_uuid", 4),
             !.transfer_id = MergeString(to, from, "transfer_id", 5),
             !.reply_topic = MergeString(to, from, "reply_topic", 6),
             !.sequence_number = MergeNumber(to, from, "sequence_number", 7),
             !.sequence_count = MergeNumber(to, from, "sequence_count", 8),
             !.has = @ \union from.has,
             !.unknown = @ \o from.unknown]

MessageHeader_CopyFrom(to, from) == MessageHeader_MergeImpl(MessageHeader_Clear(to), from)

MessageHeader_InternalSwap(m, from) ==
  TakeOver(m, from, {"unknown", "has", "handler_key", "sender_id", "topic", "origin_broker_id",
                     "message_uuid", "transfer_id", "reply_topic",
                     "sequence_number", "sequence_count"})

(***************************************************************************)
(* The accessors of each field, for the values vs (strings) and ns (ints). *)
(***************************************************************************)
MessageHeader_handler_key(m, vs) == StringAccessors(m, "handler_key", 0, vs)

MessageHeader_sender_id(m, vs) == StringAccessors(m, "sender_id", 1, vs)

MessageHeader_topic(m, vs) == StringAccessors(m, "topic", 2, vs)

MessageHeader_origin_broker_id(m, vs) == StringAccessors(m, "origin_broker_id", 3, vs)

MessageHeader_message_uuid(m, vs) == StringAccessors(m, "message_uuid", 4, vs)

MessageHeader_transfer_id(m, vs) == StringAccessors(m, "transfer_id", 5, vs)

MessageHeader_sequence_number(m, ns) == NumberAccessors(m, "sequence_number", 7, ns)

MessageHeader_sequence_count(m, ns) == NumberAccessors(m, "sequence_count", 8, ns)

MessageHeader_reply_topic(m, vs) == StringAccessors(m, "reply_topic", 6, vs)

MessageHeader_access(f, m, vs, ns) ==
  CASE f = "handler_key" -> MessageHeader_handler_key(m, vs)
    [] f = "sender_id" -> MessageHeader_sender_id(m, vs)
    [] f = "topic" -> MessageHeader_topic(m, vs)
    [] f = "origin_broker_id" -> MessageHeader_origin_broker_id(m, vs)
    [] f = "message_uuid" -> MessageHeader_message_uuid(m, vs)
    [] f = "transfer_id" -> MessageHeader_transfer_id(m, vs)
    [] f = "sequence_number" -> MessageHeader_sequence_number(m, ns)
    [] f = "sequence_count" -> MessageHeader_sequence_count(m, ns)
    [] f = "reply_topic" -> MessageHeader_reply_topic(m, vs)
=============================================================================
