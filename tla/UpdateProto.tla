---------------------------- MODULE UpdateProto ----------------------------
(***************************************************************************)
(* communication::Update, the payload type of the examples.  The committed *)
(* generated code treats message as an "optional" field: its presence      *)
(* shows on the wire even when it is empty.  update.proto declares it      *)
(* without presence.                                                       *)
(***************************************************************************)
EXTENDS Protobuf, TLC

Update_proto == [id |-> <<1, "string">>, message |-> <<2, "string">>, timestamp_utc |-> <<3, "int">>]

Update_new ==
  [has |-> {}, unknown |-> <<>>, size |-> 0,
   id |-> Default, message |-> Default, timestamp_utc |-> 0]

Update_copy(from) ==
  TakeOver(Update_new, from, {"has", "unknown", "id", "message", "timestamp_utc"})

Update_table ==
     1 :> Entry("id", 0, "string")
  @@ 2 :> Entry("message", 1, "string")
  @@ 3 :> Entry("timestamp_utc", 2, "int")

Update_Clear(m) ==
  [m EXCEPT !.id = ClearNonDefault(m, "id", 0),
            !.message = ClearNonDefault(m, "message", 1),
            !.timestamp_utc = 0,
            !.has = {},
            !.unknown = <<>>]

Update_Serialize(m) ==
     WriteString(m, "id", 0, 1)
  \o WriteOptional(m, "message", 1, 2)
  \o WriteInt(m, "timestamp_utc", 2, 3)
  \o m.unknown

Update_ByteSizeLong(m) ==
  CacheSize(m, StringSize(m, "id", 0)
             + OptionalSize(m, "message", 1)
             + IntSizePlusOne(m, "timestamp_utc", 2))

Update_MergeImpl(to, from) ==
  [to EXCEPT !.id = MergeString(to, from, "id", 0),
             !.message = MergeOptional(to, from, "message", 1),
             !.timestamp_utc = MergeNumber(to, from, "timestamp_utc", 2),
             !.has = @ \union from.has,
             !.unknown = @ \o from.unknown]

\* A slip: the copy starts from what the target held.
Update_CopyOnto(to, from) == Update_MergeImpl(to, from)

Update_CopyFrom(to, from) == Update_MergeImpl(Update_Clear(to), from)

Update_InternalSwap(m, from) ==
  TakeOver(m, from, {"unknown", "has", "id", "message", "timestamp_utc"})

Update_id(m, vs) == StringAccessors(m, "id", 0, vs)

has_message(m) == 1 \in m.has

Update_message(m, vs) == StringAccessors(m, "message", 1, vs)

Update_timestamp_utc(m, ns) == NumberAccessors(m, "timestamp_utc", 2, ns)

Update_access(f, m, vs, ns) ==
  CASE f = "id" -> Update_id(m, vs)
    [] f = "message" -> Update_message(m, vs)
    [] f = "timestamp_utc" -> Update_timestamp_utc(m, ns)
=============================================================================
