------------------------------- MODULE Codecs -------------------------------
(***************************************************************************)
(* Two message objects of one type, x and y, that a program fills, clears, *)
(* copies, merges, swaps and parses in any order, and what their bytes     *)
(* mean to every other reader: the same class, the C bindings, and a       *)
(* callback typed with another message.                                    *)
(***************************************************************************)
EXTENDS HeaderProto, StatsProto, UpdateProto, CBindings

CONSTANTS
  Strings,     \* values for string fields, in this model's pieces
  ElementIds,  \* those given to the elements of a repeated message
  Ints,        \* values for integer and floating-point fields
  ListMax,     \* bound: elements of a repeated field, and unknown fields
  NewerField   \* number of a field only a newer schema has

ASSUME CodecsAssumption == ListMax \in Nat \ {0} /\ ElementIds \subseteq Strings

VARIABLES
  type,        \* the message class of x and y
  touched,     \* the fields the program uses
  x, y         \* the two objects

vars == <<type, touched, x, y>>

Types == {"MessageHeader", "ClientInfo", "SystemStats", "Update"}

Proto(T) == CASE T = "MessageHeader" -> MessageHeader_proto
              [] T = "ClientInfo" -> ClientInfo_proto
              [] T = "SystemStats" -> SystemStats_proto
              [] T = "Update" -> Update_proto

New(T) == CASE T = "MessageHeader" -> MessageHeader_new
            [] T = "ClientInfo" -> ClientInfo_new
            [] T = "SystemStats" -> SystemStats_new
            [] T = "Update" -> Update_new

Copy(T, m) == CASE T = "MessageHeader" -> MessageHeader_copy(m)
                [] T = "ClientInfo" -> ClientInfo_copy(m)
                [] T = "SystemStats" -> SystemStats_copy(m)
                [] T = "Update" -> Update_copy(m)

Table(T) == CASE T = "MessageHeader" -> MessageHeader_table
              [] T = "ClientInfo" -> ClientInfo_table
              [] T = "SystemStats" -> SystemStats_table
              [] T = "Update" -> Update_table

Clear(T, m) == CASE T = "MessageHeader" -> MessageHeader_Clear(m)
                 [] T = "ClientInfo" -> ClientInfo_Clear(m)
                 [] T = "SystemStats" -> SystemStats_Clear(m)
                 [] T = "Update" -> Update_Clear(m)

InternalSerialize(T, m) == CASE T = "MessageHeader" -> MessageHeader_Serialize(m)
                             [] T = "ClientInfo" -> ClientInfo_Serialize(m)
                             [] T = "SystemStats" -> SystemStats_Serialize(m)
                             [] T = "Update" -> Update_Serialize(m)

ByteSizeLong(T, m) == CASE T = "MessageHeader" -> MessageHeader_ByteSizeLong(m)
                        [] T = "ClientInfo" -> ClientInfo_ByteSizeLong(m)
                        [] T = "SystemStats" -> SystemStats_ByteSizeLong(m)
                        [] T = "Update" -> Update_ByteSizeLong(m)

MergeFrom(T, to, from) == CASE T = "MessageHeader" -> MessageHeader_MergeImpl(to, from)
                            [] T = "ClientInfo" -> ClientInfo_MergeImpl(to, from)
                            [] T = "SystemStats" -> SystemStats_MergeImpl(to, from)
                            [] T = "Update" -> Update_MergeImpl(to, from)

CopyFrom(T, to, from) == CASE T = "MessageHeader" -> MessageHeader_CopyFrom(to, from)
                           [] T = "ClientInfo" -> ClientInfo_CopyFrom(to, from)
                           [] T = "SystemStats" -> SystemStats_CopyFrom(to, from)
                           [] T = "Update" -> Update_CopyFrom(to, from)

InternalSwap(T, m, from) == CASE T = "MessageHeader" -> MessageHeader_InternalSwap(m, from)
                              [] T = "ClientInfo" -> ClientInfo_InternalSwap(m, from)
                              [] T = "SystemStats" -> SystemStats_InternalSwap(m, from)
                              [] T = "Update" -> Update_InternalSwap(m, from)

Accessed(T, f, m) == CASE T = "MessageHeader" -> MessageHeader_access(f, m, Strings, Ints)
                       [] T = "ClientInfo" -> ClientInfo_access(f, m, Strings, ListMax)
                       [] T = "SystemStats" -> SystemStats_access(f, m, Strings, ElementIds, Ints, ListMax)
                       [] T = "Update" -> Update_access(f, m, Strings, Ints)

CPack(T, c) == CASE T = "MessageHeader" -> broker__message_header__pack(c)
                 [] T = "ClientInfo" -> broker__client_info__pack(c)
                 [] T = "SystemStats" -> broker__system_stats__pack(c)
                 [] T = "Update" -> communication__update__pack(c)

CUnpack(T, w) == CASE T = "MessageHeader" -> broker__message_header__unpack(w)
                   [] T = "ClientInfo" -> broker__client_info__unpack(w)
                   [] T = "SystemStats" -> broker__system_stats__unpack(w)
                   [] T = "Update" -> communication__update__unpack(w)

\* SerializeAsString measures the message, which refreshes the cached sizes.
SerializeAsString(T, m) == InternalSerialize(T, ByteSizeLong(T, m))

\* ParseFromString clears the target, then merges what the bytes hold.
ParseFromString(T, m, w) == MergeFromWire(Table(T), Clear(T, m), w)

(***************************************************************************)
(* Typed payloads: sendMessage packs the message into an Any; sendRequest  *)
(* sends its bare bytes; decodePayload takes either.                       *)
(***************************************************************************)
encodePayload(T, m) == PackAny(T, SerializeAsString(T, m))

\* A slip: an Any that holds another type is read again as a bare message.
tryUnpackPermissive(T, w) ==
  LET any == ParseAny(w)
  IN IF any.ok /\ any.url = <<"P", T>>
     THEN ParseFromString(T, New(T), any.val)
     ELSE ParseFromString(T, New(T), w)

tryUnpack(T, w) ==
  LET any == ParseAny(w)
  IN IF any.ok /\ any.url # <<>> /\ Head(any.url) = "P"
     THEN LET got == ParseFromString(T, New(T), any.val)
          IN [got EXCEPT !.ok = got.ok /\ any.url = <<"P", T>>]
     ELSE ParseFromString(T, New(T), w)

(***************************************************************************)
(* What a program can do with x and y.                                     *)
(***************************************************************************)
Fits(m) == /\ Len(m.unknown) <= ListMax
           /\ type = "ClientInfo" => Len(m.subscriptions) <= ListMax
           /\ type = "SystemStats" => Len(m.connected_clients) <= ListMax

\* The cached size of the outermost message is dead once its caller has it.
NewX(m) == Fits(m) /\ x' = [m EXCEPT !.size = 0] /\ UNCHANGED <<type, touched, y>>

Access == \E f \in touched : \E m \in Accessed(type, f, x) : NewX(m)

DoClear == NewX(Clear(type, x))

DoMerge == NewX(MergeFrom(type, x, y))

DoCopy == NewX(CopyFrom(type, x, y))

\* Swap, and a move assignment between objects of one arena.
DoSwap ==
  /\ x' = InternalSwap(type, x, y)
  /\ y' = InternalSwap(type, y, x)
  /\ UNCHANGED <<type, touched>>

\* Any call that measures the message leaves a size cached in its elements.
DoMeasure == type = "SystemStats" /\ NewX(ByteSizeLong(type, x))

\* The bytes of y, perhaps with a field this schema does not know.
DoParse ==
  \E extra \in {<<>>, <<Varint(NewerField, 1)>>} :
    NewX(ParseFromString(type, x, SerializeAsString(type, y) \o extra).msg)

\* Two fields next to each other in the schema; every field is in some pair.
Neighbours(T) ==
  LET nums == {Proto(T)[f][1] : f \in DOMAIN Proto(T)}
      after(n) == IF \E k \in nums : k > n
                  THEN CHOOSE k \in nums : k > n /\ \A j \in nums : j > n => k <= j
                  ELSE CHOOSE k \in nums : \A j \in nums : k <= j
  IN {{f \in DOMAIN Proto(T) : Proto(T)[f][1] \in {n, after(n)}} : n \in nums}

Init ==
  /\ type \in Types
  /\ touched \in Neighbours(type)
  /\ x = New(type)
  /\ y = New(type)

Next == Access \/ DoClear \/ DoMerge \/ DoCopy \/ DoSwap \/ DoMeasure \/ DoParse

Spec == Init /\ [][Next]_vars

(***************************************************************************)
(* What a reader of a message sees: the values of its getters.             *)
(***************************************************************************)
RECURSIVE View(_, _)

View(T, m) ==
  [f \in DOMAIN Proto(T) \union {"unknown"} |->
     IF f = "unknown" THEN m.unknown
     ELSE CASE Proto(T)[f][2] = "string" -> Get(m[f])
            [] Proto(T)[f][2] = "messages" -> [i \in DOMAIN m[f] |-> View("ClientInfo", m[f][i])]
            [] OTHER -> m[f]]

\* Every string that goes on the wire is UTF-8.
Clean(T, m) ==
  \A f \in DOMAIN Proto(T) :
    CASE Proto(T)[f][2] = "string" -> Utf8(Get(m[f]))
      [] Proto(T)[f][2] = "strings" -> \A i \in DOMAIN m[f] : Utf8(m[f][i])
      [] Proto(T)[f][2] = "messages" -> \A i \in DOMAIN m[f] : Utf8(Get(m[f][i].id))
      [] OTHER -> TRUE

\* The one field whose presence shows although it is empty.
PresentEmpty(T, m) == T = "Update" /\ has_message(m) /\ Get(m.message) = <<>>

(***************************************************************************)
(* A has-bit that is off means the field holds its default, so a field     *)
(* whose bit is off may be skipped by Clear, by _InternalSerialize and by  *)
(* ByteSizeLong; a string whose bit is on owns its text, so that           *)
(* ClearNonDefaultToEmpty never writes to the shared default.  Every       *)
(* accessor, MergeImpl, CopyFrom, the swap and the parser keep to this,    *)
(* each with its own list of bits.                                         *)
(***************************************************************************)
HasBitsSound ==
  \A n \in DOMAIN Table(type) :
    LET e == Table(type)[n]
    IN CASE e.kind = "string" -> IF e.b \in x.has THEN ~IsDefault(x[e.f]) ELSE Get(x[e.f]) = <<>>
         [] e.kind \in {"int", "double"} -> e.b \notin x.has => x[e.f] = 0
         [] OTHER -> TRUE

(***************************************************************************)
(* Whatever the history of the object, the bytes are those the schema      *)
(* defines: each non-default field once, under its number, in the order of *)
(* the numbers, and the unknown fields last.  (Update.message, which the   *)
(* committed class writes when it is present and empty, is the exception.) *)
(* They are as many as ByteSizeLong said, nested messages included:        *)
(* SerializeAsString sizes its buffer by the one and fills it by the       *)
(* other.                                                                  *)
(***************************************************************************)
WireIsSchema ==
  LET w == SerializeAsString(type, x)
      field(f) == SelectSeq(w, LAMBDA t : t.num = Proto(type)[f][1])
      values(f) == CASE Proto(type)[f][2] = "string" -> If(Get(x[f]) # <<>>, <<Get(x[f])>>)
                     [] Proto(type)[f][2] = "strings" -> x[f]
                     [] Proto(type)[f][2] = "messages" ->
                          [i \in DOMAIN x[f] |-> SerializeAsString("ClientInfo", x[f][i])]
                     [] OTHER -> If(x[f] # 0, <<x[f]>>)
      seen(f) == [i \in DOMAIN field(f) |-> CASE Proto(type)[f][2] \in {"int", "double"} -> field(f)[i].int
                                               [] Proto(type)[f][2] = "messages" -> field(f)[i].toks
                                               [] OTHER -> field(f)[i].chars]
  IN /\ ~PresentEmpty(type, x) => \A f \in DOMAIN Proto(type) : seen(f) = values(f)
     /\ \A i \in 1 .. Len(w) - 1 : w[i + 1].num < w[i].num => i >= Len(w) - Len(x.unknown)
     /\ ByteSizeLong(type, x).size = WireSize(w)

(***************************************************************************)
(* The receiver parses what was serialized to the same values, or, when a  *)
(* string is not UTF-8, which the sender only logs, rejects the message as *)
(* a whole.  wire::recv drops such a message.                              *)
(***************************************************************************)
RoundTrip ==
  LET r == ParseFromString(type, y, SerializeAsString(type, x))
  IN IF Clean(type, x) THEN r.ok /\ View(type, r.msg) = View(type, x) ELSE ~r.ok

(***************************************************************************)
(* Merging two messages in memory and parsing their bytes one after the    *)
(* other give the same message.                                            *)
(***************************************************************************)
MergeIsConcat ==
  Clean(type, x) /\ Clean(type, y) =>
    LET r == ParseFromString(type, New(type), SerializeAsString(type, x) \o SerializeAsString(type, y))
    IN r.ok /\ View(type, r.msg) = View(type, MergeFrom(type, x, y))

(***************************************************************************)
(* A copy, by the copy constructor or by CopyFrom onto an object with any  *)
(* past, reads like the original and serializes to the same bytes; a swap  *)
(* hands over everything but the cached size.                              *)
(***************************************************************************)
CopiesEqual ==
  \A m \in {Copy(type, y), CopyFrom(type, x, y), InternalSwap(type, x, y)} :
    /\ View(type, m) = View(type, y)
    /\ SerializeAsString(type, m) = SerializeAsString(type, y)

(***************************************************************************)
(* A C client and the C++ classes speak the same bytes in both directions: *)
(* a struct with the same values packs to the same bytes, and the C++      *)
(* bytes unpack to those values.  An empty Update.message that is present  *)
(* is where they part.                                                     *)
(***************************************************************************)
BindingsAgree ==
  LET w == SerializeAsString(type, x)
      c == View(type, x)
  IN /\ ~PresentEmpty(type, x) => CPack(type, c) = w
     /\ CUnpack(type, w) = c

(***************************************************************************)
(* A typed callback gets exactly what was sent to it as its own type, and  *)
(* a message of any other type is refused, not read into the wrong class.  *)
(* The bare bytes of a message are accepted too, unless its first string   *)
(* looks like the type URL of an Any.                                      *)
(***************************************************************************)
PayloadTyped ==
  LET bare == SerializeAsString(type, x)
      packed == encodePayload(type, x)
      sent == View(type, x)
      first == CASE type = "MessageHeader" -> x.handler_key
                 [] type = "SystemStats" -> x.broker_id
                 [] OTHER -> x.id
      looksLikeAny == Get(first) # <<>> /\ Head(Get(first)) = "P"
      Accepts(T, w, wanted) == LET r == tryUnpack(T, w)
                               IN  (r.ok <=> wanted) /\ (r.ok => View(T, r.msg) = sent)
  IN /\ \A T \in Types : Accepts(T, packed, T = type /\ Clean(type, x))
     /\ Accepts(type, bare, Clean(type, x) /\ ~looksLikeAny)
=============================================================================
