------------------------------ MODULE Protobuf ------------------------------
(***************************************************************************)
(* What the generated message classes take from the protobuf runtime:      *)
(* ArenaStringPtr, WireFormatLite, the table-driven parser and Any.        *)
(*                                                                         *)
(* A message object is a record: one entry per field, and                  *)
(*     has      the set of has-bits that are on,                           *)
(*     unknown  the tokens of fields the schema does not have,             *)
(*     size     _cached_size_, written by ByteSizeLong.                    *)
(* A string is a sequence of pieces.  "c" is one byte of text, "!" a byte  *)
(* that is not UTF-8, "P" the twenty bytes "type.googleapis.com/"; the     *)
(* name of a message type is a piece too.  A string field holds <<>> when  *)
(* its pointer is the shared default, and <<s>> when it owns s.            *)
(*                                                                         *)
(* Bytes on the wire are a sequence of tokens, one per tag.                *)
(***************************************************************************)
EXTENDS Integers, Sequences, SequencesExt

Default == <<>>

Owned(s) == <<s>>

IsDefault(v) == v = Default

Get(v) == IF IsDefault(v) THEN <<>> ELSE v[1]

\* ClearToEmpty leaves the shared default alone and empties an owned string.
ClearToEmpty(v) == IF IsDefault(v) THEN v ELSE Owned(<<>>)

Utf8(s) == \A i \in DOMAIN s : s[i] # "!"

Chars(s) == FoldLeft(LAMBDA n, p : n + (IF p = "P" THEN 20 ELSE 1), 0, s)

VarintSize(n) == CASE n < 0 -> 10
                   [] n \in 0 .. 127 -> 1
                   [] OTHER -> 2

\* All tokens have one shape; the entries a wire type does not use are empty.
Token(num, wire, int, len, chars, toks) ==
  [num |-> num, wire |-> wire, int |-> int, len |-> len, chars |-> chars, toks |-> toks]

Varint(num, n) == Token(num, 0, n, 0, <<>>, <<>>)

Fixed64(num, n) == Token(num, 1, n, 0, <<>>, <<>>)

Text(num, s) == Token(num, 2, 0, Chars(s), s, <<>>)

Nested(num, len, toks) == Token(num, 2, 0, len, <<>>, toks)

RECURSIVE WireSize(_)

\* The bytes a sequence of tokens takes; every tag in use is one byte.
WireSize(w) ==
  FoldLeft(LAMBDA n, t : n + 1 + CASE t.wire = 0 -> VarintSize(t.int)
                                   [] t.wire = 1 -> 8
                                   [] t.wire = 2 -> VarintSize(t.len) + Chars(t.chars) + WireSize(t.toks),
           0, w)

(***************************************************************************)
(* One field of a generated function.  f names the field, b its has-bit    *)
(* and num its number, as the generated code spells them at that place.    *)
(***************************************************************************)
If(c, w) == IF c THEN w ELSE <<>>

WriteString(m, f, b, num) == If(b \in m.has /\ Get(m[f]) # <<>>, <<Text(num, Get(m[f]))>>)

WriteOptional(m, f, b, num) == If(b \in m.has, <<Text(num, Get(m[f]))>>)

\* A slip: a zero that was set is written.
WriteIntPresent(m, f, b, num) == If(b \in m.has, <<Varint(num, m[f])>>)

WriteInt(m, f, b, num) == If(b \in m.has /\ m[f] # 0, <<Varint(num, m[f])>>)

WriteDouble(m, f, b, num) == If(b \in m.has /\ m[f] # 0, <<Fixed64(num, m[f])>>)

WriteRepeated(m, f, num) == [i \in DOMAIN m[f] |-> Text(num, m[f][i])]

OptionalSize(m, f, b) ==
  IF b \in m.has THEN 1 + VarintSize(Chars(Get(m[f]))) + Chars(Get(m[f])) ELSE 0

StringSize(m, f, b) == IF Get(m[f]) # <<>> THEN OptionalSize(m, f, b) ELSE 0

\* A slip: the byte of the tag is forgotten.
IntSize(m, f, b) == IF b \in m.has /\ m[f] # 0 THEN VarintSize(m[f]) ELSE 0

IntSizePlusOne(m, f, b) == IF b \in m.has /\ m[f] # 0 THEN 1 + VarintSize(m[f]) ELSE 0

DoubleSize(m, f, b) == IF b \in m.has /\ m[f] # 0 THEN 9 ELSE 0

RepeatedSize(m, f) ==
  FoldLeft(LAMBDA n, s : n + 1 + VarintSize(Chars(s)) + Chars(s), 0, m[f])

\* MaybeComputeUnknownFieldsSize: adds the unknown fields, and caches the sum.
CacheSize(m, n) == [m EXCEPT !.size = n + WireSize(m.unknown)]

\* ClearNonDefaultToEmpty writes through the pointer without looking at it.
ClearNonDefault(m, f, b) ==
  IF b \in m.has THEN Owned(<<>>) ELSE m[f]

\* A slip: an empty string is not taken over, although its has-bit is.
MergeNonEmpty(to, from, f, b) ==
  IF b \in from.has /\ Get(from[f]) # <<>> THEN Owned(Get(from[f])) ELSE to[f]

MergeString(to, from, f, b) ==
  CASE b \notin from.has -> to[f]
    [] b \in from.has /\ Get(from[f]) # <<>> -> Owned(Get(from[f]))
    [] OTHER -> IF IsDefault(to[f]) THEN Owned(<<>>) ELSE to[f]

MergeOptional(to, from, f, b) == IF b \in from.has THEN Owned(Get(from[f])) ELSE to[f]

MergeNumber(to, from, f, b) == IF b \in from.has /\ from[f] # 0 THEN from[f] ELSE to[f]

\* What a copy constructor or a swap takes over: the entries it lists.
TakeOver(to, from, fs) == [f \in DOMAIN to |-> IF f \in fs THEN from[f] ELSE to[f]]

(***************************************************************************)
(* The accessors of one field: the objects one call can leave behind.      *)
(* vs are the values an application passes.                                *)
(***************************************************************************)
On(m, f, b, v) == [m EXCEPT !.has = @ \union {b}, ![f] = v]

Off(m, f, b, v) == [m EXCEPT !.has = @ \ {b}, ![f] = v]

clear_string(m, f, b) == Off(m, f, b, ClearToEmpty(m[f]))

set_string(m, f, b, s) == On(m, f, b, Owned(s))

mutable_string(m, f, b) == On(m, f, b, Owned(Get(m[f])))

release_string(m, f, b) == IF b \in m.has THEN Off(m, f, b, Default) ELSE m

StringAccessors(m, f, b, vs) ==
  {clear_string(m, f, b), mutable_string(m, f, b), release_string(m, f, b),
   Off(m, f, b, Default)}                                 \* set_allocated(nullptr)
    \union {set_string(m, f, b, s) : s \in vs}            \* and set_allocated(new)

NumberAccessors(m, f, b, vs) == {Off(m, f, b, 0)} \union {On(m, f, b, n) : n \in vs}

RepeatedAccessors(m, f, vs, max) ==
  {[m EXCEPT ![f] = <<>>]}
    \union {[m EXCEPT ![f] = Append(@, s)] : s \in {x \in vs : Len(m[f]) < max}}
    \union {[m EXCEPT ![f][i] = s] : i \in DOMAIN m[f], s \in vs}

(***************************************************************************)
(* The parser.  An entry of a parse table is the field, its has-bit, its   *)
(* kind, and the table and empty object of a nested message.               *)
(***************************************************************************)
NoSub == [table |-> <<>>, new |-> <<>>]

Entry(f, b, kind) == [f |-> f, b |-> b, kind |-> kind, sub |-> NoSub]

WireType(kind) == CASE kind = "int" -> 0
                    [] kind = "double" -> 1
                    [] OTHER -> 2

RECURSIVE MergeFromWire(_, _, _)

\* One token into r.msg, unless an earlier one has failed the parse.
ParseToken(table, r, t) ==
  IF ~r.ok THEN r
  ELSE IF t.num \notin DOMAIN table \/ t.wire # WireType(table[t.num].kind)
  THEN [r EXCEPT !.msg.unknown = Append(@, t)]
  ELSE LET e == table[t.num]
       IN CASE e.kind = "string" ->
                 IF Utf8(t.chars) THEN [r EXCEPT !.msg = On(r.msg, e.f, e.b, Owned(t.chars))]
                 ELSE [r EXCEPT !.ok = FALSE]
            [] e.kind \in {"int", "double"} -> [r EXCEPT !.msg = On(r.msg, e.f, e.b, t.int)]
            [] e.kind = "strings" ->
                 IF Utf8(t.chars) THEN [r EXCEPT !.msg[e.f] = Append(@, t.chars)]
                 ELSE [r EXCEPT !.ok = FALSE]
            [] e.kind = "messages" ->
                 LET s == MergeFromWire(e.sub.table, e.sub.new, t.toks)
                 IN IF s.ok /\ t.len = WireSize(t.toks)
                    THEN [r EXCEPT !.msg[e.f] = Append(@, s.msg)]
                    ELSE [r EXCEPT !.ok = FALSE]

MergeFromWire(table, m, w) ==
  FoldLeft(LAMBDA r, t : ParseToken(table, r, t), [ok |-> TRUE, msg |-> m], w)

(***************************************************************************)
(* google.protobuf.Any around serialized bytes.                            *)
(***************************************************************************)
PackAny(T, w) == <<Text(1, <<"P", T>>)>> \o If(w # <<>>, <<Nested(2, WireSize(w), w)>>)

\* Any's own parse: the last type_url and the last value win.
ParseAny(w) ==
  [ok  |-> \A i \in DOMAIN w : w[i].num = 1 /\ w[i].wire = 2 => Utf8(w[i].chars),
   url |-> FoldLeft(LAMBDA u, t : IF t.num = 1 /\ t.wire = 2 THEN t.chars ELSE u, <<>>, w),
   val |-> FoldLeft(LAMBDA v, t : IF t.num = 2 /\ t.wire = 2 THEN t.toks ELSE v, <<>>, w)]
=============================================================================
