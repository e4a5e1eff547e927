------------------------------ MODULE JsonMsgPack ------------------------------
(* The reader and the writer of MessagePack in json.hpp.  A first byte says *)
(* what follows; the ranges of the short forms hold a length or a number.   *)
EXTENDS JsonBinary

\* The widths of the numbers behind the bytes that have one.
Strings == (217 :> 1) @@ (218 :> 2) @@ (219 :> 4)
Bins    == (196 :> 1) @@ (197 :> 2) @@ (198 :> 4)
Exts    == (199 :> 1) @@ (200 :> 2) @@ (201 :> 4)
FixExts == (212 :> 1) @@ (213 :> 2) @@ (214 :> 4) @@ (215 :> 8) @@ (216 :> 16)  \* the length itself
Uints   == (204 :> 1) @@ (205 :> 2) @@ (206 :> 4) @@ (207 :> 8)
Ints    == (208 :> 1) @@ (209 :> 2) @@ (210 :> 4) @@ (211 :> 8)
Arrays  == (220 :> 2) @@ (221 :> 4)
Maps    == (222 :> 2) @@ (223 :> 4)

-----------------------------------------------------------------------------
\* Reading.

get_msgpack_string(b, i) ==
  LET head == At(b, i)
  IN CASE head \in 160 .. 191 -> get_string(b, i + 1, Word(head % 32))
       [] head \in DOMAIN Strings -> Then(get_unsigned(b, i + 1, Strings[head]), LAMBDA len : get_string(b, len.next, len.value))
       [] OTHER -> ParseError

BadExt(b, subtype, len) ==
  Then(get_binary(b, subtype.next, len), LAMBDA s : Parsed(Binary(s.value, Extended(subtype.value)), s.next))

\* The subtype is one signed byte, kept as an unsigned one; the bytes follow it.
Ext(b, subtype, len) ==
  Then(get_binary(b, subtype.next, len), LAMBDA s : Parsed(Binary(s.value, Padded(subtype.value)), s.next))

get_msgpack_binary(b, i) ==
  LET head == b[i]
  IN CASE head \in DOMAIN Bins ->
            Then(get_unsigned(b, i + 1, Bins[head]), LAMBDA len :
              As(get_binary(b, len.next, len.value), LAMBDA s : Binary(s, NoSubtype)))
       [] head \in DOMAIN Exts ->
            Then(get_unsigned(b, i + 1, Exts[head]), LAMBDA len :
              Then(get_number(b, len.next, 1), LAMBDA subtype : Ext(b, subtype, len.value)))
       [] head \in DOMAIN FixExts ->
            Then(get_number(b, i + 1, 1), LAMBDA subtype : Ext(b, subtype, Word(FixExts[head])))

MsgPackNumber(b, i) ==
  LET head == b[i]
  IN CASE head \in 0 .. 127 -> Parsed(Unsigned(Word(head)), i + 1)
       [] head \in 224 .. 255 -> Parsed(Integer(Extended(<<head>>)), i + 1)
       [] head \in DOMAIN Uints -> As(get_unsigned(b, i + 1, Uints[head]), Unsigned)
       [] head \in DOMAIN Ints -> As(get_signed(b, i + 1, Ints[head]), Integer)
       [] head = 202 -> As(get_float(b, i + 1), Double)
       [] head = 203 -> As(get_number(b, i + 1, 8), Double)

RECURSIVE parse_msgpack_internal(_, _), MsgPackItems(_, _, _)

\* The items of r, which is an array or an object.
MsgPackItems(b, r, turns) ==
  IF ~r.ok \/ turns = 0 THEN r
  ELSE MsgPackItems(b, IF r.value.type = "array" THEN Appended(r, parse_msgpack_internal(b, r.next))
                       ELSE Then(get_msgpack_string(b, r.next), LAMBDA key : Set(r, key, parse_msgpack_internal(b, key.next))),
                    turns - 1)

get_msgpack_array(b, i, len)  == LET r == start_array(len, i) IN MsgPackItems(b, r, Turns(b, r, len))
get_msgpack_object(b, i, len) == LET r == start_object(len, i) IN MsgPackItems(b, r, Turns(b, r, len))

parse_msgpack_internal(b, i) ==
  LET head == At(b, i)
  IN CASE head = Eof -> ParseError
       [] head \in 128 .. 143 -> get_msgpack_object(b, i + 1, Word(head % 16))
       [] head \in 144 .. 159 -> get_msgpack_array(b, i + 1, Word(head % 16))
       [] head \in 160 .. 191 \cup DOMAIN Strings -> As(get_msgpack_string(b, i), String)
       [] head = 192 -> Parsed(Null, i + 1)
       [] head = 193 -> ParseError
       [] head \in {194, 195} -> Parsed(Boolean(head = 195), i + 1)
       [] head \in DOMAIN (Bins @@ Exts @@ FixExts) -> get_msgpack_binary(b, i)
       [] head \in DOMAIN Arrays ->
            Then(get_unsigned(b, i + 1, Arrays[head]), LAMBDA len : get_msgpack_array(b, len.next, len.value))
       [] head \in DOMAIN Maps ->
            Then(get_unsigned(b, i + 1, Maps[head]), LAMBDA len : get_msgpack_object(b, len.next, len.value))
       [] OTHER -> MsgPackNumber(b, i)

from_msgpack(b) == Whole(b, parse_msgpack_internal(b, 1))

-----------------------------------------------------------------------------
\* Writing.

\* The first byte with the shortest width of a table, and w in that width.
Shortest(table, w) ==
  LET head == CHOOSE h \in DOMAIN table :
                /\ Fits(w, table[h])
                /\ \A g \in DOMAIN table : Fits(w, table[g]) => table[h] <= table[g]
  IN <<head>> \o Low(w, table[head])

\* Only bytes less than max, which are in the first byte.
Short(base, max, n, table) == IF n < max THEN <<base + n>> ELSE Shortest(table, Word(n))

BadSigned(w) ==
  IF Extended(<<w[8]>>) = w /\ w[8] > 224 THEN <<w[8]>>
  ELSE LET head == CHOOSE h \in DOMAIN Ints :
                     /\ FitsSigned(w, Ints[h])
                     /\ \A g \in DOMAIN Ints : FitsSigned(w, Ints[g]) => Ints[h] <= Ints[g]
       IN <<head>> \o Low(w, Ints[head])

write_msgpack_unsigned(w) == IF Fits(w, 1) /\ w[8] < 128 THEN <<w[8]>> ELSE Shortest(Uints, w)

\* A negative integer.
write_msgpack_signed(w) ==
  IF Extended(<<w[8]>>) = w /\ w[8] >= 224 THEN <<w[8]>>
  ELSE LET head == CHOOSE h \in DOMAIN Ints :
                     /\ FitsSigned(w, Ints[h])
                     /\ \A g \in DOMAIN Ints : FitsSigned(w, Ints[g]) => Ints[h] <= Ints[g]
       IN <<head>> \o Low(w, Ints[head])

write_msgpack_string(s) == Short(160, 32, Len(s), Strings) \o s

\* Of the subtype only a byte is written.
write_msgpack_binary(v) ==
  LET n == Len(v.bytes)
      fixed == {h \in DOMAIN FixExts : FixExts[h] = n}
  IN IF v.subtype = NoSubtype THEN Shortest(Bins, Word(n)) \o v.bytes
     ELSE (IF fixed # {} THEN <<CHOOSE h \in fixed : TRUE>> ELSE Shortest(Exts, Word(n))) \o Low(v.subtype, 1) \o v.bytes

RECURSIVE write_msgpack(_)

write_msgpack_array(v) ==
  Short(144, 16, Len(v.items), Arrays) \o FlattenSeq([i \in DOMAIN v.items |-> write_msgpack(v.items[i])])

write_msgpack_object(v) ==
  LET keys == Keys(v)
  IN Short(128, 16, Len(keys), Maps)
     \o FlattenSeq([i \in DOMAIN keys |-> write_msgpack_string(keys[i]) \o write_msgpack(v.fields[keys[i]])])

write_msgpack(v) ==
  CASE v.type = "null" -> <<192>>
    [] v.type = "boolean" -> <<IF v.boolean THEN 195 ELSE 194>>
    [] v.type = "number_integer" -> IF Negative(v.integer) THEN write_msgpack_signed(v.integer)
                                    ELSE write_msgpack_unsigned(v.integer)
    [] v.type = "number_unsigned" -> write_msgpack_unsigned(v.integer)
    [] v.type = "number_float" -> write_compact_float(v.double, 202, 203)
    [] v.type = "string" -> write_msgpack_string(v.string)
    [] v.type = "array" -> write_msgpack_array(v)
    [] v.type = "binary" -> write_msgpack_binary(v)
    [] v.type = "object" -> write_msgpack_object(v)

=============================================================================
