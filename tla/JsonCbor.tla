-------------------------------- MODULE JsonCbor --------------------------------
(* The reader and the writer of CBOR in json.hpp.  An initial byte has a *)
(* major type, its upper three bits, and an argument in or behind it.    *)
EXTENDS JsonBinary

Major(byte) == byte \div 32
Info(byte) == byte % 32
Indefinite == 31
Break == 255

\* The argument, for the initial bytes that have one.
Argument(b, i) ==
  LET info == Info(b[i])
  IN CASE info <= 23 -> Parsed(Word(info), i + 1)
       [] info \in 24 .. 27 -> get_unsigned(b, i + 1, 2 ^ (info - 24))
       [] OTHER -> ParseError

-----------------------------------------------------------------------------
\* Strings and byte arrays, of a known length or in chunks until a break.

RECURSIVE get_cbor_bytes(_, _, _), Chunks(_, _, _)
Chunks(b, r, major) ==
  IF ~r.ok THEN r
  ELSE IF At(b, r.next) = Break THEN Parsed(r.value, r.next + 1)
  ELSE LET chunk == get_cbor_bytes(b, r.next, major)
       IN Chunks(b, IF chunk.ok THEN Parsed(r.value \o chunk.value, chunk.next) ELSE chunk, major)

get_cbor_bytes(b, i, major) ==
  IF Major(At(b, i)) # major THEN ParseError
  ELSE IF Info(b[i]) = Indefinite THEN Chunks(b, Parsed(<<>>, i + 1), major)
  ELSE Then(Argument(b, i), LAMBDA len : get_string(b, len.next, len.value))

get_cbor_string(b, i) == get_cbor_bytes(b, i, 3)
get_cbor_binary(b, i) == get_cbor_bytes(b, i, 2)

-----------------------------------------------------------------------------
\* Numbers and the rest.

CborUnsigned(b, i) == As(Argument(b, i), Unsigned)
CborNegative(b, i) == As(As(Argument(b, i), Complement), Integer)

CborSimple(b, i) ==
  CASE b[i] = 244 -> Parsed(Boolean(FALSE), i + 1)
    [] b[i] = 245 -> Parsed(Boolean(TRUE), i + 1)
    [] b[i] = 246 -> Parsed(Null, i + 1)
    [] b[i] = 249 -> As(As(get_number(b, i + 1, 2), Half), Double)
    [] b[i] = 250 -> As(get_float(b, i + 1), Double)
    [] b[i] = 251 -> As(get_number(b, i + 1, 8), Double)
    [] OTHER -> ParseError

-----------------------------------------------------------------------------
\* Values.  tags is what to do with a tag: "error", "ignore" or "store".

Length(b, i) == IF Info(b[i]) = Indefinite THEN Parsed(Unknown, i + 1) ELSE Argument(b, i)

RECURSIVE parse_cbor_internal(_, _, _), CborItems(_, _, _, _)

\* The next item of r, which is an array or an object.
CborItem(b, r, tags) ==
  IF r.value.type = "array" THEN Appended(r, parse_cbor_internal(b, r.next, tags))
  ELSE Then(get_cbor_string(b, r.next), LAMBDA key : Set(r, key, parse_cbor_internal(b, key.next, tags)))

CborItems(b, r, turns, tags) ==
  IF ~r.ok \/ turns = 0 THEN r
  ELSE IF turns < 0 /\ At(b, r.next) = Break THEN Parsed(r.value, r.next + 1)
  ELSE CborItems(b, CborItem(b, r, tags), turns - 1, tags)

\* A length of all ones is taken for an unknown one.
CborTurns(b, r, len) == IF len = Unknown THEN Endless ELSE Turns(b, r, len)
get_cbor_array(b, i, len, tags) ==
  LET r == start_array(len, i) IN CborItems(b, r, CborTurns(b, r, len), tags)
get_cbor_object(b, i, len, tags) ==
  LET r == start_object(len, i) IN CborItems(b, r, CborTurns(b, r, len), tags)

\* A tag with an argument behind it is the subtype of the byte array that follows.
CborTagged(b, i, tags) ==
  LET wide == b[i] \in 216 .. 219
      tag == IF wide THEN Argument(b, i) ELSE Parsed(Unknown, i + 1)
  IN CASE b[i] \notin 198 .. 212 \cup 216 .. 219 \/ tags = "error" -> ParseError
       [] tags = "store" /\ wide -> Then(tag, LAMBDA t : As(get_cbor_binary(b, t.next), LAMBDA s : Binary(s, t.value)))
       [] OTHER -> Then(tag, LAMBDA t : parse_cbor_internal(b, t.next, tags))

parse_cbor_internal(b, i, tags) ==
  CASE At(b, i) = Eof -> ParseError
    [] Major(At(b, i)) = 0 -> CborUnsigned(b, i)
    [] Major(At(b, i)) = 1 -> CborNegative(b, i)
    [] Major(At(b, i)) = 2 -> As(get_cbor_binary(b, i), LAMBDA s : Binary(s, NoSubtype))
    [] Major(At(b, i)) = 3 -> As(get_cbor_string(b, i), String)
    [] Major(At(b, i)) = 4 -> Then(Length(b, i), LAMBDA len : get_cbor_array(b, len.next, len.value, tags))
    [] Major(At(b, i)) = 5 -> Then(Length(b, i), LAMBDA len : get_cbor_object(b, len.next, len.value, tags))
    [] Major(At(b, i)) = 6 -> CborTagged(b, i, tags)
    [] Major(At(b, i)) = 7 -> CborSimple(b, i)

from_cbor(b, tags) == Whole(b, parse_cbor_internal(b, 1, tags))

-----------------------------------------------------------------------------
\* Writing.

\* The initial byte and the shortest form of the argument.
Header(major, w) ==
  IF Fits(w, 1) /\ w[8] <= 23 THEN <<32 * major + w[8]>>
  ELSE LET info == CASE SizeOf(w) = 1 -> 24 [] SizeOf(w) = 2 -> 25 [] SizeOf(w) = 4 -> 26 [] SizeOf(w) = 8 -> 27
       IN <<32 * major + info>> \o Low(w, SizeOf(w))

write_cbor_integer(w) == IF Negative(w) THEN Header(1, Complement(w)) ELSE Header(0, w)

write_cbor_float(d) ==
  CASE IsNaN(d) -> <<249, 126, 0>>
    [] IsInf(d) -> <<249, IF Sign(d) = 0 THEN 124 ELSE 252, 0>>
    [] OTHER -> write_compact_float(d, 250, 251)

write_cbor_string(s) == Header(3, Word(Len(s))) \o s

\* The subtype is never written into the initial byte.
write_cbor_binary(v) ==
  LET size == SizeOf(v.subtype)
      tag == CASE v.subtype = NoSubtype -> <<>>
               [] OTHER -> <<CASE size = 1 -> 216 [] size = 2 -> 217 [] size = 4 -> 218 [] size = 8 -> 219>>
                           \o Low(v.subtype, size)
  IN tag \o Header(2, Word(Len(v.bytes))) \o v.bytes

RECURSIVE write_cbor(_)

write_cbor_array(v) == Header(4, Word(Len(v.items))) \o FlattenSeq([i \in DOMAIN v.items |-> write_cbor(v.items[i])])

write_cbor_object(v) ==
  LET keys == Keys(v)
  IN Header(5, Word(Len(keys))) \o FlattenSeq([i \in DOMAIN keys |-> write_cbor_string(keys[i]) \o write_cbor(v.fields[keys[i]])])

write_cbor(v) ==
  CASE v.type = "null" -> <<246>>
    [] v.type = "boolean" -> <<IF v.boolean THEN 245 ELSE 244>>
    [] v.type = "number_integer" -> write_cbor_integer(v.integer)
    [] v.type = "number_unsigned" -> Header(0, v.integer)
    [] v.type = "number_float" -> write_cbor_float(v.double)
    [] v.type = "string" -> write_cbor_string(v.string)
    [] v.type = "array" -> write_cbor_array(v)
    [] v.type = "binary" -> write_cbor_binary(v)
    [] v.type = "object" -> write_cbor_object(v)

=============================================================================
