-------------------------------- MODULE Formats --------------------------------
(***************************************************************************)
(* A value on its way through one of the binary formats: it is a document, *)
(* or is read from input that is put together piece by piece; then it is   *)
(* written, with any of the options of the writer, and read again.         *)
(***************************************************************************)
EXTENDS JsonUbjson

Cbor    == INSTANCE JsonCbor
MsgPack == INSTANCE JsonMsgPack
Bson    == INSTANCE JsonBson

CONSTANTS
  Documents,  \* per format, values that are written
  Alphabets   \* per name the format, the pieces, byte sequences, that an input is put
              \* together from, and a bound, how many

VARIABLES
  at,       \* "input", "value", "written", "back", or how it ended
  alphabet, \* that of the input, "none" for a document
  format,   \* "cbor", "msgpack", "bson", "ubjson" or "bjdata"
  typed,    \* pieces of the input so far
  input,    \* the bytes that were read
  value,    \* the value that is written
  options,  \* the options of the writer
  bytes,    \* what was written
  back      \* the value that was read again

vars == <<at, alphabet, format, typed, input, value, options, bytes, back>>

FormatNames == {"cbor", "msgpack", "bson", "ubjson", "bjdata"}

\* What to do with the tags of CBOR; the other readers have no options.
TagHandlers(fmt) == IF fmt = "cbor" THEN {"error", "ignore", "store"} ELSE {"error"}

\* use_size and use_type of UBJSON and BJData; a type needs a size.
WriterOptions(fmt) ==
  {o \in [fmt : {fmt}, count : BOOLEAN, type : BOOLEAN] :
     /\ o.type => o.count
     /\ fmt \notin {"ubjson", "bjdata"} => ~o.count}

NoOptions == [fmt |-> "none", count |-> FALSE, type |-> FALSE]

from_bytes(b, fmt, tags) ==
  CASE fmt = "cbor" -> Cbor!from_cbor(b, tags)
    [] fmt = "msgpack" -> MsgPack!from_msgpack(b)
    [] fmt = "bson" -> Bson!from_bson(b)
    [] fmt \in {"ubjson", "bjdata"} -> from_ubjson(b, fmt)

to_bytes(v, o) ==
  CASE o.fmt = "cbor" -> Parsed(Cbor!write_cbor(v), 0)
    [] o.fmt = "msgpack" -> Parsed(MsgPack!write_msgpack(v), 0)
    [] o.fmt = "bson" -> Bson!write_bson(v)
    [] o.fmt \in {"ubjson", "bjdata"} -> to_ubjson(v, o)

Init ==
  /\ \/ at = "input" /\ alphabet \in DOMAIN Alphabets /\ format = Alphabets[alphabet].fmt /\ value = Null
     \/ at = "value" /\ alphabet = "none" /\ format \in FormatNames /\ value \in Documents[format]
  /\ typed = 0 /\ input = <<>> /\ bytes = <<>> /\ back = Null
  /\ options = NoOptions

Types ==
  /\ at = "input" /\ typed < Alphabets[alphabet].max
  /\ \E piece \in Alphabets[alphabet].pieces : input' = input \o piece
  /\ typed' = typed + 1
  /\ UNCHANGED <<at, alphabet, format, value, options, bytes, back>>

Takes(r) ==
  /\ at' = IF r.ok THEN "value" ELSE r.exception
  /\ value' = IF r.ok THEN r.value ELSE value

Reads ==
  /\ at = "input"
  /\ \E tags \in TagHandlers(format) : Takes(from_bytes(input, format, tags))
  /\ UNCHANGED <<alphabet, format, typed, input, options, bytes, back>>

Puts(r) ==
  /\ at' = IF r.ok THEN "written" ELSE "unwritable"
  /\ bytes' = IF r.ok THEN r.value ELSE bytes

Writes ==
  /\ at = "value"
  /\ \E o \in WriterOptions(format) : options' = o /\ Puts(to_bytes(value, o))
  /\ UNCHANGED <<alphabet, format, typed, input, value, back>>

TakesBack(r) ==
  /\ at' = IF r.ok THEN "back" ELSE "lost"
  /\ back' = IF r.ok THEN r.value ELSE back

ReadsBack ==
  /\ at = "written"
  /\ TakesBack(from_bytes(bytes, format, "store"))
  /\ UNCHANGED <<alphabet, format, typed, input, value, options, bytes>>

Next == Types \/ Reads \/ Writes \/ ReadsBack

Spec == Init /\ [][Next]_vars

-----------------------------------------------------------------------------
\* Properties.

Integers_ == {"number_integer", "number_unsigned"}

\* The subtype of a byte array as the format keeps it: of MessagePack and BSON it is
\* one byte, and BSON always has one.
Subtype(subtype, fmt) ==
  CASE fmt = "cbor" \/ (fmt = "msgpack" /\ subtype = NoSubtype) -> subtype
    [] fmt = "bson" /\ subtype = NoSubtype -> Word(0)
    [] OTHER -> Padded(Low(subtype, 1))

\* w is v as the format keeps it: an integer may change its type if it has the same
\* value in both, a NaN stays one, UBJSON and BJData have arrays of numbers for byte
\* arrays, and BJData takes a matrix of one row for an array, of strings if its type
\* is char.
IsRow(v) == /\ v.type = "object" /\ IsAnnotated(v) /\ Len(Parts(v.fields[ArraySize])) = 2
            /\ BitsOf(Parts(v.fields[ArraySize])[1]) = Word(1)
RowOf(v) ==
  LET data == Parts(v.fields[ArrayData])
  IN Array(IF v.fields[ArrayType].string # bjd_types_map[CharMark] THEN data
           ELSE [i \in DOMAIN data |-> String(Low(BitsOf(data[i]), 1))])

RECURSIVE Kept(_, _, _)
Kept(v, w, fmt) ==
  CASE fmt = "bjdata" /\ IsRow(v) -> Kept(RowOf(v), w, fmt)
    [] v.type \in Integers_ -> /\ w.type \in Integers_ /\ w.integer = v.integer
                               /\ w.type = v.type \/ ~Negative(v.integer)
    [] v.type = "number_float" -> w.type = v.type /\ (w.double = v.double \/ (IsNaN(v.double) /\ IsNaN(w.double)))
    [] v.type = "array" -> /\ w.type = "array" /\ DOMAIN w.items = DOMAIN v.items
                           /\ \A i \in DOMAIN v.items : Kept(v.items[i], w.items[i], fmt)
    [] v.type = "object" -> /\ w.type = "object" /\ DOMAIN w.fields = DOMAIN v.fields
                            /\ \A k \in DOMAIN v.fields : Kept(v.fields[k], w.fields[k], fmt)
    [] v.type = "binary" -> IF fmt \in {"ubjson", "bjdata"}
                            THEN Kept(Array([i \in DOMAIN v.bytes |-> Unsigned(Word(v.bytes[i]))]), w, fmt)
                            ELSE w = Binary(v.bytes, Subtype(v.subtype, fmt))
    [] OTHER -> w = v

\* The mistake of the writer of BJData that README.md describes: the type of all the
\* numbers of a container is L, of eight bytes, and some are written as m, of four.
Misnamed(v, o) ==
  /\ o.fmt = "bjdata" /\ o.type
  /\ \E x \in Within(v) : /\ x.type \in {"array", "object"} /\ CommonType(Parts(x), o) = 76
                          /\ \E y \in Range(Parts(x)) : y.type = "number_unsigned" /\ Fits(y.integer, 4)

\* What was written is read again, as the value that was written, whatever the
\* options of the writer; but for the misnamed type.
WrittenIsRead ==
  ~Misnamed(value, options) => at # "lost" /\ (at = "back" => Kept(value, back, format))

\* The writers of CBOR and MessagePack choose the shortest form of every number and
\* length: input that was accepted does not get longer.  Only the half-precision
\* floating-point numbers of CBOR do.
HasHalf == format = "cbor" /\ 249 \in Range(input)
NeverLonger ==
  at = "written" /\ format \in {"cbor", "msgpack"} /\ typed > 0 /\ ~HasHalf => Len(bytes) <= Len(input)

\* The elements of BSON from i on end before the zero byte at end, if every size is
\* trusted; the reader trusts none of them.
RECURSIVE Framed(_, _, _)
Framed(b, i, end) ==
  IF i >= end THEN i = end /\ b[i] = 0
  ELSE LET name == Bson!get_bson_cstr(b, i + 1)
           v == name.next
           size == Small(Bson!get_bson_integer(b, v, 4).value)
           length == CASE b[i] \in {Bson!TypeDouble, Bson!TypeInt64} -> 8
                       [] b[i] = Bson!TypeString -> 4 + size
                       [] b[i] \in {Bson!TypeDocument, Bson!TypeArray} -> size
                       [] b[i] = Bson!TypeBinary -> 5 + size
                       [] b[i] = Bson!TypeBoolean -> 1
                       [] b[i] = Bson!TypeNull -> 0
                       [] b[i] = Bson!TypeInt32 -> 4
       IN /\ name.ok /\ v + length <= end
          /\ b[i] = Bson!TypeString => size > 0 /\ b[v + 3 + size] = 0
          /\ b[i] \in {Bson!TypeDocument, Bson!TypeArray} => Framed(b, v + 4, v + size - 1)
          /\ Framed(b, v + length, end)

\* The sizes in front of documents, arrays, strings and byte arrays, which are
\* computed before these are written, are those of what follows.
SizesAgree ==
  at = "written" /\ format = "bson"
  => /\ Small(Padded(Reverse(SubSeq(bytes, 1, 4)))) = Len(bytes)
     /\ Framed(bytes, 5, Len(bytes))

=============================================================================
