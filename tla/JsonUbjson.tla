------------------------------- MODULE JsonUbjson -------------------------------
(***************************************************************************)
(* The reader and the writer of UBJSON and of BJData in json.hpp, which    *)
(* differ in the order of the bytes of a number, in the unsigned types,    *)
(* and in arrays of several dimensions.  A value is a marker, an ASCII     *)
(* letter, and what it announces; markers N in front of another one say    *)
(* nothing.  fmt is "ubjson" or "bjdata".                                  *)
(***************************************************************************)
EXTENDS JsonBinary

CONSTANT Nearest(_)  \* the double nearest to a decimal text, which is external

\* The lexer, of which the form of a number is wanted here, and no number's value.
Lexer == INSTANCE JsonLexer WITH
  Precision <- 53, MaxExponent <- 1024, Width <- 64, kAlpha <- -60, kGamma <- -32,
  kCachedPowersMinDecExp <- -300, kCachedPowersDecStep <- 8, CachedPowers <- 79, kMinExp <- -4, kMaxExp <- 15,
  UnsignedMax <- 0, IntegerMin <- 0, IntegerMax <- 0

-----------------------------------------------------------------------------
\* Markers.

NoType      == 0
TypeMark    == 36  \* $
SizeMark    == 35  \* #
NoopMark    == 78  \* N
ArrayMark   == 91  \* [
ArrayEnd    == 93  \* ]
ObjectMark  == 123 \* {
ObjectEnd   == 125 \* }
CharMark    == 67  \* C
StringMark  == 83  \* S
DecimalMark == 72  \* H
TrueMark    == 84  \* T
FalseMark   == 70  \* F
NullMark    == 90  \* Z
HalfMark    == 104 \* h
SingleMark  == 100 \* d
DoubleMark  == 68  \* D

\* i I l L, and U u m M.
Signeds   == (105 :> 1) @@ (73 :> 2) @@ (108 :> 4) @@ (76 :> 8)
Unsigneds == (85 :> 1) @@ (117 :> 2) @@ (109 :> 4) @@ (77 :> 8)
Widths == Signeds @@ Unsigneds

\* u m M h are BJData's.
Known(marker, fmt) == fmt = "bjdata" \/ marker \notin {117, 109, 77, HalfMark}
IsInteger(marker, fmt) == marker \in DOMAIN Widths /\ Known(marker, fmt)

\* bjd_optimized_type_markers: no type for all the items of a container.
Unoptimized == {ArrayMark, ObjectMark, StringMark, DecimalMark, TrueMark, FalseMark, NoopMark, NullMark}

Ordered(bytes, fmt) == IF fmt = "bjdata" THEN Reverse(bytes) ELSE bytes

-----------------------------------------------------------------------------
\* Reading.

\* get_ignore_noop: the next marker, and the position behind it.
Marker(b, i) ==
  LET j == CHOOSE j \in i .. i + Len(b) + 1 : At(b, j) # NoopMark /\ \A k \in i .. j - 1 : b[k] = NoopMark
  IN Parsed(At(b, j), j + 1)

get_ubjson_number(b, i, n, fmt) == As(get_number(b, i, n), LAMBDA s : Ordered(s, fmt))
get_ubjson_integer(b, marker, i, fmt) ==
  As(get_ubjson_number(b, i, Widths[marker], fmt), LAMBDA s : IF marker \in DOMAIN Signeds THEN Extended(s) ELSE Padded(s))

IsNegative(marker, w) == marker \in DOMAIN Signeds /\ Negative(w)

\* A negative length is an empty string.
StringOf(b, marker, i, fmt) ==
  IF ~IsInteger(marker, fmt) THEN ParseError
  ELSE Then(get_ubjson_integer(b, marker, i, fmt), LAMBDA len :
         IF IsNegative(marker, len.value) THEN Parsed(<<>>, len.next) ELSE get_string(b, len.next, len.value))
get_ubjson_string(b, i, fmt) == StringOf(b, At(b, i), i + 1, fmt)

-----------------------------------------------------------------------------
\* The size of a container, and its dimensions if it has more than one.

NoSize == [count |-> Unknown, type |-> NoType, dims |-> <<>>]
Count(w) == [NoSize EXCEPT !.count = w]

\* What the vector of the dimensions stands for: a row is no array of more than one
\* dimension.  The product of the others must be a count, and not wrap to zero.
Dimensions(dims, next) ==
  LET products == [k \in DOMAIN dims |-> FoldLeft(Product, Word(1), SubSeq(dims, 1, k))]
  IN CASE dims = <<>> \/ Word(0) \in Range(dims) -> Parsed(Count(Word(0)), next)
       [] Len(dims) = 1 \/ (Len(dims) = 2 /\ dims[1] = Word(1)) -> Parsed(Count(Last(dims)), next)
       [] OTHER -> IF Range(products) \cap {Word(0), Unknown} # {} THEN Failed("out_of_range")
                   ELSE Parsed([Count(Last(products)) EXCEPT !.dims = dims], next)

RECURSIVE get_ubjson_ndarray_size(_, _, _)

\* With the marker read; a zero byte makes it read another one.  Inside of a vector
\* of dimensions there is no other.
get_ubjson_size_value(b, prefix, i, fmt, inside) ==
  LET read == IF prefix = 0 THEN Marker(b, i) ELSE Parsed(prefix, i)
      marker == read.value
  IN CASE IsInteger(marker, fmt) ->
            Then(get_ubjson_integer(b, marker, read.next, fmt), LAMBDA n :
              IF IsNegative(marker, n.value) THEN ParseError ELSE Parsed(Count(n.value), n.next))
       [] marker = ArrayMark /\ fmt = "bjdata" /\ ~inside ->
            Then(get_ubjson_ndarray_size(b, read.next, fmt), LAMBDA dims : Dimensions(dims.value, dims.next))
       [] OTHER -> ParseError

\* Behind a type a size must follow.  The type may be N, so that it is not skipped.
\* A size without a type is of one dimension, and so is one of a dimension.
get_ubjson_size_type(b, i, fmt, inside) ==
  LET first == Marker(b, i)
      type == At(b, first.next)
      hash == Marker(b, first.next + 1)
      Sized(j) == get_ubjson_size_value(b, 0, j, fmt, FALSE)
  IN CASE first.value = TypeMark ->
            IF type = Eof \/ (fmt = "bjdata" /\ type \in Unoptimized) \/ hash.value # SizeMark THEN ParseError
            ELSE Then(Sized(hash.next), LAMBDA s : IF inside /\ s.value.dims # <<>> THEN ParseError
                                                   ELSE Parsed([s.value EXCEPT !.type = type], s.next))
       [] first.value = SizeMark ->
            Then(Sized(first.next), LAMBDA s : IF s.value.dims # <<>> THEN ParseError ELSE s)
       [] OTHER -> Parsed(NoSize, first.next)

\* The dimensions, with a type for all of them, or as many with a type each, or
\* until the vector ends; in that case the last byte read is a marker already.
RECURSIVE DimensionList(_, _, _, _, _)
DimensionList(b, dims, turns, type, fmt) ==
  LET marker == IF turns < 0 THEN At(b, dims.next - 1) ELSE type
      n == get_ubjson_size_value(b, marker, dims.next, fmt, TRUE)
      more == Parsed(Append(dims.value, n.value.count), IF turns < 0 THEN Marker(b, n.next).next ELSE n.next)
  IN IF turns = 0 \/ (turns < 0 /\ marker = ArrayEnd) THEN dims
     ELSE IF n.ok THEN DimensionList(b, more, turns - 1, type, fmt) ELSE n

get_ubjson_ndarray_size(b, i, fmt) ==
  Then(get_ubjson_size_type(b, i, fmt, TRUE), LAMBDA s :
    LET none == Parsed(<<>>, s.next)
        turns == IF s.value.count = Unknown THEN Endless
                 ELSE IF s.value.type = NoopMark THEN 0 ELSE Turns(b, none, s.value.count)
    IN DimensionList(b, none, turns, s.value.type, fmt))

-----------------------------------------------------------------------------
\* Numbers and the rest.

\* A number as decimal text, which may begin with a byte order mark and have
\* whitespace around it; what has a point or does not fit is a double.
Skipped(text, i) == CHOOSE j \in i .. Len(text) + 1 : /\ At(text, j) \notin Lexer!Whitespace
                                                      /\ \A k \in i .. j - 1 : text[k] \in Lexer!Whitespace
WordOf(digits) == FoldLeft(LAMBDA w, d : MulAdd(w, 10, Bytes(Len(w) - 1, 0) \o <<d - 48>>), Bytes(12, 0), digits)

HighPrecision(text) ==
  LET start == Lexer!skip_bom(text)
      first == Skipped(text, start.next)
      path == Lexer!NumberPath(text, first, <<>>)
      behind == first + Len(path) - 1
      number == SubSeq(text, first, behind - 1)
      neg == number[1] = Lexer!Minus
      w == WordOf(SelectSeq(number, Lexer!IsDigit))
  IN IF start.kind = "parse_error" \/ Last(path) = "error" \/ At(text, Skipped(text, behind)) \notin {0, Eof} THEN ParseError
     ELSE IF {"decimal1", "exponent"} \cap Range(path) # {} \/ Range(SubSeq(w, 1, 4)) # {0} THEN Parsed(Double(Nearest(number)), 0)
     ELSE IF ~neg THEN Parsed(Unsigned(SubSeq(w, 5, 12)), 0)
     ELSE IF Above(SubSeq(w, 5, 12), <<128>> \o Bytes(7, 0)) THEN Parsed(Double(Nearest(number)), 0)
     ELSE Parsed(Integer(MulAdd(Complement(SubSeq(w, 5, 12)), 1, Word(1))), 0)

get_ubjson_high_precision_number(b, i, fmt) ==
  Then(get_ubjson_size_value(b, 0, i, fmt, TRUE), LAMBDA size :
  Then(get_string(b, size.next, size.value.count), LAMBDA text :
  Then(HighPrecision(text.value), LAMBDA v : Parsed(v.value, text.next))))

-----------------------------------------------------------------------------
\* Values.

RECURSIVE get_ubjson_value(_, _, _, _)

parse_ubjson_internal(b, i, fmt) == Then(Marker(b, i), LAMBDA m : get_ubjson_value(b, m.value, m.next, fmt))

\* The value of an item: behind the marker that was read last, behind a marker that
\* is still to be read, or of the type of all of them.
Item(b, i, turns, type, fmt) ==
  IF turns < 0 THEN get_ubjson_value(b, At(b, i - 1), i, fmt)
  ELSE IF type = NoType THEN parse_ubjson_internal(b, i, fmt)
  ELSE get_ubjson_value(b, type, i, fmt)

\* A name has no marker in front of its length, and is not skipped over.
Name(b, i, turns, fmt) == IF turns < 0 THEN StringOf(b, At(b, i - 1), i, fmt) ELSE get_ubjson_string(b, i, fmt)
Field(b, r, turns, type, fmt) ==
  Then(Name(b, r.next, turns, fmt), LAMBDA key :
    Set(r, key, IF turns < 0 THEN parse_ubjson_internal(b, key.next, fmt) ELSE Item(b, key.next, turns, type, fmt)))

\* The items of r, an array or an object: as many as turns, or until its end marker,
\* for which the next marker is read after each.
RECURSIVE UbjsonItems(_, _, _, _, _)
UbjsonItems(b, r, turns, type, fmt) ==
  LET array == r.value.type = "array"
      item == IF array THEN Appended(r, Item(b, r.next, turns, type, fmt)) ELSE Field(b, r, turns, type, fmt)
      more == IF item.ok /\ turns < 0 THEN Parsed(item.value, Marker(b, item.next).next) ELSE item
  IN IF ~r.ok \/ turns = 0 \/ (turns < 0 /\ At(b, r.next - 1) = (IF array THEN ArrayEnd ELSE ObjectEnd)) THEN r
     ELSE UbjsonItems(b, more, turns - 1, type, fmt)

\* True, false and null are values without a byte.
UbjsonTurns(b, r, s) ==
  IF s.count = Unknown THEN Endless
  ELSE IF s.type \in {TrueMark, FalseMark, NullMark} /\ r.value.type = "array" THEN Small(s.count)
  ELSE Turns(b, r, s.count)

\* The names of the types of numbers: "char", "double" and "single", and "int" or
\* "uint" with the number of bits.
IntName == <<105, 110, 116>>
UintName == <<117>> \o IntName
bjd_types_map ==
  (CharMark :> <<99, 104, 97, 114>>) @@ (DoubleMark :> <<100, 111, 117, 98, 108, 101>>)
  @@ (SingleMark :> <<115, 105, 110, 103, 108, 101>>)
  @@ [m \in DOMAIN Widths |-> (IF m \in DOMAIN Signeds THEN IntName ELSE UintName) \o to_string(8 * Widths[m])]

\* "_ArrayType_", "_ArraySize_", "_ArrayData_".
Underlined(name) == <<95, 65, 114, 114, 97, 121>> \o name \o <<95>>
ArrayType == Underlined(<<84, 121, 112, 101>>)
ArraySize == Underlined(<<83, 105, 122, 101>>)
ArrayData == Underlined(<<68, 97, 116, 97>>)

\* An array of more than one dimension becomes an object, with its items in a row.
Annotated(type, dims, items) ==
  Object((ArrayType :> String(bjd_types_map[type])) @@ (ArrayData :> items)
         @@ (ArraySize :> Array([k \in DOMAIN dims |-> Unsigned(dims[k])])))

get_ubjson_array(b, i, fmt) ==
  Then(get_ubjson_size_type(b, i, fmt, FALSE), LAMBDA s :
    LET type == s.value.type
        several == s.value.dims # <<>>
        r == start_array(s.value.count, s.next)
        items == UbjsonItems(b, r, IF type = NoopMark THEN 0 ELSE UbjsonTurns(b, r, s.value),
                             IF several /\ type = CharMark THEN 85 ELSE type, fmt)
    IN IF several /\ type \notin DOMAIN bjd_types_map THEN ParseError
       ELSE IF several THEN As(items, LAMBDA array : Annotated(type, s.value.dims, array))
       ELSE items)

get_ubjson_object(b, i, fmt) ==
  Then(get_ubjson_size_type(b, i, fmt, FALSE), LAMBDA s :
    LET r == start_object(s.value.count, s.next)
    IN IF s.value.dims # <<>> THEN ParseError ELSE UbjsonItems(b, r, UbjsonTurns(b, r, s.value), s.value.type, fmt))

\* Behind its marker.
get_ubjson_value(b, marker, i, fmt) ==
  CASE marker = NullMark -> Parsed(Null, i)
    [] marker \in {TrueMark, FalseMark} -> Parsed(Boolean(marker = TrueMark), i)
    [] IsInteger(marker, fmt) /\ marker \in DOMAIN Signeds -> As(get_ubjson_integer(b, marker, i, fmt), Integer)
    [] IsInteger(marker, fmt) /\ marker \in DOMAIN Unsigneds -> As(get_ubjson_integer(b, marker, i, fmt), Unsigned)
    [] marker = HalfMark /\ fmt = "bjdata" -> As(As(get_ubjson_number(b, i, 2, fmt), Half), Double)
    [] marker = SingleMark -> As(As(get_ubjson_number(b, i, 4, fmt), Widened), Double)
    [] marker = DoubleMark -> As(get_ubjson_number(b, i, 8, fmt), Double)
    [] marker = DecimalMark -> get_ubjson_high_precision_number(b, i, fmt)
    [] marker = CharMark -> Then(get_number(b, i, 1), LAMBDA c : IF c.value[1] > 127 THEN ParseError ELSE Parsed(String(c.value), c.next))
    [] marker = StringMark -> As(get_ubjson_string(b, i, fmt), String)
    [] marker = ArrayMark -> get_ubjson_array(b, i, fmt)
    [] marker = ObjectMark -> get_ubjson_object(b, i, fmt)
    [] OTHER -> ParseError

\* Markers N may follow the value.
from_ubjson(b, fmt) ==
  Then(parse_ubjson_internal(b, 1, fmt), LAMBDA r : IF Marker(b, r.next).value = Eof THEN r ELSE ParseError)

-----------------------------------------------------------------------------
\* Writing.  o has the format and whether sizes and types are written in front.

\* From small to large: i U I u l m L M.
Ladder == <<105, 85, 73, 117, 108, 109, 76, 77>>
Holds(marker, w, signed) ==
  IF marker \in DOMAIN Signeds THEN FitsSigned(w, Signeds[marker]) /\ (signed \/ ~Negative(w))
  ELSE Fits(w, Unsigneds[marker]) /\ (Unsigneds[marker] = 8 => ~signed)
Markers(o) == SelectSeq(Ladder, LAMBDA m : Known(m, o.fmt))
FirstOf(markers, w, signed) ==
  LET good == SelectSeq(markers, LAMBDA m : Holds(m, w, signed))
  IN IF good = <<>> THEN DecimalMark ELSE good[1]

\* The decimal text of a word.
RECURSIVE DecimalOf(_)
DecimalOf(w) ==
  LET rest[i \in 0 .. 8] == IF i = 0 THEN 0 ELSE (rest[i - 1] * 256 + w[i]) % 10
      tenth == [i \in 1 .. 8 |-> (rest[i - 1] * 256 + w[i]) \div 10]
  IN (IF tenth = Word(0) THEN <<>> ELSE DecimalOf(tenth)) \o <<48 + rest[8]>>

Mark(marker, add_prefix) == IF add_prefix THEN <<marker>> ELSE <<>>

RECURSIVE write_number_with_ubjson_prefix(_, _, _, _)
write_number_with_ubjson_prefix(w, signed, add_prefix, o) ==
  LET marker == FirstOf(Markers(o), w, signed)
      text == DecimalOf(w)
  IN Mark(marker, add_prefix)
     \o (IF marker # DecimalMark THEN Ordered(Low(w, Widths[marker]), o.fmt)
         ELSE write_number_with_ubjson_prefix(Word(Len(text)), FALSE, TRUE, o) \o text)
Length(n, o) == write_number_with_ubjson_prefix(Word(n), FALSE, TRUE, o)

\* The type of a value in a container.  For unsigned numbers it is never m.
ubjson_prefix(v, o) ==
  CASE v.type = "null" -> NullMark
    [] v.type = "boolean" -> IF v.boolean THEN TrueMark ELSE FalseMark
    [] v.type = "number_integer" -> FirstOf(Markers(o), v.integer, TRUE)
    [] v.type = "number_unsigned" -> FirstOf(SelectSeq(Markers(o), LAMBDA m : m # 109), v.integer, FALSE)
    [] v.type = "number_float" -> DoubleMark
    [] v.type = "string" -> StringMark
    [] v.type \in {"array", "binary"} -> ArrayMark
    [] v.type = "object" -> ObjectMark

\* The types of all the values, if it is one that may stand in front of them.
CommonType(values, o) ==
  LET types == {ubjson_prefix(values[i], o) : i \in DOMAIN values}
  IN IF o.type /\ Cardinality(types) = 1 /\ (o.fmt = "bjdata" => types \cap Unoptimized = {})
     THEN CHOOSE type \in types : TRUE ELSE NoType

Opening(type, n, o) == (IF type = NoType THEN <<>> ELSE <<TypeMark, type>>)
                       \o (IF o.count THEN <<SizeMark>> \o Length(n, o) ELSE <<>>)
Closing(mark, o) == IF o.count THEN <<>> ELSE <<mark>>

RECURSIVE write_ubjson(_, _, _)

write_ubjson_array(items, o) ==
  LET type == CommonType(items, o)
  IN Opening(type, Len(items), o)
     \o FlattenSeq([i \in DOMAIN items |-> write_ubjson(items[i], type = NoType, o)]) \o Closing(ArrayEnd, o)

\* Bytes are an array of numbers.
write_ubjson_binary(bytes, o) ==
  Opening(IF o.type /\ bytes # <<>> THEN 85 ELSE NoType, Len(bytes), o)
  \o (IF o.type THEN bytes ELSE FlattenSeq([i \in DOMAIN bytes |-> <<85, bytes[i]>>])) \o Closing(ArrayEnd, o)

write_ubjson_object(v, o) ==
  LET keys == Keys(v)
      values == [i \in DOMAIN keys |-> v.fields[keys[i]]]
      type == CommonType(values, o)
  IN Opening(type, Len(keys), o)
     \o FlattenSeq([i \in DOMAIN keys |-> Length(Len(keys[i]), o) \o keys[i] \o write_ubjson(values[i], type = NoType, o)])
     \o Closing(ObjectEnd, o)

\* What can be written as an array of more than one dimension: the type is one of the
\* names, and there are as many items as the dimensions say.  The bits of an item are
\* taken for a number of that type, whatever it is: here it always is a number.
BitsOf(v) == IF v.type = "number_float" THEN v.double ELSE v.integer
Parts(v) == CASE v.type = "array" -> v.items
              [] v.type = "object" -> [i \in DOMAIN Keys(v) |-> v.fields[Keys(v)[i]]]
              [] v.type = "null" -> <<>>
              [] OTHER -> <<v>>
Sizes(v) == FoldLeft(LAMBDA n, part : Product(n, BitsOf(part)), Word(IF Parts(v) = <<>> THEN 0 ELSE 1), Parts(v))
IsAnnotated(v) == DOMAIN v.fields = {ArrayType, ArraySize, ArrayData}
IsNdArray(v) ==
  /\ IsAnnotated(v) /\ v.fields[ArrayType].string \in Range(bjd_types_map)
  /\ Word(Len(Parts(v.fields[ArrayData]))) = Sizes(v.fields[ArraySize])

ItemBytes(v, type) == [i \in DOMAIN Parts(v) |->
  LET w == BitsOf(Parts(v)[i])
  IN Reverse(CASE type \in DOMAIN Widths -> Low(w, Widths[type])
               [] type = CharMark -> Low(w, 1)
               [] type = SingleMark -> Narrowed(w)
               [] type = DoubleMark -> w)]

write_bjdata_ndarray(v, o) ==
  LET type == CHOOSE t \in DOMAIN bjd_types_map : bjd_types_map[t] = v.fields[ArrayType].string
  IN <<ArrayMark, TypeMark, type, SizeMark>> \o write_ubjson(v.fields[ArraySize], TRUE, o)
     \o FlattenSeq(ItemBytes(v.fields[ArrayData], type))

write_ubjson(v, add_prefix, o) ==
  IF v.type = "object" /\ o.fmt = "bjdata" /\ IsNdArray(v) THEN write_bjdata_ndarray(v, o)
  ELSE IF v.type \in {"number_integer", "number_unsigned"}
  THEN write_number_with_ubjson_prefix(v.integer, v.type = "number_integer", add_prefix, o)
  ELSE Mark(ubjson_prefix(v, o), add_prefix)
       \o CASE v.type \in {"null", "boolean"} -> <<>>
            [] v.type = "number_float" -> Ordered(v.double, o.fmt)
            [] v.type = "string" -> Length(Len(v.string), o) \o v.string
            [] v.type = "array" -> write_ubjson_array(v.items, o)
            [] v.type = "binary" -> write_ubjson_binary(v.bytes, o)
            [] v.type = "object" -> write_ubjson_object(v, o)

\* Everything in a value, and the exception of an annotation that is no string.
RECURSIVE Within(_)
Within(v) == {v} \cup (IF v.type \in {"array", "object"} THEN UNION {Within(p) : p \in Range(Parts(v))} ELSE {})

to_ubjson(v, o) ==
  IF o.fmt = "bjdata" /\ \E x \in Within(v) : x.type = "object" /\ IsAnnotated(x) /\ x.fields[ArrayType].type # "string"
  THEN Failed("type_error")
  ELSE Parsed(write_ubjson(v, TRUE, o), 0)

=============================================================================
