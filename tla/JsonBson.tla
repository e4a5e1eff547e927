-------------------------------- MODULE JsonBson --------------------------------
(* The reader and the writer of BSON in json.hpp.  Numbers are little      *)
(* endian; a document is its size, a list of elements and a zero byte, an  *)
(* element a byte for its type, a zero-terminated name and its value.      *)
EXTENDS JsonBinary

\* Types of elements.
TypeDouble   == 1
TypeString   == 2
TypeDocument == 3
TypeArray    == 4
TypeBinary   == 5
TypeBoolean  == 8
TypeNull     == 10
TypeInt32    == 16
TypeInt64    == 18

-----------------------------------------------------------------------------
\* Reading.

get_bson_number(b, i, n) == As(get_number(b, i, n), Reverse)
get_bson_integer(b, i, n) == As(get_bson_number(b, i, n), Extended)

get_bson_cstr(b, i) ==
  LET ends == {j \in i .. Len(b) : b[j] = 0}
  IN IF ends = {} THEN ParseError
     ELSE LET end == CHOOSE j \in ends : \A k \in ends : j <= k IN Parsed(SubSeq(b, i, end - 1), end + 1)

\* The last byte is taken for the zero it should be; if it is missing, reading
\* ends without an exception, and the result is a discarded value.
get_bson_string(b, i, len) ==
  IF Negative(len) \/ len = Word(0) THEN ParseError
  ELSE IF Beyond(b, len) THEN (IF Fits(len, 3) /\ i + Small(len) - 2 = Len(b) THEN Failed("discarded") ELSE ParseError)
  ELSE Then(get_number(b, i, Small(len) - 1), LAMBDA s :
         IF At(b, s.next) = Eof THEN Failed("discarded") ELSE Parsed(s.value, s.next + 1))

get_bson_binary(b, i, len) ==
  IF Negative(len) THEN ParseError
  ELSE Then(get_unsigned(b, i, 1), LAMBDA subtype :
         As(get_binary(b, subtype.next, len), LAMBDA s : Binary(s, subtype.value)))

RECURSIVE parse_bson_internal(_, _), parse_bson_array(_, _), parse_bson_element_list(_, _)

parse_bson_element_internal(b, i, type) ==
  CASE type = TypeDouble -> As(get_bson_number(b, i, 8), Double)
    [] type = TypeString -> Then(get_bson_integer(b, i, 4), LAMBDA len : As(get_bson_string(b, len.next, len.value), String))
    [] type = TypeDocument -> parse_bson_internal(b, i)
    [] type = TypeArray -> parse_bson_array(b, i)
    [] type = TypeBinary -> Then(get_bson_integer(b, i, 4), LAMBDA len : get_bson_binary(b, len.next, len.value))
    [] type = TypeBoolean -> Parsed(Boolean(At(b, i) # 0), i + 1)
    [] type = TypeNull -> Parsed(Null, i)
    [] type = TypeInt32 -> As(get_bson_integer(b, i, 4), Integer)
    [] type = TypeInt64 -> As(get_bson_integer(b, i, 8), Integer)
    [] OTHER -> ParseError

\* The elements of an array have names too, which are not looked at.
parse_bson_element(b, r) ==
  Then(get_bson_cstr(b, r.next + 1), LAMBDA name :
    LET v == parse_bson_element_internal(b, name.next, b[r.next])
    IN IF r.value.type = "array" THEN Appended(r, v) ELSE Set(r, name, v))

parse_bson_element_list(b, r) ==
  IF ~r.ok THEN r
  ELSE IF At(b, r.next) = Eof THEN ParseError
  ELSE IF b[r.next] = 0 THEN Parsed(r.value, r.next + 1)
  ELSE parse_bson_element_list(b, parse_bson_element(b, r))

\* The size of a document is read, and not looked at.
parse_bson_internal(b, i) ==
  Then(get_bson_number(b, i, 4), LAMBDA size : parse_bson_element_list(b, start_object(Unknown, size.next)))
parse_bson_array(b, i) ==
  Then(get_bson_number(b, i, 4), LAMBDA size : parse_bson_element_list(b, start_array(Unknown, size.next)))

from_bson(b) == Whole(b, parse_bson_internal(b, 1))

-----------------------------------------------------------------------------
\* Sizes, which are written before what they are the size of.

calc_bson_entry_header_size(name) == 1 + Len(name) + 1
calc_bson_string_size(s) == 4 + Len(s) + 1
BadUnsignedSize(w) == IF Fits(w, 4) THEN 4 ELSE 8
calc_bson_integer_size(w) == IF FitsSigned(w, 4) THEN 4 ELSE 8
calc_bson_unsigned_size(w) == IF Fits(w, 4) /\ w[5] < 128 THEN 4 ELSE 8
calc_bson_binary_size(bytes) == 4 + Len(bytes) + 1

Total(sizes) == FoldLeft(+, 0, sizes)

RECURSIVE calc_bson_element_size(_, _)

calc_bson_array_size(items) ==
  4 + Total([i \in DOMAIN items |-> calc_bson_element_size(to_string(i - 1), items[i])]) + 1

calc_bson_object_size(v) ==
  LET keys == Keys(v)
  IN 4 + Total([i \in DOMAIN keys |-> calc_bson_element_size(keys[i], v.fields[keys[i]])]) + 1

calc_bson_element_size(name, v) ==
  calc_bson_entry_header_size(name)
  + CASE v.type = "object" -> calc_bson_object_size(v)
      [] v.type = "array" -> calc_bson_array_size(v.items)
      [] v.type = "binary" -> calc_bson_binary_size(v.bytes)
      [] v.type = "boolean" -> 1
      [] v.type = "number_float" -> 8
      [] v.type = "number_integer" -> calc_bson_integer_size(v.integer)
      [] v.type = "number_unsigned" -> calc_bson_unsigned_size(v.integer)
      [] v.type = "string" -> calc_bson_string_size(v.string)
      [] v.type = "null" -> 0

-----------------------------------------------------------------------------
\* Writing.

Little(w, n) == Reverse(Low(w, n))
Int32(n) == Little(Word(n), 4)

write_bson_entry_header(name, type) == <<type>> \o name \o <<0>>
write_bson_boolean(name, boolean) == write_bson_entry_header(name, TypeBoolean) \o <<IF boolean THEN 1 ELSE 0>>
write_bson_double(name, d) == write_bson_entry_header(name, TypeDouble) \o Reverse(d)
write_bson_string(name, s) == write_bson_entry_header(name, TypeString) \o Int32(Len(s) + 1) \o s \o <<0>>
write_bson_null(name) == write_bson_entry_header(name, TypeNull)
write_bson_integer(name, w) ==
  IF FitsSigned(w, 4) THEN write_bson_entry_header(name, TypeInt32) \o Little(w, 4)
  ELSE write_bson_entry_header(name, TypeInt64) \o Little(w, 8)
write_bson_unsigned(name, w) ==
  IF Fits(w, 4) /\ w[5] < 128 THEN write_bson_entry_header(name, TypeInt32) \o Little(w, 4)
  ELSE write_bson_entry_header(name, TypeInt64) \o Little(w, 8)
write_bson_binary(name, v) ==
  write_bson_entry_header(name, TypeBinary) \o Int32(Len(v.bytes))
  \o (IF v.subtype = NoSubtype THEN <<0>> ELSE Low(v.subtype, 1)) \o v.bytes

RECURSIVE write_bson_element(_, _)

write_bson_object(v) ==
  LET keys == Keys(v)
  IN Int32(calc_bson_object_size(v))
     \o FlattenSeq([i \in DOMAIN keys |-> write_bson_element(keys[i], v.fields[keys[i]])]) \o <<0>>

write_bson_object_entry(name, v) == write_bson_entry_header(name, TypeDocument) \o write_bson_object(v)

write_bson_array(name, items) ==
  write_bson_entry_header(name, TypeArray) \o Int32(calc_bson_array_size(items))
  \o FlattenSeq([i \in DOMAIN items |-> write_bson_element(to_string(i - 1), items[i])]) \o <<0>>

write_bson_element(name, v) ==
  CASE v.type = "object" -> write_bson_object_entry(name, v)
    [] v.type = "array" -> write_bson_array(name, v.items)
    [] v.type = "binary" -> write_bson_binary(name, v)
    [] v.type = "boolean" -> write_bson_boolean(name, v.boolean)
    [] v.type = "number_float" -> write_bson_double(name, v.double)
    [] v.type = "number_integer" -> write_bson_integer(name, v.integer)
    [] v.type = "number_unsigned" -> write_bson_unsigned(name, v.integer)
    [] v.type = "string" -> write_bson_string(name, v.string)
    [] v.type = "null" -> write_bson_null(name)

\* Every member and element at any depth, with its name.
RECURSIVE Entries(_)
Entries(v) ==
  LET parts == CASE v.type = "object" -> {<<k, v.fields[k]>> : k \in DOMAIN v.fields}
                 [] v.type = "array" -> {<<to_string(i - 1), v.items[i]>> : i \in DOMAIN v.items}
                 [] OTHER -> {}
  IN parts \cup UNION {Entries(p[2]) : p \in parts}

\* What BSON cannot say: a value that is no object, a zero byte in a name, an
\* integer above the signed ones.
write_bson(v) ==
  IF v.type # "object" THEN Failed("type_error")
  ELSE IF \E e \in Entries(v) : 0 \in Range(e[1]) \/ (e[2].type = "number_unsigned" /\ Negative(e[2].integer))
       THEN Failed("out_of_range")
  ELSE Parsed(write_bson_object(v), 0)

=============================================================================
