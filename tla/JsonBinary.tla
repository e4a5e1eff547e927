------------------------------- MODULE JsonBinary -------------------------------
(***************************************************************************)
(* What the readers and writers of json.hpp's binary formats share.  Here  *)
(* numbers have their real widths: an integer is the eight bytes of its 64 *)
(* bits, most significant first (Unsigned and Integer of JsonValue hold    *)
(* them), and so is a double.                                              *)
(*                                                                         *)
(* A reader is an operator of the input b and a position i; its result is  *)
(* the value and the next position, or the kind of the exception.          *)
(***************************************************************************)
EXTENDS JsonValue

Double(d) == [type |-> "number_float", double |-> d]

NoSubtype == <<>>
Binary(bytes, subtype) == [type |-> "binary", bytes |-> bytes, subtype |-> subtype]

-----------------------------------------------------------------------------
\* Words: eight bytes.

Bytes(n, byte) == [i \in 1 .. n |-> byte]
Word(n) == [i \in 1 .. 8 |-> IF i <= 4 THEN 0 ELSE (n \div 256 ^ (8 - i)) % 256]
Small(w) == w[6] * 65536 + w[7] * 256 + w[8]

Low(w, n) == SubSeq(w, 9 - n, 8)
Negative(w) == w[1] >= 128
Complement(w) == [i \in DOMAIN w |-> 255 - w[i]]  \* -1 - w

\* The lower bytes of v * factor + w, for a factor below 256, and of a product.
MulAdd(v, factor, w) ==
  LET carry[i \in 1 .. Len(v) + 1] == IF i > Len(v) THEN 0 ELSE (v[i] * factor + w[i] + carry[i + 1]) \div 256
  IN [i \in DOMAIN v |-> (v[i] * factor + w[i] + carry[i + 1]) % 256]
Product(v, w) == FoldLeft(LAMBDA sum, byte : MulAdd(v, byte, Tail(sum) \o <<0>>), Word(0), w)

\* The conversions of an unsigned and of a signed number of fewer bytes.
Padded(bytes) == Bytes(8 - Len(bytes), 0) \o bytes
Extended(bytes) == Bytes(8 - Len(bytes), IF bytes[1] >= 128 THEN 255 ELSE 0) \o bytes

\* w, unsigned or signed, is in the range of n bytes.
Fits(w, n) == Padded(Low(w, n)) = w
FitsSigned(w, n) == Extended(Low(w, n)) = w

\* w > limit, both unsigned.
Above(w, limit) == Less(limit, w)

\* std::to_string of a small number.
RECURSIVE to_string(_)
to_string(n) == (IF n < 10 THEN <<>> ELSE to_string(n \div 10)) \o <<48 + (n % 10)>>

-----------------------------------------------------------------------------
\* Floating-point numbers.

Sign(d) == d[1] \div 128
Exponent(d) == (d[1] % 128) * 16 + d[2] \div 16
\* The upper 23 of the 52 bits of the significand, and the other 29.
High(d) == (d[2] % 16) * 2 ^ 19 + d[3] * 2 ^ 11 + d[4] * 8 + d[5] \div 32
Rest29(d) == (d[5] % 32) * 2 ^ 24 + Small(d)

IsNaN(d) == Exponent(d) = 2047 /\ (High(d) # 0 \/ Rest29(d) # 0)
IsInf(d) == Exponent(d) = 2047 /\ High(d) = 0 /\ Rest29(d) = 0

\* The double whose lower 29 bits are zero.
DoubleOf(sign, exponent, high) ==
  <<sign * 128 + exponent \div 16, (exponent % 16) * 16 + high \div 2 ^ 19, (high \div 2 ^ 11) % 256,
    (high \div 8) % 256, (high % 8) * 32, 0, 0, 0>>

\* ldexp(m, e), for m of at most 24 bits.
Ldexp(sign, m, e) ==
  IF m = 0 THEN DoubleOf(sign, 0, 0)
  ELSE LET k == CHOOSE k \in 0 .. 23 : 2 ^ k <= m /\ m < 2 ^ (k + 1)
       IN DoubleOf(sign, k + e + 1023, (m - 2 ^ k) * 2 ^ (23 - k))

\* static_cast<double> of a float; a NaN becomes a quiet one.
Widened(f) ==
  LET sign == f[1] \div 128
      exponent == (f[1] % 128) * 2 + f[2] \div 128
      m == (f[2] % 128) * 65536 + f[3] * 256 + f[4]
  IN CASE exponent = 0 -> Ldexp(sign, m, -149)
       [] exponent = 255 -> DoubleOf(sign, 2047, IF m = 0 THEN 0 ELSE (m % 2 ^ 22) + 2 ^ 22)
       [] OTHER -> Ldexp(sign, 2 ^ 23 + m, exponent - 150)

\* RFC 7049's decoder of half-precision numbers.
Half(bytes) ==
  LET sign == bytes[1] \div 128
      exp == (bytes[1] \div 4) % 32
      mant == (bytes[1] % 4) * 256 + bytes[2]
  IN CASE exp = 0 -> Ldexp(sign, mant, -24)
       [] exp = 31 -> DoubleOf(sign, 2047, IF mant = 0 THEN 0 ELSE 2 ^ 22)
       [] OTHER -> Ldexp(sign, mant + 1024, exp - 25)

\* What static_cast<float> makes of a finite double that it does not change.
FloatOf(sign, exponent, m) ==
  <<sign * 128 + exponent \div 2, (exponent % 2) * 128 + m \div 65536, (m \div 256) % 256, m % 256>>
Narrowed(d) ==
  LET e == Exponent(d)
  IN IF e \in 897 .. 1150 THEN FloatOf(Sign(d), e - 896, High(d))
     ELSE IF e \in 874 .. 896 THEN FloatOf(Sign(d), 0, (2 ^ 23 + High(d)) \div 2 ^ (897 - e))
     ELSE FloatOf(Sign(d), 0, 0)
IsFloat(d) == Exponent(d) <= 1150 /\ Widened(Narrowed(d)) = d

\* write_compact_float, with the prefixes of the format.
write_compact_float(d, float, double) ==
  IF IsFloat(d) THEN <<float>> \o Narrowed(d) ELSE <<double>> \o d

-----------------------------------------------------------------------------
\* Reading.

Parsed(v, next) == [ok |-> TRUE, value |-> v, next |-> next]
Failed(exception) == [ok |-> FALSE, exception |-> exception]
ParseError == Failed("parse_error")

Then(r, F(_)) == IF r.ok THEN F(r) ELSE r
As(r, F(_)) == IF r.ok THEN Parsed(F(r.value), r.next) ELSE r

Eof == -1
At(b, i) == IF i <= Len(b) THEN b[i] ELSE Eof

\* The n bytes of a number; the reader of the format knows their order.
get_number(b, i, n) ==
  IF i + n - 1 <= Len(b) THEN Parsed(SubSeq(b, i, i + n - 1), i + n) ELSE ParseError
get_unsigned(b, i, n) == As(get_number(b, i, n), Padded)
get_signed(b, i, n) == As(get_number(b, i, n), Extended)
get_float(b, i) == As(get_number(b, i, 4), Widened)

Beyond(b, len) == ~Fits(len, 3) \/ Small(len) > Len(b)

\* get_string and get_binary.
get_string(b, i, len) == IF Beyond(b, len) THEN ParseError ELSE get_number(b, i, Small(len))
get_binary(b, i, len) == IF Beyond(b, len) THEN ParseError ELSE get_number(b, i, Small(len))

\* How many items to read: one takes at least a byte, so that one more than there are
\* bytes left will fail.
Left(b, r) == IF r.ok /\ r.next <= Len(b) THEN Len(b) + 1 - r.next ELSE 0
Turns(b, r, len) == IF Beyond(b, len) \/ Small(len) > Left(b, r) THEN Left(b, r) + 1 ELSE Small(len)
Endless == -1

\* The SAX parser that builds the value: an item of an array, and a member of an
\* object, of which the last one with a key stays.
Appended(array, v) == IF v.ok THEN Parsed(Array(Append(array.value.items, v.value)), v.next) ELSE v
Set(object, name, v) == IF v.ok THEN Parsed(Inserted(object.value, name.value, v.value), v.next) ELSE v

\* start_array and start_object: the length, unless it is unknown, must be possible
\* (max_size of std::vector and of std::map).
Unknown == Bytes(8, 255)
ArrayMax == <<7>> \o Bytes(7, 255)
ObjectMax == <<1>> \o Bytes(7, 153)
start_array(len, i) ==
  IF len # Unknown /\ Above(len, ArrayMax) THEN Failed("out_of_range") ELSE Parsed(Array(<<>>), i)
start_object(len, i) ==
  IF len # Unknown /\ Above(len, ObjectMax) THEN Failed("out_of_range") ELSE Parsed(EmptyObject, i)

\* sax_parse: in strict mode nothing may follow.
Whole(b, r) == IF r.ok /\ r.next <= Len(b) THEN ParseError ELSE r

\* The smallest of the widths of the formats' numbers that a length needs.
SizeOf(w) == IF Fits(w, 1) THEN 1 ELSE IF Fits(w, 2) THEN 2 ELSE IF Fits(w, 4) THEN 4 ELSE 8

=============================================================================
