------------------------------- MODULE MCFormats -------------------------------
(* Documents on both sides of every boundary of the formats: of numbers, of    *)
(* strings up to 256 bytes, of arrays up to 32 items; and inputs of a few      *)
(* pieces, which are what each format can announce.                            *)
EXTENDS Formats

Ones(n) == Bytes(n, 255)
Wide(s) == Padded(s)
Deep(s) == Extended(s)

\* Both sides of 24, 2^7, 2^8, 2^15, 2^16, 2^31, 2^32, 2^63 and 2^64.
Naturals_ == {Word(n) : n \in {0, 23, 24, 127, 128, 255, 256, 32767, 32768, 65535, 65536}}
  \cup {Wide(<<127>> \o Ones(3)), Wide(<<128, 0, 0, 0>>), Wide(Ones(4)), Wide(<<1, 0, 0, 0, 0>>),
        <<127>> \o Ones(7), <<128>> \o Bytes(7, 0), Ones(8)}
\* -1, -24, -25, -32, -33, -128, -129, -2^15, -2^15 - 1, -2^31, -2^31 - 1, -2^63.
Negatives == {Deep(<<n>>) : n \in {255, 232, 231, 224, 223, 128}}
  \cup {Deep(<<255, 127>>), Deep(<<128, 0>>), Deep(<<255, 127, 255>>), Deep(<<128, 0, 0, 0>>),
        Deep(<<255, 127, 255, 255, 255>>), <<128>> \o Bytes(7, 0)}
\* 1.0, pi, NaN, the infinities, the largest and the smallest float, and twice and half of it.
Doubles == {<<63, 240>> \o Bytes(6, 0), <<64, 9, 33, 251, 84, 68, 45, 24>>, <<127, 248>> \o Bytes(6, 0),
            <<127, 240>> \o Bytes(6, 0), <<255, 240>> \o Bytes(6, 0), <<71, 239, 255, 255, 224, 0, 0, 0>>,
            <<54, 160>> \o Bytes(6, 0), <<71, 240>> \o Bytes(6, 0), <<54, 144>> \o Bytes(6, 0)}

Numbers == {Unsigned(w) : w \in Naturals_} \cup {Integer(w) : w \in Negatives \cup {Word(0), Word(200)}}
           \cup {Double(d) : d \in Doubles}

Lengths == {0, 1, 15, 16, 23, 24, 31, 32}
Longer == {255, 256}
Text(n) == Bytes(n, 97)
Name_(n) == <<97 + n \div 16, 97 + (n % 16)>>
Subtypes == {NoSubtype, Word(7), Word(255), Word(256), Wide(<<1, 0, 0>>), Ones(8)}

Scalars == Numbers \cup {String(Text(n)) : n \in Lengths \cup Longer} \cup {Null, Boolean(TRUE), Boolean(FALSE)}
  \cup {Binary(Text(n), NoSubtype) : n \in Lengths \cup {2, 4, 8}}
  \cup {Binary(Text(n), s) : n \in {0, 1, 2, 4, 8, 16, 17}, s \in Subtypes}

One(v) == Object(<<107>> :> v)
Two(v, w) == Object((<<107>> :> v) @@ (<<109, 109>> :> w))

\* Arrays of two or three dimensions.
Nd(type, sizes, items) ==
  Object((ArrayType :> String(type)) @@ (ArraySize :> Array(sizes)) @@ (ArrayData :> Array(items)))
Counted(n) == [i \in 1 .. n |-> Unsigned(Word(i))]
NdArrays == {Nd(bjd_types_map[m], Counted(n), Counted(IF n = 2 THEN 2 ELSE 6)) : m \in DOMAIN Widths \cup {CharMark}, n \in {2, 3}}
  \cup {Nd(bjd_types_map[m], <<Unsigned(Word(2)), Unsigned(Word(1))>>, <<Double(<<63, 240>> \o Bytes(6, 0)), Double(<<54, 160>> \o Bytes(6, 0))>>)
          : m \in {SingleMark, DoubleMark}}

Containers ==
  {Array(<<v, v>>) : v \in Numbers} \cup {Two(v, v) : v \in Numbers}
  \cup {Array(<<Unsigned(w), Integer(Word(5))>>) : w \in Naturals_}
  \cup {Array([i \in 1 .. n |-> Unsigned(Word(i))]) : n \in Lengths}
  \cup {Array(Bytes(n, Boolean(TRUE))) : n \in {1, 24}} \cup {Array(Bytes(n, Null)) : n \in {1, 3}}
  \cup {Object([k \in {Name_(i) : i \in 1 .. n} |-> Unsigned(Word(7))]) : n \in {0, 1, 15, 16, 23, 24}}
  \cup {Array(<<v, One(v), String(Text(1))>>) : v \in {Null, Boolean(FALSE), Array(<<>>), EmptyObject, Two(Null, Array(<<Null>>))}}
  \cup {Array(<<Array(Counted(2)), Array(Counted(2))>>), One(One(One(Array(<<One(Null)>>))))}

\* UBJSON and BJData write bytes as an array of numbers.
MCDocuments ==
  LET all == Scalars \cup Containers
      long == {Binary(Text(n), NoSubtype) : n \in Longer} \cup {Binary(Text(n), Word(7)) : n \in Longer}
      each(few) == few \cup {One(v) : v \in few}
  IN [fmt \in FormatNames |-> each(all) \cup NdArrays \cup {Array(<<v, v>>) : v \in NdArrays}
                              \cup IF fmt \in {"ubjson", "bjdata"} THEN {} ELSE each(long)]

Ones8 == Ones(8)
P(byte) == <<byte>>
Alphabet(fmt, max, single, longer) == [fmt |-> fmt, max |-> max, pieces |-> {P(b) : b \in single} \cup longer]

MCAlphabets ==
  ("cbor" :> Alphabet("cbor", 4, {0, 24, 27, 57, 59, 65, 88, 97, 130, 155, 161, 192, 198, 216, 244, 247, 249, 250}, {Ones8}))
  @@ ("cbor chunks" :> Alphabet("cbor", 5, {0, 65, 95, 97, 127, 130, 159, 161, 191, 255}, {}))
  @@ ("msgpack" :> Alphabet("msgpack", 3,
        {1, 129, 146, 161, 192, 193, 195, 202, 203, 204, 205, 207, 208, 210, 211, 217, 224, 255}, {Ones8, <<0, 1>>}))
  @@ ("msgpack binary" :> Alphabet("msgpack", 5, {0, 1, 2, 196, 199, 212, 213, 216, 255}, {}))
  @@ ("msgpack containers" :> Alphabet("msgpack", 5, {97, 128, 129, 144, 146, 161, 192, 220, 222}, {<<0, 1>>}))
  @@ ("bson" :> Alphabet("bson", 6, {0}, {<<9, 0, 0, 0>>, <<2, 97, 0>>, <<3, 98, 0>>, <<4, 97, 0>>, <<8, 98, 0>>, <<10, 97, 0>>}))
  @@ ("bson numbers" :> Alphabet("bson", 5,
        {0}, {<<1, 97, 0>>, <<2, 0, 0, 0>>, <<5, 97, 0>>, <<16, 97, 0>>, <<18, 97, 0>>, <<255, 255, 255, 255>>}))
  @@ ("ubjson" :> Alphabet("ubjson", 4, {67, 68, 76, 77, 78, 83, 84, 85, 90, 91, 93, 100, 105}, {Ones8, <<85, 1, 97>>}))
  @@ ("ubjson containers" :> Alphabet("ubjson", 5, {1, 84, 85, 91, 93, 123, 125},
        {<<91, 36>>, <<123, 36>>, <<35, 85, 1>>, <<35, 85, 2>>, <<85, 1, 97>>}))
  @@ ("high precision" :> Alphabet("ubjson", 5, {32, 45, 46, 49, 72}, {<<85, 2>>, <<85, 3>>}))
  @@ ("bjdata" :> Alphabet("bjdata", 4, {0, 1, 77, 78, 85, 91, 93, 104, 109, 117}, {<<91, 36>>, <<35, 85, 1>>, <<1, 0>>, Ones8}))
  @@ ("bjdata dimensions" :> Alphabet("bjdata", 5, {93},
        {<<91, 36, m, 35, 91>> : m \in {67, 84, 85}} \cup {<<35, 85, 2>>, <<36, 85>>, <<85, 0>>, <<85, 1>>, <<85, 2>>,
         <<1, 1>>, <<2, 1>>, <<77>> \o Ones8}))

\* What the external function makes of a decimal text is not looked at: pi.
MCNearest(text) == <<64, 9, 33, 251, 84, 68, 45, 24>>
=============================================================================
