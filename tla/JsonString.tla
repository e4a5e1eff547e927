------------------------------- MODULE JsonString ------------------------------
(***************************************************************************)
(* How the lexer of json.hpp reads a string and how its serializer writes  *)
(* one, as the program calls it: code points that are not ASCII are left   *)
(* as they are, and what is not UTF-8 is an exception.  The two decode     *)
(* UTF-8 in different ways.  Texts and strings are sequences of bytes; a   *)
(* token has a kind, token_type in the code, the position behind it and    *)
(* perhaps a value, and an error has the position of the byte that caused  *)
(* it, which may be the end of the text.                                   *)
(***************************************************************************)
EXTENDS Integers, Sequences

\* ASCII.
Quote == 34
Backslash == 92

Eof == -1
At(text, i) == IF i <= Len(text) THEN text[i] ELSE Eof

Token(kind, next) == [kind |-> kind, next |-> next]
Valued(kind, next, v) == [kind |-> kind, next |-> next, value |-> v]
Error(i) == Token("parse_error", i)

-----------------------------------------------------------------------------
\* Escapes.  What is read is some bytes of the string, or a byte is refused.

Taken(bytes, next) == [ok |-> TRUE, bytes |-> bytes, next |-> next]
Refused(i) == [ok |-> FALSE, next |-> i]

\* The numbers of the four hex digits from position i; -1 is not one.
HexDigit(c) == IF c \in 48 .. 57 THEN c - 48
               ELSE IF c \in 65 .. 70 THEN c - 55
               ELSE IF c \in 97 .. 102 THEN c - 87
               ELSE -1
FirstBad(text, i) ==  \* the position behind the last digit if all are good
  CHOOSE j \in i .. i + 4 : /\ j = i + 4 \/ HexDigit(At(text, j)) = -1
                            /\ \A k \in i .. j - 1 : HexDigit(At(text, k)) # -1
get_codepoint(text, i) ==
  HexDigit(text[i]) * 4096 + HexDigit(text[i + 1]) * 256 + HexDigit(text[i + 2]) * 16 + HexDigit(text[i + 3])

High == 55296 .. 56319   \* D800 .. DBFF
Low  == 56320 .. 57343   \* DC00 .. DFFF

\* The bytes of a code point.
Utf8(c) ==
  LET Six(unit) == 128 + ((c \div unit) % 64)
  IN IF c < 128 THEN <<c>>
     ELSE IF c < 2048 THEN <<192 + (c \div 64), Six(1)>>
     ELSE IF c < 65536 THEN <<224 + (c \div 4096), Six(64), Six(1)>>
     ELSE <<240 + (c \div 262144), Six(4096), Six(64), Six(1)>>

\* What a backslash and a letter stand for: " \ / b f n r t.
Short == [e \in {34, 92, 47, 98, 102, 110, 114, 116} |->
            IF e = 98 THEN 8 ELSE IF e = 102 THEN 12 ELSE IF e = 110 THEN 10
            ELSE IF e = 114 THEN 13 ELSE IF e = 116 THEN 9 ELSE e]

\* \uXXXX, or the two of a surrogate pair, of which i is the first digit.
Unicode(text, i) ==
  LET first == get_codepoint(text, i)
      second == get_codepoint(text, i + 6)
  IN IF FirstBad(text, i) < i + 4 THEN Refused(FirstBad(text, i))
     ELSE IF first \in Low THEN Refused(i + 3)
     ELSE IF first \notin High THEN Taken(Utf8(first), i + 4)
     ELSE IF At(text, i + 4) # Backslash THEN Refused(i + 4)
     ELSE IF At(text, i + 5) # 117 THEN Refused(i + 5)
     ELSE IF FirstBad(text, i + 6) < i + 10 THEN Refused(FirstBad(text, i + 6))
     ELSE IF second \notin Low THEN Refused(i + 9)
     ELSE Taken(Utf8((first - 55296) * 1024 + (second - 56320) + 65536), i + 10)

-----------------------------------------------------------------------------
\* Reading.

\* ASCII that stands for itself, and what has to be escaped.
Plain == (32 .. 127) \ {Quote, Backslash}
Control == 0 .. 31

\* What may follow the first byte of a code point beyond ASCII.
Follow == 128 .. 191
BadTrail(b) ==
  IF b \in 194 .. 223 THEN <<Follow>> ELSE IF b \in 224 .. 239 THEN <<Follow, Follow>>
  ELSE IF b \in 240 .. 244 THEN <<Follow, Follow, Follow>> ELSE <<>>
Trail(b) ==
  IF b \in 194 .. 223 THEN <<Follow>>
  ELSE IF b = 224 THEN <<160 .. 191, Follow>>
  ELSE IF b = 237 THEN <<128 .. 159, Follow>>
  ELSE IF b \in 225 .. 239 THEN <<Follow, Follow>>
  ELSE IF b = 240 THEN <<144 .. 191, Follow, Follow>>
  ELSE IF b \in 241 .. 243 THEN <<Follow, Follow, Follow>>
  ELSE IF b = 244 THEN <<128 .. 143, Follow, Follow>>
  ELSE <<>>

\* One turn of the loop of scan_string, at a byte that is no quotation mark.
Character(text, i) ==
  LET c == At(text, i)
      e == At(text, i + 1)
      trail == Trail(c)
      bad == {j \in 1 .. Len(trail) : At(text, i + j) \notin trail[j]}  \* next_byte_in_range
  IN IF c = Backslash
     THEN IF e \in DOMAIN Short THEN Taken(<<Short[e]>>, i + 2)
          ELSE IF e = 117 THEN Unicode(text, i + 2)
          ELSE Refused(i + 1)
     ELSE IF c \in Plain THEN Taken(<<c>>, i + 1)
     ELSE IF c \in Control THEN Refused(i)
     ELSE IF trail = <<>> THEN Refused(i)  \* an ill-formed byte, or the end
     ELSE IF bad = {} THEN Taken(SubSeq(text, i, i + Len(trail)), i + 1 + Len(trail))
     ELSE Refused(i + (CHOOSE j \in bad : \A k \in bad : j <= k))

\* The token of a string whose first byte is at i, for every i: what a turn reads goes in
\* front of what the turns after it read.
Scanned(text) ==
  LET token[i \in 1 .. Len(text) + 1] ==
        LET u == Character(text, i)
            rest == token[u.next]
        IN IF At(text, i) = Quote THEN Valued("value_string", i + 1, <<>>)
           ELSE IF ~u.ok THEN Error(u.next)
           ELSE IF rest.kind = "parse_error" THEN rest
           ELSE Valued("value_string", rest.next, u.bytes \o rest.value)
  IN token
scan_string(text, start) == Scanned(text)[start]

-----------------------------------------------------------------------------
\* The decoder of the serializer: a class for each byte, and per state the next
\* state for each class, utf8d in the code.

UTF8_ACCEPT == 0
UTF8_REJECT == 1

ByteClass(b) ==
  IF b < 128 THEN 0 ELSE IF b < 144 THEN 1 ELSE IF b < 160 THEN 9 ELSE IF b < 192 THEN 7
  ELSE IF b < 194 THEN 8 ELSE IF b < 224 THEN 2
  ELSE IF b = 224 THEN 10 ELSE IF b = 237 THEN 4 ELSE IF b < 240 THEN 3
  ELSE IF b = 240 THEN 11 ELSE IF b < 244 THEN 6 ELSE IF b = 244 THEN 5 ELSE 8

\* The row of UTF8_ACCEPT, s0, and from s2 on where a state goes and the classes that
\* let it; s1 never leaves UTF8_REJECT.
Lead(class) == <<0, 1, 2, 3, 5, 8, 7, 1, 1, 1, 4, 6>>[class + 1]
Goes == <<1, 0, 2, 2, 2, 3, 3, 3>>
Lets == <<{}, {1, 7, 9}, {1, 7, 9}, {7}, {1, 9}, {7, 9}, {1, 7, 9}, {1}>>
Row(state, class) ==
  IF state = UTF8_ACCEPT THEN Lead(class)
  ELSE IF class \in Lets[state] THEN Goes[state] ELSE UTF8_REJECT

\* One more than what 0xFF is shifted to by the class.
Mask(class) == <<256, 128, 64, 32, 16, 8, 4, 2, 1, 1, 1, 1>>[class + 1]

-----------------------------------------------------------------------------
\* Writing.

\* Code points that have an escape of their own: \b \t \n \f \r \" \\.
Escapes == [c \in {8, 9, 10, 12, 13, 34, 92} |->
              IF c = 8 THEN 98 ELSE IF c = 9 THEN 116 ELSE IF c = 10 THEN 110
              ELSE IF c = 12 THEN 102 ELSE IF c = 13 THEN 114 ELSE c]

HexText(n) == IF n < 10 THEN 48 + n ELSE 87 + n

\* What is written when a code point is complete; the bytes before its last one
\* have been.
Escaped(codepoint, byte) ==
  IF codepoint \in DOMAIN Escapes THEN <<Backslash, Escapes[codepoint]>>
  ELSE IF codepoint < 32 THEN <<Backslash, 117, 48, 48, HexText(codepoint \div 16), HexText(codepoint % 16)>>
  ELSE <<byte>>

\* The decoder, what has been written, and whether it was without an exception.
Begin == [state |-> UTF8_ACCEPT, codep |-> 0, ok |-> TRUE, text |-> <<>>]

\* decode, and what is written of a byte.
decode(d, byte) ==
  LET class == ByteClass(byte)
      state == Row(d.state, class)
      codep == IF d.state # UTF8_ACCEPT THEN (byte % 64) + d.codep * 64 ELSE byte % Mask(class)
  IN [state |-> state, codep |-> codep, ok |-> d.ok /\ state # UTF8_REJECT,
      text |-> d.text \o (IF state = UTF8_ACCEPT THEN Escaped(codep, byte) ELSE <<byte>>)]

\* After each number of bytes of a string; the exception is type_error 316.
Dumped(s) ==
  LET after[n \in 0 .. Len(s)] == IF n = 0 THEN Begin ELSE decode(after[n - 1], s[n])
  IN after
dump_escaped(s) ==
  LET end == Dumped(s)[Len(s)]
  IN [ok |-> end.ok /\ end.state = UTF8_ACCEPT, text |-> end.text]

=============================================================================
