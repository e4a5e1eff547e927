---------------------------- MODULE JsonStringProofs ---------------------------
(* What json.hpp reads as a string it writes without an exception, and what it  *)
(* writes reads back as the string it was, although the lexer and the           *)
(* serializer decode UTF-8 in ways of their own.                                *)
EXTENDS JsonString, SequenceTheorems, Induction

Octet == 0 .. 255

\* Concatenation of byte strings, for the provers that do not see the general law.
LEMMA Associative == \A s, t, u \in Seq(Octet) : (s \o t) \o u = s \o (t \o u)
BY ConcatAssociative

\* A byte as the arithmetic has it: the set is not expanded where sequences are about.
LEMMA Octets == \A b : b \in Octet <=> b \in Nat /\ b < 256
BY DEF Octet

-----------------------------------------------------------------------------
\* The decoder.

\* How many bytes a state still waits for.
Missing(state) == IF state = 2 THEN 1 ELSE IF state \in 3 .. 5 THEN 2 ELSE IF state \in 6 .. 8 THEN 3 ELSE 0

\* The table of the decoder and the ranges of the lexer are the same language: the first
\* byte decides how many follow, the second has a range of its own, the others have one.
LEMMA FirstByte ==
  ASSUME NEW b \in Octet
  PROVE  /\ ByteClass(b) \in 0 .. 11
         /\ Lead(ByteClass(b)) \in 0 .. 8
         /\ Lead(ByteClass(b)) = UTF8_ACCEPT <=> b < 128
         /\ Lead(ByteClass(b)) \in 2 .. 8 <=> Trail(b) # <<>>
         /\ Len(Trail(b)) = Missing(Lead(ByteClass(b)))
         /\ \A j \in 2 .. Len(Trail(b)) : Trail(b)[j] = Follow
BY DEF ByteClass, Lead, Trail, Missing, UTF8_ACCEPT, Octet

\* The table, a row at a time.
LEMMA Rows ==
  ASSUME NEW c \in Octet
  PROVE  /\ Row(2, ByteClass(c)) = IF c \in Follow THEN UTF8_ACCEPT ELSE UTF8_REJECT
         /\ Row(3, ByteClass(c)) = IF c \in Follow THEN 2 ELSE UTF8_REJECT
         /\ Row(4, ByteClass(c)) = IF c \in 160 .. 191 THEN 2 ELSE UTF8_REJECT
         /\ Row(5, ByteClass(c)) = IF c \in 128 .. 159 THEN 2 ELSE UTF8_REJECT
         /\ Row(6, ByteClass(c)) = IF c \in 144 .. 191 THEN 3 ELSE UTF8_REJECT
         /\ Row(7, ByteClass(c)) = IF c \in Follow THEN 3 ELSE UTF8_REJECT
         /\ Row(8, ByteClass(c)) = IF c \in 128 .. 143 THEN 3 ELSE UTF8_REJECT
<1>1. /\ Lets[2] = {1, 7, 9} /\ Lets[3] = {1, 7, 9} /\ Lets[4] = {7} /\ Lets[5] = {1, 9}
      /\ Lets[6] = {7, 9} /\ Lets[7] = {1, 7, 9} /\ Lets[8] = {1}
  BY DEF Lets
<1>2. /\ Goes[2] = UTF8_ACCEPT /\ Goes[3] = 2 /\ Goes[4] = 2 /\ Goes[5] = 2
      /\ Goes[6] = 3 /\ Goes[7] = 3 /\ Goes[8] = 3
  BY DEF Goes, UTF8_ACCEPT
<1>3. /\ ByteClass(c) = 1 <=> c \in 128 .. 143
      /\ ByteClass(c) = 9 <=> c \in 144 .. 159
      /\ ByteClass(c) = 7 <=> c \in 160 .. 191
  BY DEF ByteClass, Octet
<1> QED
  BY <1>1, <1>2, <1>3 DEF Row, Follow, UTF8_ACCEPT, Octet

\* The second byte: the range the lexer asks for is what the row of the state lets.
LEMMA SecondByte ==
  ASSUME NEW b \in Octet, NEW c \in Octet, Trail(b) # <<>>
  PROVE  c \in Trail(b)[1] <=> Row(Lead(ByteClass(b)), ByteClass(c)) # UTF8_REJECT
<1>1. (\A A : <<A>>[1] = A) /\ (\A A, B : <<A, B>>[1] = A) /\ (\A A, B, C : <<A, B, C>>[1] = A)
  OBVIOUS
<1>2. CASE b \in 194 .. 223
  <2>1. Lead(ByteClass(b)) = 2
    BY <1>2 DEF Lead, ByteClass
  <2>2. Trail(b) = <<Follow>>
    BY <1>2 DEF Trail
  <2>3. <<Follow>>[1] = Follow
    BY <1>1, Zenon
  <2>4. Trail(b)[1] = Follow
    BY <2>2, <2>3, Zenon
  <2> QED
    BY <2>1, <2>4, Rows DEF UTF8_ACCEPT, UTF8_REJECT
<1>3. CASE b = 224
  <2>1. Lead(ByteClass(b)) = 4
    BY <1>3 DEF Lead, ByteClass
  <2>2. Trail(b) = <<160 .. 191, Follow>>
    BY <1>3 DEF Trail
  <2>3. <<160 .. 191, Follow>>[1] = 160 .. 191
    BY <1>1, Zenon
  <2>4. Trail(b)[1] = 160 .. 191
    BY <2>2, <2>3, Zenon
  <2> QED
    BY <2>1, <2>4, Rows DEF UTF8_ACCEPT, UTF8_REJECT
<1>4. CASE b = 237
  <2>1. Lead(ByteClass(b)) = 5
    BY <1>4 DEF Lead, ByteClass
  <2>2. Trail(b) = <<128 .. 159, Follow>>
    BY <1>4 DEF Trail
  <2>3. <<128 .. 159, Follow>>[1] = 128 .. 159
    BY <1>1, Zenon
  <2>4. Trail(b)[1] = 128 .. 159
    BY <2>2, <2>3, Zenon
  <2> QED
    BY <2>1, <2>4, Rows DEF UTF8_ACCEPT, UTF8_REJECT
<1>5. CASE b \in 225 .. 239 \ {237}
  <2>1. Lead(ByteClass(b)) = 3
    BY <1>5 DEF Lead, ByteClass
  <2>2. Trail(b) = <<Follow, Follow>>
    BY <1>5 DEF Trail
  <2>3. <<Follow, Follow>>[1] = Follow
    BY <1>1, Zenon
  <2>4. Trail(b)[1] = Follow
    BY <2>2, <2>3, Zenon
  <2> QED
    BY <2>1, <2>4, Rows DEF UTF8_ACCEPT, UTF8_REJECT
<1>6. CASE b = 240
  <2>1. Lead(ByteClass(b)) = 6
    BY <1>6 DEF Lead, ByteClass
  <2>2. Trail(b) = <<144 .. 191, Follow, Follow>>
    BY <1>6 DEF Trail
  <2>3. <<144 .. 191, Follow, Follow>>[1] = 144 .. 191
    BY <1>1, Zenon
  <2>4. Trail(b)[1] = 144 .. 191
    BY <2>2, <2>3, Zenon
  <2> QED
    BY <2>1, <2>4, Rows DEF UTF8_ACCEPT, UTF8_REJECT
<1>7. CASE b \in 241 .. 243
  <2>1. Lead(ByteClass(b)) = 7
    BY <1>7 DEF Lead, ByteClass
  <2>2. Trail(b) = <<Follow, Follow, Follow>>
    BY <1>7 DEF Trail
  <2>3. <<Follow, Follow, Follow>>[1] = Follow
    BY <1>1, Zenon
  <2>4. Trail(b)[1] = Follow
    BY <2>2, <2>3, Zenon
  <2> QED
    BY <2>1, <2>4, Rows DEF UTF8_ACCEPT, UTF8_REJECT
<1>8. CASE b = 244
  <2>1. Lead(ByteClass(b)) = 8
    BY <1>8 DEF Lead, ByteClass
  <2>2. Trail(b) = <<128 .. 143, Follow, Follow>>
    BY <1>8 DEF Trail
  <2>3. <<128 .. 143, Follow, Follow>>[1] = 128 .. 143
    BY <1>1, Zenon
  <2>4. Trail(b)[1] = 128 .. 143
    BY <2>2, <2>3, Zenon
  <2> QED
    BY <2>1, <2>4, Rows DEF UTF8_ACCEPT, UTF8_REJECT
<1>9. \/ b \in 194 .. 223 \/ b = 224 \/ b = 237 \/ b \in 225 .. 239 \ {237} \/ b = 240
      \/ b \in 241 .. 243 \/ b = 244
  BY DEF Trail
<1> QED
  BY <1>2, <1>3, <1>4, <1>5, <1>6, <1>7, <1>8, <1>9

\* A byte within a code point is refused, or one byte less is missing.
LEMMA OtherBytes ==
  ASSUME NEW state \in 2 .. 8, NEW c \in Octet
  PROVE  /\ Row(state, ByteClass(c)) \in 0 .. 3
         /\ Row(state, ByteClass(c)) # UTF8_REJECT =>
              Missing(Row(state, ByteClass(c))) = Missing(state) - 1
         /\ state \in {2, 3} => (c \in Follow <=> Row(state, ByteClass(c)) # UTF8_REJECT)
BY Rows DEF Missing, UTF8_ACCEPT, UTF8_REJECT

-----------------------------------------------------------------------------
\* One byte.

Decoder == [state : 0 .. 8, codep : Nat, ok : BOOLEAN, text : Seq(Octet)]

\* The bits read so far of a code point beyond ASCII will make a number beyond ASCII:
\* such a code point is never taken for one that has an escape.
Firm(d) == (d.state = 2 => d.codep >= 2) /\ (d.state \in {3, 5, 7, 8} => d.codep >= 1)

\* The table of masks, an entry at a time.
LEMMA Masks ==
  /\ Mask(0) = 256 /\ Mask(1) = 128 /\ Mask(2) = 64 /\ Mask(3) = 32 /\ Mask(4) = 16 /\ Mask(5) = 8
  /\ Mask(6) = 4 /\ Mask(7) = 2 /\ Mask(8) = 1 /\ Mask(9) = 1 /\ Mask(10) = 1 /\ Mask(11) = 1
BY DEF Mask

\* What is written of a code point is bytes.
LEMMA EscapesAreBytes ==
  ASSUME NEW c \in Nat, NEW b \in Octet
  PROVE  Escaped(c, b) \in Seq(Octet)
<1>1. CASE c \in DOMAIN Escapes
  BY <1>1 DEF Escaped, Escapes, Backslash, Octet
<1>2. CASE c \notin DOMAIN Escapes /\ c < 32
  <2>1. HexText(c \div 16) \in Octet /\ HexText(c % 16) \in Octet
    BY <1>2 DEF HexText, Octet
  <2> QED
    BY <1>2, <2>1 DEF Escaped, Backslash, Octet
<1>3. CASE c \notin DOMAIN Escapes /\ c >= 32
  BY <1>3 DEF Escaped
<1> QED
  BY <1>1, <1>2, <1>3

\* The decoder stays in its table, and never leaves UTF8_REJECT.
LEMMA StateType ==
  ASSUME NEW state \in 0 .. 8, NEW c \in Octet
  PROVE  /\ Row(state, ByteClass(c)) \in 0 .. 8
         /\ state = UTF8_REJECT => Row(state, ByteClass(c)) = UTF8_REJECT
<1>1. CASE state = UTF8_REJECT
  BY <1>1 DEF Row, Lets, UTF8_ACCEPT, UTF8_REJECT
<1>2. CASE state = UTF8_ACCEPT
  BY <1>2, FirstByte DEF Row, UTF8_ACCEPT, UTF8_REJECT
<1> QED
  BY <1>1, <1>2, OtherBytes DEF UTF8_ACCEPT, UTF8_REJECT

\* The bits of a code point make a number.
LEMMA CodepType ==
  ASSUME NEW d \in Decoder, NEW b \in Octet
  PROVE  decode(d, b).codep \in Nat
<1>1. b % Mask(ByteClass(b)) \in Nat
  <2>1. ASSUME NEW class \in 0 .. 11 PROVE Mask(class) \in Nat \ {0}
    <3>1. \/ class = 0 \/ class = 1 \/ class = 2 \/ class = 3 \/ class = 4 \/ class = 5
          \/ class = 6 \/ class = 7 \/ class = 8 \/ class = 9 \/ class = 10 \/ class = 11
      OBVIOUS
    <3> QED
      BY <3>1, Masks
  <2>2. Mask(ByteClass(b)) \in Nat \ {0}
    BY <2>1, FirstByte
  <2> QED
    BY <2>2 DEF Octet
<1>2. (b % 64) + d.codep * 64 \in Nat
  BY DEF Decoder, Octet
<1> QED
  BY <1>1, <1>2 DEF decode

\* A byte leaves the decoder well typed.
LEMMA DecoderType ==
  ASSUME NEW d \in Decoder, NEW b \in Octet
  PROVE  decode(d, b) \in Decoder
<1> DEFINE written == IF Row(d.state, ByteClass(b)) = UTF8_ACCEPT THEN Escaped(decode(d, b).codep, b) ELSE <<b>>
<1>1. written \in Seq(Octet)
  BY CodepType, EscapesAreBytes
<1>2. d.text \o written \in Seq(Octet)
  <2> HIDE DEF written
  <2> QED
    BY <1>1, ConcatProperties DEF Decoder
<1>3. Row(d.state, ByteClass(b)) \in 0 .. 8 /\ d.ok \in BOOLEAN
  BY StateType DEF Decoder
<1>4. decode(d, b) = [state |-> Row(d.state, ByteClass(b)), codep |-> decode(d, b).codep,
                      ok |-> d.ok /\ Row(d.state, ByteClass(b)) # UTF8_REJECT, text |-> d.text \o written]
  BY DEF decode
<1>5. \A st \in 0 .. 8, c \in Nat, o \in BOOLEAN, t \in Seq(Octet) :
        [state |-> st, codep |-> c, ok |-> o, text |-> t] \in Decoder
  BY DEF Decoder
<1> HIDE DEF written
<1>6. (d.ok /\ Row(d.state, ByteClass(b)) # UTF8_REJECT) \in BOOLEAN
  OBVIOUS
<1> QED
  BY <1>2, <1>3, <1>4, <1>5, <1>6, CodepType

\* decode, a field at a time.
LEMMA Parts ==
  ASSUME NEW d, NEW b
  PROVE  /\ decode(d, b).state = Row(d.state, ByteClass(b))
         /\ decode(d, b).codep = IF d.state # UTF8_ACCEPT THEN (b % 64) + d.codep * 64 ELSE b % Mask(ByteClass(b))
         /\ decode(d, b).ok = (d.ok /\ Row(d.state, ByteClass(b)) # UTF8_REJECT)
         /\ decode(d, b).text =
              d.text \o (IF Row(d.state, ByteClass(b)) = UTF8_ACCEPT THEN Escaped(decode(d, b).codep, b) ELSE <<b>>)
BY DEF decode

\* At the beginning of a code point.
LEMMA Begins ==
  ASSUME NEW d \in Decoder, d.state = UTF8_ACCEPT, NEW b \in Octet
  PROVE  /\ decode(d, b).state = Lead(ByteClass(b))
         /\ decode(d, b).ok = (d.ok /\ Lead(ByteClass(b)) # UTF8_REJECT)
         /\ b < 128 => decode(d, b).text = d.text \o Escaped(b, b)
         /\ b >= 128 => decode(d, b).text = d.text \o <<b>> /\ Firm(decode(d, b))
<1> DEFINE class == ByteClass(b)
           codep == b % Mask(class)
           e == decode(d, b)
<1>1. /\ e.state = Lead(class) /\ e.codep = codep /\ e.ok = (d.ok /\ Lead(class) # UTF8_REJECT)
      /\ e.text = d.text \o (IF Lead(class) = UTF8_ACCEPT THEN Escaped(codep, b) ELSE <<b>>)
  BY Parts, ZenonT(30) DEF Row
<1>2. b < 128 => codep = b
  <2>1. b < 128 => class = 0
    BY DEF ByteClass
  <2> HIDE DEF class
  <2> QED
    BY <2>1, Masks DEF Octet
<1>3. /\ Lead(class) = 2 => codep >= 2
      /\ Lead(class) \in {3, 5, 7, 8} => codep >= 1
  <2>1. /\ Lead(class) = 2 => class = 2 /\ b \in 194 .. 223
        /\ Lead(class) = 3 => class = 3 /\ b \in 225 .. 239
        /\ Lead(class) = 5 => class = 4 /\ b = 237
        /\ Lead(class) = 7 => class = 6 /\ b \in 241 .. 243
        /\ Lead(class) = 8 => class = 5 /\ b = 244
    BY DEF ByteClass, Lead, Octet
  <2> HIDE DEF class
  <2> QED
    BY <2>1, Masks
<1>4. Lead(class) = UTF8_ACCEPT <=> b < 128
  BY FirstByte
<1> HIDE DEF class, codep, e
<1>5. Firm(e)
  BY <1>1, <1>3 DEF Firm
<1>6. b < 128 => e.text = d.text \o Escaped(b, b)
  BY <1>1, <1>2, <1>4, Zenon
<1>7. b >= 128 => e.text = d.text \o <<b>>
  <2>1. b >= 128 => ~(b < 128)
    BY DEF Octet
  <2> QED
    BY <1>1, <1>4, <2>1, Zenon
<1> QED
  BY <1>1, <1>5, <1>6, <1>7 DEF class, e

\* Within a code point.
LEMMA Continues ==
  ASSUME NEW d \in Decoder, d.state \in 2 .. 8, Firm(d), NEW b \in Octet
  PROVE  /\ decode(d, b).state = Row(d.state, ByteClass(b))
         /\ decode(d, b).ok = (d.ok /\ Row(d.state, ByteClass(b)) # UTF8_REJECT)
         /\ decode(d, b).text = d.text \o <<b>>
         /\ Firm(decode(d, b))
<1> DEFINE next == Row(d.state, ByteClass(b))
           codep == (b % 64) + d.codep * 64
           e == decode(d, b)
<1>1. /\ e.state = next /\ e.codep = codep /\ e.ok = (d.ok /\ next # UTF8_REJECT)
      /\ e.text = d.text \o (IF next = UTF8_ACCEPT THEN Escaped(codep, b) ELSE <<b>>)
  <2>1. d.state # UTF8_ACCEPT
    BY DEF UTF8_ACCEPT
  <2>2. e.codep = codep
    BY <2>1, Parts, Zenon
  <2>3. e.text = d.text \o (IF next = UTF8_ACCEPT THEN Escaped(e.codep, b) ELSE <<b>>)
    BY Parts
  <2> QED
    BY <2>2, <2>3, Parts
<1>2. d.codep \in Nat /\ b % 64 \in 0 .. 63 /\ d.state \in Nat
  BY DEF Decoder, Octet
<1>3. /\ next \in 0 .. 3
      /\ d.state = 2 => next \in {0, 1}
      /\ d.state \in {3, 4, 5} => next \in {1, 2}
      /\ d.state \in {6, 7, 8} => next \in {1, 3}
  BY Rows, OtherBytes DEF UTF8_ACCEPT, UTF8_REJECT
<1>4. /\ d.state = 4 /\ next = 2 => b \in 160 .. 191
      /\ d.state = 6 /\ next = 3 => b \in 144 .. 191
  BY Rows DEF UTF8_REJECT
<1> HIDE DEF next
<1>5. next = UTF8_ACCEPT => codep >= 128
  BY <1>2, <1>3 DEF Firm, UTF8_ACCEPT
<1>6. (next = 2 => codep >= 2) /\ (next = 3 => codep >= 1)
  BY <1>2, <1>3, <1>4 DEF Firm
<1>7. codep >= 128 => Escaped(codep, b) = <<b>>
  BY <1>2 DEF Escaped, Escapes
<1> HIDE DEF codep, e
<1>8. Firm(e)
  BY <1>1, <1>3, <1>6 DEF Firm
<1>9. e.text = d.text \o <<b>>
  BY <1>1, <1>5, <1>7, Zenon
<1> QED
  BY <1>1, <1>8, <1>9 DEF next, e

-----------------------------------------------------------------------------
\* A string of bytes.

\* The decoder after each byte, without the recursion.
LEMMA Dumps ==
  ASSUME NEW s \in Seq(Octet)
  PROVE  /\ \A n \in 0 .. Len(s) : Dumped(s)[n] \in Decoder
         /\ Dumped(s)[0] = Begin
         /\ \A n \in 1 .. Len(s) : Dumped(s)[n] = decode(Dumped(s)[n - 1], s[n])
<1> DEFINE D == 0 .. Len(s)
           V == Decoder
           F == [f \in [D -> V] |-> [n \in D |-> IF n = 0 THEN Begin ELSE decode(f[n - 1], s[n])]]
           self == [n \in D |-> n]
<1>1. Len(s) \in Nat /\ \A n \in 1 .. Len(s) : s[n] \in Octet
  BY ElementOfSeq, LenProperties
<1>2. Begin \in Decoder
  BY DEF Begin, Decoder, UTF8_ACCEPT
<1>3. ASSUME NEW f \in [D -> V] PROVE F[f] \in [D -> V]
  <2>1. ASSUME NEW n \in D, n # 0 PROVE decode(f[n - 1], s[n]) \in Decoder
    <3>1. f[n - 1] \in Decoder /\ s[n] \in Octet
      BY <1>1, <1>3, <2>1
    <3> QED
      BY <3>1, DecoderType
  <2> QED
    BY <1>3, <1>2, <2>1
<1>4. ASSUME NEW f \in [D -> V], NEW g \in [D -> V], NEW n \in Nat, Agree(f, g, D, self, n)
      PROVE  Agree(F[f], F[g], D, self, n + 1)
  <2>1. ASSUME NEW i \in D, i < n + 1, i # 0 PROVE f[i - 1] = g[i - 1]
    <3>1. i - 1 \in D /\ i - 1 < n
      BY <1>1, <2>1
    <3> QED
      BY <3>1, <1>4 DEF Agree
  <2>2. ASSUME NEW i \in D, i < n + 1 PROVE F[f][i] = F[g][i]
    BY <2>1, <2>2
  <2> QED
    BY <2>2 DEF Agree
<1>5. Recursive(F, D, V, self) /\ V # {}
  <2>1. F \in [[D -> V] -> [D -> V]]
    BY <1>3
  <2>2. self \in [D -> Nat] /\ V # {}
    BY <1>1, <1>2
  <2> HIDE DEF F, D, V, self
  <2> QED
    BY <1>4, <2>1, <2>2 DEF Recursive
<1>6. PICK f \in [D -> V] : f = F[f]
  <2> HIDE DEF F, D, V, self
  <2> QED
    BY <1>5, Recursion
<1>7. f = [n \in 0 .. Len(s) |-> IF n = 0 THEN Begin ELSE decode(f[n - 1], s[n])]
  BY <1>6
<1>8. Dumped(s) = [n \in 0 .. Len(s) |-> IF n = 0 THEN Begin ELSE decode(Dumped(s)[n - 1], s[n])]
  BY <1>7 DEF Dumped
<1>9. \A n \in 0 .. Len(s) : Dumped(s)[n] = IF n = 0 THEN Begin ELSE decode(Dumped(s)[n - 1], s[n])
  BY <1>8, Zenon
<1> DEFINE S == {n \in 0 .. Len(s) : Dumped(s)[n] \in Decoder}
<1>10. \A n \in 0 .. Len(s) - 1 : n \in S => n + 1 \in S
  <2>1. ASSUME NEW n \in 0 .. Len(s) - 1, Dumped(s)[n] \in Decoder
        PROVE  n + 1 \in 0 .. Len(s) /\ Dumped(s)[n + 1] \in Decoder
    <3>1. n + 1 \in 0 .. Len(s) /\ n + 1 # 0 /\ (n + 1) - 1 = n /\ s[n + 1] \in Octet
      BY <1>1
    <3>2. Dumped(s)[n + 1] = decode(Dumped(s)[n], s[n + 1])
      BY <3>1, <1>9
    <3> QED
      BY <2>1, <3>1, <3>2, DecoderType
  <2> QED
    BY <2>1
<1>11. 0 \in S
  BY <1>1, <1>2, <1>9
<1>12. 0 .. Len(s) \subseteq S
  <2> HIDE DEF S
  <2> QED
    BY <1>1, <1>10, <1>11, ReachesUpTo
<1> QED
  BY <1>1, <1>9, <1>12

\* A code point: its bytes, and what is written of them.
Chars == {u \in Seq(Octet) : /\ Len(u) \in 1 .. 4
                             /\ Len(u) = 1 + Len(Trail(u[1]))
                             /\ Len(u) = 1 => u[1] < 128
                             /\ \A j \in 1 .. Len(u) - 1 : u[j + 1] \in Trail(u[1])[j]}
Written(u) == IF Len(u) = 1 THEN Escaped(u[1], u[1]) ELSE u

\* One byte more of a code point.
LEMMA Inner ==
  ASSUME NEW d \in Decoder, d.state \in 2 .. 8, Firm(d), d.ok = TRUE,
         NEW c \in Octet, Row(d.state, ByteClass(c)) # UTF8_REJECT
  PROVE  /\ decode(d, c).state \in {0, 2, 3}
         /\ Missing(decode(d, c).state) = Missing(d.state) - 1
         /\ decode(d, c).ok = TRUE
         /\ decode(d, c).text = d.text \o <<c>>
         /\ Firm(decode(d, c))
<1>1. Row(d.state, ByteClass(c)) \in 0 .. 3 /\ Missing(Row(d.state, ByteClass(c))) = Missing(d.state) - 1
  BY OtherBytes
<1>2. Row(d.state, ByteClass(c)) \in {0, 2, 3}
  BY <1>1 DEF UTF8_REJECT
<1> QED
  BY <1>1, <1>2, Continues

\* The first byte of a code point beyond ASCII.
LEMMA FirstOfMany ==
  ASSUME NEW d \in Decoder, d.state = UTF8_ACCEPT, d.ok = TRUE, NEW b \in Octet, Trail(b) # <<>>
  PROVE  /\ decode(d, b).state = Lead(ByteClass(b))
         /\ decode(d, b).state \in 2 .. 8
         /\ Missing(decode(d, b).state) = Len(Trail(b))
         /\ decode(d, b).ok = TRUE
         /\ decode(d, b).text = d.text \o <<b>>
         /\ Firm(decode(d, b))
<1>1. Lead(ByteClass(b)) \in 2 .. 8 /\ Len(Trail(b)) = Missing(Lead(ByteClass(b)))
  BY FirstByte
<1>2. b >= 128
  <2>1. Lead(ByteClass(b)) # UTF8_ACCEPT
    BY <1>1 DEF UTF8_ACCEPT
  <2>2. ~(b < 128)
    BY <2>1, FirstByte
  <2> QED
    BY <2>2 DEF Octet
<1>3. Lead(ByteClass(b)) # UTF8_REJECT
  BY <1>1 DEF UTF8_REJECT
<1> QED
  BY <1>1, <1>2, <1>3, Begins

\* A decoder for which nothing is missing accepts; otherwise it wants bytes of the common range.
LEMMA Waits ==
  ASSUME NEW state \in {0, 2, 3}
  PROVE  (Missing(state) = 0 => state = UTF8_ACCEPT) /\ (Missing(state) >= 1 => state \in {2, 3})
BY DEF Missing, UTF8_ACCEPT

\* A byte of the common range is never refused there.
LEMMA LaterBytes ==
  ASSUME NEW state \in {2, 3}, NEW c \in Follow
  PROVE  c \in Octet /\ Row(state, ByteClass(c)) # UTF8_REJECT
<1>1. c \in Octet
  BY DEF Follow, Octet
<1>2. state \in 2 .. 8
  OBVIOUS
<1> HIDE DEF Follow
<1> QED
  BY <1>1, <1>2, OtherBytes

\* After a code point the decoder accepts, and all of it has been written.
LEMMA OneCharacter ==
  ASSUME NEW s \in Seq(Octet), NEW u \in Chars, Len(u) <= Len(s), \A j \in 1 .. Len(u) : s[j] = u[j]
  PROVE  /\ Dumped(s)[Len(u)].state = UTF8_ACCEPT
         /\ Dumped(s)[Len(u)].ok = TRUE
         /\ Dumped(s)[Len(u)].text = Written(u)
<1> DEFINE b == u[1]
           d0 == Dumped(s)[0]
           d1 == Dumped(s)[1]
           d2 == Dumped(s)[2]
           d3 == Dumped(s)[3]
           d4 == Dumped(s)[4]
<1>1. /\ Len(s) \in Nat /\ Len(u) \in 1 .. 4 /\ u \in Seq(Octet) /\ b \in Octet /\ b = s[1]
      /\ \A j \in 1 .. Len(u) : u[j] \in Octet
  <2>1. u \in Seq(Octet) /\ Len(u) \in 1 .. 4
    BY DEF Chars
  <2> QED
    BY <2>1, ElementOfSeq, LenProperties
<1>2. d0 \in Decoder /\ d0.state = UTF8_ACCEPT /\ d0.ok = TRUE /\ d0.text = <<>>
  BY <1>1, Dumps DEF Begin
<1>3. /\ d1 = decode(d0, b) /\ d1 \in Decoder
      /\ Len(u) >= 2 => d2 = decode(d1, u[2]) /\ d2 \in Decoder
      /\ Len(u) >= 3 => d3 = decode(d2, u[3]) /\ d3 \in Decoder
      /\ Len(u) >= 4 => d4 = decode(d3, u[4]) /\ d4 \in Decoder
  BY <1>1, Dumps
<1>4. Len(Trail(b)) = Len(u) - 1 /\ \A j \in 1 .. Len(u) - 1 : u[j + 1] \in Trail(b)[j]
  BY <1>1 DEF Chars
<1> HIDE DEF b, d0, d1, d2, d3, d4
<1>5. ASSUME Len(u) = 1
      PROVE  d1.state = UTF8_ACCEPT /\ d1.ok = TRUE /\ d1.text = Written(u)
  <2>1. b < 128
    BY <1>5 DEF Chars, b
  <2>2. Lead(ByteClass(b)) = UTF8_ACCEPT /\ UTF8_ACCEPT # UTF8_REJECT
    BY <1>1, <2>1, FirstByte DEF UTF8_ACCEPT, UTF8_REJECT
  <2>3. /\ d1.state = Lead(ByteClass(b))
        /\ d1.ok = (d0.ok /\ Lead(ByteClass(b)) # UTF8_REJECT)
        /\ d1.text = d0.text \o Escaped(b, b)
    BY <1>1, <1>2, <1>3, <2>1, Begins, Zenon
  <2>4. Escaped(b, b) \in Seq(Octet)
    <3>1. b \in Nat
      BY <1>1, Octets
    <3> QED
      BY <1>1, <3>1, EscapesAreBytes
  <2>5. <<>> \o Escaped(b, b) = Escaped(b, b)
    BY <2>4, ConcatEmptySeq
  <2> QED
    BY <1>2, <1>5, <2>2, <2>3, <2>5 DEF Written, b
<1> DEFINE Inside(d, n) == Missing(d.state) = Len(u) - n /\ d.ok = TRUE /\ Firm(d)
<1>6. ASSUME Len(u) >= 2
      PROVE  d1.state = Lead(ByteClass(b)) /\ d1.state \in 2 .. 8 /\ Inside(d1, 1) /\ d1.text = <<b>>
  <2>1. Trail(b) # <<>>
    BY <1>1, <1>4, <1>6
  <2>2. /\ d1.state = Lead(ByteClass(b)) /\ d1.state \in 2 .. 8 /\ Missing(d1.state) = Len(Trail(b))
        /\ d1.ok = TRUE /\ d1.text = <<>> \o <<b>> /\ Firm(d1)
    BY <1>1, <1>2, <1>3, <2>1, FirstOfMany, ZenonT(30)
  <2>3. d1.text = <<b>>
    BY <2>2
  <2> QED
    BY <1>4, <2>2, <2>3
<1>7. ASSUME Len(u) >= 2
      PROVE  d2.state \in {0, 2, 3} /\ Inside(d2, 2) /\ d2.text = <<b>> \o <<u[2]>>
  <2>1. u[2] \in Octet /\ u[2] \in Trail(b)[1] /\ Trail(b) # <<>>
    BY <1>1, <1>4, <1>7
  <2>2. d1.state = Lead(ByteClass(b)) /\ d1.state \in 2 .. 8 /\ Inside(d1, 1) /\ d1.text = <<b>>
    BY <1>6, <1>7
  <2>3. Row(d1.state, ByteClass(u[2])) # UTF8_REJECT
    BY <1>1, <2>1, <2>2, SecondByte
  <2>4. d1 \in Decoder /\ d2 = decode(d1, u[2])
    BY <1>3, <1>7
  <2>5. /\ d2.state \in {0, 2, 3} /\ Missing(d2.state) = Missing(d1.state) - 1
        /\ d2.ok = TRUE /\ d2.text = d1.text \o <<u[2]>> /\ Firm(d2)
    BY <2>1, <2>2, <2>3, <2>4, Inner
  <2>6. Inside(d2, 2)
    BY <1>1, <2>2, <2>5
  <2> QED
    BY <2>2, <2>5, <2>6
<1>8. ASSUME Len(u) >= 3
      PROVE  d3.state \in {0, 2, 3} /\ Inside(d3, 3) /\ d3.text = <<b>> \o <<u[2]>> \o <<u[3]>>
  <2>1. Len(u) >= 2 /\ Len(u) - 2 >= 1
    BY <1>1, <1>8
  <2>2. d2.state \in {0, 2, 3} /\ Inside(d2, 2) /\ d2.text = <<b>> \o <<u[2]>>
    BY <1>7, <2>1
  <2>3. d2.state \in {2, 3} /\ d2.state \in 2 .. 8
    <3>1. Missing(d2.state) >= 1
      BY <2>1, <2>2
    <3>2. d2.state \in {2, 3}
      BY <2>2, <3>1, Waits
    <3> QED
      BY <3>2
  <2>4. u[3] \in Follow
    <3>1. 2 \in 2 .. Len(Trail(b)) /\ 2 \in 1 .. Len(u) - 1
      BY <1>1, <1>4, <2>1
    <3>2. Trail(b)[2] = Follow
      BY <1>1, <3>1, FirstByte
    <3> QED
      BY <1>4, <3>1, <3>2
  <2>5. u[3] \in Octet /\ Row(d2.state, ByteClass(u[3])) # UTF8_REJECT
    BY <2>3, <2>4, LaterBytes
  <2>6. d2 \in Decoder /\ d3 = decode(d2, u[3])
    BY <1>1, <1>3, <1>8, <2>1
  <2>7. /\ d3.state \in {0, 2, 3} /\ Missing(d3.state) = Missing(d2.state) - 1
        /\ d3.ok = TRUE /\ d3.text = d2.text \o <<u[3]>> /\ Firm(d3)
    BY <2>2, <2>3, <2>5, <2>6, Inner
  <2>8. Inside(d3, 3)
    BY <1>1, <2>2, <2>7
  <2> QED
    BY <2>2, <2>7, <2>8
<1>9. ASSUME Len(u) >= 4
      PROVE  d4.state \in {0, 2, 3} /\ Inside(d4, 4) /\ d4.text = <<b>> \o <<u[2]>> \o <<u[3]>> \o <<u[4]>>
  <2>1. Len(u) >= 3 /\ Len(u) - 3 >= 1
    BY <1>1, <1>9
  <2>2. d3.state \in {0, 2, 3} /\ Inside(d3, 3) /\ d3.text = <<b>> \o <<u[2]>> \o <<u[3]>>
    BY <1>8, <2>1
  <2>3. d3.state \in {2, 3} /\ d3.state \in 2 .. 8
    <3>1. Missing(d3.state) >= 1
      BY <2>1, <2>2
    <3>2. d3.state \in {2, 3}
      BY <2>2, <3>1, Waits
    <3> QED
      BY <3>2
  <2>4. u[4] \in Follow
    <3>1. 3 \in 2 .. Len(Trail(b)) /\ 3 \in 1 .. Len(u) - 1
      BY <1>1, <1>4, <2>1
    <3>2. Trail(b)[3] = Follow
      BY <1>1, <3>1, FirstByte
    <3> QED
      BY <1>4, <3>1, <3>2
  <2>5. u[4] \in Octet /\ Row(d3.state, ByteClass(u[4])) # UTF8_REJECT
    BY <2>3, <2>4, LaterBytes
  <2>6. d3 \in Decoder /\ d4 = decode(d3, u[4])
    BY <1>1, <1>3, <1>9, <2>1
  <2>7. /\ d4.state \in {0, 2, 3} /\ Missing(d4.state) = Missing(d3.state) - 1
        /\ d4.ok = TRUE /\ d4.text = d3.text \o <<u[4]>> /\ Firm(d4)
    BY <2>2, <2>3, <2>5, <2>6, Inner
  <2>8. Inside(d4, 4)
    BY <1>1, <2>2, <2>7
  <2> QED
    BY <2>2, <2>7, <2>8
<1>10. CASE Len(u) = 1
  BY <1>5, <1>10 DEF d1
<1>11. CASE Len(u) = 2
  <2>1. u = <<b>> \o <<u[2]>>
    BY <1>1, <1>11, SeqEqual DEF b
  <2>2. d2.state \in {0, 2, 3} /\ Inside(d2, 2) /\ d2.text = u
    <3>1. Len(u) >= 2
      BY <1>11
    <3>2. d2.state \in {0, 2, 3} /\ Inside(d2, 2)
      BY <1>7, <3>1
    <3> QED
      BY <1>7, <2>1, <3>1, <3>2, Zenon
  <2>3. Missing(d2.state) = 0 /\ d2.ok = TRUE
    BY <1>11, <2>2
  <2>4. d2.state = UTF8_ACCEPT
    BY <2>2, <2>3, Waits
  <2>5. Written(u) = u
    BY <1>11 DEF Written
  <2> QED
    BY <1>11, <2>2, <2>3, <2>4, <2>5 DEF d2
<1>12. CASE Len(u) = 3
  <2>1. u = <<b>> \o <<u[2]>> \o <<u[3]>>
    BY <1>1, <1>12, SeqEqual DEF b
  <2>2. d3.state \in {0, 2, 3} /\ Inside(d3, 3) /\ d3.text = u
    <3>1. Len(u) >= 3
      BY <1>12
    <3>2. d3.state \in {0, 2, 3} /\ Inside(d3, 3)
      BY <1>8, <3>1
    <3> QED
      BY <1>8, <2>1, <3>1, <3>2, Zenon
  <2>3. Missing(d3.state) = 0 /\ d3.ok = TRUE
    BY <1>12, <2>2
  <2>4. d3.state = UTF8_ACCEPT
    BY <2>2, <2>3, Waits
  <2>5. Written(u) = u
    BY <1>12 DEF Written
  <2> QED
    BY <1>12, <2>2, <2>3, <2>4, <2>5 DEF d3
<1>13. CASE Len(u) = 4
  <2>1. u = <<b>> \o <<u[2]>> \o <<u[3]>> \o <<u[4]>>
    BY <1>1, <1>13, SeqEqual DEF b
  <2>2. d4.state \in {0, 2, 3} /\ Inside(d4, 4) /\ d4.text = u
    <3>1. Len(u) >= 4
      BY <1>13
    <3>2. d4.state \in {0, 2, 3} /\ Inside(d4, 4)
      BY <1>9, <3>1
    <3> QED
      BY <1>9, <2>1, <3>1, <3>2, Zenon
  <2>3. Missing(d4.state) = 0 /\ d4.ok = TRUE
    BY <1>13, <2>2
  <2>4. d4.state = UTF8_ACCEPT
    BY <2>2, <2>3, Waits
  <2>5. Written(u) = u
    BY <1>13 DEF Written
  <2> QED
    BY <1>13, <2>2, <2>3, <2>4, <2>5 DEF d4
<1>14. Len(u) = 1 \/ Len(u) = 2 \/ Len(u) = 3 \/ Len(u) = 4
  BY <1>1
<1> QED
  BY <1>10, <1>11, <1>12, <1>13, <1>14

\* A decoder that accepts has forgotten what it has read.
Resumes(d, e, w) ==
  /\ d.state = e.state /\ d.ok = e.ok /\ d.text = w \o e.text
  /\ e.state # UTF8_ACCEPT => d.codep = e.codep

\* Another byte leaves two such decoders alike.
LEMMA ResumesStep ==
  ASSUME NEW d \in Decoder, NEW e \in Decoder, NEW w \in Seq(Octet), NEW c \in Octet, Resumes(d, e, w)
  PROVE  Resumes(decode(d, c), decode(e, c), w)
<1>1. d.state = e.state /\ d.ok = e.ok /\ d.text = w \o e.text
  BY DEF Resumes
<1> DEFINE written == IF Row(e.state, ByteClass(c)) = UTF8_ACCEPT
                      THEN Escaped(decode(e, c).codep, c) ELSE <<c>>
           codep == IF e.state # UTF8_ACCEPT THEN (c % 64) + e.codep * 64 ELSE c % Mask(ByteClass(c))
           next == Row(e.state, ByteClass(c))
<1>2. /\ decode(e, c).state = next /\ decode(e, c).codep = codep
      /\ decode(e, c).ok = (e.ok /\ next # UTF8_REJECT) /\ decode(e, c).text = e.text \o written
  BY Parts, Zenon
<1>3. decode(d, c).state = next /\ decode(d, c).codep = codep /\ decode(d, c).ok = (d.ok /\ next # UTF8_REJECT)
  <2>1. /\ decode(d, c).state = Row(d.state, ByteClass(c))
        /\ decode(d, c).codep = IF d.state # UTF8_ACCEPT THEN (c % 64) + d.codep * 64 ELSE c % Mask(ByteClass(c))
        /\ decode(d, c).ok = (d.ok /\ Row(d.state, ByteClass(c)) # UTF8_REJECT)
    BY Parts, Zenon
  <2>2. e.state # UTF8_ACCEPT => d.codep = e.codep
    BY DEF Resumes
  <2> QED
    BY <1>1, <2>1, <2>2
<1>4. decode(d, c).text = d.text \o written
  <2>1. decode(d, c).text =
          d.text \o (IF Row(d.state, ByteClass(c)) = UTF8_ACCEPT THEN Escaped(decode(d, c).codep, c) ELSE <<c>>)
    BY Parts, Zenon
  <2>2. decode(d, c).codep = decode(e, c).codep
    BY <1>2, <1>3
  <2> QED
    BY <1>1, <2>1, <2>2
<1>5. written \in Seq(Octet) /\ e.text \in Seq(Octet)
  <2>1. decode(e, c).codep \in Nat
    BY CodepType
  <2>2. Escaped(decode(e, c).codep, c) \in Seq(Octet)
    BY <2>1, EscapesAreBytes
  <2> QED
    BY <2>2 DEF Decoder
<1> HIDE DEF written, codep, next
<1>6. (w \o e.text) \o written = w \o (e.text \o written)
  BY <1>5, Associative
<1>7. decode(d, c).text = w \o decode(e, c).text
  BY <1>1, <1>2, <1>4, <1>6, Zenon
<1> QED
  BY <1>1, <1>2, <1>3, <1>7 DEF Resumes

\* So they are alike after every further byte.
LEMMA Later ==
  ASSUME NEW r \in Seq(Octet), NEW v \in Seq(Octet), NEW w \in Seq(Octet), NEW k \in Nat,
         Len(r) = k + Len(v), \A n \in 1 .. Len(v) : r[k + n] = v[n],
         Dumped(r)[k].state = UTF8_ACCEPT, Dumped(r)[k].ok = TRUE, Dumped(r)[k].text = w
  PROVE  \A n \in 0 .. Len(v) : Resumes(Dumped(r)[k + n], Dumped(v)[n], w)
<1> DEFINE S == {n \in 0 .. Len(v) : Resumes(Dumped(r)[k + n], Dumped(v)[n], w)}
<1>1. Len(v) \in Nat /\ \A n \in 1 .. Len(v) : v[n] \in Octet
  BY ElementOfSeq, LenProperties
<1>2. 0 \in S
  <2>1. Dumped(v)[0] = Begin /\ k + 0 = k
    BY <1>1, Dumps
  <2>2. w \o <<>> = w
    BY ConcatEmptySeq
  <2>3. Resumes(Dumped(r)[k], Begin, w)
    BY <2>2 DEF Resumes, Begin
  <2> QED
    BY <1>1, <2>1, <2>3
<1>3. ASSUME NEW n \in 0 .. Len(v) - 1, n \in S PROVE n + 1 \in S
  <2>1. /\ k + n \in 0 .. Len(r) /\ k + (n + 1) \in 1 .. Len(r) /\ (k + (n + 1)) - 1 = k + n
        /\ n \in 0 .. Len(v) /\ n + 1 \in 1 .. Len(v) /\ (n + 1) - 1 = n /\ n + 1 \in 0 .. Len(v)
    BY <1>1
  <2>2. v[n + 1] \in Octet /\ r[k + (n + 1)] = v[n + 1]
    BY <1>1, <2>1
  <2>3. Dumped(r)[k + (n + 1)] = decode(Dumped(r)[k + n], v[n + 1]) /\ Dumped(r)[k + n] \in Decoder
    BY <2>1, <2>2, Dumps
  <2>4. Dumped(v)[n + 1] = decode(Dumped(v)[n], v[n + 1]) /\ Dumped(v)[n] \in Decoder
    BY <2>1, Dumps
  <2>5. Resumes(Dumped(r)[k + n], Dumped(v)[n], w)
    BY <1>3
  <2>6. Resumes(decode(Dumped(r)[k + n], v[n + 1]), decode(Dumped(v)[n], v[n + 1]), w)
    BY <2>2, <2>3, <2>4, <2>5, ResumesStep
  <2>7. Resumes(Dumped(r)[k + (n + 1)], Dumped(v)[n + 1], w)
    BY <2>3, <2>4, <2>6
  <2> QED
    BY <2>1, <2>7
<1>4. 0 .. Len(v) \subseteq S
  <2> HIDE DEF S
  <2> QED
    BY <1>1, <1>2, <1>3, ReachesUpTo
<1> QED
  BY <1>4

\* Code points, and what is written of them, are byte strings.
LEMMA WrittenIsBytes ==
  ASSUME NEW u \in Chars
  PROVE  u \in Seq(Octet) /\ Len(u) \in 1 .. 4 /\ Written(u) \in Seq(Octet)
<1>1. u \in Seq(Octet) /\ Len(u) \in 1 .. 4
  BY DEF Chars
<1>2. u[1] \in Octet /\ u[1] \in Nat
  BY <1>1, ElementOfSeq, Octets
<1> QED
  BY <1>1, <1>2, EscapesAreBytes DEF Written

\* What is written of a string is what is written of its code points.
LEMMA Joined ==
  ASSUME NEW u \in Chars, NEW v \in Seq(Octet)
  PROVE  /\ dump_escaped(u \o v).ok = dump_escaped(v).ok
         /\ dump_escaped(u \o v).text = Written(u) \o dump_escaped(v).text
<1> DEFINE r == u \o v
           k == Len(u)
<1>1. /\ u \in Seq(Octet) /\ k \in Nat /\ Len(v) \in Nat /\ r \in Seq(Octet) /\ Len(r) = k + Len(v)
      /\ Written(u) \in Seq(Octet)
  BY WrittenIsBytes, ConcatProperties, LenProperties
<1>2. (\A j \in 1 .. k : r[j] = u[j]) /\ (\A n \in 1 .. Len(v) : r[k + n] = v[n])
  BY <1>1, ConcatProperties
<1>3. k <= Len(r)
  BY <1>1
<1> HIDE DEF r
<1>4. Dumped(r)[k].state = UTF8_ACCEPT /\ Dumped(r)[k].ok = TRUE /\ Dumped(r)[k].text = Written(u)
  BY <1>1, <1>2, <1>3, OneCharacter
<1> HIDE DEF k
<1>5. \A n \in 0 .. Len(v) : Resumes(Dumped(r)[k + n], Dumped(v)[n], Written(u))
  BY <1>1, <1>2, <1>4, Later
<1>6. Resumes(Dumped(r)[Len(r)], Dumped(v)[Len(v)], Written(u))
  BY <1>1, <1>5
<1> QED
  BY <1>6 DEF Resumes, dump_escaped, r

\* What is written is bytes.
LEMMA DumpType ==
  ASSUME NEW s \in Seq(Octet)
  PROVE  dump_escaped(s).text \in Seq(Octet) /\ dump_escaped(s).ok \in BOOLEAN
<1>1. Len(s) \in 0 .. Len(s)
  BY LenProperties
<1>2. Dumped(s)[Len(s)] \in Decoder
  BY <1>1, Dumps
<1> QED
  BY <1>2 DEF Decoder, dump_escaped

\* What is written without an exception is so far without one everywhere.
LEMMA NoException ==
  ASSUME NEW s \in Seq(Octet), dump_escaped(s).ok
  PROVE  /\ Dumped(s)[Len(s)].state = UTF8_ACCEPT
         /\ \A n \in 0 .. Len(s) : Dumped(s)[n].ok = TRUE
         /\ \A n \in 1 .. Len(s) : Dumped(s)[n].state # UTF8_REJECT
<1> DEFINE S == {m \in 0 .. Len(s) : Dumped(s)[Len(s) - m].ok = TRUE}
<1>1. Len(s) \in Nat
  BY LenProperties
<1>2. Dumped(s)[Len(s)].ok = TRUE /\ Dumped(s)[Len(s)].state = UTF8_ACCEPT
  <2>1. Len(s) \in 0 .. Len(s)
    BY <1>1
  <2>2. Dumped(s)[Len(s)].ok \in BOOLEAN
    BY <2>1, Dumps DEF Decoder
  <2> QED
    BY <2>2 DEF dump_escaped
<1>3. ASSUME NEW n \in 1 .. Len(s), Dumped(s)[n].ok = TRUE
      PROVE  Dumped(s)[n - 1].ok = TRUE /\ Dumped(s)[n].state # UTF8_REJECT
  <2> DEFINE d == Dumped(s)[n - 1]
             e == Dumped(s)[n]
             c == s[n]
  <2>1. n - 1 \in 0 .. Len(s)
    BY <1>1
  <2>2. e = decode(d, c) /\ d \in Decoder
    BY <2>1, Dumps
  <2> HIDE DEF d, e, c
  <2>3. e.ok = (d.ok /\ Row(d.state, ByteClass(c)) # UTF8_REJECT) /\ e.state = Row(d.state, ByteClass(c))
    BY <2>2, Parts
  <2>4. d.ok \in BOOLEAN
    BY <2>2 DEF Decoder
  <2>5. e.ok = TRUE
    BY <1>3 DEF e
  <2>6. d.ok = TRUE /\ e.state # UTF8_REJECT
    BY <2>3, <2>4, <2>5
  <2> QED
    BY <2>6 DEF d, e
<1>4. 0 \in S
  BY <1>1, <1>2
<1>5. ASSUME NEW m \in 0 .. Len(s) - 1, m \in S PROVE m + 1 \in S
  <2>1. Len(s) - m \in 1 .. Len(s) /\ (Len(s) - m) - 1 = Len(s) - (m + 1) /\ m + 1 \in 0 .. Len(s)
    BY <1>1
  <2>2. Dumped(s)[Len(s) - m].ok = TRUE
    BY <1>5
  <2>3. Dumped(s)[(Len(s) - m) - 1].ok = TRUE
    BY <1>3, <2>1, <2>2
  <2> QED
    BY <2>1, <2>3
<1>6. 0 .. Len(s) \subseteq S
  <2> HIDE DEF S
  <2> QED
    BY <1>1, <1>4, <1>5, ReachesUpTo
<1>7. ASSUME NEW n \in 0 .. Len(s) PROVE Dumped(s)[n].ok = TRUE
  <2>1. Len(s) - n \in 0 .. Len(s) /\ Len(s) - (Len(s) - n) = n
    BY <1>1
  <2> QED
    BY <1>6, <2>1
<1>8. \A n \in 1 .. Len(s) : n \in 0 .. Len(s)
  BY <1>1
<1> QED
  BY <1>2, <1>3, <1>7, <1>8

\* A decoder for which something is missing is within a code point.
LEMMA MissingMeans ==
  ASSUME NEW state \in 0 .. 8, Missing(state) >= 1
  PROVE  state \in 2 .. 8 /\ state # UTF8_ACCEPT
BY DEF Missing, UTF8_ACCEPT

\* A string that is written without an exception begins with a code point.
LEMMA Starts ==
  ASSUME NEW s \in Seq(Octet), dump_escaped(s).ok, s # <<>>
  PROVE  \E u \in Chars : \E v \in Seq(Octet) : s = u \o v
<1> DEFINE b == s[1]
           k == 1 + Len(Trail(b))
           Inside(j) == /\ j \in 1 .. Len(s)
                        /\ Missing(Dumped(s)[j].state) = k - j
                        /\ k # 1 => Firm(Dumped(s)[j])
                        /\ j = 1 => Dumped(s)[j].state = Lead(ByteClass(b))
                        /\ j # 1 => Dumped(s)[j].state \in {0, 2, 3} /\ s[j] \in Trail(b)[j - 1]
<1>1. Len(s) \in Nat /\ Len(s) >= 1 /\ b \in Octet /\ \A j \in 1 .. Len(s) : s[j] \in Octet
  BY EmptySeq, ElementOfSeq, LenProperties
<1>2. k \in 1 .. 4 /\ k - 1 = Missing(Lead(ByteClass(b)))
  <2>1. Len(Trail(b)) = Missing(Lead(ByteClass(b)))
    BY <1>1, FirstByte
  <2>2. Missing(Lead(ByteClass(b))) \in 0 .. 3
    BY DEF Missing
  <2> QED
    BY <2>1, <2>2
<1>3. k = 1 <=> Trail(b) = <<>>
  <2>1. Lead(ByteClass(b)) \in 2 .. 8 => Missing(Lead(ByteClass(b))) >= 1
    BY DEF Missing
  <2>2. Trail(b) = <<>> => k = 1
    OBVIOUS
  <2> QED
    BY <1>1, <1>2, <2>1, <2>2, FirstByte
<1> HIDE DEF k
<1>4. Inside(1) /\ (k = 1 => b < 128)
  <2>1. Dumped(s)[0] \in Decoder /\ Dumped(s)[0].state = UTF8_ACCEPT /\ Dumped(s)[1] = decode(Dumped(s)[0], b)
    BY <1>1, Dumps DEF Begin
  <2>2. Dumped(s)[1].state = Lead(ByteClass(b))
    <3> DEFINE d == Dumped(s)[0]
    <3>1. d \in Decoder /\ d.state = UTF8_ACCEPT /\ Dumped(s)[1] = decode(d, b)
      BY <2>1
    <3> HIDE DEF d, b
    <3>2. decode(d, b).state = Lead(ByteClass(b))
      BY <1>1, <3>1, Begins
    <3> QED
      BY <3>1, <3>2
  <2>3. Lead(ByteClass(b)) # UTF8_REJECT
    <3>1. 1 \in 1 .. Len(s)
      BY <1>1
    <3>2. Dumped(s)[1].state # UTF8_REJECT
      BY <3>1, NoException
    <3> QED
      BY <2>2, <3>2
  <2>4. Lead(ByteClass(b)) \in 0 .. 8 /\ (Lead(ByteClass(b)) \in 2 .. 8 <=> Trail(b) # <<>>)
        /\ (Lead(ByteClass(b)) = UTF8_ACCEPT <=> b < 128)
    BY <1>1, FirstByte
  <2>5. k = 1 => Lead(ByteClass(b)) = UTF8_ACCEPT
    BY <1>3, <2>3, <2>4 DEF UTF8_ACCEPT, UTF8_REJECT
  <2>6. k # 1 => b >= 128
    <3>1. k # 1 => Lead(ByteClass(b)) # UTF8_ACCEPT
      BY <1>3, <2>4 DEF UTF8_ACCEPT
    <3> QED
      BY <1>1, <2>4, <3>1, Octets
  <2>7. k # 1 => Firm(Dumped(s)[1])
    BY <1>1, <2>1, <2>6, Begins
  <2> QED
    BY <1>1, <1>2, <2>2, <2>4, <2>5, <2>7
<1>5. ASSUME NEW j \in 1 .. k - 1, Inside(j) PROVE Inside(j + 1)
  <2> DEFINE d == Dumped(s)[j]
             c == s[j + 1]
  <2>1. j \in 1 .. Len(s) /\ Missing(d.state) = k - j /\ k - j >= 1 /\ k # 1 /\ Firm(d)
    BY <1>2, <1>5
  <2>2. j \in 0 .. Len(s)
    BY <1>1, <2>1
  <2>3. d \in Decoder /\ d.ok = TRUE
    BY <2>2, Dumps, NoException
  <2>4. d.state \in 2 .. 8 /\ d.state # UTF8_ACCEPT
    <3>1. d.state \in 0 .. 8 /\ Missing(d.state) >= 1
      BY <2>1, <2>3 DEF Decoder
    <3> QED
      BY <3>1, MissingMeans
  <2>5. j # Len(s)
    BY <2>4, NoException
  <2>6. j + 1 \in 1 .. Len(s) /\ (j + 1) - 1 = j /\ j + 1 # 1 /\ c \in Octet
    BY <1>1, <2>1, <2>5
  <2>7. Dumped(s)[j + 1] = decode(d, c) /\ decode(d, c).state # UTF8_REJECT
    <3>1. Dumped(s)[j + 1] = decode(Dumped(s)[(j + 1) - 1], s[j + 1])
      BY <2>6, Dumps
    <3>2. Dumped(s)[j + 1].state # UTF8_REJECT
      BY <2>6, NoException
    <3>3. Dumped(s)[j + 1] = decode(d, c)
      BY <2>6, <3>1
    <3> QED
      BY <3>2, <3>3
  <2> HIDE DEF d, c
  <2>8. Row(d.state, ByteClass(c)) # UTF8_REJECT
    BY <2>7, Parts
  <2>9. /\ decode(d, c).state \in {0, 2, 3}
        /\ Missing(decode(d, c).state) = Missing(d.state) - 1
        /\ Firm(decode(d, c))
    BY <2>1, <2>3, <2>4, <2>6, <2>8, Inner
  <2>10. c \in Trail(b)[j]
    <3>1. CASE j = 1
      <4>1. d.state = Lead(ByteClass(b)) /\ Trail(b) # <<>>
        BY <1>3, <1>5, <2>1, <3>1 DEF d
      <4> QED
        BY <1>1, <2>6, <2>8, <3>1, <4>1, SecondByte
    <3>2. CASE j # 1
      <4>1. d.state \in {2, 3}
        <5>1. d.state \in {0, 2, 3}
          BY <1>5, <3>2 DEF d
        <5> QED
          BY <2>4, <5>1
      <4>2. c \in Follow
        BY <2>4, <2>6, <2>8, <4>1, OtherBytes
      <4>3. j \in 2 .. Len(Trail(b))
        BY <1>2, <2>1, <3>2 DEF k
      <4>4. Trail(b)[j] = Follow
        BY <1>1, <4>3, FirstByte
      <4> QED
        BY <4>2, <4>4
    <3> QED
      BY <3>1, <3>2
  <2>11. Missing(decode(d, c).state) = k - (j + 1)
    BY <1>2, <2>1, <2>9
  <2> QED
    BY <2>6, <2>7, <2>9, <2>10, <2>11 DEF c
<1>6. \A j \in 1 .. k : Inside(j)
  <2> HIDE DEF Inside
  <2> DEFINE S == {n \in 0 .. k - 1 : Inside(n + 1)}
  <2>1. 0 \in S
    BY <1>2, <1>4
  <2>2. ASSUME NEW n \in 0 .. (k - 1) - 1, n \in S PROVE n + 1 \in S
    <3>1. n + 1 \in 1 .. k - 1 /\ n + 1 \in 0 .. k - 1
      BY <1>2
    <3> QED
      BY <1>5, <2>2, <3>1
  <2>3. 0 .. k - 1 \subseteq S
    <3>1. k - 1 \in Nat
      BY <1>2
    <3> HIDE DEF S
    <3> QED
      BY <2>1, <2>2, <3>1, ReachesUpTo
  <2>4. ASSUME NEW j \in 1 .. k PROVE Inside(j)
    <3>1. j - 1 \in 0 .. k - 1 /\ (j - 1) + 1 = j
      BY <1>2
    <3> QED
      BY <2>3, <3>1
  <2> QED
    BY <2>4
<1> DEFINE u == SubSeq(s, 1, k)
           v == SubSeq(s, k + 1, Len(s))
<1>7. k \in 1 .. Len(s)
  BY <1>2, <1>6
<1>8. u \in Seq(Octet) /\ Len(u) = k /\ \A j \in 1 .. k : u[j] = s[j]
  BY <1>1, <1>2, <1>7, SubSeqProperties
<1>9. v \in Seq(Octet)
  BY <1>1, <1>2, <1>7, SubSeqProperties
<1>10. s = u \o v
  <2>1. SubSeq(s, 1, Len(s)) = s
    BY SubSeqFull
  <2>2. 1 \in 1 .. Len(s) + 1 /\ k \in 1 - 1 .. Len(s) /\ Len(s) \in k .. Len(s)
    BY <1>1, <1>7
  <2>3. SubSeq(s, 1, k) \o SubSeq(s, k + 1, Len(s)) = SubSeq(s, 1, Len(s))
    BY <2>2, ConcatAdjacentSubSeq
  <2> QED
    BY <2>1, <2>3
<1> HIDE DEF u
<1>11. u \in Chars
  <2>1. u[1] = b
    BY <1>2, <1>8
  <2>2. ASSUME NEW j \in 1 .. k - 1 PROVE u[j + 1] \in Trail(b)[j]
    <3>1. j + 1 \in 1 .. k /\ j + 1 # 1 /\ (j + 1) - 1 = j
      BY <1>2
    <3>2. s[j + 1] \in Trail(b)[(j + 1) - 1]
      BY <1>6, <3>1
    <3> QED
      BY <1>8, <3>1, <3>2
  <2>3. k = 1 + Len(Trail(b))
    BY DEF k
  <2> QED
    BY <1>2, <1>4, <1>8, <2>1, <2>2, <2>3 DEF Chars
<1> QED
  BY <1>9, <1>10, <1>11

-----------------------------------------------------------------------------
\* What a turn of the lexer reads.

\* The state that each first byte leads to.
LEMMA Leads ==
  ASSUME NEW b \in Octet
  PROVE  /\ b \in 194 .. 223 => Lead(ByteClass(b)) = 2
         /\ b = 224 => Lead(ByteClass(b)) = 4
         /\ b \in 225 .. 239 \ {237} => Lead(ByteClass(b)) = 3
         /\ b = 237 => Lead(ByteClass(b)) = 5
         /\ b = 240 => Lead(ByteClass(b)) = 6
         /\ b \in 241 .. 243 => Lead(ByteClass(b)) = 7
         /\ b = 244 => Lead(ByteClass(b)) = 8
BY DEF ByteClass, Lead

\* Code points of two bytes,
LEMMA Two ==
  ASSUME NEW b \in 194 .. 223, NEW c \in Follow
  PROVE  <<b, c>> \in Chars
<1>1. b \in Octet /\ c \in Octet
  BY DEF Octet, Follow
<1>2. Lead(ByteClass(b)) = 2
  BY <1>1, Leads
<1>3. Len(Trail(b)) = 1
  BY <1>1, <1>2, FirstByte DEF Missing
<1>4. c \in Trail(b)[1]
  BY <1>1, <1>2, <1>3, SecondByte, Rows DEF UTF8_ACCEPT, UTF8_REJECT
<1> DEFINE u == <<b, c>>
<1>5. u \in Seq(Octet) /\ Len(u) = 2 /\ u[1] = b /\ u[2] = c
  BY <1>1
<1> HIDE DEF u
<1>6. \A j \in 1 .. Len(u) - 1 : u[j + 1] \in Trail(u[1])[j]
  <2>1. \A j \in 1 .. Len(u) - 1 : j = 1 /\ j + 1 = 2
    BY <1>5
  <2> QED
    BY <1>4, <1>5, <2>1
<1>7. Len(u) \in 1 .. 4 /\ Len(u) = 1 + Len(Trail(u[1])) /\ Len(u) # 1
  <2> DEFINE k == Len(Trail(b))
             m == Len(Trail(u[1]))
             n == Len(u)
  <2>1. m = k
    BY <1>5, Zenon
  <2>2. k = n - 1 /\ n \in 2 .. 4
    BY <1>3, <1>5
  <2> HIDE DEF k, m, n
  <2>3. n \in 1 .. 4 /\ n = 1 + m /\ n # 1
    BY <2>1, <2>2
  <2> QED
    BY <2>3 DEF m, n
<1>8. u \in Chars
  BY <1>5, <1>6, <1>7 DEF Chars
<1> QED
  BY <1>8 DEF u

\* of three,
LEMMA Three ==
  ASSUME NEW b \in 224 .. 239, NEW c \in Follow, NEW d \in Follow,
         b = 224 => c >= 160, b = 237 => c < 160
  PROVE  <<b, c, d>> \in Chars
<1>1. b \in Octet /\ c \in Octet /\ d \in Octet
  BY DEF Octet, Follow
<1>2. /\ Lead(ByteClass(b)) \in 3 .. 5
      /\ Lead(ByteClass(b)) = 4 => c \in 160 .. 191
      /\ Lead(ByteClass(b)) = 5 => c \in 128 .. 159
  BY <1>1, Leads DEF Follow
<1>3. Len(Trail(b)) = 2 /\ Trail(b)[2] = Follow
  <2>1. Len(Trail(b)) = 2
    BY <1>1, <1>2, FirstByte DEF Missing
  <2>2. 2 \in 2 .. Len(Trail(b))
    BY <2>1
  <2>3. \A j \in 2 .. Len(Trail(b)) : Trail(b)[j] = Follow
    BY <1>1, FirstByte
  <2> QED
    BY <2>1, <2>2, <2>3
<1>4. c \in Trail(b)[1]
  <2>1. Row(Lead(ByteClass(b)), ByteClass(c)) # UTF8_REJECT
    BY <1>1, <1>2, Rows DEF UTF8_ACCEPT, UTF8_REJECT
  <2> QED
    BY <1>1, <1>3, <2>1, SecondByte
<1> DEFINE u == <<b, c, d>>
<1>5. u \in Seq(Octet) /\ Len(u) = 3 /\ u[1] = b /\ u[2] = c /\ u[3] = d
  BY <1>1
<1> HIDE DEF u
<1>6. \A j \in 1 .. Len(u) - 1 : u[j + 1] \in Trail(u[1])[j]
  <2>1. \A j \in 1 .. Len(u) - 1 : (j = 1 /\ j + 1 = 2) \/ (j = 2 /\ j + 1 = 3)
    BY <1>5
  <2> QED
    BY <1>3, <1>4, <1>5, <2>1
<1>7. Len(u) \in 1 .. 4 /\ Len(u) = 1 + Len(Trail(u[1])) /\ Len(u) # 1
  <2> DEFINE k == Len(Trail(b))
             m == Len(Trail(u[1]))
             n == Len(u)
  <2>1. m = k
    BY <1>5, Zenon
  <2>2. k = n - 1 /\ n \in 2 .. 4
    BY <1>3, <1>5
  <2> HIDE DEF k, m, n
  <2>3. n \in 1 .. 4 /\ n = 1 + m /\ n # 1
    BY <2>1, <2>2
  <2> QED
    BY <2>3 DEF m, n
<1>8. u \in Chars
  BY <1>5, <1>6, <1>7 DEF Chars
<1> QED
  BY <1>8 DEF u

\* of four,
LEMMA Four ==
  ASSUME NEW b \in 240 .. 244, NEW c \in Follow, NEW d \in Follow, NEW e \in Follow,
         b = 240 => c >= 144, b = 244 => c < 144
  PROVE  <<b, c, d, e>> \in Chars
<1>1. b \in Octet /\ c \in Octet /\ d \in Octet /\ e \in Octet
  BY DEF Octet, Follow
<1>2. /\ Lead(ByteClass(b)) \in 6 .. 8
      /\ Lead(ByteClass(b)) = 6 => c \in 144 .. 191
      /\ Lead(ByteClass(b)) = 8 => c \in 128 .. 143
  BY <1>1, Leads DEF Follow
<1>3. Len(Trail(b)) = 3 /\ Trail(b)[2] = Follow /\ Trail(b)[3] = Follow
  <2>1. Len(Trail(b)) = 3
    BY <1>1, <1>2, FirstByte DEF Missing
  <2>2. 2 \in 2 .. Len(Trail(b)) /\ 3 \in 2 .. Len(Trail(b))
    BY <2>1
  <2>3. \A j \in 2 .. Len(Trail(b)) : Trail(b)[j] = Follow
    BY <1>1, FirstByte
  <2> QED
    BY <2>1, <2>2, <2>3
<1>4. c \in Trail(b)[1]
  <2>1. Row(Lead(ByteClass(b)), ByteClass(c)) # UTF8_REJECT
    BY <1>1, <1>2, Rows DEF UTF8_ACCEPT, UTF8_REJECT
  <2> QED
    BY <1>1, <1>3, <2>1, SecondByte
<1> DEFINE u == <<b, c, d, e>>
<1>5. u \in Seq(Octet) /\ Len(u) = 4 /\ u[1] = b /\ u[2] = c /\ u[3] = d /\ u[4] = e
  BY <1>1
<1> HIDE DEF u
<1>6. \A j \in 1 .. Len(u) - 1 : u[j + 1] \in Trail(u[1])[j]
  <2>1. \A j \in 1 .. Len(u) - 1 : (j = 1 /\ j + 1 = 2) \/ (j = 2 /\ j + 1 = 3) \/ (j = 3 /\ j + 1 = 4)
    BY <1>5
  <2> QED
    BY <1>3, <1>4, <1>5, <2>1
<1>7. Len(u) \in 1 .. 4 /\ Len(u) = 1 + Len(Trail(u[1])) /\ Len(u) # 1
  <2> DEFINE k == Len(Trail(b))
             m == Len(Trail(u[1]))
             n == Len(u)
  <2>1. m = k
    BY <1>5, Zenon
  <2>2. k = n - 1 /\ n \in 2 .. 4
    BY <1>3, <1>5
  <2> HIDE DEF k, m, n
  <2>3. n \in 1 .. 4 /\ n = 1 + m /\ n # 1
    BY <2>1, <2>2
  <2> QED
    BY <2>3 DEF m, n
<1>8. u \in Chars
  BY <1>5, <1>6, <1>7 DEF Chars
<1> QED
  BY <1>8 DEF u

\* and of one.
LEMMA One ==
  ASSUME NEW c \in 0 .. 127
  PROVE  <<c>> \in Chars
<1>1. c \in Octet /\ Trail(c) = <<>>
  BY DEF Octet, Trail
<1> QED
  BY <1>1 DEF Chars

\* The code points, 17 planes of them, that are not half of a surrogate pair.
Scalar == {c \in Nat : c < 17 * 65536 /\ c \notin High \cup Low}

\* A code point as the arithmetic has it.
LEMMA ScalarType ==
  ASSUME NEW c \in Scalar
  PROVE  c \in Nat /\ c < 17 * 65536 /\ ~(c \in High \cup Low)
BY SMT DEF Scalar

\* Each of them is written as UTF-8.
LEMMA CodePoints ==
  ASSUME NEW c \in Scalar
  PROVE  Utf8(c) \in Chars
<1>1. c \in Nat
  BY ScalarType
<1>2. CASE c < 128
  <2>1. Utf8(c) = <<c>> /\ c \in 0 .. 127
    BY <1>1, <1>2 DEF Utf8
  <2> QED
    BY <2>1, One
<1>3. CASE c >= 128 /\ c < 2048
  <2> DEFINE x == 192 + (c \div 64)
             y == 128 + ((c \div 1) % 64)
  <2>1. x \in 194 .. 223 /\ y \in Follow
    BY <1>1, <1>3 DEF Follow
  <2>2. Utf8(c) = <<x, y>>
    BY <1>1, <1>3, SMT DEF Utf8
  <2> HIDE DEF x, y
  <2> QED
    BY <2>1, <2>2, Two
<1>4. CASE c >= 2048 /\ c < 65536
  <2> DEFINE x == 224 + (c \div 4096)
             y == 128 + ((c \div 64) % 64)
             z == 128 + ((c \div 1) % 64)
  <2>1. x \in 224 .. 239 /\ y \in Follow /\ z \in Follow
    BY <1>1, <1>4, SMT DEF Follow
  <2>2. (x = 224 => y >= 160) /\ (x = 237 => y < 160)
    <3>1. ~(c \in 55296 .. 57343)
      BY <1>1, ScalarType, SMT DEF High, Low
    <3> QED
      BY <1>1, <1>4, <3>1, SMT
  <2>3. Utf8(c) = <<x, y, z>>
    BY <1>1, <1>4, SMT DEF Utf8
  <2> HIDE DEF x, y, z
  <2> QED
    BY <2>1, <2>2, <2>3, Three
<1>5. CASE c >= 65536
  <2> DEFINE x == 240 + (c \div 262144)
             y == 128 + ((c \div 4096) % 64)
             z == 128 + ((c \div 64) % 64)
             w == 128 + ((c \div 1) % 64)
  <2>1. x \in 240 .. 244
    BY <1>1, <1>5, ScalarType, SMT
  <2>2. y \in Follow /\ z \in Follow /\ w \in Follow
    BY <1>1, SMT DEF Follow
  <2>3. (x = 240 => y >= 144) /\ (x = 244 => y < 144)
    BY <1>1, <1>5, ScalarType, SMT
  <2>4. Utf8(c) = <<x, y, z, w>>
    BY <1>1, <1>5, SMT DEF Utf8
  <2> HIDE DEF x, y, z, w
  <2> QED
    BY <2>1, <2>2, <2>3, <2>4, Four
<1> QED
  BY <1>1, <1>2, <1>3, <1>4, <1>5, SMT

\* The fields of what a turn reads.
LEMMA Outcomes ==
  /\ \A bytes, next : Taken(bytes, next).ok = TRUE /\ Taken(bytes, next).bytes = bytes /\ Taken(bytes, next).next = next
  /\ \A next : Refused(next).ok = FALSE /\ Refused(next).next = next
BY DEF Taken, Refused

\* A hex digit is a byte of the text, and stands for a number below 16.
LEMMA HexDigits ==
  ASSUME NEW text \in Seq(Octet), NEW k \in Nat \ {0}
  PROVE  /\ HexDigit(At(text, k)) \in -1 .. 15
         /\ HexDigit(At(text, k)) # -1 => k <= Len(text) /\ HexDigit(text[k]) \in 0 .. 15
<1>1. CASE k <= Len(text)
  <2>1. At(text, k) \in Nat /\ At(text, k) = text[k]
    BY <1>1, ElementOfSeq, LenProperties, Octets DEF At
  <2> QED
    BY <1>1, <2>1, SMTT(30) DEF HexDigit
<1>2. CASE ~(k <= Len(text))
  BY <1>2 DEF HexDigit, At, Eof
<1> QED
  BY <1>1, <1>2

\* Where the hex digits end.
LEMMA FirstBadIs ==
  ASSUME NEW text, NEW i \in Nat
  PROVE  /\ FirstBad(text, i) \in i .. i + 4
         /\ FirstBad(text, i) # i + 4 => HexDigit(At(text, FirstBad(text, i))) = -1
         /\ FirstBad(text, i) = i + 4 => \A k \in i .. i + 3 : HexDigit(At(text, k)) # -1
<1> DEFINE Bad(k) == HexDigit(At(text, k)) = -1
           Found(j) == (j = i + 4 \/ Bad(j)) /\ \A k \in i .. j - 1 : ~Bad(k)
<1>1. \E j \in i .. i + 4 : Found(j)
  <2> HIDE DEF Bad
  <2>1. CASE Bad(i)
    <3>1. Found(i)
      BY <2>1
    <3> QED
      BY <3>1
  <2>2. CASE ~Bad(i) /\ Bad(i + 1)
    <3>1. Found(i + 1)
      BY <2>2
    <3> QED
      BY <3>1
  <2>3. CASE ~Bad(i) /\ ~Bad(i + 1) /\ Bad(i + 2)
    <3>1. Found(i + 2)
      BY <2>3
    <3> QED
      BY <3>1
  <2>4. CASE ~Bad(i) /\ ~Bad(i + 1) /\ ~Bad(i + 2) /\ Bad(i + 3)
    <3>1. Found(i + 3)
      BY <2>4
    <3> QED
      BY <3>1
  <2>5. CASE ~Bad(i) /\ ~Bad(i + 1) /\ ~Bad(i + 2) /\ ~Bad(i + 3)
    <3>1. Found(i + 4)
      BY <2>5
    <3> QED
      BY <3>1
  <2> QED
    BY <2>1, <2>2, <2>3, <2>4, <2>5
<1>2. FirstBad(text, i) = CHOOSE j \in i .. i + 4 : Found(j)
  BY DEF FirstBad
<1>3. FirstBad(text, i) \in i .. i + 4 /\ Found(FirstBad(text, i))
  <2> HIDE DEF Found
  <2> QED
    BY <1>1, <1>2
<1> HIDE DEF Bad
<1>4. FirstBad(text, i) = i + 4 => \A k \in i .. i + 3 : ~Bad(k)
  BY <1>3
<1> QED
  BY <1>3, <1>4 DEF Bad

\* Four hex digits are within the text, and make a number of 16 bits.
LEMMA FourDigits ==
  ASSUME NEW text \in Seq(Octet), NEW i \in Nat \ {0}, ~(FirstBad(text, i) < i + 4)
  PROVE  i + 3 <= Len(text) /\ get_codepoint(text, i) \in Nat /\ get_codepoint(text, i) < 65536
<1>1. FirstBad(text, i) = i + 4
  BY FirstBadIs
<1>2. \A k \in i .. i + 3 : HexDigit(At(text, k)) # -1
  BY <1>1, FirstBadIs
<1>3. \A k \in i .. i + 3 : k \in Nat \ {0}
  OBVIOUS
<1>4. \A k \in i .. i + 3 : k <= Len(text) /\ HexDigit(text[k]) \in 0 .. 15
  BY <1>2, <1>3, HexDigits
<1>5. i \in i .. i + 3 /\ i + 1 \in i .. i + 3 /\ i + 2 \in i .. i + 3 /\ i + 3 \in i .. i + 3
  OBVIOUS
<1>6. /\ HexDigit(text[i]) \in 0 .. 15 /\ HexDigit(text[i + 1]) \in 0 .. 15
      /\ HexDigit(text[i + 2]) \in 0 .. 15 /\ HexDigit(text[i + 3]) \in 0 .. 15
      /\ i + 3 <= Len(text)
  BY <1>4, <1>5
<1>7. \A x, y, z, w \in 0 .. 15 : /\ x * 4096 + y * 256 + z * 16 + w \in Nat
                                    /\ x * 4096 + y * 256 + z * 16 + w < 65536
  BY SMT
<1> DEFINE x == HexDigit(text[i])
           y == HexDigit(text[i + 1])
           z == HexDigit(text[i + 2])
           w == HexDigit(text[i + 3])
<1>8. get_codepoint(text, i) = x * 4096 + y * 256 + z * 16 + w
  BY SMT DEF get_codepoint
<1>9. x \in 0 .. 15 /\ y \in 0 .. 15 /\ z \in 0 .. 15 /\ w \in 0 .. 15
  BY <1>6
<1> HIDE DEF x, y, z, w
<1> QED
  BY <1>6, <1>7, <1>8, <1>9, SMT

\* An escape of a code point, or of a surrogate pair, makes a code point.
LEMMA UnicodeReads ==
  ASSUME NEW text \in Seq(Octet), NEW i \in Nat \ {0}, Unicode(text, i).ok
  PROVE  /\ Unicode(text, i).bytes \in Chars
         /\ Unicode(text, i).next \in i + 1 .. Len(text) + 1
<1> DEFINE first == get_codepoint(text, i)
           second == get_codepoint(text, i + 6)
           both == (first - 55296) * 1024 + (second - 56320) + 65536
           U == Unicode(text, i)
<1>1. /\ ~(FirstBad(text, i) < i + 4)
      /\ first \notin Low
      /\ \/ first \notin High /\ U = Taken(Utf8(first), i + 4)
         \/ /\ first \in High
            /\ ~(FirstBad(text, i + 6) < i + 10)
            /\ second \in Low
            /\ U = Taken(Utf8(both), i + 10)
  <2> DEFINE bad1 == FirstBad(text, i) < i + 4
             bad2 == FirstBad(text, i + 6) < i + 10
  <2>1. U = IF bad1 THEN Refused(FirstBad(text, i))
            ELSE IF first \in Low THEN Refused(i + 3)
            ELSE IF first \notin High THEN Taken(Utf8(first), i + 4)
            ELSE IF At(text, i + 4) # Backslash THEN Refused(i + 4)
            ELSE IF At(text, i + 5) # 117 THEN Refused(i + 5)
            ELSE IF bad2 THEN Refused(FirstBad(text, i + 6))
            ELSE IF second \notin Low THEN Refused(i + 9)
            ELSE Taken(Utf8(both), i + 10)
    BY SMT DEF Unicode
  <2>2. U.ok /\ \A n : ~Refused(n).ok
    BY Outcomes
  <2> HIDE DEF first, second, both, U, bad1, bad2
  <2>3. /\ ~bad1
        /\ first \notin Low
        /\ \/ first \notin High /\ U = Taken(Utf8(first), i + 4)
           \/ first \in High /\ ~bad2 /\ second \in Low /\ U = Taken(Utf8(both), i + 10)
    BY <2>1, <2>2, Zenon
  <2> QED
    BY <2>3 DEF bad1, bad2
<1>2. i + 3 <= Len(text) /\ first \in Nat /\ first < 65536 /\ Len(text) \in Nat
  BY <1>1, FourDigits, LenProperties, SMT
<1>3. CASE first \notin High /\ U = Taken(Utf8(first), i + 4)
  <2> HIDE DEF first, U
  <2>1. first \in Scalar
    BY <1>1, <1>2, <1>3, SMT DEF Scalar
  <2>2. Utf8(first) \in Chars
    BY <2>1, CodePoints
  <2>3. U.bytes = Utf8(first) /\ U.next = i + 4
    BY <1>3, Outcomes
  <2> QED
    BY <1>2, <2>2, <2>3 DEF U
<1>4. CASE /\ first \in High
           /\ ~(FirstBad(text, i + 6) < i + 10)
           /\ second \in Low
           /\ U = Taken(Utf8(both), i + 10)
  <2>1. i + 6 \in Nat \ {0} /\ (i + 6) + 4 = i + 10 /\ (i + 6) + 3 = i + 9
    OBVIOUS
  <2>2. ~(FirstBad(text, i + 6) < (i + 6) + 4)
    BY <1>4, <2>1
  <2>3. i + 9 <= Len(text)
    <3> DEFINE m == i + 6
    <3>1. m \in Nat \ {0} /\ ~(FirstBad(text, m) < m + 4) /\ m + 3 = i + 9
      BY <2>1, <2>2
    <3> HIDE DEF m
    <3> QED
      BY <3>1, FourDigits
  <2> HIDE DEF first, second, U
  <2>4. both \in Scalar
    BY <1>4, SMT DEF Scalar, High, Low
  <2> HIDE DEF both
  <2>5. Utf8(both) \in Chars
    BY <2>4, CodePoints
  <2>6. U.bytes = Utf8(both) /\ U.next = i + 10
    BY <1>4, Outcomes
  <2> QED
    BY <1>2, <2>3, <2>5, <2>6 DEF U
<1> QED
  BY <1>1, <1>3, <1>4

\* The ranges that may follow a first byte.
LEMMA TrailType ==
  ASSUME NEW b
  PROVE  /\ Len(Trail(b)) \in 0 .. 3
         /\ Trail(b) = <<>> <=> Len(Trail(b)) = 0
         /\ \A j \in 1 .. Len(Trail(b)) : Trail(b)[j] \subseteq Follow
         /\ Trail(b) # <<>> => b \in 194 .. 244
<1>1. \A S, T, U : /\ Len(<<S>>) = 1 /\ Len(<<S, T>>) = 2 /\ Len(<<S, T, U>>) = 3
                   /\ <<S>>[1] = S /\ <<S, T>>[1] = S /\ <<S, T>>[2] = T
                   /\ <<S, T, U>>[1] = S /\ <<S, T, U>>[2] = T /\ <<S, T, U>>[3] = U
                   /\ <<S>> # <<>> /\ <<S, T>> # <<>> /\ <<S, T, U>> # <<>>
  OBVIOUS
<1> DEFINE S1 == 160 .. 191
           S2 == 128 .. 159
           S3 == 144 .. 191
           S4 == 128 .. 143
<1>2. S1 \subseteq Follow /\ S2 \subseteq Follow /\ S3 \subseteq Follow /\ S4 \subseteq Follow
  BY DEF Follow
<1>3. \/ Trail(b) = <<>>
      \/ b \in 194 .. 244 /\ \E S, T, U \in SUBSET Follow : Trail(b) \in {<<S>>, <<S, T>>, <<S, T, U>>}
  <2>1. Trail(b) = IF b \in 194 .. 223 THEN <<Follow>>
                   ELSE IF b = 224 THEN <<S1, Follow>>
                   ELSE IF b = 237 THEN <<S2, Follow>>
                   ELSE IF b \in 225 .. 239 THEN <<Follow, Follow>>
                   ELSE IF b = 240 THEN <<S3, Follow, Follow>>
                   ELSE IF b \in 241 .. 243 THEN <<Follow, Follow, Follow>>
                   ELSE IF b = 244 THEN <<S4, Follow, Follow>>
                   ELSE <<>>
    BY Zenon DEF Trail
  <2> DEFINE Many == b \in 194 .. 223 \/ b = 224 \/ b = 237 \/ b \in 225 .. 239 \/ b = 240
                     \/ b \in 241 .. 243 \/ b = 244
  <2>2. Many => b \in 194 .. 244
    OBVIOUS
  <2> HIDE DEF S1, S2, S3, S4
  <2>3. \/ Trail(b) = <<>>
        \/ Many /\ \E S, T, U \in SUBSET Follow : Trail(b) \in {<<S>>, <<S, T>>, <<S, T, U>>}
    <3> DEFINE Some == \E S, T, U \in SUBSET Follow : Trail(b) \in {<<S>>, <<S, T>>, <<S, T, U>>}
    <3>1. /\ \A S \in SUBSET Follow : Trail(b) = <<S>> => Some
          /\ \A S, T \in SUBSET Follow : Trail(b) = <<S, T>> => Some
          /\ \A S, T, U \in SUBSET Follow : Trail(b) = <<S, T, U>> => Some
      BY Zenon
    <3>2. /\ S1 \in SUBSET Follow /\ S2 \in SUBSET Follow /\ S3 \in SUBSET Follow
          /\ S4 \in SUBSET Follow /\ Follow \in SUBSET Follow
      BY <1>2
    <3>3. \/ Trail(b) = <<>>
          \/ /\ Many
             /\ Trail(b) \in {<<Follow>>, <<S1, Follow>>, <<S2, Follow>>, <<Follow, Follow>>,
                             <<S3, Follow, Follow>>, <<Follow, Follow, Follow>>, <<S4, Follow, Follow>>}
      BY <2>1, ZenonT(30)
    <3> HIDE DEF Some, Many
    <3>4. \/ Trail(b) = <<>>
          \/ Many /\ Some
      BY <3>1, <3>2, <3>3, Zenon
    <3> QED
      BY <3>4 DEF Some
  <2> QED
    BY <2>2, <2>3
<1>4. CASE Trail(b) = <<>>
  BY <1>4
<1>5. CASE b \in 194 .. 244 /\ \E S, T, U \in SUBSET Follow : Trail(b) \in {<<S>>, <<S, T>>, <<S, T, U>>}
  <2>1. PICK S \in SUBSET Follow, T \in SUBSET Follow, U \in SUBSET Follow :
           Trail(b) \in {<<S>>, <<S, T>>, <<S, T, U>>}
    BY <1>5
  <2>2. CASE Trail(b) = <<S>>
    BY <1>1, <1>5, <2>2
  <2>3. CASE Trail(b) = <<S, T>>
    BY <1>1, <1>5, <2>3
  <2>4. CASE Trail(b) = <<S, T, U>>
    BY <1>1, <1>5, <2>4
  <2> QED
    BY <2>1, <2>2, <2>3, <2>4
<1> QED
  BY <1>3, <1>4, <1>5

\* What a turn of scan_string reads is a code point, in the bytes that UTF-8 writes it with.
LEMMA CharacterReads ==
  ASSUME NEW text \in Seq(Octet), NEW i \in 1 .. Len(text) + 1, Character(text, i).ok
  PROVE  /\ Character(text, i).bytes \in Chars
         /\ Character(text, i).next \in i + 1 .. Len(text) + 1
<1> DEFINE c == At(text, i)
           e == At(text, i + 1)
           k == Len(Trail(c))
           bad == {j \in 1 .. k : At(text, i + j) \notin Trail(c)[j]}
           T == Character(text, i)
<1>1. Len(text) \in Nat /\ i \in Nat \ {0} /\ \A j \in 1 .. Len(text) : text[j] \in Octet
  BY ElementOfSeq, LenProperties
<1>2. ASSUME NEW j \in Nat, j >= 1, At(text, j) # Eof PROVE j \in 1 .. Len(text) /\ At(text, j) = text[j]
  BY <1>1, <1>2 DEF At
<1>3. \/ c = Backslash /\ e \in DOMAIN Short /\ T = Taken(<<Short[e]>>, i + 2)
      \/ c = Backslash /\ e = 117 /\ T = Unicode(text, i + 2)
      \/ c \in Plain /\ T = Taken(<<c>>, i + 1)
      \/ Trail(c) # <<>> /\ bad = {} /\ T = Taken(SubSeq(text, i, i + k), i + 1 + k)
  BY Outcomes, Zenon DEF Character
<1>4. CASE c = Backslash /\ e \in DOMAIN Short /\ T = Taken(<<Short[e]>>, i + 2)
  <2>1. e # Eof
    BY <1>4, SMTT(30) DEF Short, Eof
  <2>2. i + 1 \in 1 .. Len(text)
    BY <1>1, <1>2, <2>1
  <2>3. Short[e] \in 0 .. 127
    BY <1>4 DEF Short
  <2> HIDE DEF e, T
  <2>4. <<Short[e]>> \in Chars
    BY <2>3, One
  <2>5. T.bytes = <<Short[e]>> /\ T.next = i + 2
    BY <1>4, Outcomes
  <2> QED
    BY <1>1, <2>2, <2>4, <2>5 DEF T
<1>5. CASE c = Backslash /\ e = 117 /\ T = Unicode(text, i + 2)
  <2>1. i + 2 \in Nat \ {0}
    BY <1>1
  <2>2. Unicode(text, i + 2).ok
    BY <1>5
  <2>3. Unicode(text, i + 2).bytes \in Chars /\ Unicode(text, i + 2).next \in (i + 2) + 1 .. Len(text) + 1
    BY <2>1, <2>2, UnicodeReads
  <2> HIDE DEF T
  <2> QED
    BY <1>1, <1>5, <2>3 DEF T
<1>6. CASE c \in Plain /\ T = Taken(<<c>>, i + 1)
  <2>1. c \in 0 .. 127 /\ c # Eof
    <3> HIDE DEF c
    <3> QED
      BY <1>6 DEF Plain, Eof
  <2>2. i \in 1 .. Len(text)
    BY <1>1, <1>2, <2>1
  <2>3. T.bytes = <<c>> /\ T.next = i + 1
    BY <1>6, Outcomes
  <2> HIDE DEF c, T
  <2>4. <<c>> \in Chars
    BY <2>1, One
  <2>5. T.bytes \in Chars /\ T.next \in i + 1 .. Len(text) + 1
    BY <1>1, <2>2, <2>3, <2>4
  <2> QED
    BY <2>5 DEF T
<1>7. CASE Trail(c) # <<>> /\ bad = {} /\ T = Taken(SubSeq(text, i, i + k), i + 1 + k)
  <2>1. k \in 1 .. 3 /\ c \in 194 .. 244
    BY <1>7, TrailType
  <2>2. i \in 1 .. Len(text) /\ c = text[i]
    <3>1. c # Eof
      <4> HIDE DEF c
      <4> QED
        BY <2>1 DEF Eof
    <3> QED
      BY <1>1, <1>2, <3>1
  <2>3. \A j \in 1 .. k : At(text, i + j) \in Trail(c)[j]
    BY <1>7
  <2>4. T.bytes = SubSeq(text, i, i + k) /\ T.next = i + 1 + k
    <3> DEFINE w == SubSeq(text, i, i + k)
               n == i + 1 + k
    <3>1. T = Taken(w, n)
      BY <1>7
    <3> HIDE DEF w, n, T
    <3>2. T.bytes = w /\ T.next = n
      BY <3>1, Outcomes
    <3> QED
      BY <3>2 DEF w, n
  <2> DEFINE u == SubSeq(text, i, i + k)
             b == c
  <2>5. Len(Trail(b)) = k /\ b = text[i] /\ \A j \in 1 .. k : At(text, i + j) \in Trail(b)[j]
    BY <2>2, <2>3
  <2>6. T.bytes = u
    BY <2>4
  <2> HIDE DEF c, T, k, b
  <2>7. ASSUME NEW j \in 1 .. k PROVE i + j \in 1 .. Len(text) /\ At(text, i + j) = text[i + j]
    <3>1. Trail(b)[j] \subseteq Follow
      BY <2>5, TrailType
    <3>2. At(text, i + j) \in Follow
      BY <2>5, <3>1
    <3>3. At(text, i + j) # Eof
      <4>1. \A x \in Follow : x # Eof
        BY DEF Follow, Eof
      <4> QED
        BY <3>2, <4>1
    <3>4. i + j \in Nat /\ i + j >= 1
      BY <1>1, <2>1
    <3> QED
      BY <1>2, <3>3, <3>4
  <2>8. i + k \in 1 .. Len(text)
    <3>1. k \in 1 .. k
      BY <2>1
    <3> QED
      BY <2>7, <3>1
  <2>9. u \in Seq(Octet) /\ Len(u) = k + 1 /\ \A j \in 1 .. k + 1 : u[j] = text[i + j - 1]
    <3>1. /\ i \in 1 .. Len(text) + 1 /\ i + k \in i - 1 .. Len(text) /\ i <= i + k
          /\ (i + k) - i + 1 = k + 1
      BY <1>1, <2>1, <2>8
    <3> QED
      BY <1>1, <3>1, SubSeqProperties
  <2> HIDE DEF u
  <2>10. u[1] = b
    <3>1. 1 \in 1 .. k + 1 /\ i + 1 - 1 = i
      BY <1>1, <2>1
    <3>2. u[1] = text[i + 1 - 1]
      BY <2>9, <3>1
    <3> QED
      BY <2>5, <3>1, <3>2
  <2>11. ASSUME NEW j \in 1 .. k PROVE u[j + 1] \in Trail(b)[j]
    <3>1. j + 1 \in 1 .. k + 1 /\ i + (j + 1) - 1 = i + j
      BY <1>1, <2>1
    <3>2. u[j + 1] = text[i + (j + 1) - 1]
      BY <2>9, <3>1
    <3>3. u[j + 1] = At(text, i + j)
      BY <2>7, <3>1, <3>2
    <3> QED
      BY <2>5, <3>3
  <2>12. u \in Chars
    <3>1. Len(u) \in 1 .. 4 /\ Len(u) = 1 + Len(Trail(u[1])) /\ Len(u) # 1 /\ Len(u) - 1 = k
      BY <2>1, <2>5, <2>9, <2>10
    <3> QED
      BY <2>9, <2>10, <2>11, <3>1 DEF Chars
  <2>13. i + 1 + k \in i + 1 .. Len(text) + 1
    BY <1>1, <2>1, <2>8
  <2>14. T.bytes \in Chars /\ T.next \in i + 1 .. Len(text) + 1
    BY <2>4, <2>6, <2>12, <2>13
  <2> QED
    BY <2>14 DEF T
<1> QED
  BY <1>3, <1>4, <1>5, <1>6, <1>7

-----------------------------------------------------------------------------
\* The turns of the lexer.

\* The fields of a token.
LEMMA Tokens ==
  /\ \A kind, next, v : /\ Valued(kind, next, v).kind = kind
                        /\ Valued(kind, next, v).next = next
                        /\ Valued(kind, next, v).value = v
  /\ \A next : Error(next).kind = "parse_error" /\ Error(next).next = next
BY DEF Valued, Error, Token

\* What the turn at i makes of the tokens of the turns after it.
Turn(text, token, i) ==
  LET u == Character(text, i)
      rest == token[u.next]
  IN IF At(text, i) = Quote THEN Valued("value_string", i + 1, <<>>)
     ELSE IF ~u.ok THEN Error(u.next)
     ELSE IF rest.kind = "parse_error" THEN rest
     ELSE Valued("value_string", rest.next, u.bytes \o rest.value)

Strings == [kind : {"value_string"}, next : Nat, value : Seq(Octet)]
Errors(text) == {Error(Character(text, i).next) : i \in 1 .. Len(text) + 1}

\* The fields of a token of a string.
LEMMA StringType ==
  /\ \A n \in Nat, v \in Seq(Octet) : Valued("value_string", n, v) \in Strings
  /\ \A t \in Strings : t.kind = "value_string" /\ t.next \in Nat /\ t.value \in Seq(Octet)
BY DEF Strings, Valued

\* What every error has.
LEMMA ErrorType ==
  ASSUME NEW text
  PROVE  /\ \A t \in Errors(text) : t.kind = "parse_error"
         /\ \A i \in 1 .. Len(text) + 1 : Error(Character(text, i).next) \in Errors(text)
BY Tokens DEF Errors

\* A turn makes a token of tokens.
LEMMA TurnType ==
  ASSUME NEW text \in Seq(Octet), NEW token, NEW i \in 1 .. Len(text) + 1,
         \A j \in i + 1 .. Len(text) + 1 : token[j] \in Strings \cup Errors(text)
  PROVE  Turn(text, token, i) \in Strings \cup Errors(text)
<1> DEFINE u == Character(text, i)
           rest == token[u.next]
<1>1. Turn(text, token, i) = IF At(text, i) = Quote THEN Valued("value_string", i + 1, <<>>)
                             ELSE IF ~u.ok THEN Error(u.next)
                             ELSE IF rest.kind = "parse_error" THEN rest
                             ELSE Valued("value_string", rest.next, u.bytes \o rest.value)
  BY Zenon DEF Turn
<1>2. i + 1 \in Nat /\ <<>> \in Seq(Octet) /\ i \in Nat /\ Len(text) \in Nat
  BY LenProperties
<1>3. Valued("value_string", i + 1, <<>>) \in Strings
  BY <1>2, StringType
<1>4. Error(u.next) \in Errors(text)
  BY ErrorType
<1>5. ASSUME u.ok
      PROVE  rest \in Strings \cup Errors(text)
             /\ (rest.kind # "parse_error" => Valued("value_string", rest.next, u.bytes \o rest.value) \in Strings)
  <2>1. u.bytes \in Chars /\ u.next \in i + 1 .. Len(text) + 1
    BY <1>5, CharacterReads
  <2> HIDE DEF u
  <2>2. u.bytes \in Seq(Octet)
    BY <2>1 DEF Chars
  <2>3. rest \in Strings \cup Errors(text)
    BY <2>1
  <2> HIDE DEF rest
  <2>4. ASSUME rest.kind # "parse_error"
        PROVE  Valued("value_string", rest.next, u.bytes \o rest.value) \in Strings
    <3>1. rest \in Strings
      BY <2>3, <2>4, ErrorType, Zenon
    <3>2. rest.next \in Nat /\ rest.value \in Seq(Octet)
      BY <3>1, StringType
    <3>3. u.bytes \o rest.value \in Seq(Octet)
      BY <2>2, <3>2, ConcatProperties
    <3> QED
      BY <3>2, <3>3, StringType
  <2> QED
    BY <2>3, <2>4
<1> HIDE DEF u, rest
<1> QED
  BY <1>1, <1>3, <1>4, <1>5, Zenon

\* Every position has a token, which is what its turn makes of the tokens behind it.
LEMMA Scans ==
  ASSUME NEW text \in Seq(Octet)
  PROVE  \A i \in 1 .. Len(text) + 1 : /\ Scanned(text)[i] \in Strings \cup Errors(text)
                                       /\ Scanned(text)[i] = Turn(text, Scanned(text), i)
<1> DEFINE D == 1 .. Len(text) + 1
           V == Strings \cup Errors(text)
           F == [f \in [D -> V] |-> [i \in D |-> Turn(text, f, i)]]
           left == [i \in D |-> Len(text) + 1 - i]
<1>1. Len(text) \in Nat
  BY LenProperties
<1>2. F \in [[D -> V] -> [D -> V]]
  <2>1. ASSUME NEW f \in [D -> V] PROVE [i \in D |-> Turn(text, f, i)] \in [D -> V]
    <3>1. ASSUME NEW i \in D PROVE Turn(text, f, i) \in V
      <4>1. \A j \in i + 1 .. Len(text) + 1 : j \in D
        BY <1>1
      <4>2. \A j \in i + 1 .. Len(text) + 1 : f[j] \in V
        BY <4>1
      <4> QED
        BY <4>2, TurnType
    <3> HIDE DEF D, V
    <3> QED
      BY <3>1
  <2> HIDE DEF D, V
  <2> QED
    BY <2>1
<1>3. ASSUME NEW f \in [D -> V], NEW g \in [D -> V], NEW n \in Nat, Agree(f, g, D, left, n)
      PROVE  Agree(F[f], F[g], D, left, n + 1)
  <2>1. ASSUME NEW i \in D, left[i] < n + 1 PROVE Turn(text, f, i) = Turn(text, g, i)
    <3> DEFINE u == Character(text, i)
    <3>1. ASSUME u.ok PROVE f[u.next] = g[u.next]
      <4>1. u.next \in i + 1 .. Len(text) + 1
        BY <3>1, CharacterReads
      <4> HIDE DEF u
      <4>2. u.next \in D /\ left[u.next] < n
        BY <1>1, <2>1, <4>1
      <4> QED
        BY <1>3, <4>2, Zenon DEF Agree
    <3> QED
      BY <3>1, Zenon DEF Turn
  <2>2. F[f] = [i \in D |-> Turn(text, f, i)] /\ F[g] = [i \in D |-> Turn(text, g, i)]
    BY Zenon
  <2> HIDE DEF D, V, F, left
  <2>3. \A i \in D : left[i] < n + 1 => F[f][i] = F[g][i]
    BY <2>1, <2>2
  <2> QED
    BY <2>3, Zenon DEF Agree
<1>4. left \in [D -> Nat] /\ V # {}
  <2>1. 1 \in D
    BY <1>1
  <2>2. Error(Character(text, 1).next) \in V
    BY <2>1, Zenon DEF Errors
  <2> QED
    BY <1>1, <2>2
<1>5. \E f \in [D -> V] : f = F[f]
  <2> HIDE DEF F, D, V, left
  <2>1. Recursive(F, D, V, left)
    BY <1>2, <1>3, <1>4 DEF Recursive
  <2> QED
    BY <1>4, <2>1, Recursion
<1>6. \E f \in [D -> V] : f = [i \in D |-> Turn(text, f, i)]
  BY <1>5
<1>7. Scanned(text) = CHOOSE f : f = [i \in D |-> Turn(text, f, i)]
  BY Zenon DEF Scanned, Turn
<1>8. Scanned(text) = [i \in D |-> Turn(text, Scanned(text), i)]
  <2> HIDE DEF D, V
  <2> QED
    BY <1>6, <1>7
<1>9. \A i \in D : Scanned(text)[i] = Turn(text, Scanned(text), i)
  <2> HIDE DEF D
  <2> QED
    BY <1>8
<1>10. D \subseteq {i \in D : Scanned(text)[i] \in V}
  <2> DEFINE S == {i \in D : Scanned(text)[i] \in V}
  <2>1. ASSUME NEW i \in D, \A j \in i + 1 .. Len(text) + 1 : j \in S PROVE i \in S
    BY <1>9, <2>1, TurnType
  <2> HIDE DEF S
  <2>2. Len(text) + 1 \in Nat
    BY <1>1
  <2>3. 1 .. Len(text) + 1 \subseteq S
    BY <2>1, <2>2, Backwards
  <2> QED
    BY <2>3 DEF S
<1> QED
  BY <1>9, <1>10

\* The fields of what was taken.
LEMMA IsTaken ==
  ASSUME NEW t, NEW bytes, NEW next, t = Taken(bytes, next)
  PROVE  t.ok = TRUE /\ t.bytes = bytes /\ t.next = next
BY DEF Taken

\* The fields of a token with a value.
LEMMA IsValued ==
  ASSUME NEW t, NEW kind, NEW next, NEW v, t = Valued(kind, next, v)
  PROVE  t.kind = kind /\ t.next = next /\ t.value = v
BY DEF Valued

\* At a quotation mark the string ends.
LEMMA ReadingEnds ==
  ASSUME NEW text \in Seq(Octet), NEW i \in 1 .. Len(text) + 1, At(text, i) = Quote
  PROVE  Scanned(text)[i] = Valued("value_string", i + 1, <<>>)
BY Scans, Zenon DEF Turn

\* A byte that is refused fails the whole string.
LEMMA ReadingFails ==
  ASSUME NEW text \in Seq(Octet), NEW i \in 1 .. Len(text) + 1, At(text, i) # Quote, ~Character(text, i).ok
  PROVE  Scanned(text)[i].kind = "parse_error"
<1>1. Scanned(text)[i] = Error(Character(text, i).next)
  BY Scans, Zenon DEF Turn
<1> QED
  BY <1>1, Tokens, Zenon

\* A turn that reads a code point puts it in front of what is read behind it.
LEMMA ReadingGoesOn ==
  ASSUME NEW text \in Seq(Octet), NEW i \in 1 .. Len(text) + 1, At(text, i) # Quote, Character(text, i).ok,
         NEW u, NEW next, u = Character(text, i).bytes, next = Character(text, i).next
  PROVE  /\ u \in Chars /\ next \in i + 1 .. Len(text) + 1
         /\ Scanned(text)[next] \in Strings =>
              Scanned(text)[i] = Valued("value_string", Scanned(text)[next].next, u \o Scanned(text)[next].value)
         /\ Scanned(text)[next] \notin Strings => Scanned(text)[i].kind = "parse_error"
<1> DEFINE rest == Scanned(text)[next]
<1>1. Character(text, i).ok /\ Character(text, i).bytes = u /\ Character(text, i).next = next
  OBVIOUS
<1>2. u \in Chars /\ next \in i + 1 .. Len(text) + 1
  BY <1>1, CharacterReads
<1>3. next \in 1 .. Len(text) + 1
  BY <1>2, LenProperties
<1>4. rest \in Strings \cup Errors(text)
  BY <1>3, Scans
<1>5. Scanned(text)[i] = IF rest.kind = "parse_error" THEN rest
                         ELSE Valued("value_string", rest.next, u \o rest.value)
  BY <1>1, Scans, Zenon DEF Turn
<1> HIDE DEF rest
<1>6. /\ rest \in Strings => rest.kind # "parse_error"
      /\ rest \notin Strings => rest.kind = "parse_error"
  <2>1. "value_string" # "parse_error"
    OBVIOUS
  <2> QED
    BY <1>4, <2>1, ErrorType, StringType, Zenon
<1>7. /\ rest \in Strings =>
           Scanned(text)[i] = Valued("value_string", rest.next, u \o rest.value)
      /\ rest \notin Strings => Scanned(text)[i].kind = "parse_error"
  BY <1>5, <1>6, Zenon
<1> QED
  BY <1>2, <1>7 DEF rest

\* The empty string is written as nothing.
LEMMA Empty == dump_escaped(<<>>).ok /\ dump_escaped(<<>>).text = <<>>
<1>1. <<>> \in Seq(Octet) /\ Len(<<>>) = 0
  OBVIOUS
<1>2. Dumped(<<>>)[0] = Begin
  BY <1>1, Dumps
<1>3. Begin.ok = TRUE /\ Begin.state = UTF8_ACCEPT /\ Begin.text = <<>>
  BY DEF Begin
<1>4. /\ dump_escaped(<<>>).ok = (Begin.ok /\ Begin.state = UTF8_ACCEPT)
      /\ dump_escaped(<<>>).text = Begin.text
  BY <1>1, <1>2 DEF dump_escaped
<1> QED
  BY <1>3, <1>4, Zenon

\* Whatever scan_string accepts, the serializer writes without an exception: a string that
\* came in with a command can be forwarded, and logged, although the serializer decodes
\* UTF-8 with a table of its own.
THEOREM WhatIsReadIsWritten ==
  ASSUME NEW text \in Seq(Octet), NEW start \in 1 .. Len(text) + 1,
         scan_string(text, start).kind = "value_string"
  PROVE  dump_escaped(scan_string(text, start).value).ok
<1> DEFINE token == Scanned(text)
           Good(i) == token[i] \in Strings => dump_escaped(token[i].value).ok
           S == {i \in 1 .. Len(text) + 1 : Good(i)}
<1>1. Len(text) \in Nat /\ Len(text) + 1 \in Nat
  BY LenProperties
<1>2. ASSUME NEW i \in 1 .. Len(text) + 1, \A j \in i + 1 .. Len(text) + 1 : j \in S
      PROVE  i \in S
  <2>1. CASE At(text, i) = Quote
    <3>1. token[i] = Valued("value_string", i + 1, <<>>)
      BY <2>1, ReadingEnds
    <3> HIDE DEF token
    <3>2. token[i].value = <<>>
      BY <3>1, IsValued
    <3>3. Good(i)
      BY <3>2, Empty, Zenon
    <3> QED
      BY <3>3
  <2>2. CASE At(text, i) # Quote /\ ~Character(text, i).ok
    <3>1. token[i].kind = "parse_error" /\ "parse_error" # "value_string"
      BY <2>2, ReadingFails
    <3>2. token[i] \notin Strings
      BY <3>1, StringType, Zenon
    <3> QED
      BY <3>2
  <2>3. CASE At(text, i) # Quote /\ Character(text, i).ok
    <3> DEFINE u == Character(text, i).bytes
               next == Character(text, i).next
    <3>1. Character(text, i).bytes = u /\ Character(text, i).next = next
      OBVIOUS
    <3> HIDE DEF u, next
    <3>2. /\ u \in Chars /\ next \in i + 1 .. Len(text) + 1
          /\ token[next] \in Strings =>
               token[i] = Valued("value_string", token[next].next, u \o token[next].value)
          /\ token[next] \notin Strings => token[i].kind = "parse_error"
      BY <2>3, <3>1, ReadingGoesOn
    <3>3. CASE token[next] \in Strings
      <4>1. dump_escaped(token[next].value).ok
        BY <1>2, <3>2, <3>3
      <4>2. token[next].value \in Seq(Octet)
        BY <3>3, StringType
      <4>3. dump_escaped(u \o token[next].value).ok
        BY <3>2, <4>1, <4>2, Joined
      <4>4. token[i].value = u \o token[next].value
        <5> DEFINE t == token[i]
                   r == token[next]
        <5>1. t = Valued("value_string", r.next, u \o r.value)
          BY <3>2, <3>3
        <5> DEFINE n == r.next
                   w == u \o r.value
        <5>2. t = Valued("value_string", n, w)
          BY <5>1
        <5> HIDE DEF t, r, n, w
        <5>3. t.value = w
          BY <5>2, IsValued
        <5> QED
          BY <5>3 DEF t, r, w
      <4>5. Good(i)
        BY <4>3, <4>4
      <4> QED
        BY <4>5
    <3>4. CASE token[next] \notin Strings
      <4>1. token[i].kind = "parse_error" /\ "parse_error" # "value_string"
        BY <3>2, <3>4
      <4>2. token[i] \notin Strings
        BY <4>1, StringType, Zenon
      <4> QED
        BY <4>2
    <3> QED
      BY <3>3, <3>4
  <2> QED
    BY <2>1, <2>2, <2>3
<1> HIDE DEF S
<1>3. start \in S
  BY <1>1, <1>2, Backwards
<1>4. token[start] \in Strings
  <2>1. token[start] \in Strings \cup Errors(text) /\ token[start].kind = "value_string"
    BY Scans DEF scan_string
  <2>2. "parse_error" # "value_string"
    OBVIOUS
  <2> HIDE DEF token
  <2> QED
    BY <2>1, <2>2, ErrorType, Zenon
<1> QED
  BY <1>3, <1>4 DEF S, scan_string

-----------------------------------------------------------------------------
\* Reading what was written.

\* w is in the text from position i on.
Holds(text, i, w) ==
  /\ text \in Seq(Octet) /\ i \in Nat \ {0} /\ i + Len(w) <= Len(text) + 1
  /\ \A j \in 0 .. Len(w) - 1 : At(text, i + j) = w[j + 1]

\* A text put between two others is found there.
LEMMA Placed ==
  ASSUME NEW p \in Seq(Octet), NEW w \in Seq(Octet), NEW r \in Seq(Octet)
  PROVE  Holds(p \o (w \o r), Len(p) + 1, w)
<1> DEFINE t == p \o (w \o r)
<1>1. /\ w \o r \in Seq(Octet) /\ Len(w \o r) = Len(w) + Len(r)
      /\ Len(p) \in Nat /\ Len(w) \in Nat /\ Len(r) \in Nat
      /\ \A j \in 1 .. Len(w) : (w \o r)[j] = w[j]
  BY ConcatProperties, LenProperties
<1> DEFINE x == w \o r
<1> HIDE DEF x
<1>2. /\ p \o x \in Seq(Octet) /\ Len(p \o x) = Len(p) + Len(x)
      /\ \A j \in 1 .. Len(x) : (p \o x)[Len(p) + j] = x[j]
  <2>1. x \in Seq(Octet) /\ Len(x) \in Nat
    BY <1>1 DEF x
  <2> QED
    BY <1>1, <2>1, ConcatProperties
<1>3. t = p \o x /\ Len(x) = Len(w) + Len(r) /\ \A j \in 1 .. Len(w) : x[j] = w[j]
  BY <1>1 DEF x
<1> HIDE DEF t
<1>4. t \in Seq(Octet) /\ Len(t) = Len(p) + Len(w) + Len(r)
  BY <1>1, <1>2, <1>3
<1>5. ASSUME NEW j \in 0 .. Len(w) - 1 PROVE At(t, (Len(p) + 1) + j) = w[j + 1]
  <2>1. /\ (Len(p) + 1) + j = Len(p) + (j + 1) /\ (Len(p) + 1) + j <= Len(t)
        /\ j + 1 \in 1 .. Len(w) /\ j + 1 \in 1 .. Len(x)
    BY <1>1, <1>3, <1>4
  <2>2. t[Len(p) + (j + 1)] = x[j + 1] /\ x[j + 1] = w[j + 1]
    BY <1>2, <1>3, <2>1
  <2> QED
    BY <2>1, <2>2 DEF At
<1>6. Len(p) + 1 \in Nat \ {0} /\ (Len(p) + 1) + Len(w) <= Len(t) + 1
  BY <1>1, <1>4
<1> QED
  BY <1>4, <1>5, <1>6 DEF Holds, t

\* An escape by a letter is read back,
LEMMA ReadsLetter ==
  ASSUME NEW text, NEW i, NEW b \in DOMAIN Escapes, Holds(text, i, <<Backslash, Escapes[b]>>)
  PROVE  At(text, i) = Backslash /\ Character(text, i) = Taken(<<b>>, i + 2)
<1> DEFINE w == <<Backslash, Escapes[b]>>
<1>1. Len(w) = 2 /\ w[1] = Backslash /\ w[2] = Escapes[b]
  OBVIOUS
<1> HIDE DEF w
<1>2. At(text, i + 0) = w[1] /\ At(text, i + 1) = w[2] /\ i + 0 = i
  BY <1>1 DEF Holds, w
<1>3. Escapes[b] \in DOMAIN Short /\ Short[Escapes[b]] = b
  BY DEF Escapes, Short
<1>4. At(text, i) = Backslash /\ At(text, i + 1) = Escapes[b]
  BY <1>1, <1>2
<1>5. At(text, i + 1) \in DOMAIN Short /\ Short[At(text, i + 1)] = b
  BY <1>3, <1>4
<1>6. Character(text, i) = Taken(<<Short[At(text, i + 1)]>>, i + 2)
  BY <1>4, <1>5, Zenon DEF Character
<1> QED
  BY <1>4, <1>5, <1>6

\* so is one by a number,
LEMMA ReadsNumber ==
  ASSUME NEW text, NEW i, NEW b \in 0 .. 31,
         Holds(text, i, <<Backslash, 117, 48, 48, HexText(b \div 16), HexText(b % 16)>>)
  PROVE  At(text, i) = Backslash /\ Character(text, i) = Taken(<<b>>, i + 6)
<1> DEFINE h == HexText(b \div 16)
           l == HexText(b % 16)
           w == <<Backslash, 117, 48, 48, h, l>>
<1>1. /\ Len(w) = 6 /\ w[1] = Backslash /\ w[2] = 117 /\ w[3] = 48 /\ w[4] = 48 /\ w[5] = h /\ w[6] = l
  OBVIOUS
<1>2. HexDigit(48) = 0 /\ HexDigit(h) = b \div 16 /\ HexDigit(l) = b % 16
  <2>1. b \div 16 \in 0 .. 1 /\ b % 16 \in 0 .. 15
    OBVIOUS
  <2> QED
    BY <2>1 DEF HexDigit, HexText
<1> HIDE DEF h, l, w
<1>3. Holds(text, i, w)
  BY DEF w, h, l
<1>4. /\ i \in Nat \ {0} /\ i + 6 <= Len(text) + 1 /\ Len(text) \in Nat
      /\ At(text, i) = Backslash /\ At(text, i + 1) = 117
      /\ At(text, i + 2) = 48 /\ At(text, i + 3) = 48 /\ At(text, i + 4) = h /\ At(text, i + 5) = l
  <2>1. text \in Seq(Octet) /\ i \in Nat \ {0} /\ i + Len(w) <= Len(text) + 1
    BY <1>3 DEF Holds
  <2>2. \A j \in 0 .. 5 : At(text, i + j) = w[j + 1]
    BY <1>1, <1>3, SMTT(30) DEF Holds
  <2>3. /\ At(text, i + 0) = w[0 + 1] /\ At(text, i + 1) = w[1 + 1] /\ At(text, i + 2) = w[2 + 1]
        /\ At(text, i + 3) = w[3 + 1] /\ At(text, i + 4) = w[4 + 1] /\ At(text, i + 5) = w[5 + 1]
    <3>1. 0 \in 0 .. 5 /\ 1 \in 0 .. 5 /\ 2 \in 0 .. 5 /\ 3 \in 0 .. 5 /\ 4 \in 0 .. 5 /\ 5 \in 0 .. 5
      OBVIOUS
    <3> QED
      BY <2>2, <3>1, Zenon
  <2>4. i + 0 = i
    BY <2>1
  <2> QED
    BY <1>1, <2>1, <2>3, <2>4, LenProperties
<1> DEFINE m == i + 2
<1>5. m \in Nat /\ m + 1 = i + 3 /\ m + 2 = i + 4 /\ m + 3 = i + 5 /\ m + 4 = i + 6
  BY <1>4
<1>6. \A k \in m .. m + 3 : HexDigit(At(text, k)) # -1
  <2>1. \A k \in m .. m + 3 : k = i + 2 \/ k = i + 3 \/ k = i + 4 \/ k = i + 5
    BY <1>4
  <2>2. HexDigit(48) # -1 /\ HexDigit(h) # -1 /\ HexDigit(l) # -1
    BY <1>2
  <2> QED
    BY <1>4, <2>1, <2>2, SMTT(30)
<1>7. FirstBad(text, m) = m + 4
  <2> HIDE DEF m
  <2>1. FirstBad(text, m) \in m .. m + 4
    BY <1>5, FirstBadIs
  <2>2. FirstBad(text, m) # m + 4 => FirstBad(text, m) \in m .. m + 3
    BY <1>5, <2>1
  <2> QED
    BY <1>5, <1>6, <2>2, FirstBadIs
<1>8. get_codepoint(text, m) = b
  <2>1. /\ text[i + 2] = 48 /\ text[i + 3] = 48 /\ text[i + 4] = h /\ text[i + 5] = l
    BY <1>4 DEF At
  <2>2. text[m] = 48 /\ text[m + 1] = 48 /\ text[m + 2] = h /\ text[m + 3] = l
    BY <1>5, <2>1
  <2> HIDE DEF m
  <2> DEFINE x == HexDigit(text[m])
             y == HexDigit(text[m + 1])
             z == HexDigit(text[m + 2])
             v == HexDigit(text[m + 3])
  <2>3. get_codepoint(text, m) = x * 4096 + y * 256 + z * 16 + v
    BY SMT DEF get_codepoint
  <2>4. x = 0 /\ y = 0 /\ z = b \div 16 /\ v = b % 16
    BY <1>2, <2>2
  <2> HIDE DEF x, y, z, v
  <2>5. (b \div 16) * 16 + (b % 16) = b
    OBVIOUS
  <2> QED
    BY <2>3, <2>4, <2>5
<1>9. b \notin Low /\ b \notin High /\ Utf8(b) = <<b>>
  BY SMTT(30) DEF Low, High, Utf8
<1>10. Unicode(text, m) = Taken(<<b>>, m + 4)
  <2> HIDE DEF m
  <2>1. ~(FirstBad(text, m) < m + 4)
    BY <1>5, <1>7
  <2> QED
    BY <1>8, <1>9, <2>1, SMT DEF Unicode
<1>11. 117 \notin DOMAIN Short
  BY DEF Short
<1>12. Character(text, i) = Unicode(text, m)
  BY <1>4, <1>11, Zenon DEF Character
<1> QED
  BY <1>4, <1>5, <1>10, <1>12

\* and so are a byte that needs no escape
LEMMA ReadsPlain ==
  ASSUME NEW text, NEW i, NEW b \in Plain, Holds(text, i, <<b>>)
  PROVE  At(text, i) = b /\ Character(text, i) = Taken(<<b>>, i + 1)
<1>1. At(text, i + 0) = b /\ i + 0 = i
  BY DEF Holds
<1>2. b # Backslash
  BY DEF Plain
<1> QED
  BY <1>1, <1>2 DEF Character

\* and a code point beyond ASCII.
LEMMA ReadsMany ==
  ASSUME NEW text, NEW i, NEW u \in Chars, Len(u) # 1, Holds(text, i, u)
  PROVE  At(text, i) # Quote /\ Character(text, i) = Taken(u, i + Len(u))
<1> DEFINE b == u[1]
           trail == Trail(At(text, i))
           bad == {j \in 1 .. Len(trail) : At(text, i + j) \notin trail[j]}
<1>1. /\ u \in Seq(Octet) /\ Len(u) \in 2 .. 4 /\ Len(u) = 1 + Len(Trail(b))
      /\ \A j \in 1 .. Len(u) - 1 : u[j + 1] \in Trail(b)[j]
  BY DEF Chars
<1>2. text \in Seq(Octet) /\ i \in Nat \ {0} /\ i + Len(u) <= Len(text) + 1 /\ Len(text) \in Nat
  BY LenProperties DEF Holds
<1>3. ASSUME NEW j \in 0 .. Len(u) - 1 PROVE At(text, i + j) = u[j + 1]
  BY DEF Holds
<1>4. At(text, i) = b
  <2>1. 0 \in 0 .. Len(u) - 1 /\ i + 0 = i /\ 0 + 1 = 1
    BY <1>1, <1>2
  <2>2. At(text, i + 0) = u[0 + 1]
    BY <1>3, <2>1
  <2> QED
    BY <2>1, <2>2
<1>5. trail = Trail(b)
  BY <1>4
<1>6. b \in 194 .. 244 /\ trail # <<>>
  <2>1. Len(Trail(b)) # 0
    BY <1>1
  <2> QED
    BY <1>5, <2>1, TrailType
<1>7. b # Backslash /\ b \notin Plain /\ b \notin Control /\ b # Quote
  <2> HIDE DEF b
  <2> QED
    BY <1>6 DEF Backslash, Plain, Control, Quote
<1> HIDE DEF b
<1>8. bad = {}
  <2>1. ASSUME NEW j \in 1 .. Len(trail) PROVE At(text, i + j) \in trail[j]
    <3>1. j \in 0 .. Len(u) - 1 /\ j \in 1 .. Len(u) - 1
      BY <1>1, <1>5
    <3> QED
      BY <1>1, <1>3, <1>5, <3>1
  <2> QED
    BY <2>1
<1>9. Character(text, i) = Taken(SubSeq(text, i, i + Len(trail)), i + 1 + Len(trail))
  BY <1>4, <1>6, <1>7, <1>8, Zenon DEF Character
<1> HIDE DEF trail
<1>10. Len(trail) = Len(u) - 1 /\ i + 1 + Len(trail) = i + Len(u)
  BY <1>1, <1>2, <1>5
<1>11. SubSeq(text, i, i + Len(trail)) = u
  <2> DEFINE k == i + Len(trail)
             s == SubSeq(text, i, k)
  <2>1. k = i + Len(u) - 1 /\ k \in Nat /\ i <= k /\ k <= Len(text)
    BY <1>1, <1>2, <1>10
  <2> HIDE DEF k
  <2>2. s \in Seq(Octet) /\ Len(s) = k - i + 1 /\ \A j \in 1 .. k - i + 1 : s[j] = text[i + j - 1]
    <3>1. i \in 1 .. Len(text) + 1 /\ k \in i - 1 .. Len(text)
      BY <1>2, <2>1
    <3> QED
      BY <1>2, <2>1, <3>1, SubSeqProperties
  <2> HIDE DEF s
  <2>3. Len(s) = Len(u)
    BY <1>1, <1>2, <2>1, <2>2
  <2>4. ASSUME NEW j \in 1 .. Len(u) PROVE s[j] = u[j]
    <3>1. /\ j - 1 \in 0 .. Len(u) - 1 /\ (j - 1) + 1 = j /\ i + (j - 1) = i + j - 1
          /\ i + (j - 1) <= Len(text) /\ j \in 1 .. k - i + 1
      BY <1>1, <1>2, <2>1
    <3>2. At(text, i + (j - 1)) = u[(j - 1) + 1]
      BY <1>3, <3>1
    <3>3. At(text, i + (j - 1)) = text[i + (j - 1)]
      BY <3>1 DEF At
    <3> QED
      BY <2>2, <3>1, <3>2, <3>3
  <2>5. s = u
    BY <1>1, <2>2, <2>3, <2>4, SeqEqual
  <2> QED
    BY <2>5 DEF s, k
<1> QED
  BY <1>4, <1>7, <1>9, <1>10, <1>11

\* A code point that was written is read by one turn, which ends where what was written ends.
LEMMA ReadsBack ==
  ASSUME NEW text, NEW i, NEW u \in Chars, Holds(text, i, Written(u))
  PROVE  At(text, i) # Quote /\ Character(text, i) = Taken(u, i + Len(Written(u)))
<1> DEFINE b == u[1]
<1>1. u \in Seq(Octet) /\ Len(u) \in 1 .. 4 /\ b \in Octet
  BY ElementOfSeq DEF Chars
<1>2. CASE Len(u) # 1
  <2>1. Written(u) = u
    BY <1>2 DEF Written
  <2> QED
    BY <1>2, <2>1, ReadsMany
<1>3. CASE Len(u) = 1
  <2>1. u = <<b>> /\ b \in 0 .. 127
    <3>1. b < 128
      BY <1>3 DEF Chars
    <3>2. u = <<b>>
      BY <1>1, <1>3
    <3>3. b \in Nat /\ b < 128
      BY <1>1, <3>1, Octets
    <3> HIDE DEF b
    <3>4. b \in 0 .. 127
      BY <3>3
    <3> QED
      BY <3>2, <3>4
  <2>2. Written(u) = Escaped(b, b)
    BY <1>3 DEF Written
  <2>3. Backslash # Quote
    BY DEF Backslash, Quote
  <2> HIDE DEF b
  <2>4. CASE b \in DOMAIN Escapes
    <3> DEFINE w == <<Backslash, Escapes[b]>>
    <3>1. Written(u) = w /\ Len(w) = 2
      BY <2>2, <2>4 DEF Escaped
    <3> HIDE DEF w
    <3>2. Holds(text, i, w)
      BY <3>1
    <3>3. At(text, i) = Backslash /\ Character(text, i) = Taken(<<b>>, i + 2)
      BY <2>4, <3>2, ReadsLetter DEF w
    <3> QED
      BY <2>1, <2>3, <3>1, <3>3
  <2>5. CASE b \notin DOMAIN Escapes /\ b < 32
    <3> DEFINE w == <<Backslash, 117, 48, 48, HexText(b \div 16), HexText(b % 16)>>
    <3>1. Written(u) = w /\ Len(w) = 6
      BY <2>2, <2>5 DEF Escaped
    <3> HIDE DEF w
    <3>2. Holds(text, i, w) /\ b \in 0 .. 31
      BY <2>1, <2>5, <3>1
    <3>3. At(text, i) = Backslash /\ Character(text, i) = Taken(<<b>>, i + 6)
      BY <3>2, ReadsNumber DEF w
    <3> QED
      BY <2>1, <2>3, <3>1, <3>3
  <2>6. CASE b \notin DOMAIN Escapes /\ ~(b < 32)
    <3>1. Written(u) = <<b>> /\ Len(<<b>>) = 1
      <4>1. Written(u) = <<b>>
        BY <2>2, <2>6, Zenon DEF Escaped
      <4> QED
        BY <4>1
    <3>2. Holds(text, i, <<b>>)
      BY <3>1
    <3>3. b \in Plain /\ b # Quote
      BY <2>1, <2>6 DEF Plain, Escapes, Quote, Backslash
    <3>4. At(text, i) = b /\ Character(text, i) = Taken(<<b>>, i + 1)
      BY <3>2, <3>3, ReadsPlain
    <3> QED
      BY <2>1, <3>1, <3>3, <3>4
  <2> QED
    BY <2>4, <2>5, <2>6
<1> QED
  BY <1>2, <1>3

\* Two ways to put four texts together, and a third.
InFront(p, w, x, e) == p \o ((w \o x) \o e)
Between(p, w, x, e) == (p \o w) \o (x \o e)
OneByOne(p, w, x, e) == p \o (w \o (x \o e))

\* All three are the same text.
LEMMA Regrouped ==
  ASSUME NEW p \in Seq(Octet), NEW w \in Seq(Octet), NEW x \in Seq(Octet), NEW e \in Seq(Octet)
  PROVE  InFront(p, w, x, e) = OneByOne(p, w, x, e) /\ Between(p, w, x, e) = OneByOne(p, w, x, e)
<1>1. (w \o x) \o e = w \o (x \o e)
  BY Associative
<1>2. x \o e \in Seq(Octet)
  BY ConcatProperties
<1> DEFINE y == x \o e
<1> HIDE DEF y
<1>3. y \in Seq(Octet)
  BY <1>2 DEF y
<1>4. (p \o w) \o y = p \o (w \o y)
  BY <1>3, Associative, SMTT(30)
<1> QED
  BY <1>1, <1>2, <1>4 DEF y, InFront, Between, OneByOne

\* One code point more in front of what can be read.
LEMMA OneMore ==
  ASSUME NEW u \in Chars, NEW p \in Seq(Octet), NEW x \in Seq(Octet), NEW end \in Seq(Octet),
         NEW v \in Seq(Octet), NEW m \in Nat,
         scan_string((p \o Written(u)) \o (x \o end), Len(p \o Written(u)) + 1) = Valued("value_string", m, v)
  PROVE  scan_string(p \o ((Written(u) \o x) \o end), Len(p) + 1) = Valued("value_string", m, u \o v)
<1> DEFINE w == Written(u)
           more == x \o end
           text == p \o (w \o more)
           i == Len(p) + 1
           next == i + Len(w)
<1>1. w \in Seq(Octet) /\ more \in Seq(Octet) /\ Len(w) \in Nat /\ Len(p) \in Nat
  BY WrittenIsBytes, ConcatProperties, LenProperties
<1>2. (p \o w) \o more = text /\ p \o ((w \o x) \o end) = text
  <2> HIDE DEF w
  <2>1. InFront(p, w, x, end) = OneByOne(p, w, x, end) /\ Between(p, w, x, end) = OneByOne(p, w, x, end)
    BY <1>1, Regrouped
  <2> QED
    BY <2>1 DEF InFront, Between, OneByOne
<1>3. Len(p \o w) + 1 = next
  <2> HIDE DEF w
  <2>1. Len(p \o w) = Len(p) + Len(w)
    BY <1>1, ConcatProperties
  <2> QED
    BY <1>1, <2>1
<1>4. Scanned(text)[next] = Valued("value_string", m, v)
  BY <1>2, <1>3 DEF scan_string
<1>5. Holds(text, i, w)
  <2> HIDE DEF w, more
  <2> QED
    BY <1>1, Placed
<1>6. At(text, i) # Quote /\ Character(text, i) = Taken(u, next)
  <2> HIDE DEF text, i
  <2> QED
    BY <1>5, ReadsBack
<1> HIDE DEF w, more, text, i, next
<1>7. text \in Seq(Octet) /\ i \in 1 .. Len(text) + 1
  <2>1. text \in Seq(Octet) /\ i \in Nat \ {0} /\ i + Len(w) <= Len(text) + 1
    BY <1>5 DEF Holds
  <2> QED
    BY <1>1, <2>1, LenProperties
<1>8. Character(text, i).ok /\ u = Character(text, i).bytes /\ next = Character(text, i).next
  BY <1>6 DEF Taken
<1>9. Scanned(text)[next] \in Strings /\ Scanned(text)[next].next = m /\ Scanned(text)[next].value = v
  BY <1>4, StringType, Tokens
<1>10. Scanned(text)[i] = Valued("value_string", Scanned(text)[next].next, u \o Scanned(text)[next].value)
  <2>1. Scanned(text)[next] \in Strings =>
          Scanned(text)[i] = Valued("value_string", Scanned(text)[next].next, u \o Scanned(text)[next].value)
    BY <1>6, <1>7, <1>8, ReadingGoesOn
  <2> QED
    BY <1>9, <2>1
<1>11. Scanned(text)[i] = Valued("value_string", m, u \o v)
  BY <1>9, <1>10
<1> QED
  BY <1>2, <1>11 DEF scan_string, w, i

\* What the serializer writes of a string, scan_string reads as that string, whatever is in
\* front of it and behind the quotation mark that ends it: a value survives being forwarded.
THEOREM WhatIsWrittenIsRead ==
  ASSUME NEW s \in Seq(Octet), NEW before \in Seq(Octet), NEW behind \in Seq(Octet), dump_escaped(s).ok
  PROVE  scan_string(before \o (dump_escaped(s).text \o (<<Quote>> \o behind)), Len(before) + 1)
           = Valued("value_string", Len(before) + Len(dump_escaped(s).text) + 2, s)
<1> DEFINE end == <<Quote>> \o behind
           W(v) == dump_escaped(v).text
           Token0(p, v) == scan_string(p \o (W(v) \o end), Len(p) + 1)
           Good(v) == dump_escaped(v).ok =>
                        \A p \in Seq(Octet) : Token0(p, v) = Valued("value_string", Len(p) + Len(W(v)) + 2, v)
           S == {n \in Nat : \A v \in Seq(Octet) : Len(v) <= n => Good(v)}
<1>1. <<Quote>> \in Seq(Octet)
  BY DEF Quote, Octet
<1>2. end \in Seq(Octet)
  BY <1>1, ConcatProperties
<1> HIDE DEF end
<1>3. ASSUME NEW p \in Seq(Octet) PROVE Token0(p, <<>>) = Valued("value_string", Len(p) + Len(W(<<>>)) + 2, <<>>)
  <2> DEFINE x == <<Quote>> \o behind
             text == p \o x
  <2>1. W(<<>>) = <<>> /\ Len(W(<<>>)) = 0
    <3>1. W(<<>>) = <<>>
      BY Empty
    <3> QED
      BY <3>1
  <2>2. W(<<>>) \o end = end
    BY <1>2, <2>1, ConcatEmptySeq
  <2>3. Holds(text, Len(p) + 1, <<Quote>>)
    BY <1>1, Placed
  <2>4. Token0(p, <<>>) = scan_string(text, Len(p) + 1)
    BY <2>2 DEF end
  <2> HIDE DEF text, x, W
  <2>5. At(text, Len(p) + 1) = Quote /\ Len(p) + 1 \in 1 .. Len(text) + 1 /\ text \in Seq(Octet)
    <3>1. /\ text \in Seq(Octet) /\ Len(p) + 1 \in Nat \ {0} /\ (Len(p) + 1) + Len(<<Quote>>) <= Len(text) + 1
          /\ \A j \in 0 .. Len(<<Quote>>) - 1 : At(text, (Len(p) + 1) + j) = <<Quote>>[j + 1]
      BY <2>3 DEF Holds
    <3>2. Len(<<Quote>>) = 1 /\ <<Quote>>[0 + 1] = Quote
      OBVIOUS
    <3>3. Len(p) \in Nat /\ Len(text) \in Nat /\ (Len(p) + 1) + 0 = Len(p) + 1 /\ 0 \in 0 .. Len(<<Quote>>) - 1
      BY <3>1, <3>2, LenProperties
    <3>4. At(text, (Len(p) + 1) + 0) = <<Quote>>[0 + 1]
      BY <3>1, <3>3, Zenon
    <3> QED
      BY <3>1, <3>2, <3>3, <3>4
  <2>6. scan_string(text, Len(p) + 1) = Valued("value_string", (Len(p) + 1) + 1, <<>>)
    BY <2>5, ReadingEnds DEF scan_string
  <2>7. (Len(p) + 1) + 1 = Len(p) + Len(W(<<>>)) + 2
    BY <2>1, LenProperties
  <2> QED
    BY <2>4, <2>6, <2>7
<1>4. 0 \in S
  <2>1. ASSUME NEW v \in Seq(Octet), Len(v) <= 0 PROVE v = <<>>
    BY <2>1, EmptySeq, LenProperties
  <2> HIDE DEF Token0, W
  <2>2. Good(<<>>)
    BY <1>3
  <2> HIDE DEF Good
  <2> QED
    BY <2>1, <2>2
<1>5. ASSUME NEW n \in Nat, n \in S PROVE n + 1 \in S
  <2>1. ASSUME NEW v \in Seq(Octet), Len(v) <= n + 1, v # <<>>, dump_escaped(v).ok, NEW p \in Seq(Octet)
        PROVE  Token0(p, v) = Valued("value_string", Len(p) + Len(W(v)) + 2, v)
    <3>1. PICK u \in Chars, rest \in Seq(Octet) : v = u \o rest
      BY <2>1, Starts
    <3>2. Len(v) = Len(u) + Len(rest) /\ Len(u) \in 1 .. 4 /\ Len(rest) \in Nat
      BY <3>1, WrittenIsBytes, ConcatProperties, LenProperties
    <3>3. Len(rest) <= n
      <4> DEFINE x == Len(v)
                 y == Len(u)
                 z == Len(rest)
      <4>1. x <= n + 1 /\ x = y + z /\ y \in 1 .. 4 /\ z \in Nat
        BY <2>1, <3>2
      <4> HIDE DEF x, y, z
      <4>2. z <= n
        BY <4>1
      <4> QED
        BY <4>2 DEF z
    <3>4. dump_escaped(rest).ok /\ W(v) = Written(u) \o W(rest)
      BY <2>1, <3>1, Joined, Zenon
    <3>5. W(rest) \in Seq(Octet) /\ Written(u) \in Seq(Octet)
      BY DumpType, WrittenIsBytes
    <3> DEFINE w == Written(u)
               q == p \o w
               m == Len(q) + Len(W(rest)) + 2
    <3>6. Good(rest)
      BY <1>5, <3>3
    <3>7. q \in Seq(Octet) /\ Len(q) = Len(p) + Len(w)
      BY <3>5, ConcatProperties
    <3>8. scan_string(q \o (W(rest) \o end), Len(q) + 1) = Valued("value_string", m, rest)
      BY <3>4, <3>6, <3>7
    <3>9. Len(W(v)) = Len(w) + Len(W(rest))
      BY <3>4, <3>5, ConcatProperties
    <3>10. m \in Nat /\ m = Len(p) + Len(W(v)) + 2
      <4>1. Len(W(rest)) \in Nat /\ Len(w) \in Nat /\ Len(p) \in Nat
        BY <3>5, LenProperties
      <4> HIDE DEF W, w, q
      <4> QED
        BY <3>7, <3>9, <4>1
    <3> HIDE DEF W, m
    <3>11. scan_string(p \o ((w \o W(rest)) \o end), Len(p) + 1) = Valued("value_string", m, u \o rest)
      BY <1>2, <3>5, <3>8, <3>10, OneMore, SMTT(30)
    <3> HIDE DEF w
    <3> QED
      BY <3>1, <3>4, <3>10, <3>11 DEF w
  <2> HIDE DEF Token0, W
  <2>2. Good(<<>>)
    BY <1>3
  <2>3. ASSUME NEW v \in Seq(Octet), Len(v) <= n + 1 PROVE Good(v)
    <3>1. CASE v = <<>>
      BY <2>2, <3>1
    <3>2. CASE v # <<>>
      BY <2>1, <2>3, <3>2
    <3> QED
      BY <3>1, <3>2
  <2> HIDE DEF Good
  <2> QED
    BY <2>3
<1> HIDE DEF S
<1>6. Len(s) \in S
  BY <1>4, <1>5, Reaches, LenProperties
<1>7. Good(s)
  <2>1. Len(s) <= Len(s)
    BY LenProperties
  <2> HIDE DEF Good
  <2> QED
    BY <1>6, <2>1 DEF S
<1> QED
  BY <1>7 DEF end

=============================================================================
