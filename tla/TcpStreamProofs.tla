---------------------------- MODULE TcpStreamProofs ---------------------------
(* Proofs about TcpStream and the frame decoder of Protocol, for every header  *)
(* size, byte alphabet, limit and vocabulary: StreamIntact, NoCommandInvented  *)
(* and the refinement of FrameChannel.                                         *)
EXTENDS TcpStream, SequenceTheorems, FiniteSetTheorems, Induction

-----------------------------------------------------------------------------

IsLength(be, b) == /\ be \in [0 .. HeaderLen -> Nat]
                   /\ be[0] = 0
                   /\ \A i \in 1 .. HeaderLen : be[i] = Base * be[i - 1] + b[i]

\* The recursion of BodyLen has a solution, and its last value is the length.
LEMMA Lengths ==
  ASSUME NEW b, \A i \in 1 .. HeaderLen : b[i] \in Nat
  PROVE  \E be : IsLength(be, b) /\ be[HeaderLen] = BodyLen(b)
<1> DEFINE D == 0 .. HeaderLen
           F == [f \in [D -> Nat] |-> [i \in D |-> IF i = 0 THEN 0 ELSE Base * f[i - 1] + b[i]]]
           self == [i \in D |-> i]
           be == CHOOSE f : f = [i \in D |-> IF i = 0 THEN 0 ELSE Base * f[i - 1] + b[i]]
<1>0. /\ HeaderLen \in Nat /\ Base \in Nat
      /\ \A x, y \in Nat : Base * x + y \in Nat
  BY ProtocolAssumption
<1>1. ASSUME NEW f \in [D -> Nat] PROVE F[f] \in [D -> Nat]
  <2>1. ASSUME NEW i \in D PROVE (IF i = 0 THEN 0 ELSE Base * f[i - 1] + b[i]) \in Nat
    <3>1. CASE i = 0
      BY <3>1
    <3>2. CASE i # 0
      <4>1. i - 1 \in D /\ i \in 1 .. HeaderLen
        BY <3>2, <1>0
      <4>2. f[i - 1] \in Nat /\ b[i] \in Nat
        BY <4>1
      <4>3. Base * f[i - 1] + b[i] \in Nat
        BY <4>2, <1>0
      <4> QED
        BY <3>2, <4>3
    <3> QED
      BY <3>1, <3>2
  <2> QED
    BY <2>1
<1>2. ASSUME NEW f \in [D -> Nat], NEW g \in [D -> Nat], NEW n \in Nat, Agree(f, g, D, self, n)
      PROVE  Agree(F[f], F[g], D, self, n + 1)
  <2>1. ASSUME NEW i \in D, i < n + 1, i # 0 PROVE f[i - 1] = g[i - 1]
    <3>1. i - 1 \in D /\ i - 1 < n
      BY <2>1, <1>0
    <3> QED
      BY <3>1, <1>2 DEF Agree
  <2>2. ASSUME NEW i \in D, i < n + 1 PROVE F[f][i] = F[g][i]
    BY <2>1, <2>2
  <2> QED
    BY <2>2 DEF Agree
<1>3. Recursive(F, D, Nat, self)
  <2>1. self \in [D -> Nat]
    BY <1>0
  <2> HIDE DEF self
  <2>2. F \in [[D -> Nat] -> [D -> Nat]]
    BY <1>1
  <2> HIDE DEF F, D
  <2> QED
    BY <1>2, <2>1, <2>2 DEF Recursive
<1>4. PICK f \in [D -> Nat] : f = F[f]
  <2> HIDE DEF F, D, self
  <2> QED
    BY <1>3, Recursion
<1>5. f = [i \in D |-> IF i = 0 THEN 0 ELSE Base * f[i - 1] + b[i]]
  BY <1>4
<1>6. be = [i \in D |-> IF i = 0 THEN 0 ELSE Base * be[i - 1] + b[i]]
  BY <1>5
<1>7. BodyLen(b) = be[HeaderLen]
  BY DEF BodyLen
<1> HIDE DEF be
<1>8. \A i \in D : be[i] = IF i = 0 THEN 0 ELSE Base * be[i - 1] + b[i]
  BY <1>6
<1> DEFINE S == {n \in D : be[n] \in Nat}
<1>9. 0 .. HeaderLen \subseteq S
  <2>1. 0 \in S
    BY <1>8, <1>0
  <2>2. ASSUME NEW n \in 0 .. HeaderLen - 1, n \in S PROVE n + 1 \in S
    <3>1. n + 1 \in D /\ n + 1 # 0 /\ n + 1 \in 1 .. HeaderLen /\ (n + 1) - 1 = n
      BY <1>0
    <3>2. be[n + 1] = Base * be[n] + b[n + 1]
      BY <3>1, <1>8
    <3>3. b[n + 1] \in Nat /\ be[n] \in Nat
      BY <3>1, <2>2
    <3>4. be[n + 1] \in Nat
      BY <3>2, <3>3, <1>0
    <3> QED
      BY <3>1, <3>4
  <2> HIDE DEF S
  <2> QED
    BY <2>1, <2>2, <1>0, ReachesUpTo
<1>10. IsLength(be, b)
  <2>1. be \in [0 .. HeaderLen -> Nat]
    <3>1. be = [i \in D |-> be[i]]
      BY <1>6
    <3> QED
      BY <1>9, <3>1
  <2>2. be[0] = 0
    BY <1>8, <1>0
  <2>3. ASSUME NEW i \in 1 .. HeaderLen PROVE be[i] = Base * be[i - 1] + b[i]
    <3>1. i \in D /\ i # 0
      BY <1>0
    <3> QED
      BY <3>1, <1>8
  <2> QED
    BY <2>1, <2>2, <2>3 DEF IsLength
<1> QED
  BY <1>7, <1>10

-----------------------------------------------------------------------------
(* Sequences of bytes in pieces, and the length in a header.                   *)


\* A piece of a byte sequence: its type, its length and its bytes.
LEMMA Piece ==
  ASSUME NEW s \in Seq(Byte), NEW m \in 1 .. Len(s) + 1, NEW n \in m - 1 .. Len(s)
  PROVE  /\ SubSeq(s, m, n) \in Seq(Byte)
         /\ Len(SubSeq(s, m, n)) = n - m + 1
         /\ \A i \in 1 .. n - m + 1 : SubSeq(s, m, n)[i] = s[m + i - 1]
<1>1. \A i \in m .. n : s[i] \in Byte
  BY ElementOfSeq
<1>2. m \in Int /\ n \in Int
  OBVIOUS
<1> QED
  BY <1>1, <1>2, SubSeqProperties

\* Concatenation of byte strings, for the provers that do not see the general law.
LEMMA Associative ==
  \A s, t, u \in Seq(Byte) : (s \o t) \o u = s \o (t \o u)
<1> HIDE DEF Byte
<1> QED
  BY ConcatAssociative

\* A sequence of bytes in two parts: where the bytes and the pieces of it are.
LEMMA Joined ==
  ASSUME NEW s \in Seq(Byte), NEW t \in Seq(Byte)
  PROVE  /\ s \o t \in Seq(Byte)
         /\ Len(s) \in Nat /\ Len(t) \in Nat
         /\ Len(s \o t) = Len(s) + Len(t)
         /\ \A i \in 1 .. Len(s) : (s \o t)[i] = s[i]
         /\ \A i \in 1 .. Len(t) : (s \o t)[Len(s) + i] = t[i]
<1>1. /\ s \o t \in Seq(Byte)
      /\ Len(s \o t) = Len(s) + Len(t)
      /\ \A i \in 1 .. Len(s) + Len(t) : (s \o t)[i] = IF i <= Len(s) THEN s[i] ELSE t[i - Len(s)]
  BY ConcatProperties
<1>2. Len(s) \in Nat /\ Len(t) \in Nat
  BY LenProperties
<1>3. ASSUME NEW i \in 1 .. Len(t) PROVE (s \o t)[Len(s) + i] = t[i]
  <2>1. Len(s) + i \in 1 .. Len(s) + Len(t) /\ ~(Len(s) + i <= Len(s)) /\ (Len(s) + i) - Len(s) = i
    BY <1>2
  <2> QED
    BY <1>1, <2>1
<1> QED
  BY <1>1, <1>2, <1>3

\* A piece of the first part is the piece of the whole.
LEMMA PieceOfFirst ==
  ASSUME NEW s \in Seq(Byte), NEW t \in Seq(Byte), NEW m \in 1 .. Len(s) + 1, NEW n \in m - 1 .. Len(s)
  PROVE  SubSeq(s \o t, m, n) = SubSeq(s, m, n)
<1>1. /\ s \o t \in Seq(Byte) /\ m \in 1 .. Len(s \o t) + 1 /\ n \in m - 1 .. Len(s \o t)
      /\ \A i \in 1 .. Len(s) : (s \o t)[i] = s[i]
  BY Joined
<1>2. \A i \in 1 .. n - m + 1 : m + i - 1 \in 1 .. Len(s)
  OBVIOUS
<1>3. /\ SubSeq(s \o t, m, n) \in Seq(Byte) /\ Len(SubSeq(s \o t, m, n)) = n - m + 1
      /\ \A i \in 1 .. n - m + 1 : SubSeq(s \o t, m, n)[i] = (s \o t)[m + i - 1]
  BY <1>1, Piece
<1>4. /\ SubSeq(s, m, n) \in Seq(Byte) /\ Len(SubSeq(s, m, n)) = n - m + 1
      /\ \A i \in 1 .. n - m + 1 : SubSeq(s, m, n)[i] = s[m + i - 1]
  BY Piece
<1>5. \A i \in 1 .. n - m + 1 : SubSeq(s \o t, m, n)[i] = SubSeq(s, m, n)[i]
  BY <1>1, <1>2, <1>3, <1>4
<1> HIDE DEF Byte
<1> QED
  BY <1>3, <1>4, <1>5, SeqEqual

\* What is left of the whole is what is left of the first part, and the second.
LEMMA SuffixOfJoined ==
  ASSUME NEW s \in Seq(Byte), NEW t \in Seq(Byte), NEW m \in 1 .. Len(s) + 1
  PROVE  SubSeq(s \o t, m, Len(s \o t)) = SubSeq(s, m, Len(s)) \o t
<1> DEFINE whole == SubSeq(s \o t, m, Len(s \o t))
           front == SubSeq(s, m, Len(s))
<1>1. /\ s \o t \in Seq(Byte)
      /\ Len(s) \in Nat /\ Len(t) \in Nat
      /\ Len(s \o t) = Len(s) + Len(t)
      /\ \A i \in 1 .. Len(s) : (s \o t)[i] = s[i]
      /\ \A i \in 1 .. Len(t) : (s \o t)[Len(s) + i] = t[i]
  BY Joined
<1>2. /\ front \in Seq(Byte) /\ Len(front) = Len(s) - m + 1
      /\ \A i \in 1 .. Len(s) - m + 1 : front[i] = s[m + i - 1]
  BY Piece, <1>1
<1>3. /\ whole \in Seq(Byte) /\ Len(whole) = Len(s \o t) - m + 1
      /\ \A i \in 1 .. Len(s \o t) - m + 1 : whole[i] = (s \o t)[m + i - 1]
  BY Piece, <1>1
<1> HIDE DEF whole, front, Byte
<1>4. /\ front \o t \in Seq(Byte) /\ Len(front \o t) = Len(front) + Len(t)
      /\ \A i \in 1 .. Len(front) : (front \o t)[i] = front[i]
      /\ \A i \in 1 .. Len(t) : (front \o t)[Len(front) + i] = t[i]
  BY <1>2, Joined
<1>5. Len(whole) = Len(front \o t)
  BY <1>1, <1>2, <1>3, <1>4
<1>6. ASSUME NEW i \in 1 .. Len(whole) PROVE whole[i] = (front \o t)[i]
  <2>1. CASE i <= Len(front)
    <3>1. i \in 1 .. Len(front) /\ m + i - 1 \in 1 .. Len(s) /\ i \in 1 .. Len(s \o t) - m + 1
      BY <2>1, <1>1, <1>2, <1>3
    <3>2. whole[i] = s[m + i - 1] /\ front[i] = s[m + i - 1]
      BY <3>1, <1>1, <1>2, <1>3
    <3> QED
      BY <3>1, <3>2, <1>4
  <2>2. CASE ~(i <= Len(front))
    <3> DEFINE j == i - Len(front)
    <3>1. /\ j \in 1 .. Len(t) /\ i = Len(front) + j /\ m + i - 1 = Len(s) + j
          /\ i \in 1 .. Len(s \o t) - m + 1
      BY <2>2, <1>1, <1>2, <1>3, SMTT(30)
    <3> HIDE DEF j
    <3>2. whole[i] = t[j]
      BY <3>1, <1>1, <1>3
    <3> QED
      BY <3>1, <3>2, <1>4
  <2> QED
    BY <2>1, <2>2
<1>7. whole = front \o t
  BY <1>3, <1>4, <1>5, <1>6, SeqEqual
<1> QED
  BY <1>7 DEF whole, front

\* Dropping p bytes and then q is dropping p + q.
LEMMA SuffixOfSuffix ==
  ASSUME NEW s \in Seq(Byte), NEW p \in 0 .. Len(s), NEW q \in 0 .. Len(s) - p
  PROVE  LET t == SubSeq(s, p + 1, Len(s)) IN SubSeq(t, q + 1, Len(t)) = SubSeq(s, p + q + 1, Len(s))
<1> DEFINE t == SubSeq(s, p + 1, Len(s))
           u == SubSeq(t, q + 1, Len(t))
           v == SubSeq(s, p + q + 1, Len(s))
<1>0. Len(s) \in Nat
  BY LenProperties
<1>1. /\ t \in Seq(Byte) /\ Len(t) = Len(s) - p
      /\ \A i \in 1 .. Len(s) - p : t[i] = s[p + i]
  BY <1>0, Piece
<1>3. /\ v \in Seq(Byte) /\ Len(v) = Len(s) - p - q
      /\ \A i \in 1 .. Len(s) - p - q : v[i] = s[p + q + i]
  BY <1>0, Piece
<1> HIDE DEF t, v, Byte
<1>2. /\ u \in Seq(Byte) /\ Len(u) = Len(t) - q
      /\ \A i \in 1 .. Len(t) - q : u[i] = t[q + i]
  BY <1>0, <1>1, Piece
<1> HIDE DEF u
<1>4. ASSUME NEW i \in 1 .. Len(u) PROVE u[i] = v[i]
  <2>1. i \in 1 .. Len(t) - q /\ q + i \in 1 .. Len(s) - p /\ i \in 1 .. Len(s) - p - q /\ p + (q + i) = p + q + i
    BY <1>0, <1>1, <1>2
  <2>2. u[i] = t[q + i] /\ t[q + i] = s[p + (q + i)] /\ v[i] = s[p + q + i]
    BY <2>1, <1>1, <1>2, <1>3
  <2> QED
    BY <2>1, <2>2
<1>5. Len(u) = Len(v)
  BY <1>0, <1>1, <1>2, <1>3
<1>6. u = v
  BY <1>2, <1>3, <1>4, <1>5, SeqEqual
<1> QED
  BY <1>6 DEF u, t, v

-----------------------------------------------------------------------------

\* A header is read as a natural number.
LEMMA BodyLenType ==
  ASSUME NEW b \in Seq(Byte), HasHeader(b)
  PROVE  BodyLen(b) \in Nat
<1>1. HeaderLen \in Nat /\ Len(b) \in Nat /\ Len(b) >= HeaderLen
  BY ProtocolAssumption, LenProperties DEF HasHeader
<1>2. \A i \in 1 .. HeaderLen : b[i] \in Nat
  <2> SUFFICES ASSUME NEW i \in 1 .. HeaderLen PROVE b[i] \in Byte
    BY ProtocolAssumption DEF Byte
  <2>1. i \in 1 .. Len(b)
    BY <1>1
  <2> QED
    BY <2>1, ElementOfSeq
<1>3. PICK be : IsLength(be, b) /\ be[HeaderLen] = BodyLen(b)
  BY <1>2, Lengths
<1>4. be \in [0 .. HeaderLen -> Nat]
  BY <1>3 DEF IsLength
<1> QED
  BY <1>1, <1>3, <1>4

\* The length is that of the header, whatever follows.
LEMMA BodyLenSame ==
  ASSUME NEW b, NEW c, \A i \in 1 .. HeaderLen : b[i] \in Nat /\ c[i] = b[i]
  PROVE  BodyLen(b) = BodyLen(c)
<1>0. HeaderLen \in Nat
  BY ProtocolAssumption
<1>1. PICK be : IsLength(be, b) /\ be[HeaderLen] = BodyLen(b)
  BY Lengths
<1>2. PICK ce : IsLength(ce, c) /\ ce[HeaderLen] = BodyLen(c)
  <2>1. \A i \in 1 .. HeaderLen : c[i] \in Nat
    OBVIOUS
  <2> QED
    BY <2>1, Lengths
<1> DEFINE S == {n \in 0 .. HeaderLen : be[n] = ce[n]}
<1>3. 0 \in S
  BY <1>0, <1>1, <1>2 DEF IsLength
<1>4. ASSUME NEW n \in 0 .. HeaderLen - 1, n \in S PROVE n + 1 \in S
  <2>1. n + 1 \in 1 .. HeaderLen /\ (n + 1) - 1 = n /\ be[n] = ce[n] /\ n + 1 \in 0 .. HeaderLen
    BY <1>0, <1>4
  <2>2. be[n + 1] = Base * be[n] + b[n + 1] /\ ce[n + 1] = Base * ce[n] + c[n + 1]
    BY <1>1, <1>2, <2>1 DEF IsLength
  <2>3. be[n + 1] = ce[n + 1]
    BY <2>1, <2>2
  <2> QED
    BY <2>1, <2>3
<1>5. HeaderLen \in S
  <2> HIDE DEF S
  <2>1. 0 .. HeaderLen \subseteq S
    BY <1>0, <1>3, <1>4, ReachesUpTo
  <2> QED
    BY <2>1, <1>0
<1> QED
  BY <1>1, <1>2, <1>5

-----------------------------------------------------------------------------
(* Frames, and what the lexer reads of them.                                   *)


\* The header of every length within the limit is read back as that length.
LEMMA HeaderIs ==
  ASSUME NEW n \in 0 .. MaxBody
  PROVE  /\ Header(n) \in Seq(Byte) /\ Len(Header(n)) = HeaderLen
         /\ BodyLen(Header(n)) = n
<1>1. Header(n) \in [1 .. HeaderLen -> Byte] /\ BodyLen(Header(n)) = n
  BY LimitAssumption DEF Header
<1>2. HeaderLen \in Nat
  BY ProtocolAssumption
<1> QED
  BY <1>1, <1>2

\* A complete frame: its header, its body and what is behind it.
LEMMA CompleteIs ==
  ASSUME NEW b \in Seq(Byte), Complete(b)
  PROVE  /\ BodyLen(b) \in 0 .. MaxBody /\ HeaderLen + BodyLen(b) <= Len(b)
         /\ HeaderLen \in Nat \ {0} /\ HeaderLen + BodyLen(b) \in Nat \ {0} /\ Len(b) \in Nat
         /\ Body(b) \in Seq(Byte) /\ Len(Body(b)) = BodyLen(b)
         /\ \A i \in 1 .. BodyLen(b) : Body(b)[i] = b[HeaderLen + i]
         /\ Rest(b) \in Seq(Byte) /\ Len(Rest(b)) = Len(b) - HeaderLen - BodyLen(b)
<1>1. HasHeader(b) /\ ~(BodyLen(b) > MaxBody) /\ Len(b) >= HeaderLen + BodyLen(b)
  BY DEF Complete, Oversized
<1>2. BodyLen(b) \in Nat
  BY <1>1, BodyLenType
<1>3. HeaderLen \in Nat \ {0} /\ MaxBody \in Nat /\ Len(b) \in Nat
  BY ProtocolAssumption, LenProperties
<1>4. /\ Body(b) \in Seq(Byte) /\ Len(Body(b)) = BodyLen(b)
      /\ \A i \in 1 .. BodyLen(b) : Body(b)[i] = b[HeaderLen + i]
  <2> DEFINE first == HeaderLen + 1
             last == HeaderLen + BodyLen(b)
  <2>1. first \in 1 .. Len(b) + 1 /\ last \in first - 1 .. Len(b) /\ last - first + 1 = BodyLen(b)
    BY <1>1, <1>2, <1>3
  <2>2. \A i \in 1 .. BodyLen(b) : first + i - 1 = HeaderLen + i
    BY <1>2, <1>3
  <2>3. Body(b) = SubSeq(b, first, last)
    BY DEF Body
  <2> HIDE DEF first, last, Byte
  <2> QED
    BY <2>1, <2>2, <2>3, Piece
<1>5. Rest(b) \in Seq(Byte) /\ Len(Rest(b)) = Len(b) - HeaderLen - BodyLen(b)
  <2> DEFINE first == HeaderLen + BodyLen(b) + 1
  <2>1. first \in 1 .. Len(b) + 1 /\ Len(b) \in first - 1 .. Len(b)
        /\ Len(b) - first + 1 = Len(b) - HeaderLen - BodyLen(b)
    BY <1>1, <1>2, <1>3
  <2>2. Rest(b) = SubSeq(b, first, Len(b))
    BY DEF Rest
  <2> HIDE DEF first, Byte
  <2> QED
    BY <2>1, <2>2, Piece
<1> QED
  BY <1>1, <1>2, <1>3, <1>4, <1>5

\* A header says the same however many bytes follow it.
LEMMA HeadersAgree ==
  ASSUME NEW b \in Seq(Byte), NEW x \in Seq(Byte), HasHeader(b)
  PROVE  BodyLen(b \o x) = BodyLen(b) /\ HasHeader(b \o x)
<1>1. HeaderLen \in Nat /\ Len(b) \in Nat /\ Len(b) >= HeaderLen
  BY ProtocolAssumption, LenProperties DEF HasHeader
<1>2. Len(b \o x) = Len(b) + Len(x) /\ Len(x) \in Nat /\ \A i \in 1 .. Len(b) : (b \o x)[i] = b[i]
  BY Joined
<1>3. ASSUME NEW i \in 1 .. HeaderLen PROVE b[i] \in Nat /\ (b \o x)[i] = b[i]
  <2>1. i \in 1 .. Len(b)
    BY <1>1
  <2>2. b[i] \in Byte
    BY <2>1, ElementOfSeq
  <2> QED
    BY <2>1, <2>2, <1>2, ProtocolAssumption DEF Byte
<1>4. BodyLen(b) = BodyLen(b \o x)
  BY <1>3, BodyLenSame
<1> QED
  BY <1>1, <1>2, <1>4 DEF HasHeader

\* A frame is the same frame however many bytes follow it.
LEMMA FrameStays ==
  ASSUME NEW b \in Seq(Byte), NEW x \in Seq(Byte), Complete(b)
  PROVE  /\ Complete(b \o x) /\ BodyLen(b \o x) = BodyLen(b) /\ Body(b \o x) = Body(b)
         /\ Rest(b \o x) = Rest(b) \o x
<1>1. HasHeader(b) /\ ~(BodyLen(b) > MaxBody) /\ Len(b) >= HeaderLen + BodyLen(b)
  BY DEF Complete, Oversized
<1>2. BodyLen(b \o x) = BodyLen(b) /\ HasHeader(b \o x)
  BY <1>1, HeadersAgree
<1>3. BodyLen(b) \in Nat /\ HeaderLen \in Nat /\ Len(b) \in Nat
  BY CompleteIs
<1>4. Len(b \o x) = Len(b) + Len(x) /\ Len(x) \in Nat
  BY Joined
<1>5. Complete(b \o x)
  BY <1>1, <1>2, <1>3, <1>4 DEF Complete, Oversized
<1>6. Body(b \o x) = Body(b)
  <2>1. HeaderLen + 1 \in 1 .. Len(b) + 1 /\ HeaderLen + BodyLen(b) \in (HeaderLen + 1) - 1 .. Len(b)
    BY <1>1, <1>3
  <2>2. SubSeq(b \o x, HeaderLen + 1, HeaderLen + BodyLen(b)) = SubSeq(b, HeaderLen + 1, HeaderLen + BodyLen(b))
    BY <2>1, PieceOfFirst
  <2> QED
    BY <2>2, <1>2 DEF Body
<1>7. Rest(b \o x) = Rest(b) \o x
  <2>1. HeaderLen + BodyLen(b) + 1 \in 1 .. Len(b) + 1
    BY <1>1, <1>3
  <2>2. SubSeq(b \o x, HeaderLen + BodyLen(b) + 1, Len(b \o x)) = SubSeq(b, HeaderLen + BodyLen(b) + 1, Len(b)) \o x
    BY <2>1, SuffixOfJoined
  <2> QED
    BY <2>2, <1>2 DEF Rest
<1> QED
  BY <1>2, <1>5, <1>6, <1>7

\* A frame that is complete with more bytes behind it, and does not reach into them, was
\* complete without them.
LEMMA FrameWasThere ==
  ASSUME NEW b \in Seq(Byte), NEW x \in Seq(Byte), Complete(b \o x), HeaderLen + BodyLen(b \o x) <= Len(b)
  PROVE  Complete(b)
<1>1. b \o x \in Seq(Byte)
  BY Joined
<1>2. BodyLen(b \o x) \in 0 .. MaxBody /\ HeaderLen \in Nat
  BY <1>1, CompleteIs
<1>3. Len(b) \in Nat /\ MaxBody \in Nat
  BY LenProperties, ProtocolAssumption
<1>4. HasHeader(b)
  BY <1>2, <1>3 DEF HasHeader
<1>5. BodyLen(b \o x) = BodyLen(b)
  BY <1>4, HeadersAgree
<1> QED
  BY <1>2, <1>3, <1>4, <1>5 DEF Complete, Oversized

-----------------------------------------------------------------------------

\* What the lexer reads of a body: it stops before the first zero byte.
LEMMA TextIs ==
  ASSUME NEW body \in Seq(Byte)
  PROVE  \E n \in 0 .. Len(body) :
           /\ Text(body) = SubSeq(body, 1, n)
           /\ n = Len(body) \/ body[n + 1] = 0
           /\ \A i \in 1 .. n : body[i] # 0
<1> DEFINE ends == {n \in 0 .. Len(body) : n = Len(body) \/ body[n + 1] = 0}
           n == CHOOSE n \in ends : \A other \in ends : n <= other
<1>1. Len(body) \in Nat
  BY LenProperties
<1>2. ends \in SUBSET Nat /\ ends # {}
  BY <1>1
<1>3. \E k \in ends : \A other \in ends : k <= other
  <2> HIDE DEF ends
  <2> QED
    BY <1>2, Smallest
<1>4. n \in ends /\ \A other \in ends : n <= other
  <2> HIDE DEF ends
  <2> QED
    BY <1>3
<1>5. Text(body) = SubSeq(body, 1, n)
  BY DEF Text
<1> HIDE DEF n
<1>6. ASSUME NEW i \in 1 .. n, body[i] = 0 PROVE FALSE
  <2>1. i - 1 \in 0 .. Len(body) /\ (i - 1) + 1 = i
    BY <1>1, <1>4
  <2>2. i - 1 \in ends
    BY <2>1, <1>6
  <2>3. n <= i - 1
    <3> HIDE DEF ends
    <3> QED BY <2>2, <1>4
  <2> QED
    BY <2>3, <1>4, <1>1
<1> QED
  BY <1>4, <1>5, <1>6

\* A body without a zero byte is read whole.
LEMMA TextWhole ==
  ASSUME NEW body \in Seq(Byte \ {0})
  PROVE  Text(body) = body
<1>1. body \in Seq(Byte) /\ \A i \in 1 .. Len(body) : body[i] # 0
  <2>1. \A i \in 1 .. Len(body) : body[i] \in Byte \ {0}
    BY ElementOfSeq
  <2> HIDE DEF Byte
  <2>2. body \in Seq(Byte)
    BY SeqMonotonic
  <2> QED
    BY <2>1, <2>2
<1>2. PICK n \in 0 .. Len(body) : /\ Text(body) = SubSeq(body, 1, n)
                                  /\ n = Len(body) \/ body[n + 1] = 0
                                  /\ \A i \in 1 .. n : body[i] # 0
  BY <1>1, TextIs
<1>3. n = Len(body)
  <2> SUFFICES ASSUME n # Len(body) PROVE FALSE
    OBVIOUS
  <2>1. n + 1 \in 1 .. Len(body)
    BY LenProperties
  <2> QED
    BY <2>1, <1>1, <1>2
<1> QED
  BY <1>1, <1>2, <1>3, SubSeqFull

\* What a well-behaved station puts on the wire is one complete frame.
LEMMA EncodeIs ==
  ASSUME NEW b \in Seq(Byte \ {0}), Len(b) <= MaxBody
  PROVE  /\ Encode(b) \in Seq(Byte) /\ Len(Encode(b)) = HeaderLen + Len(b)
         /\ Complete(Encode(b)) /\ Body(Encode(b)) = b /\ Rest(Encode(b)) = <<>>
         /\ BodyLen(Encode(b)) = Len(b)
<1> DEFINE h == Header(Len(b))
<1>0. HeaderLen \in Nat \ {0} /\ MaxBody \in Nat /\ Len(b) \in Nat
  BY ProtocolAssumption, LenProperties
<1>1. h \in Seq(Byte) /\ Len(h) = HeaderLen /\ BodyLen(h) = Len(b)
  <2>1. Len(b) \in 0 .. MaxBody
    BY <1>0
  <2> QED
    BY <2>1, HeaderIs
<1>2. b \in Seq(Byte)
  <2> HIDE DEF Byte
  <2>1. \A i \in 1 .. Len(b) : b[i] \in Byte \ {0}
    BY ElementOfSeq
  <2> QED
    BY <2>1, SeqMonotonic
<1>3. Encode(b) = h \o b
  BY DEF Encode
<1> HIDE DEF h
<1>4. /\ h \o b \in Seq(Byte) /\ Len(h \o b) = Len(h) + Len(b)
      /\ \A i \in 1 .. Len(b) : (h \o b)[Len(h) + i] = b[i]
  BY <1>1, <1>2, Joined
<1>5. BodyLen(h \o b) = Len(b) /\ HasHeader(h \o b)
  <2>1. HasHeader(h)
    BY <1>0, <1>1 DEF HasHeader
  <2> QED
    BY <2>1, <1>1, <1>2, HeadersAgree
<1>6. Complete(h \o b)
  BY <1>0, <1>1, <1>4, <1>5 DEF Complete, Oversized
<1>7. /\ Body(h \o b) \in Seq(Byte) /\ Len(Body(h \o b)) = Len(b)
      /\ \A i \in 1 .. Len(b) : Body(h \o b)[i] = (h \o b)[HeaderLen + i]
      /\ Rest(h \o b) \in Seq(Byte) /\ Len(Rest(h \o b)) = Len(h \o b) - HeaderLen - Len(b)
  BY <1>4, <1>5, <1>6, CompleteIs
<1>8. Body(h \o b) = b
  <2>1. \A i \in 1 .. Len(b) : Body(h \o b)[i] = b[i]
    BY <1>1, <1>4, <1>7
  <2> HIDE DEF Byte
  <2> QED
    BY <2>1, <1>2, <1>7, SeqEqual
<1>9. Rest(h \o b) = <<>>
  <2>1. Len(Rest(h \o b)) = 0
    BY <1>0, <1>1, <1>4, <1>7
  <2> QED
    BY <2>1, <1>7, EmptySeq
<1> QED
  BY <1>0, <1>1, <1>3, <1>4, <1>5, <1>6, <1>8, <1>9

-----------------------------------------------------------------------------
(* parseFrame.                                                                 *)


\* What is read of a body is a sequence of bytes.
LEMMA TextType ==
  ASSUME NEW body \in Seq(Byte)
  PROVE  Text(body) \in Seq(Byte)
<1>1. PICK n \in 0 .. Len(body) : Text(body) = SubSeq(body, 1, n)
  BY TextIs
<1>2. 1 \in 1 .. Len(body) + 1 /\ n \in 1 - 1 .. Len(body)
  BY LenProperties
<1> QED
  BY <1>1, <1>2, Piece

\* The loop of parseFrame goes on with fewer bytes.
LEMMA RestShorter ==
  ASSUME NEW b \in Seq(Byte), Complete(b)
  PROVE  Rest(b) \in Seq(Byte) /\ Len(Rest(b)) < Len(b)
BY CompleteIs

\* The loop of parseFrame, unfolded once.
LEMMA ParseUnfolds ==
  \A b \in Seq(Byte) :
    parseFrame[b] =
      IF ~Complete(b)
        THEN [ok |-> FALSE, frame |-> <<>>, buffer |-> b]
      ELSE IF Text(Body(b)) \in Json
        THEN [ok |-> TRUE, frame |-> Text(Body(b)), buffer |-> Rest(b)]
      ELSE parseFrame[Rest(b)]
<1> DEFINE D == Seq(Byte)
           V == [ok : BOOLEAN, frame : Seq(Byte), buffer : Seq(Byte)]
           measure == [b \in D |-> Len(b)]
           stop(b) == [ok |-> FALSE, frame |-> <<>>, buffer |-> b]
           take(b) == [ok |-> TRUE, frame |-> Text(Body(b)), buffer |-> Rest(b)]
           loop(f, b) == IF ~Complete(b) THEN stop(b) ELSE IF Text(Body(b)) \in Json THEN take(b) ELSE f[Rest(b)]
           F == [f \in [D -> V] |-> [b \in D |-> loop(f, b)]]
<1>1. parseFrame = CHOOSE f : f = [b \in D |-> loop(f, b)]
  BY DEF parseFrame
<1>2. ASSUME NEW f \in [D -> V], NEW b \in D PROVE loop(f, b) \in V
  <2>1. stop(b) \in V
    BY EmptySeq
  <2>2. ASSUME Complete(b) PROVE take(b) \in V /\ f[Rest(b)] \in V
    <3>1. Body(b) \in Seq(Byte) /\ Rest(b) \in Seq(Byte)
      BY <2>2, CompleteIs
    <3>2. Text(Body(b)) \in Seq(Byte)
      BY <3>1, TextType
    <3> QED
      BY <3>1, <3>2
  <2> HIDE DEF stop, take, D, V
  <2> QED
    BY <2>1, <2>2
<1>3. ASSUME NEW f \in [D -> V], NEW g \in [D -> V], NEW n \in Nat, Agree(f, g, D, measure, n)
      PROVE  Agree(F[f], F[g], D, measure, n + 1)
  <2>1. ASSUME NEW b \in D, Len(b) < n + 1, Complete(b) PROVE f[Rest(b)] = g[Rest(b)]
    <3>1. Rest(b) \in D /\ Len(Rest(b)) < Len(b) /\ Len(b) \in Nat /\ Len(Rest(b)) \in Nat
      BY <2>1, RestShorter, LenProperties
    <3>2. measure[Rest(b)] < n
      BY <2>1, <3>1
    <3> QED
      BY <3>1, <3>2, <1>3 DEF Agree
  <2> HIDE DEF V, stop, take
  <2>2. ASSUME NEW b \in D, Len(b) < n + 1 PROVE loop(f, b) = loop(g, b)
    BY <2>1, <2>2
  <2>3. ASSUME NEW b \in D PROVE F[f][b] = loop(f, b) /\ F[g][b] = loop(g, b) /\ measure[b] = Len(b)
    OBVIOUS
  <2> HIDE DEF F, D, loop, measure
  <2> QED
    BY <2>2, <2>3 DEF Agree
<1> HIDE DEF stop, take
<1>4. Recursive(F, D, V, measure)
  <2>1. measure \in [D -> Nat]
    BY LenProperties
  <2> HIDE DEF measure
  <2>2. F \in [[D -> V] -> [D -> V]]
    <3> HIDE DEF loop, D, V
    <3> QED
      BY <1>2
  <2> HIDE DEF F, D, V
  <2> QED
    BY <1>3, <2>1, <2>2 DEF Recursive
<1>5. V # {}
  <2>1. [ok |-> FALSE, frame |-> <<>>, buffer |-> <<>>] \in V
    BY EmptySeq
  <2> QED
    BY <2>1
<1>6. PICK f \in [D -> V] : f = F[f]
  <2> HIDE DEF F, D, V, measure
  <2> QED
    BY <1>4, <1>5, Recursion
<1> HIDE DEF loop, D, V
<1>7. f = [b \in D |-> loop(f, b)]
  BY <1>6
<1>8. parseFrame = [b \in D |-> loop(parseFrame, b)]
  BY <1>1, <1>7
<1>9. \A b \in D : parseFrame[b] = loop(parseFrame, b)
  BY <1>8
<1> QED
  BY <1>9 DEF loop, D, stop, take

\* The rule for the loop of parseFrame.  I is what the caller knows of the buffer, kept
\* when a complete frame that is not JSON is dropped.
LEMMA ParseLoop ==
  ASSUME NEW I \in SUBSET Seq(Byte),
         \A c \in I : Complete(c) /\ Text(Body(c)) \notin Json => Rest(c) \in I,
         NEW b \in I
  PROVE  \E c \in I :
           \/ /\ Complete(c) /\ Text(Body(c)) \in Json
              /\ parseFrame[b] = [ok |-> TRUE, frame |-> Text(Body(c)), buffer |-> Rest(c)]
           \/ /\ ~Complete(c)
              /\ parseFrame[b] = [ok |-> FALSE, frame |-> <<>>, buffer |-> c]
<1> DEFINE Ends(c, d) == \/ /\ Complete(d) /\ Text(Body(d)) \in Json
                            /\ parseFrame[c] = [ok |-> TRUE, frame |-> Text(Body(d)), buffer |-> Rest(d)]
                         \/ /\ ~Complete(d)
                            /\ parseFrame[c] = [ok |-> FALSE, frame |-> <<>>, buffer |-> d]
           Good == {c \in I : \E d \in I : Ends(c, d)}
           S == {n \in Nat : \A c \in I : Len(c) < n => c \in Good}
<1>1. ASSUME NEW c \in I, Complete(c) => Text(Body(c)) \in Json PROVE c \in Good
  <2>1. Ends(c, c)
    BY <1>1, ParseUnfolds
  <2> HIDE DEF Ends
  <2> QED
    BY <2>1
<1>2. ASSUME NEW c \in I, Complete(c), Text(Body(c)) \notin Json, Rest(c) \in Good PROVE c \in Good
  <2>1. PICK d \in I : Ends(Rest(c), d)
    BY <1>2
  <2>2. parseFrame[c] = parseFrame[Rest(c)]
    BY <1>2, ParseUnfolds
  <2>3. Ends(c, d)
    BY <2>1, <2>2
  <2> HIDE DEF Ends
  <2> QED
    BY <2>3
<1> HIDE DEF Good
<1>3. 0 \in S
  BY LenProperties
<1>4. ASSUME NEW n \in Nat, n \in S PROVE n + 1 \in S
  <2> SUFFICES ASSUME NEW c \in I, Len(c) < n + 1 PROVE c \in Good
    OBVIOUS
  <2>1. CASE Complete(c) => Text(Body(c)) \in Json
    BY <2>1, <1>1
  <2>2. CASE Complete(c) /\ Text(Body(c)) \notin Json
    <3>1. Rest(c) \in I /\ Len(Rest(c)) < Len(c) /\ Len(c) \in Nat /\ Len(Rest(c)) \in Nat
      BY <2>2, RestShorter, LenProperties
    <3>2. Rest(c) \in Good
      BY <3>1, <1>4
    <3> QED
      BY <2>2, <3>2, <1>2
  <2> QED
    BY <2>1, <2>2
<1>5. Len(b) + 1 \in S
  <2> HIDE DEF S
  <2>1. Nat \subseteq S
    BY <1>3, <1>4, Reaches
  <2> QED
    BY <2>1, LenProperties
<1>6. b \in Good
  BY <1>5, LenProperties
<1> QED
  BY <1>6 DEF Good

-----------------------------------------------------------------------------
(* Where frames begin in a sequence of bytes.                                  *)


\* FrameStarts of any sequence of bytes; the model's is that of the stream.
At(s, p) == SubSeq(s, p + 1, Len(s))
Behind(s, p) == p + HeaderLen + BodyLen(At(s, p))
Starts(s) ==
  LET start[p \in 0 .. Len(s)] ==
        p = 0 \/ \E q \in 0 .. p - 1 : /\ start[q]
                                        /\ Complete(At(s, q))
                                        /\ p = Behind(s, q)
  IN  {p \in 0 .. Len(s) : start[p]}

\* The model's FrameStarts are those of the stream.
LEMMA StreamStarts == FrameStarts = Starts(stream)
BY DEF FrameStarts, Starts, From, FrameAt, At, Behind

\* The recursion of FrameStarts, as a statement about the set.
LEMMA StartsAre ==
  ASSUME NEW s \in Seq(Byte)
  PROVE  /\ Starts(s) \subseteq 0 .. Len(s)
         /\ \A p \in 0 .. Len(s) :
              p \in Starts(s) <=> p = 0 \/ \E q \in Starts(s) : q < p /\ Complete(At(s, q)) /\ p = Behind(s, q)
<1> DEFINE D == 0 .. Len(s)
           link(q, p) == Complete(At(s, q)) /\ p = Behind(s, q)
           rule(f, p) == p = 0 \/ \E q \in 0 .. p - 1 : f[q] /\ link(q, p)
           F == [f \in [D -> BOOLEAN] |-> [p \in D |-> rule(f, p)]]
           self == [p \in D |-> p]
           start == CHOOSE f : f = [p \in D |-> rule(f, p)]
<1>0. Len(s) \in Nat
  BY LenProperties
<1>1. Starts(s) = {p \in D : start[p]}
  BY DEF Starts
<1> HIDE DEF link
<1>2. ASSUME NEW f \in [D -> BOOLEAN], NEW g \in [D -> BOOLEAN], NEW n \in Nat, Agree(f, g, D, self, n)
      PROVE  Agree(F[f], F[g], D, self, n + 1)
  <2>1. ASSUME NEW p \in D, p < n + 1, NEW q \in 0 .. p - 1 PROVE f[q] = g[q]
    <3>1. q \in D /\ q < n
      BY <2>1, <1>0
    <3> QED
      BY <3>1, <1>2 DEF Agree
  <2>2. ASSUME NEW p \in D, p < n + 1 PROVE rule(f, p) = rule(g, p)
    BY <2>1, <2>2
  <2>3. ASSUME NEW p \in D PROVE F[f][p] = rule(f, p) /\ F[g][p] = rule(g, p) /\ self[p] = p
    OBVIOUS
  <2> HIDE DEF F, D, rule, self
  <2> QED
    BY <2>2, <2>3 DEF Agree
<1>3. Recursive(F, D, BOOLEAN, self)
  <2>1. self \in [D -> Nat]
    BY <1>0
  <2>2. \A f, p : rule(f, p) \in BOOLEAN
    OBVIOUS
  <2> HIDE DEF self, rule
  <2>3. F \in [[D -> BOOLEAN] -> [D -> BOOLEAN]]
    BY <2>2
  <2> HIDE DEF F, D
  <2> QED
    BY <1>2, <2>1, <2>3 DEF Recursive
<1>4. PICK f \in [D -> BOOLEAN] : f = F[f]
  <2>1. BOOLEAN # {}
    OBVIOUS
  <2> HIDE DEF F, D, self
  <2> QED
    BY <1>3, <2>1, Recursion
<1>5. f = [p \in D |-> rule(f, p)]
  BY <1>4
<1>6. start = [p \in D |-> rule(start, p)]
  BY <1>5
<1> HIDE DEF start
<1>7. \A p \in D : start[p] <=> rule(start, p)
  BY <1>6
<1>8. ASSUME NEW p \in D PROVE p \in Starts(s) <=> p = 0 \/ \E q \in Starts(s) : q < p /\ link(q, p)
  <2>1. \A q : q \in 0 .. p - 1 <=> q \in D /\ q < p
    BY <1>0
  <2> QED
    BY <2>1, <1>1, <1>7
<1> QED
  BY <1>1, <1>8 DEF link

\* What is left of a sequence behind p bytes, and of a longer one.
LEMMA AtIs ==
  ASSUME NEW s \in Seq(Byte), NEW p \in 0 .. Len(s)
  PROVE  /\ At(s, p) \in Seq(Byte) /\ Len(At(s, p)) = Len(s) - p /\ Len(s) \in Nat
         /\ \A x \in Seq(Byte) : At(s \o x, p) = At(s, p) \o x
<1>1. Len(s) \in Nat /\ p + 1 \in 1 .. Len(s) + 1 /\ Len(s) \in (p + 1) - 1 .. Len(s) /\ Len(s) - (p + 1) + 1 = Len(s) - p
  BY LenProperties
<1>2. At(s, p) \in Seq(Byte) /\ Len(At(s, p)) = Len(s) - p
  <2> HIDE DEF Byte
  <2> QED
    BY <1>1, Piece DEF At
<1>3. ASSUME NEW x \in Seq(Byte) PROVE At(s \o x, p) = At(s, p) \o x
  BY <1>1, SuffixOfJoined DEF At
<1> QED
  BY <1>1, <1>2, <1>3

\* A complete frame ends within the sequence, and another may begin there.
LEMMA FrameBehind ==
  ASSUME NEW s \in Seq(Byte), NEW p \in 0 .. Len(s), Complete(At(s, p))
  PROVE  /\ Behind(s, p) \in p + 1 .. Len(s) /\ Rest(At(s, p)) = At(s, Behind(s, p))
         /\ p \in Starts(s) => Behind(s, p) \in Starts(s)
<1> DEFINE n == HeaderLen + BodyLen(At(s, p))
<1>1. At(s, p) \in Seq(Byte) /\ Len(At(s, p)) = Len(s) - p /\ Len(s) \in Nat
  BY AtIs
<1>2. n \in Nat \ {0} /\ n <= Len(s) - p
  BY <1>1, CompleteIs
<1>3. Behind(s, p) = p + n
  <2>1. HeaderLen \in Nat /\ BodyLen(At(s, p)) \in Nat
    BY <1>1, CompleteIs
  <2> QED
    BY <2>1 DEF Behind
<1>4. Rest(At(s, p)) = SubSeq(At(s, p), n + 1, Len(At(s, p)))
  BY DEF Rest
<1> HIDE DEF n
<1>5. SubSeq(At(s, p), n + 1, Len(At(s, p))) = SubSeq(s, p + n + 1, Len(s))
  <2>1. n \in 0 .. Len(s) - p
    BY <1>1, <1>2
  <2> QED
    BY <2>1, SuffixOfSuffix DEF At
<1>6. p \in Starts(s) => Behind(s, p) \in Starts(s)
  <2>1. p + n \in 0 .. Len(s) /\ p < p + n
    BY <1>1, <1>2
  <2> QED
    BY <2>1, <1>3, StartsAre
<1>7. Rest(At(s, p)) = At(s, p + n)
  <2>1. At(s, p + n) = SubSeq(s, p + n + 1, Len(s))
    BY DEF At
  <2> QED
    BY <2>1, <1>4, <1>5
<1>8. p + n \in p + 1 .. Len(s)
  BY <1>1, <1>2
<1> QED
  BY <1>3, <1>6, <1>7, <1>8

\* From a place where a frame begins, no frame begins before the end of that one.
LEMMA StartsApart ==
  ASSUME NEW s \in Seq(Byte), NEW p \in Starts(s), NEW q \in Starts(s), p < q
  PROVE  Complete(At(s, p)) /\ Behind(s, p) <= q
<1> DEFINE Apart(u, v) == Complete(At(s, u)) /\ Behind(s, u) <= v
           S == {n \in Nat : \A u, v \in Starts(s) : u < v /\ v < n => Apart(u, v)}
<1>0. Len(s) \in Nat /\ \A u \in Starts(s) : u \in Nat /\ u \in 0 .. Len(s)
  BY StartsAre, LenProperties
<1>1. 0 \in S
  BY <1>0
<1>2. ASSUME NEW n \in Nat, n \in S PROVE n + 1 \in S
  <2> SUFFICES ASSUME NEW u \in Starts(s), NEW v \in Starts(s), u < v, v < n + 1 PROVE Apart(u, v)
    OBVIOUS
  <2>1. PICK w \in Starts(s) : w < v /\ Complete(At(s, w)) /\ v = Behind(s, w)
    BY <1>0, StartsAre
  <2>2. CASE u = w
    BY <2>1, <2>2, <1>0
  <2>3. CASE u < w
    <3>1. Apart(u, w)
      BY <2>1, <2>3, <1>2, <1>0
    <3>2. Behind(s, u) \in Nat
      BY <3>1, <1>0, FrameBehind
    <3> QED
      BY <3>1, <3>2, <2>1, <1>0
  <2>4. CASE w < u
    <3>1. Apart(w, u)
      BY <2>1, <2>4, <1>2, <1>0
    <3> QED
      BY <3>1, <2>1, <1>0
  <2> QED
    BY <2>2, <2>3, <2>4, <2>1, <1>0
<1>3. q + 1 \in S
  <2> HIDE DEF S
  <2>1. Nat \subseteq S
    BY <1>1, <1>2, Reaches
  <2> QED
    BY <2>1, <1>0
<1> QED
  BY <1>3, <1>0

\* Bytes that arrive later change nothing about where frames begin before them.
LEMMA StartsStay ==
  ASSUME NEW s \in Seq(Byte), NEW x \in Seq(Byte), NEW p \in 0 .. Len(s)
  PROVE  p \in Starts(s \o x) <=> p \in Starts(s)
<1> DEFINE t == s \o x
           Same(u) == u \in Starts(t) <=> u \in Starts(s)
           S == {n \in Nat : \A u \in 0 .. Len(s) : u < n => Same(u)}
<1>0. t \in Seq(Byte) /\ Len(t) = Len(s) + Len(x) /\ Len(s) \in Nat /\ Len(x) \in Nat
  BY Joined
<1>1. 0 \in S
  OBVIOUS
<1>2. ASSUME NEW n \in Nat, n \in S PROVE n + 1 \in S
  <2> SUFFICES ASSUME NEW u \in 0 .. Len(s), u < n + 1 PROVE Same(u)
    OBVIOUS
  <2>1. u \in 0 .. Len(t) /\ \A w \in 0 .. Len(s) : w < u => Same(w)
    BY <1>0, <1>2
  <2> DEFINE link(r, w) == w < u /\ Complete(At(r, w)) /\ u = Behind(r, w)
  <2>2. ASSUME NEW w \in 0 .. Len(s), w < u PROVE link(s, w) <=> link(t, w)
    <3>1. At(t, w) = At(s, w) \o x /\ At(s, w) \in Seq(Byte) /\ Len(At(s, w)) = Len(s) - w
      BY AtIs
    <3>2. ASSUME link(s, w) PROVE link(t, w)
      BY <3>1, <3>2, FrameStays DEF Behind
    <3>3. ASSUME link(t, w) PROVE link(s, w)
      <4>1. At(t, w) \in Seq(Byte) /\ BodyLen(At(t, w)) \in Nat /\ HeaderLen \in Nat
        <5>1. At(t, w) \in Seq(Byte)
          BY <3>1, Joined
        <5> QED
          BY <5>1, <3>3, CompleteIs
      <4>2. HeaderLen + BodyLen(At(t, w)) <= Len(At(s, w))
        BY <3>1, <3>3, <4>1, <1>0, SMTT(30) DEF Behind
      <4>3. Complete(At(s, w))
        BY <3>1, <3>3, <4>2, FrameWasThere
      <4> QED
        BY <3>1, <3>3, <4>3, FrameStays DEF Behind
    <3> QED
      BY <3>2, <3>3
  <2> HIDE DEF link, t
  <2>3. u \in Starts(s) <=> u = 0 \/ \E w \in Starts(s) : link(s, w)
    BY StartsAre DEF link
  <2>4. u \in Starts(t) <=> u = 0 \/ \E w \in Starts(t) : link(t, w)
    BY <1>0, <2>1, StartsAre DEF link
  <2>5. ASSUME NEW w \in Starts(t) \cup Starts(s), w < u PROVE w \in 0 .. Len(s)
    <3>1. w \in Nat
      BY <1>0, StartsAre
    <3> QED
      BY <3>1, <2>5
  <2>6. \A w \in Starts(t) \cup Starts(s) : w < u => (w \in Starts(t) <=> w \in Starts(s)) /\ (link(s, w) <=> link(t, w))
    BY <2>1, <2>2, <2>5
  <2>7. \A w : link(s, w) \/ link(t, w) => w < u
    BY DEF link
  <2> QED
    BY <2>3, <2>4, <2>6, <2>7
<1>3. p + 1 \in S
  <2> HIDE DEF S
  <2>1. Nat \subseteq S
    BY <1>1, <1>2, Reaches
  <2> QED
    BY <2>1
<1> QED
  BY <1>3

-----------------------------------------------------------------------------
(* What has been delivered of a stream.                                        *)


\* The frames of a stream that hold JSON, and those in front of p; Delivered says that
\* a sequence is just those.
FramedIn(s) == {p \in Starts(s) : Complete(At(s, p)) /\ Text(Body(At(s, p))) \in Json}
Front(s, p) == {q \in FramedIn(s) : q < p}
Rank(s, p, q) == Cardinality({r \in Front(s, p) : r <= q})
Delivered(s, p, g) == /\ Len(g) = Cardinality(Front(s, p))
                      /\ \A q \in Front(s, p) : g[Rank(s, p, q)] = Text(Body(At(s, q)))

\* The JSON frames in front of a place can be counted, and each has a rank among them.
LEMMA FrontFinite ==
  ASSUME NEW s \in Seq(Byte), NEW p \in Nat
  PROVE  /\ IsFiniteSet(Front(s, p)) /\ Cardinality(Front(s, p)) \in Nat
         /\ \A q \in Front(s, p) : Rank(s, p, q) \in 1 .. Cardinality(Front(s, p))
<1>1. Front(s, p) \in SUBSET Nat /\ \A q \in Front(s, p) : q <= p
  <2>1. Starts(s) \subseteq Nat
    BY StartsAre
  <2> QED
    BY <2>1 DEF Front, FramedIn
<1>2. IsFiniteSet(Front(s, p)) /\ Cardinality(Front(s, p)) \in Nat
  BY <1>1, FS_BoundedSetOfNaturals, FS_CardinalityType
<1>3. ASSUME NEW q \in Front(s, p) PROVE Rank(s, p, q) \in 1 .. Cardinality(Front(s, p))
  <2> DEFINE upTo == {r \in Front(s, p) : r <= q}
  <2>1. upTo \subseteq Front(s, p) /\ q \in upTo
    BY <1>1
  <2> HIDE DEF upTo
  <2>2. IsFiniteSet(upTo) /\ Cardinality(upTo) <= Cardinality(Front(s, p))
    BY <1>2, <2>1, FS_Subset
  <2>3. Cardinality(upTo) \in Nat /\ Cardinality(upTo) # 0
    BY <2>1, <2>2, FS_CardinalityType, FS_EmptySet
  <2> QED
    BY <1>2, <2>2, <2>3 DEF Rank, upTo
<1> QED
  BY <1>2, <1>3

\* Nothing that arrives later changes what has been delivered.
LEMMA DeliveredStays ==
  ASSUME NEW s \in Seq(Byte), NEW x \in Seq(Byte), NEW p \in Starts(s), NEW g, Delivered(s, p, g)
  PROVE  p \in Starts(s \o x) /\ Delivered(s \o x, p, g)
<1> DEFINE t == s \o x
<1>0. t \in Seq(Byte) /\ p \in 0 .. Len(s) /\ Len(s) \in Nat /\ Starts(s) \subseteq Nat /\ Starts(t) \subseteq Nat
  <2>1. t \in Seq(Byte) /\ Len(s) \in Nat /\ Len(t) \in Nat
    BY Joined
  <2> HIDE DEF t
  <2> QED
    BY <2>1, StartsAre
<1>1. p \in Starts(t)
  BY <1>0, StartsStay
<1>2. ASSUME NEW q \in Starts(s), q < p
      PROVE  Complete(At(s, q)) /\ Complete(At(t, q)) /\ Body(At(t, q)) = Body(At(s, q))
  <2>1. Complete(At(s, q)) /\ q \in 0 .. Len(s)
    BY <1>0, <1>2, StartsApart, StartsAre
  <2>2. At(s, q) \in Seq(Byte) /\ At(t, q) = At(s, q) \o x
    BY <2>1, AtIs
  <2> QED
    BY <2>1, <2>2, FrameStays
<1>3. ASSUME NEW q \in Nat, q < p PROVE q \in Starts(t) <=> q \in Starts(s)
  <2>1. q \in 0 .. Len(s)
    BY <1>0, <1>3
  <2> QED
    BY <2>1, StartsStay
<1> HIDE DEF t
<1>4. Front(t, p) = Front(s, p)
  BY <1>0, <1>2, <1>3 DEF Front, FramedIn
<1>5. \A q : Rank(t, p, q) = Rank(s, p, q)
  BY <1>4 DEF Rank
<1>6. \A q \in Front(s, p) : Body(At(t, q)) = Body(At(s, q))
  BY <1>2 DEF Front, FramedIn
<1>7. Delivered(t, p, g)
  BY <1>4, <1>5, <1>6 DEF Delivered
<1> QED
  BY <1>1, <1>7 DEF t

\* Past frames that are not JSON, and then behind one that is.
LEMMA DeliveredNext ==
  ASSUME NEW s \in Seq(Byte), NEW p \in Starts(s), NEW q \in Starts(s), p <= q,
         NEW g \in Seq(Json), Delivered(s, p, g), \A r \in FramedIn(s) : ~(p <= r /\ r < q)
  PROVE  /\ Delivered(s, q, g)
         /\ q \in FramedIn(s) => Delivered(s, Behind(s, q), Append(g, Text(Body(At(s, q)))))
<1>0. p \in Nat /\ q \in Nat /\ \A r \in FramedIn(s) : r \in Nat
  BY StartsAre DEF FramedIn
<1>1. Front(s, q) = Front(s, p)
  BY <1>0 DEF Front
<1>2. Delivered(s, q, g)
  BY <1>1 DEF Delivered, Rank
<1>3. ASSUME q \in FramedIn(s) PROVE Delivered(s, Behind(s, q), Append(g, Text(Body(At(s, q)))))
  <2> DEFINE b == Behind(s, q)
             text == Text(Body(At(s, q)))
             n == Cardinality(Front(s, q))
  <2>1. b \in Nat /\ q < b
    BY <1>0, <1>3, FrameBehind, StartsAre DEF FramedIn
  <2>2. text \in Json
    BY <1>3 DEF FramedIn
  <2>3. \A r \in FramedIn(s) : q < r => b <= r
    BY <1>0, StartsApart DEF FramedIn
  <2>4. IsFiniteSet(Front(s, q)) /\ n \in Nat /\ \A r \in Front(s, q) : Rank(s, q, r) \in 1 .. n
    BY <1>0, FrontFinite
  <2> HIDE DEF b, text
  <2>5. Front(s, b) = Front(s, q) \cup {q} /\ q \notin Front(s, q)
    <3>1. ASSUME NEW r \in FramedIn(s) PROVE r < b <=> r < q \/ r = q
      BY <1>0, <2>1, <2>3
    <3>2. q \in FramedIn(s) /\ ~(q < q)
      BY <1>0, <1>3
    <3> QED
      BY <3>1, <3>2 DEF Front
  <2>6. Cardinality(Front(s, b)) = n + 1
    BY <2>4, <2>5, FS_AddElement
  <2>7. Rank(s, b, q) = n + 1
    <3>1. {r \in Front(s, b) : r <= q} = Front(s, b)
      BY <1>0, <2>5 DEF Front
    <3> QED
      BY <3>1, <2>6 DEF Rank
  <2>8. ASSUME NEW r \in Front(s, q) PROVE Rank(s, b, r) = Rank(s, q, r)
    <3>1. {u \in Front(s, b) : u <= r} = {u \in Front(s, q) : u <= r}
      BY <1>0, <2>5 DEF Front
    <3> QED
      BY <3>1 DEF Rank
  <2>9. Len(g) = n /\ Len(Append(g, text)) = n + 1 /\ Append(g, text)[n + 1] = text
        /\ \A i \in 1 .. n : Append(g, text)[i] = g[i]
    BY <1>2, <2>2, AppendProperties DEF Delivered
  <2>10. ASSUME NEW r \in Front(s, b) PROVE Append(g, text)[Rank(s, b, r)] = Text(Body(At(s, r)))
    <3>1. CASE r = q
      BY <3>1, <2>7, <2>9 DEF text
    <3>2. CASE r \in Front(s, q)
      BY <3>2, <2>4, <2>8, <2>9, <1>2 DEF Delivered
    <3> QED
      BY <3>1, <3>2, <2>5
  <2> QED
    BY <2>6, <2>9, <2>10 DEF Delivered, b, text
<1> QED
  BY <1>2, <1>3

-----------------------------------------------------------------------------
(* The types, and a step of EPOLLIN.                                           *)


Types ==
  /\ connected \in BOOLEAN
  /\ m_recv_buffer \in Seq(Byte) /\ wire \in Seq(Byte) /\ stream \in Seq(Byte) /\ leftover \in Seq(Byte)
  /\ sent \in Seq(Bodies) /\ due \in Seq(Json) /\ got \in Seq(Json)
  /\ everSent \subseteq Bodies /\ noise \in Nat /\ conns \in Nat

\* EPOLLIN, with the loop of parseFrame seen through the rule above: Taken is what recv
\* leaves of the bytes it holds, and what it returns, if anything.
Taken(c) == \/ /\ Complete(c) /\ Text(Body(c)) \in Json
               /\ m_recv_buffer' = Rest(c) /\ got' = Append(got, Text(Body(c)))
            \/ ~Complete(c) /\ m_recv_buffer' = c /\ got' = got

\* EPOLLIN, by the rule for the loop.
LEMMA ReadableIs ==
  ASSUME NEW n \in 1 .. Len(wire), Readable(n),
         NEW I \in SUBSET Seq(Byte),
         \A c \in I : Complete(c) /\ Text(Body(c)) \notin Json => Rest(c) \in I,
         m_recv_buffer \o SubSeq(wire, 1, n) \in I
  PROVE  \E c \in I : Taken(c)
<1> DEFINE b == m_recv_buffer \o SubSeq(wire, 1, n)
<1>1. PICK c \in I :
        \/ /\ Complete(c) /\ Text(Body(c)) \in Json
           /\ parseFrame[b] = [ok |-> TRUE, frame |-> Text(Body(c)), buffer |-> Rest(c)]
        \/ /\ ~Complete(c)
           /\ parseFrame[b] = [ok |-> FALSE, frame |-> <<>>, buffer |-> c]
  <2> HIDE DEF b
  <2> QED
    BY ParseLoop DEF b
<1>2. /\ m_recv_buffer' = parseFrame[b].buffer
      /\ got' = IF parseFrame[b].ok THEN Append(got, parseFrame[b].frame) ELSE got
  BY DEF Readable
<1>3. CASE /\ Complete(c) /\ Text(Body(c)) \in Json
           /\ parseFrame[b] = [ok |-> TRUE, frame |-> Text(Body(c)), buffer |-> Rest(c)]
  <2> HIDE DEF b
  <2>1. Taken(c)
    BY <1>2, <1>3 DEF Taken
  <2> QED
    BY <2>1
<1>4. CASE ~Complete(c) /\ parseFrame[b] = [ok |-> FALSE, frame |-> <<>>, buffer |-> c]
  <2> HIDE DEF b
  <2>1. Taken(c)
    BY <1>2, <1>4 DEF Taken
  <2> QED
    BY <2>1
<1> QED
  BY <1>1, <1>3, <1>4

\* Reading n bytes only moves the border between those the client holds and those on the wire.
LEMMA WireSplit ==
  ASSUME Types, NEW n \in 0 .. Len(wire)
  PROVE  LET read == SubSeq(wire, 1, n)
             left == SubSeq(wire, n + 1, Len(wire))
         IN  /\ read \in Seq(Byte) /\ left \in Seq(Byte)
             /\ m_recv_buffer \o read \in Seq(Byte)
             /\ m_recv_buffer \o wire = (m_recv_buffer \o read) \o left
             /\ wire = read \o left
<1> DEFINE read == SubSeq(wire, 1, n)
           left == SubSeq(wire, n + 1, Len(wire))
<1>1. wire \in Seq(Byte) /\ m_recv_buffer \in Seq(Byte) /\ Len(wire) \in Nat
  BY LenProperties DEF Types
<1>2. read \in Seq(Byte) /\ left \in Seq(Byte)
  <2>1. 1 \in 1 .. Len(wire) + 1 /\ n \in 1 - 1 .. Len(wire)
        /\ n + 1 \in 1 .. Len(wire) + 1 /\ Len(wire) \in (n + 1) - 1 .. Len(wire)
    BY <1>1
  <2> QED
    BY <2>1, <1>1, Piece
<1>3. wire = read \o left
  <2>1. 1 \in 1 .. Len(wire) + 1 /\ n \in 1 - 1 .. Len(wire) /\ Len(wire) \in n .. Len(wire)
    BY <1>1
  <2>2. read \o left = SubSeq(wire, 1, Len(wire))
    BY <1>1, <2>1, ConcatAdjacentSubSeq
  <2> QED
    BY <1>1, <2>2, SubSeqFull
<1>4. m_recv_buffer \o read \in Seq(Byte)
  BY <1>1, <1>2, Joined
<1> HIDE DEF read, left
<1>5. m_recv_buffer \o wire = (m_recv_buffer \o read) \o left
  <2>1. m_recv_buffer \o (read \o left) = (m_recv_buffer \o read) \o left
    BY <1>1, <1>2, Associative, ZenonT(30)
  <2> QED
    BY <1>3, <2>1, Zenon
<1> QED
  BY <1>2, <1>3, <1>4, <1>5 DEF read, left

\* What the assumptions say of the bodies and of JSON.
LEMMA Vocabulary ==
  /\ \A b \in Bodies : b \in Seq(Byte \ {0}) /\ Len(b) <= MaxBody /\ Encode(b) \in Seq(Byte)
  /\ Json \subseteq Seq(Byte \ {0})
<1>1. \A b \in Bodies : b \in Seq(Byte \ {0}) /\ Len(b) <= MaxBody
  BY StreamAssumption
<1>2. \A b \in Bodies : Encode(b) \in Seq(Byte)
  BY <1>1, EncodeIs
<1>3. Json \subseteq Seq(Byte \ {0})
  BY ProtocolAssumption
<1> QED
  BY <1>1, <1>2, <1>3

\* The bytes, the bodies and the frames are what their names say.
THEOREM StreamTypes == Spec => []Types
<1>1. Init => Types
  <2>1. /\ <<>> \in Seq(Byte) /\ <<>> \in Seq(Bodies) /\ <<>> \in Seq(Json)
        /\ {} \subseteq Bodies /\ 0 \in Nat /\ FALSE \in BOOLEAN
    BY EmptySeq
  <2> QED
    BY <2>1 DEF Init, Types
<1>2. ASSUME Types, [Next]_vars PROVE Types'
  <2> USE <1>2 DEF Types
  <2>1. CASE Connect
    BY <2>1, EmptySeq DEF Connect
  <2>2. ASSUME NEW n \in 1 .. Len(wire), Readable(n) PROVE Types'
    <3>1. n \in 0 .. Len(wire)
      OBVIOUS
    <3>2. m_recv_buffer \o SubSeq(wire, 1, n) \in Seq(Byte) /\ SubSeq(wire, n + 1, Len(wire)) \in Seq(Byte)
      BY <3>1, WireSplit
    <3> DEFINE I == Seq(Byte)
    <3>3. \A c \in I : Complete(c) => Rest(c) \in I
      BY RestShorter
    <3>4. PICK c \in I : Taken(c)
      <4> HIDE DEF I
      <4> USE <3>2 DEF I
      <4> QED
        BY <2>2, <3>3, ReadableIs
    <3>5. m_recv_buffer' \in Seq(Byte)
      BY <3>3, <3>4 DEF Taken
    <3>6. got' \in Seq(Json)
      <4>1. \A text \in Json : Append(got, text) \in Seq(Json)
        BY AppendProperties
      <4>2. got' = got \/ \E text \in Json : got' = Append(got, text)
        BY <3>4 DEF Taken
      <4> QED
        BY <4>1, <4>2
    <3> QED
      BY <2>2, <3>2, <3>5, <3>6 DEF Readable
  <2>3. ASSUME NEW n \in 0 .. Len(wire), Disconnect(n) PROVE Types'
    <3>1. m_recv_buffer \o SubSeq(wire, 1, n) \in Seq(Byte)
      BY WireSplit
    <3> QED
      BY <2>3, <3>1, EmptySeq DEF Disconnect
  <2>4. ASSUME NEW b \in Bodies, StationSend(b) PROVE Types'
    <3>1. wire \o Encode(b) \in Seq(Byte) /\ stream \o Encode(b) \in Seq(Byte)
      BY Vocabulary, Joined
    <3>2. Append(sent, b) \in Seq(Bodies) /\ (b \in Json => Append(due, b) \in Seq(Json))
      BY AppendProperties
    <3> QED
      BY <2>4, <3>1, <3>2 DEF StationSend
  <2>5. ASSUME NEW b \in Byte, StationBabbles(b) PROVE Types'
    <3>1. Append(wire, b) \in Seq(Byte) /\ Append(stream, b) \in Seq(Byte)
      BY AppendProperties
    <3> QED
      BY <2>5, <3>1 DEF StationBabbles
  <2>6. CASE UNCHANGED vars
    BY <2>6 DEF vars
  <2> QED
    BY <2>1, <2>2, <2>3, <2>4, <2>5, <2>6 DEF Next
<1> QED
  BY <1>1, <1>2, PTL DEF Spec

-----------------------------------------------------------------------------
(* StreamIntact: what the client holds and what is on the wire begin where a frame *)
(* begins, behind the frames delivered.                                        *)


Intact(s, rest, g) == \E p \in Starts(s) : Delivered(s, p, g) /\ rest = At(s, p)

\* StreamIntact in these terms.
LEMMA StreamIntactIs == StreamIntact <=> (connected /\ leftover = <<>> => Intact(stream, m_recv_buffer \o wire, got))
<1>1. Framed = FramedIn(stream)
  BY StreamStarts DEF Framed, FramedIn, From, FrameAt, At
<1>2. \A p : From(p) = At(stream, p)
  BY DEF From, At
<1>3. \A p : {q \in Framed : q < p} = Front(stream, p)
  BY <1>1 DEF Front
<1>4. \A p, q : Cardinality({r \in {v \in Framed : v < p} : r <= q}) = Rank(stream, p, q)
  BY <1>3 DEF Rank
<1>5. \A p : Delivered(stream, p, got) <=>
               /\ Len(got) = Cardinality({q \in Framed : q < p})
               /\ \A q \in {v \in Framed : v < p} :
                    got[Cardinality({r \in {v \in Framed : v < p} : r <= q})] = Text(Body(From(q)))
  BY <1>2, <1>3, <1>4 DEF Delivered
<1> QED
  BY <1>2, <1>5, StreamStarts DEF StreamIntact, Intact

\* One EPOLLIN takes at most one JSON body off the front of the stream.
LEMMA IntactRead ==
  ASSUME NEW s \in Seq(Byte), Types, NEW n \in 1 .. Len(wire), Readable(n),
         Intact(s, m_recv_buffer \o wire, got)
  PROVE  Intact(s, m_recv_buffer' \o wire', got')
<1> DEFINE left == SubSeq(wire, n + 1, Len(wire))
           held == m_recv_buffer \o SubSeq(wire, 1, n)
<1>1. PICK p \in Starts(s) : Delivered(s, p, got) /\ m_recv_buffer \o wire = At(s, p)
  BY DEF Intact
<1>2. left \in Seq(Byte) /\ held \in Seq(Byte) /\ m_recv_buffer \o wire = held \o left
  <2>1. n \in 0 .. Len(wire)
    OBVIOUS
  <2> QED
    BY <2>1, WireSplit
<1>3. wire' = left
  BY DEF Readable
<1>4. /\ got \in Seq(Json) /\ Starts(s) \subseteq Nat /\ Starts(s) \subseteq 0 .. Len(s)
      /\ FramedIn(s) \subseteq Nat
  BY StartsAre DEF Types, FramedIn
<1> DEFINE Reached(c, q) == /\ p <= q /\ c \o left = At(s, q)
                            /\ \A r \in FramedIn(s) : ~(p <= r /\ r < q)
           I == {c \in Seq(Byte) : \E q \in Starts(s) : Reached(c, q)}
<1> HIDE DEF left, held
<1>5. ASSUME NEW c \in Seq(Byte), NEW q \in Starts(s), Reached(c, q), Complete(c)
      PROVE  /\ Complete(At(s, q)) /\ Body(At(s, q)) = Body(c)
             /\ Behind(s, q) \in Starts(s) /\ q < Behind(s, q) /\ Behind(s, q) \in Nat
             /\ Rest(c) \o left = At(s, Behind(s, q))
  <2>1. Complete(At(s, q)) /\ Body(At(s, q)) = Body(c) /\ Rest(At(s, q)) = Rest(c) \o left
    BY <1>2, <1>5, FrameStays
  <2>2. /\ Behind(s, q) \in q + 1 .. Len(s) /\ Rest(At(s, q)) = At(s, Behind(s, q))
        /\ Behind(s, q) \in Starts(s)
    BY <1>4, <2>1, FrameBehind
  <2> QED
    BY <1>4, <2>1, <2>2
<1>6. held \in I
  <2>1. Reached(held, p)
    <3>1. p <= p /\ \A r \in FramedIn(s) : ~(p <= r /\ r < p)
      BY <1>4
    <3> QED
      BY <1>1, <1>2, <3>1
  <2> HIDE DEF Reached
  <2> QED
    BY <1>2, <2>1
<1>7. ASSUME NEW c \in I, Complete(c), Text(Body(c)) \notin Json PROVE Rest(c) \in I
  <2>1. PICK q \in Starts(s) : Reached(c, q)
    BY <1>7
  <2>4. /\ Body(At(s, q)) = Body(c) /\ q < Behind(s, q) /\ Behind(s, q) \in Nat
        /\ p <= q /\ \A r \in FramedIn(s) : ~(p <= r /\ r < q)
    <3>1. c \in Seq(Byte)
      BY <1>7
    <3> QED
      BY <2>1, <3>1, <1>5, <1>7
  <2>2. Reached(Rest(c), Behind(s, q))
    <3>1. ASSUME NEW r \in FramedIn(s), p <= r, r < Behind(s, q) PROVE FALSE
      <4>1. r \in Starts(s) /\ r \in Nat /\ Text(Body(At(s, r))) \in Json
        BY <1>4 DEF FramedIn
      <4>2. r # q
        BY <4>1, <2>4, <1>7
      <4>3. ~(r < q)
        BY <3>1, <2>4
      <4>4. q < r
        BY <4>1, <4>2, <4>3, <1>4
      <4>5. Behind(s, q) <= r
        BY <4>1, <4>4, StartsApart
      <4> QED
        BY <4>1, <4>5, <3>1, <2>4
    <3>2. p <= Behind(s, q)
      BY <2>4, <1>4
    <3>3. Rest(c) \o left = At(s, Behind(s, q))
      BY <2>1, <1>5, <1>7
    <3> QED
      BY <3>1, <3>2, <3>3
  <2>3. Behind(s, q) \in Starts(s) /\ Rest(c) \in Seq(Byte)
    BY <2>1, <1>5, <1>7, RestShorter
  <2> HIDE DEF Reached
  <2> QED
    BY <2>2, <2>3
<1>8. PICK c \in I : Taken(c)
  <2>1. m_recv_buffer \o SubSeq(wire, 1, n) \in I
    BY <1>6 DEF held
  <2> HIDE DEF I
  <2>2. I \in SUBSET Seq(Byte)
    BY DEF I
  <2> QED
    BY <1>7, <2>1, <2>2, ReadableIs
<1>9. PICK q \in Starts(s) : Reached(c, q)
  BY <1>8
<1>10. /\ Delivered(s, q, got)
       /\ q \in FramedIn(s) => Delivered(s, Behind(s, q), Append(got, Text(Body(At(s, q)))))
  BY <1>1, <1>4, <1>9, DeliveredNext
<1>11. CASE ~Complete(c) /\ m_recv_buffer' = c /\ got' = got
  BY <1>3, <1>9, <1>10, <1>11 DEF Intact
<1>12. CASE /\ Complete(c) /\ Text(Body(c)) \in Json
            /\ m_recv_buffer' = Rest(c) /\ got' = Append(got, Text(Body(c)))
  <2>1. q \in FramedIn(s) /\ Body(At(s, q)) = Body(c)
    BY <1>5, <1>8, <1>9, <1>12 DEF FramedIn
  <2>2. Delivered(s, Behind(s, q), got')
    BY <2>1, <1>10, <1>12
  <2>3. m_recv_buffer' \o wire' = At(s, Behind(s, q)) /\ Behind(s, q) \in Starts(s)
    BY <1>3, <1>5, <1>8, <1>9, <1>12
  <2> QED
    BY <2>2, <2>3 DEF Intact
<1> QED
  BY <1>8, <1>11, <1>12 DEF Taken

\* Bytes are added behind those that are on the wire.
LEMMA IntactSend ==
  ASSUME NEW s \in Seq(Byte), NEW x \in Seq(Byte), NEW m \in Seq(Byte), NEW w \in Seq(Byte), NEW g,
         Intact(s, m \o w, g)
  PROVE  Intact(s \o x, m \o (w \o x), g)
<1>1. PICK p \in Starts(s) : Delivered(s, p, g) /\ m \o w = At(s, p)
  BY DEF Intact
<1>2. p \in Starts(s \o x) /\ Delivered(s \o x, p, g)
  BY <1>1, DeliveredStays
<1>3. At(s \o x, p) = At(s, p) \o x
  BY StartsAre, AtIs
<1>4. m \o (w \o x) = (m \o w) \o x
  BY Associative, ZenonT(30)
<1> QED
  BY <1>1, <1>2, <1>3, <1>4 DEF Intact

\* A connection begins with nothing sent, held or delivered.
LEMMA IntactEmpty ==
  ASSUME NEW s \in Seq(Byte), Len(s) = 0, NEW g, Len(g) = 0
  PROVE  Intact(s, s, g)
<1>1. Starts(s) = {0}
  <2>1. Starts(s) \subseteq 0 .. Len(s)
    BY StartsAre
  <2>2. 0 \in 0 .. Len(s) /\ \A p \in 0 .. Len(s) : p = 0
    OBVIOUS
  <2>3. 0 \in Starts(s)
    BY <2>2, StartsAre
  <2> QED
    BY <2>1, <2>2, <2>3
<1>2. Front(s, 0) = {}
  BY <1>1 DEF Front, FramedIn
<1>3. Delivered(s, 0, g)
  BY <1>2, FS_EmptySet DEF Delivered
<1>4. At(s, 0) = s
  BY SubSeqFull DEF At
<1> QED
  BY <1>1, <1>3, <1>4 DEF Intact

\* However the bytes of a connection are cut into reads, recv and parseFrame lose, repeat
\* and reorder no frame, and a bad packet costs itself only (TcpClient::recv, parseFrame):
\* for every header size, limit, vocabulary and traffic.
THEOREM StreamIsIntact == Spec => []StreamIntact
<1> DEFINE Held == connected /\ leftover = <<>> => Intact(stream, m_recv_buffer \o wire, got)
<1>1. Init => Held
  BY DEF Init
<1>2. ASSUME Types, Held, [Next]_vars PROVE Held'
  <2>0. m_recv_buffer \in Seq(Byte) /\ wire \in Seq(Byte) /\ stream \in Seq(Byte)
    BY <1>2 DEF Types
  <2>1. CASE Connect
    <3> SUFFICES ASSUME leftover' = <<>> PROVE Intact(stream', m_recv_buffer' \o wire', got')
      OBVIOUS
    <3>1. m_recv_buffer' = <<>> /\ wire' = <<>> /\ stream' = <<>> /\ got' = <<>>
      BY <2>1 DEF Connect
    <3>2. <<>> \in Seq(Byte) /\ Len(<<>>) = 0
      BY EmptySeq
    <3>3. <<>> \o <<>> = <<>>
      BY <3>2, ConcatEmptySeq
    <3>4. Intact(<<>>, <<>>, <<>>)
      BY <3>2, IntactEmpty
    <3> QED
      BY <3>1, <3>3, <3>4
  <2>2. ASSUME NEW n \in 1 .. Len(wire), Readable(n) PROVE Held'
    <3>1. UNCHANGED <<connected, leftover, stream>>
      BY <2>2 DEF Readable
    <3> QED
      BY <1>2, <2>0, <2>2, <3>1, IntactRead
  <2>3. ASSUME NEW n \in 0 .. Len(wire), Disconnect(n) PROVE Held'
    BY <2>3 DEF Disconnect
  <2>4. ASSUME NEW b \in Bodies, StationSend(b) PROVE Held'
    <3>1. /\ UNCHANGED <<connected, leftover, m_recv_buffer, got>>
          /\ wire' = wire \o Encode(b) /\ stream' = stream \o Encode(b)
      BY <2>4 DEF StationSend
    <3> QED
      BY <1>2, <2>0, <3>1, Vocabulary, IntactSend
  <2>5. ASSUME NEW b \in Byte, StationBabbles(b) PROVE Held'
    <3>1. /\ UNCHANGED <<connected, leftover, m_recv_buffer, got>>
          /\ wire' = Append(wire, b) /\ stream' = Append(stream, b)
      BY <2>5 DEF StationBabbles
    <3>2. wire' = wire \o <<b>> /\ stream' = stream \o <<b>> /\ <<b>> \in Seq(Byte)
      BY <2>0, <3>1, AppendIsConcat
    <3> QED
      BY <1>2, <2>0, <3>1, <3>2, IntactSend
  <2>6. CASE UNCHANGED vars
    BY <1>2, <2>6 DEF vars
  <2> QED
    BY <1>2, <2>1, <2>2, <2>3, <2>4, <2>5, <2>6 DEF Next
<1>3. Held <=> StreamIntact
  BY StreamIntactIs
<1> QED
  BY <1>1, <1>2, <1>3, StreamTypes, PTL DEF Spec

-----------------------------------------------------------------------------
(* ImplementsChannel.  On a connection that began with an empty m_recv_buffer, to a *)
(* station that sends frames, the stream is whole frames and nothing else.     *)


\* A stream of whole frames and nothing else: the bodies they hold, those that are JSON,
\* where each frame ends (cut) and how many JSON bodies there are up to each (count).
WholeFrames(s, bodies, json, cut, count) ==
  /\ cut \in [0 .. Len(bodies) -> 0 .. Len(s)] /\ cut[0] = 0 /\ cut[Len(bodies)] = Len(s)
  /\ count \in [0 .. Len(bodies) -> 0 .. Len(json)] /\ count[0] = 0 /\ count[Len(bodies)] = Len(json)
  /\ \A i \in 1 .. Len(bodies) :
       LET here == At(s, cut[i - 1])
       IN  /\ Complete(here) /\ Body(here) = bodies[i] /\ cut[i] = Behind(s, cut[i - 1])
           /\ bodies[i] \in Json => count[i] = count[i - 1] + 1 /\ json[count[i]] = bodies[i]
           /\ bodies[i] \notin Json => count[i] = count[i - 1]

\* The client has taken the first k of them.
Consumed(s, rest, json, g, cut, count, k) ==
  /\ rest = At(s, cut[k])
  /\ Len(g) = count[k]
  /\ \A i \in 1 .. Len(g) : g[i] = json[i]

InOrder(s, rest, bodies, json, g) ==
  \E cut, count : /\ WholeFrames(s, bodies, json, cut, count)
                  /\ \E k \in 0 .. Len(bodies) : Consumed(s, rest, json, g, cut, count, k)

\* A connection begins with no frame.
LEMMA InOrderEmpty ==
  ASSUME NEW s \in Seq(Byte), Len(s) = 0, NEW b, Len(b) = 0, NEW json, Len(json) = 0, NEW g, Len(g) = 0
  PROVE  InOrder(s, s, b, json, g)
<1> DEFINE zero == [i \in 0 .. 0 |-> 0]
<1>1. zero \in [0 .. 0 -> 0 .. 0] /\ zero[0] = 0
  OBVIOUS
<1>2. At(s, 0) = s
  BY SubSeqFull DEF At
<1> HIDE DEF zero
<1>3. WholeFrames(s, b, json, zero, zero)
  BY <1>1 DEF WholeFrames
<1>4. Consumed(s, s, json, g, zero, zero, 0)
  BY <1>1, <1>2 DEF Consumed
<1>5. 0 \in 0 .. Len(b)
  OBVIOUS
<1> QED
  BY <1>3, <1>4, <1>5 DEF InOrder

\* The station sends one more whole frame.
LEMMA InOrderSend ==
  ASSUME NEW s \in Seq(Byte), NEW m \in Seq(Byte), NEW w \in Seq(Byte), NEW bodies \in Seq(Bodies),
         NEW json \in Seq(Json), NEW g, NEW b \in Bodies, InOrder(s, m \o w, bodies, json, g)
  PROVE  InOrder(s \o Encode(b), m \o (w \o Encode(b)), Append(bodies, b),
                 IF b \in Json THEN Append(json, b) ELSE json, g)
<1> DEFINE x == Encode(b)
           t == s \o x
           bodies2 == Append(bodies, b)
           json2 == IF b \in Json THEN Append(json, b) ELSE json
           n == Len(bodies)
<1>1. PICK cut, count : /\ WholeFrames(s, bodies, json, cut, count)
                        /\ \E k \in 0 .. n : Consumed(s, m \o w, json, g, cut, count, k)
  BY DEF InOrder
<1>2. PICK k \in 0 .. n : Consumed(s, m \o w, json, g, cut, count, k)
  BY <1>1
<1>3. /\ x \in Seq(Byte) /\ Len(x) = HeaderLen + Len(b) /\ Complete(x) /\ Body(x) = b /\ BodyLen(x) = Len(b)
      /\ Len(x) \in Nat /\ HeaderLen \in Nat /\ Len(b) \in Nat
  BY Vocabulary, EncodeIs, LenProperties, ProtocolAssumption
<1>4. t \in Seq(Byte) /\ Len(t) = Len(s) + Len(x) /\ Len(s) \in Nat
  BY <1>3, Joined
<1>5. /\ Len(bodies2) = n + 1 /\ n \in Nat /\ bodies2[n + 1] = b
      /\ \A i \in 1 .. n : bodies2[i] = bodies[i]
  BY AppendProperties, LenProperties
<1>6. /\ Len(json) \in Nat /\ Len(json2) = Len(json) + (IF b \in Json THEN 1 ELSE 0)
      /\ b \in Json => json2[Len(json) + 1] = b
      /\ \A i \in 1 .. Len(json) : json2[i] = json[i]
  BY AppendProperties, LenProperties
<1>7. /\ cut \in [0 .. n -> 0 .. Len(s)] /\ cut[0] = 0 /\ cut[n] = Len(s)
      /\ count \in [0 .. n -> 0 .. Len(json)] /\ count[0] = 0 /\ count[n] = Len(json)
  BY <1>1 DEF WholeFrames
<1> DEFINE cut2 == [i \in 0 .. n + 1 |-> IF i = n + 1 THEN Len(t) ELSE cut[i]]
           count2 == [i \in 0 .. n + 1 |-> IF i = n + 1 THEN Len(json2) ELSE count[i]]
<1> HIDE DEF x, t, bodies2, json2, n
<1>8. /\ \A i \in 0 .. n : cut2[i] = cut[i] /\ count2[i] = count[i]
      /\ cut2[n + 1] = Len(t) /\ count2[n + 1] = Len(json2)
      /\ cut2 \in [0 .. n + 1 -> 0 .. Len(t)] /\ count2 \in [0 .. n + 1 -> 0 .. Len(json2)]
  <2>1. Len(t) \in 0 .. Len(t) /\ Len(json2) \in 0 .. Len(json2)
    BY <1>3, <1>4, <1>6
  <2>2. \A i \in 0 .. n : cut[i] \in 0 .. Len(t) /\ count[i] \in 0 .. Len(json2)
    <3>1. 0 .. Len(s) \subseteq 0 .. Len(t) /\ 0 .. Len(json) \subseteq 0 .. Len(json2)
      BY <1>3, <1>4, <1>6, SMTT(30)
    <3> QED
      BY <3>1, <1>7
  <2>3. n + 1 \in 0 .. n + 1 /\ \A i \in 0 .. n : i \in 0 .. n + 1 /\ i # n + 1
    BY <1>5
  <2>4. \A i \in 0 .. n + 1 : i = n + 1 \/ i \in 0 .. n
    BY <1>5
  <2>5. cut2 \in [0 .. n + 1 -> 0 .. Len(t)]
    BY <2>1, <2>2, <2>4
  <2>6. count2 \in [0 .. n + 1 -> 0 .. Len(json2)]
    BY <2>1, <2>2, <2>4
  <2> QED
    BY <2>3, <2>5, <2>6
<1> HIDE DEF cut2, count2
<1> DEFINE Link(u, bs, js, c, d, i) ==
             LET here == At(u, c[i - 1])
             IN  /\ Complete(here) /\ Body(here) = bs[i] /\ c[i] = Behind(u, c[i - 1])
                 /\ bs[i] \in Json => d[i] = d[i - 1] + 1 /\ js[d[i]] = bs[i]
                 /\ bs[i] \notin Json => d[i] = d[i - 1]
<1>9. ASSUME NEW i \in 1 .. n PROVE Link(t, bodies2, json2, cut2, count2, i)
  <2>1. Link(s, bodies, json, cut, count, i)
    BY <1>1 DEF WholeFrames, n
  <2>2. i \in 0 .. n /\ i - 1 \in 0 .. n
    BY <1>5
  <2>3. cut2[i] = cut[i] /\ cut2[i - 1] = cut[i - 1] /\ count2[i] = count[i] /\ count2[i - 1] = count[i - 1]
    BY <2>2, <1>8
  <2>4. cut[i - 1] \in 0 .. Len(s)
    BY <2>2, <1>7
  <2>5. At(s, cut[i - 1]) \in Seq(Byte) /\ At(t, cut[i - 1]) = At(s, cut[i - 1]) \o x
    BY <2>4, <1>3, AtIs DEF t
  <2>6. /\ Complete(At(t, cut[i - 1])) /\ Body(At(t, cut[i - 1])) = Body(At(s, cut[i - 1]))
        /\ BodyLen(At(t, cut[i - 1])) = BodyLen(At(s, cut[i - 1]))
    BY <2>1, <2>5, <1>3, FrameStays
  <2>7. ASSUME bodies[i] \in Json PROVE json2[count[i]] = json[count[i]]
    <3>1. count[i] \in 0 .. Len(json) /\ count[i - 1] \in 0 .. Len(json) /\ count[i] = count[i - 1] + 1
      BY <2>1, <2>2, <2>7, <1>7
    <3>2. count[i] \in 1 .. Len(json)
      BY <3>1, <1>6
    <3> QED
      BY <3>2, <1>6
  <2> QED
    BY <2>1, <2>3, <2>6, <2>7, <1>5 DEF Behind
<1>10. Link(t, bodies2, json2, cut2, count2, n + 1)
  <2>1. n \in 0 .. n /\ (n + 1) - 1 = n
    BY <1>5
  <2>2. cut2[n] = Len(s) /\ count2[n] = Len(json) /\ cut2[n + 1] = Len(t) /\ count2[n + 1] = Len(json2)
    BY <2>1, <1>7, <1>8
  <2>3. At(t, Len(s)) = x
    <3>1. Len(s) \in 0 .. Len(s)
      BY <1>4
    <3>2. At(t, Len(s)) = At(s, Len(s)) \o x /\ At(s, Len(s)) \in Seq(Byte) /\ Len(At(s, Len(s))) = 0
      BY <3>1, <1>3, AtIs, SMTT(30) DEF t
    <3>3. At(s, Len(s)) = <<>>
      BY <3>2, EmptySeq
    <3> QED
      BY <3>2, <3>3, <1>3, ConcatEmptySeq
  <2>4. Behind(t, Len(s)) = Len(t)
    BY <2>3, <1>3, <1>4 DEF Behind
  <2>5. /\ b \in Json => Len(json2) = Len(json) + 1 /\ json2[Len(json2)] = b
        /\ b \notin Json => Len(json2) = Len(json)
    BY <1>6
  <2> QED
    BY <2>1, <2>2, <2>3, <2>4, <2>5, <1>3, <1>5
<1>11. WholeFrames(t, bodies2, json2, cut2, count2)
  <2>1. \A i \in 1 .. Len(bodies2) : Link(t, bodies2, json2, cut2, count2, i)
    <3>1. \A i \in 1 .. n + 1 : i \in 1 .. n \/ i = n + 1
      BY <1>5
    <3> HIDE DEF Link
    <3> QED
      BY <3>1, <1>5, <1>9, <1>10
  <2>2. cut2[0] = 0 /\ count2[0] = 0
    BY <1>5, <1>7, <1>8
  <2> QED
    BY <2>1, <2>2, <1>5, <1>8 DEF WholeFrames
<1>12. Consumed(t, m \o (w \o x), json2, g, cut2, count2, k)
  <2>1. cut2[k] = cut[k] /\ count2[k] = count[k] /\ cut[k] \in 0 .. Len(s) /\ count[k] \in 0 .. Len(json)
    BY <1>7, <1>8 DEF n
  <2>2. At(t, cut[k]) = At(s, cut[k]) \o x
    BY <2>1, <1>3, AtIs DEF t
  <2>3. m \o (w \o x) = (m \o w) \o x
    <3>1. x \in Seq(Byte)
      BY <1>3
    <3> QED
      BY <3>1, Associative, ZenonT(30)
  <2>4. \A i \in 1 .. Len(g) : g[i] = json2[i]
    BY <2>1, <1>2, <1>6 DEF Consumed
  <2> QED
    BY <2>1, <2>2, <2>3, <2>4, <1>2 DEF Consumed
<1>13. k \in 0 .. Len(bodies2)
  BY <1>5 DEF n
<1>14. InOrder(t, m \o (w \o x), bodies2, json2, g)
  BY <1>11, <1>12, <1>13 DEF InOrder
<1> QED
  BY <1>14 DEF t, x, bodies2, json2

\* One EPOLLIN delivers the next JSON body, or none.
LEMMA InOrderRead ==
  ASSUME NEW s \in Seq(Byte), NEW bodies \in Seq(Bodies), NEW json \in Seq(Json),
         Types, NEW n \in 1 .. Len(wire), Readable(n),
         InOrder(s, m_recv_buffer \o wire, bodies, json, got)
  PROVE  /\ InOrder(s, m_recv_buffer' \o wire', bodies, json, got')
         /\ \/ got' = got
            \/ Len(got) < Len(json) /\ got' = Append(got, json[Len(got) + 1])
<1> DEFINE left == SubSeq(wire, n + 1, Len(wire))
           held == m_recv_buffer \o SubSeq(wire, 1, n)
           N == Len(bodies)
<1>1. PICK cut, count : /\ WholeFrames(s, bodies, json, cut, count)
                        /\ \E k \in 0 .. N : Consumed(s, m_recv_buffer \o wire, json, got, cut, count, k)
  BY DEF InOrder
<1>2. PICK k \in 0 .. N : Consumed(s, m_recv_buffer \o wire, json, got, cut, count, k)
  BY <1>1
<1>3. left \in Seq(Byte) /\ held \in Seq(Byte) /\ m_recv_buffer \o wire = held \o left
  <2>1. n \in 0 .. Len(wire)
    OBVIOUS
  <2> QED
    BY <2>1, WireSplit
<1>4. wire' = left
  BY DEF Readable
<1>5. /\ got \in Seq(Json) /\ N \in Nat /\ Len(got) \in Nat /\ Len(s) \in Nat
      /\ \A i \in 1 .. N : bodies[i] \in Bodies
  BY LenProperties, ElementOfSeq DEF Types
<1>6. /\ cut \in [0 .. N -> 0 .. Len(s)] /\ cut[N] = Len(s)
      /\ count \in [0 .. N -> 0 .. Len(json)]
  BY <1>1 DEF WholeFrames
<1> DEFINE Reached(c, j) == c \o left = At(s, cut[j]) /\ count[j] = count[k]
           I == {c \in Seq(Byte) : \E j \in 0 .. N : Reached(c, j)}
<1> HIDE DEF left, held, N
<1>7. ASSUME NEW c \in Seq(Byte), NEW j \in 0 .. N, Reached(c, j), Complete(c)
      PROVE  /\ j + 1 \in 1 .. N /\ Text(Body(c)) = bodies[j + 1]
             /\ Rest(c) \o left = At(s, cut[j + 1])
             /\ bodies[j + 1] \in Json => count[j + 1] = count[j] + 1 /\ json[count[j + 1]] = bodies[j + 1]
             /\ bodies[j + 1] \notin Json => count[j + 1] = count[j]
  <2>1. /\ Complete(c \o left) /\ Body(c \o left) = Body(c) /\ Rest(c \o left) = Rest(c) \o left
        /\ c \o left \in Seq(Byte)
    BY <1>3, <1>7, FrameStays, Joined
  <2>2. cut[j] \in 0 .. Len(s)
    BY <1>6
  <2>3. j # N
    <3> SUFFICES ASSUME j = N PROVE FALSE
      OBVIOUS
    <3>1. Len(At(s, cut[j])) = 0
      BY <1>6, <2>2, AtIs
    <3>2. HeaderLen + BodyLen(c \o left) \in Nat \ {0} /\ HeaderLen + BodyLen(c \o left) <= Len(c \o left)
      BY <2>1, CompleteIs
    <3> QED
      BY <3>1, <3>2, <1>7
  <2>4. j + 1 \in 1 .. N /\ (j + 1) - 1 = j
    BY <2>3, <1>5
  <2>5. /\ Body(At(s, cut[j])) = bodies[j + 1] /\ cut[j + 1] = Behind(s, cut[j])
        /\ bodies[j + 1] \in Json => count[j + 1] = count[j] + 1 /\ json[count[j + 1]] = bodies[j + 1]
        /\ bodies[j + 1] \notin Json => count[j + 1] = count[j]
    BY <1>1, <2>4 DEF WholeFrames, N
  <2>6. Rest(At(s, cut[j])) = At(s, cut[j + 1])
    BY <1>7, <2>1, <2>2, <2>5, FrameBehind
  <2>7. Text(bodies[j + 1]) = bodies[j + 1]
    BY <2>4, <1>5, Vocabulary, TextWhole
  <2> QED
    BY <1>7, <2>1, <2>4, <2>5, <2>6, <2>7
<1>8. held \in I
  <2>1. Reached(held, k)
    BY <1>2, <1>3 DEF Consumed
  <2> HIDE DEF Reached
  <2> QED
    BY <1>3, <2>1 DEF N
<1>9. ASSUME NEW c \in I, Complete(c), Text(Body(c)) \notin Json PROVE Rest(c) \in I
  <2>1. PICK j \in 0 .. N : Reached(c, j)
    BY <1>9
  <2>2. Reached(Rest(c), j + 1) /\ j + 1 \in 0 .. N
    <3>1. /\ j + 1 \in 1 .. N /\ Text(Body(c)) = bodies[j + 1]
          /\ Rest(c) \o left = At(s, cut[j + 1])
          /\ bodies[j + 1] \notin Json => count[j + 1] = count[j]
      <4>1. c \in Seq(Byte)
        BY <1>9
      <4> QED
        BY <4>1, <2>1, <1>7, <1>9
    <3> QED
      BY <1>5, <1>9, <2>1, <3>1
  <2>3. Rest(c) \in Seq(Byte)
    BY <1>9, RestShorter
  <2> HIDE DEF Reached
  <2> QED
    BY <2>2, <2>3
<1>10. PICK c \in I : Taken(c)
  <2>1. m_recv_buffer \o SubSeq(wire, 1, n) \in I
    BY <1>8 DEF held
  <2> HIDE DEF I
  <2>2. I \in SUBSET Seq(Byte)
    BY DEF I
  <2> QED
    BY <1>9, <2>1, <2>2, ReadableIs
<1>11. PICK j \in 0 .. N : Reached(c, j)
  BY <1>10
<1>12. CASE ~Complete(c) /\ m_recv_buffer' = c /\ got' = got
  <2>1. Consumed(s, m_recv_buffer' \o wire', json, got', cut, count, j)
    BY <1>2, <1>4, <1>11, <1>12 DEF Consumed
  <2> QED
    BY <2>1, <1>1, <1>12 DEF InOrder, N
<1>13. CASE /\ Complete(c) /\ Text(Body(c)) \in Json
            /\ m_recv_buffer' = Rest(c) /\ got' = Append(got, Text(Body(c)))
  <2>1. /\ j + 1 \in 0 .. N /\ Text(Body(c)) = bodies[j + 1]
        /\ Rest(c) \o left = At(s, cut[j + 1])
        /\ count[j + 1] = count[j] + 1 /\ json[count[j + 1]] = bodies[j + 1]
    <3>1. c \in Seq(Byte)
      BY <1>10
    <3>2. /\ j + 1 \in 1 .. N /\ Text(Body(c)) = bodies[j + 1]
          /\ Rest(c) \o left = At(s, cut[j + 1])
          /\ bodies[j + 1] \in Json => count[j + 1] = count[j] + 1 /\ json[count[j + 1]] = bodies[j + 1]
      BY <3>1, <1>7, <1>11, <1>13
    <3> QED
      BY <1>5, <1>13, <3>2, SMTT(30)
  <2>2. /\ Len(got) = count[k] /\ count[j] = count[k] /\ count[j + 1] \in 0 .. Len(json)
        /\ \A i \in 1 .. Len(got) : got[i] = json[i]
    BY <1>2, <1>6, <1>11, <2>1 DEF Consumed
  <2>3. Len(json) \in Nat
    BY LenProperties
  <2>4. Len(got) < Len(json) /\ bodies[j + 1] = json[Len(got) + 1]
    BY <1>5, <2>1, <2>2, <2>3, SMTT(30)
  <2>5. got' = Append(got, json[Len(got) + 1])
    BY <1>13, <2>1, <2>4
  <2>6. /\ Len(got') = Len(got) + 1 /\ got'[Len(got) + 1] = json[Len(got) + 1]
        /\ \A i \in 1 .. Len(got) : got'[i] = got[i]
    BY <1>13, <1>5, <2>1, <2>4, AppendProperties
  <2>7. \A i \in 1 .. Len(got') : got'[i] = json[i]
    <3>1. \A i \in 1 .. Len(got') : i \in 1 .. Len(got) \/ i = Len(got) + 1
      BY <1>5, <2>6
    <3> QED
      BY <3>1, <2>2, <2>6
  <2>8. Consumed(s, m_recv_buffer' \o wire', json, got', cut, count, j + 1)
    BY <1>4, <1>13, <2>1, <2>2, <2>6, <2>7 DEF Consumed
  <2> QED
    BY <2>1, <2>4, <2>5, <2>8, <1>1 DEF InOrder, N
<1> QED
  BY <1>10, <1>12, <1>13 DEF Taken


ChannelHeld == Clean => InOrder(stream, m_recv_buffer \o wire, sent, due, got)

\* ChannelHeld is kept by every step.
LEMMA HeldStep ==
  ASSUME Types, ChannelHeld, [Next]_vars
  PROVE  ChannelHeld'
<1>0. /\ m_recv_buffer \in Seq(Byte) /\ wire \in Seq(Byte) /\ stream \in Seq(Byte)
      /\ sent \in Seq(Bodies) /\ due \in Seq(Json) /\ noise \in Nat
  BY DEF Types
<1>1. CASE Connect
  <2> SUFFICES ASSUME leftover' = <<>>
               PROVE  InOrder(stream', m_recv_buffer' \o wire', sent', due', got')
    BY DEF ChannelHeld, Clean
  <2>1. m_recv_buffer' = <<>> /\ wire' = <<>> /\ stream' = <<>> /\ sent' = <<>> /\ due' = <<>> /\ got' = <<>>
    BY <1>1 DEF Connect
  <2>2. <<>> \in Seq(Byte) /\ Len(<<>>) = 0
    BY EmptySeq
  <2>3. <<>> \o <<>> = <<>>
    BY <2>2, ConcatEmptySeq
  <2>4. InOrder(<<>>, <<>>, <<>>, <<>>, <<>>)
    BY <2>2, InOrderEmpty
  <2> QED
    BY <2>1, <2>3, <2>4
<1>2. ASSUME NEW n \in 1 .. Len(wire), Readable(n) PROVE ChannelHeld'
  <2>1. UNCHANGED <<connected, leftover, noise, stream, sent, due>>
    BY <1>2 DEF Readable
  <2> QED
    BY <1>0, <1>2, <2>1, InOrderRead DEF ChannelHeld, Clean
<1>3. ASSUME NEW n \in 0 .. Len(wire), Disconnect(n) PROVE ChannelHeld'
  BY <1>3 DEF Disconnect, ChannelHeld, Clean
<1>4. ASSUME NEW b \in Bodies, StationSend(b) PROVE ChannelHeld'
  <2>1. /\ UNCHANGED <<connected, leftover, noise, m_recv_buffer, got>>
        /\ wire' = wire \o Encode(b) /\ stream' = stream \o Encode(b) /\ sent' = Append(sent, b)
        /\ due' = IF b \in Json THEN Append(due, b) ELSE due
    BY <1>4 DEF StationSend
  <2> QED
    BY <1>0, <2>1, InOrderSend DEF ChannelHeld, Clean
<1>5. ASSUME NEW b \in Byte, StationBabbles(b) PROVE ChannelHeld'
  BY <1>0, <1>5 DEF StationBabbles, ChannelHeld, Clean
<1>6. CASE UNCHANGED vars
  BY <1>6 DEF vars, ChannelHeld, Clean
<1> QED
  BY <1>1, <1>2, <1>3, <1>4, <1>5, <1>6 DEF Next

\* The bodies that are due and not delivered: one more is sent, one is delivered.
LEMMA QueueIs ==
  ASSUME NEW json \in Seq(Json), NEW n \in 0 .. Len(json)
  PROVE  /\ \A b \in Json : SubSeq(Append(json, b), n + 1, Len(Append(json, b))) = Append(SubSeq(json, n + 1, Len(json)), b)
         /\ n < Len(json) => /\ SubSeq(json, n + 1, Len(json)) # <<>>
                             /\ Head(SubSeq(json, n + 1, Len(json))) = json[n + 1]
                             /\ Tail(SubSeq(json, n + 1, Len(json))) = SubSeq(json, n + 2, Len(json))
<1> DEFINE queue == SubSeq(json, n + 1, Len(json))
<1>0. Len(json) \in Nat /\ \A i \in 1 .. Len(json) : json[i] \in Json
  BY LenProperties, ElementOfSeq
<1>1. /\ queue \in Seq(Json) /\ Len(queue) = Len(json) - n
      /\ \A i \in 1 .. Len(json) - n : queue[i] = json[n + i]
  <2>1. \A i \in n + 1 .. Len(json) : json[i] \in Json
    BY <1>0
  <2>2. n + 1 \in Int /\ Len(json) \in Int /\ Len(json) - (n + 1) + 1 = Len(json) - n
    BY <1>0
  <2>4. /\ queue \in Seq(Json) /\ Len(queue) = IF n + 1 <= Len(json) THEN Len(json) - (n + 1) + 1 ELSE 0
        /\ \A i \in 1 .. Len(json) - (n + 1) + 1 : queue[i] = json[(n + 1) + i - 1]
    BY <2>1, <2>2, SubSeqProperties
  <2> HIDE DEF queue
  <2>5. Len(queue) = Len(json) - n
    BY <1>0, <2>4
  <2>6. ASSUME NEW i \in 1 .. Len(json) - n PROVE queue[i] = json[n + i]
    <3>1. i \in 1 .. Len(json) - (n + 1) + 1 /\ (n + 1) + i - 1 = n + i
      BY <1>0
    <3> QED
      BY <2>4, <3>1
  <2> QED
    BY <2>4, <2>5, <2>6
<1>2. ASSUME NEW b \in Json PROVE SubSeq(Append(json, b), n + 1, Len(Append(json, b))) = Append(queue, b)
  <2> DEFINE json2 == Append(json, b)
             queue2 == SubSeq(json2, n + 1, Len(json2))
  <2>1. /\ json2 \in Seq(Json) /\ Len(json2) = Len(json) + 1 /\ json2[Len(json) + 1] = b
        /\ \A i \in 1 .. Len(json) : json2[i] = json[i]
    BY AppendProperties
  <2> HIDE DEF json2, queue
  <2>2. /\ queue2 \in Seq(Json) /\ Len(queue2) = Len(json) - n + 1
        /\ \A i \in 1 .. Len(json) - n + 1 : queue2[i] = json2[n + i]
    <3>1. \A i \in n + 1 .. Len(json2) : json2[i] \in Json
      BY <1>0, <2>1, ElementOfSeq
    <3>2. n + 1 \in Int /\ Len(json2) \in Int /\ Len(json2) - (n + 1) + 1 = Len(json) - n + 1 /\ n + 1 <= Len(json2)
      BY <1>0, <2>1
    <3>3. \A i \in 1 .. Len(json) - n + 1 : (n + 1) + i - 1 = n + i
      BY <1>0
    <3>4. /\ queue2 \in Seq(Json) /\ Len(queue2) = IF n + 1 <= Len(json2) THEN Len(json2) - (n + 1) + 1 ELSE 0
          /\ \A i \in 1 .. Len(json2) - (n + 1) + 1 : queue2[i] = json2[(n + 1) + i - 1]
      BY <3>1, <3>2, SubSeqProperties
    <3> HIDE DEF queue2
    <3> QED
      BY <3>2, <3>3, <3>4
  <2> HIDE DEF queue2
  <2>3. /\ Append(queue, b) \in Seq(Json) /\ Len(Append(queue, b)) = Len(queue) + 1
        /\ Append(queue, b)[Len(queue) + 1] = b /\ \A i \in 1 .. Len(queue) : Append(queue, b)[i] = queue[i]
    BY <1>1, AppendProperties
  <2>4. ASSUME NEW i \in 1 .. Len(queue2) PROVE queue2[i] = Append(queue, b)[i]
    <3>1. CASE i = Len(queue) + 1
      BY <3>1, <1>0, <1>1, <2>1, <2>2, <2>3, SMTT(30)
    <3>2. CASE i \in 1 .. Len(queue)
      <4>1. n + i \in 1 .. Len(json)
        BY <3>2, <1>0, <1>1
      <4> QED
        BY <3>2, <4>1, <1>1, <2>1, <2>2, <2>3
    <3> QED
      BY <3>1, <3>2, <1>0, <1>1, <2>2
  <2>5. queue2 = Append(queue, b)
    BY <1>0, <1>1, <2>2, <2>3, <2>4, SeqEqual
  <2> QED
    BY <2>5 DEF queue2, json2
<1>3. ASSUME n < Len(json)
      PROVE  queue # <<>> /\ Head(queue) = json[n + 1] /\ Tail(queue) = SubSeq(json, n + 2, Len(json))
  <2>1. n + 1 \in 1 .. Len(json) /\ Len(json) \in n + 1 .. Len(json) /\ (n + 1) + 1 = n + 2
    BY <1>0, <1>3
  <2>2. Head(queue) = json[n + 1] /\ Tail(queue) = SubSeq(json, (n + 1) + 1, Len(json))
    BY <2>1, HeadTailOfSubSeq
  <2>3. Len(queue) # 0
    BY <1>0, <1>1, <1>3
  <2> QED
    BY <2>1, <2>2, <2>3, EmptySeq
<1> QED
  BY <1>2, <1>3

\* No more is delivered than is due.
LEMMA DeliveredBound ==
  ASSUME NEW s, NEW rest, NEW bodies, NEW json \in Seq(Json), NEW g, InOrder(s, rest, bodies, json, g)
  PROVE  Len(g) \in 0 .. Len(json)
BY DEF InOrder, WholeFrames, Consumed

Queue == IF Clean THEN SubSeq(due, Len(got) + 1, Len(due)) ELSE <<>>
Received == IF Clean THEN got ELSE <<>>

\* The steps of a channel, in the terms of the receive path.
LEMMA ChannelNextIs ==
  ASSUME \/ ~Clean /\ Clean' /\ Queue' = Queue /\ Received' = Received
         \/ Clean /\ Clean' /\ (\E m \in Json : Queue' = Append(Queue, m)) /\ Received' = Received
         \/ Clean /\ Clean' /\ Queue # <<>> /\ Received' = Append(Received, Head(Queue)) /\ Queue' = Tail(Queue)
         \/ Clean /\ ~Clean' /\ Queue' = <<>> /\ Received' = <<>>
         \/ (Clean' <=> Clean) /\ Queue' = Queue /\ Received' = Received
  PROVE  [Channel!Next]_(Channel!vars)
<1>1. Clean \in BOOLEAN /\ Clean' \in BOOLEAN
  BY DEF Clean
<1>2. CASE ~Clean /\ Clean' /\ Queue' = Queue /\ Received' = Received
  BY <1>1, <1>2 DEF Channel!Next, Channel!Open, Queue, Received
<1>3. CASE Clean /\ Clean' /\ (\E m \in Json : Queue' = Append(Queue, m)) /\ Received' = Received
  BY <1>1, <1>3 DEF Channel!Next, Channel!Put, Queue, Received
<1>4. CASE Clean /\ Clean' /\ Queue # <<>> /\ Received' = Append(Received, Head(Queue)) /\ Queue' = Tail(Queue)
  BY <1>1, <1>4 DEF Channel!Next, Channel!Deliver, Queue, Received
<1>5. CASE Clean /\ ~Clean' /\ Queue' = <<>> /\ Received' = <<>>
  BY <1>1, <1>5 DEF Channel!Next, Channel!Close, Queue, Received
<1>6. CASE (Clean' <=> Clean) /\ Queue' = Queue /\ Received' = Received
  BY <1>1, <1>6 DEF Channel!vars, Queue, Received
<1> QED
  BY <1>2, <1>3, <1>4, <1>5, <1>6

\* Every step of the receive path is a step of the channel, or none.
LEMMA ChannelStep ==
  ASSUME Types, ChannelHeld, [Next]_vars
  PROVE  [Channel!Next]_(Channel!vars)
<1> DEFINE Stutter == (Clean' <=> Clean) /\ Queue' = Queue /\ Received' = Received
           Closed == Clean /\ ~Clean' /\ Queue' = <<>> /\ Received' = <<>>
<1>0. /\ due \in Seq(Json) /\ got \in Seq(Json) /\ noise \in Nat /\ Len(due) \in Nat
      /\ Clean => Len(got) \in 0 .. Len(due)
  BY DeliveredBound, LenProperties DEF Types, ChannelHeld
<1>1. CASE Connect
  <2>1. ~Clean /\ Queue = <<>> /\ Received = <<>>
    BY <1>1 DEF Connect, Clean, Queue, Received
  <2>2. due' = <<>> /\ got' = <<>>
    BY <1>1 DEF Connect
  <2>3. SubSeq(<<>>, Len(<<>>) + 1, Len(<<>>)) = <<>>
    BY SubSeqEmpty, EmptySeq
  <2>4. Queue' = <<>> /\ Received' = <<>>
    BY <2>2, <2>3 DEF Queue, Received
  <2> QED
    BY <2>1, <2>4, ChannelNextIs
<1>2. ASSUME NEW n \in 1 .. Len(wire), Readable(n) PROVE [Channel!Next]_(Channel!vars)
  <2>1. UNCHANGED <<connected, leftover, noise, stream, sent, due>> /\ (Clean' <=> Clean)
    BY <1>2 DEF Readable, Clean
  <2>2. CASE ~Clean
    <3>1. Stutter
      BY <2>1, <2>2 DEF Queue, Received
    <3> QED
      BY <3>1, ChannelNextIs
  <2>3. CASE Clean
    <3>1. \/ got' = got
          \/ Len(got) < Len(due) /\ got' = Append(got, due[Len(got) + 1])
      BY <1>2, <2>3, InOrderRead DEF ChannelHeld, Types
    <3>2. CASE got' = got
      <4>1. Stutter
        BY <2>1, <3>2 DEF Queue, Received
      <4> QED
        BY <4>1, ChannelNextIs
    <3>3. CASE Len(got) < Len(due) /\ got' = Append(got, due[Len(got) + 1])
      <4>1. /\ Queue # <<>> /\ Head(Queue) = due[Len(got) + 1]
            /\ Tail(Queue) = SubSeq(due, Len(got) + 2, Len(due))
        BY <1>0, <2>3, <3>3, QueueIs DEF Queue
      <4>2. Len(got') + 1 = Len(got) + 2
        <5>1. Len(got) + 1 \in 1 .. Len(due)
          BY <1>0, <2>3, <3>3
        <5>2. due[Len(got) + 1] \in Json
          BY <5>1, <1>0, ElementOfSeq
        <5>3. Len(got') = Len(got) + 1
          BY <5>2, <1>0, <3>3, AppendProperties
        <5> QED
          BY <5>1, <5>3
      <4>3. Queue' = Tail(Queue) /\ Received' = Append(Received, Head(Queue))
        BY <2>1, <2>3, <3>3, <4>1, <4>2 DEF Queue, Received
      <4> QED
        BY <2>1, <2>3, <4>1, <4>3, ChannelNextIs
    <3> QED
      BY <3>1, <3>2, <3>3
  <2> QED
    BY <2>2, <2>3
<1>3. ASSUME ~Clean' PROVE [Channel!Next]_(Channel!vars)
  <2>1. Stutter \/ Closed
    BY <1>3 DEF Queue, Received
  <2> QED
    BY <2>1, ChannelNextIs
<1>4. ASSUME NEW b \in Bodies, StationSend(b) PROVE [Channel!Next]_(Channel!vars)
  <2>1. /\ UNCHANGED <<connected, leftover, noise, got>> /\ (Clean' <=> Clean)
        /\ due' = IF b \in Json THEN Append(due, b) ELSE due
    BY <1>4 DEF StationSend, Clean
  <2>2. CASE Clean /\ b \in Json
    <3>1. Queue' = Append(Queue, b) /\ Received' = Received
      BY <1>0, <2>1, <2>2, QueueIs DEF Queue, Received
    <3>2. Clean' /\ \E m \in Json : Queue' = Append(Queue, m)
      BY <2>1, <2>2, <3>1
    <3> QED
      BY <2>2, <3>1, <3>2, ChannelNextIs
  <2>3. CASE ~(Clean /\ b \in Json)
    <3>1. Stutter
      BY <2>1, <2>3 DEF Queue, Received
    <3> QED
      BY <3>1, ChannelNextIs
  <2> QED
    BY <2>2, <2>3
<1>5. ASSUME NEW n \in 0 .. Len(wire), Disconnect(n) PROVE ~Clean'
  BY <1>5 DEF Disconnect, Clean
<1>6. ASSUME NEW b \in Byte, StationBabbles(b) PROVE ~Clean'
  BY <1>0, <1>6 DEF StationBabbles, Clean
<1>7. CASE UNCHANGED vars
  <2>1. UNCHANGED <<connected, leftover, noise, due, got>>
    BY <1>7 DEF vars
  <2>2. Stutter
    BY <2>1 DEF Clean, Queue, Received
  <2> QED
    BY <2>2, ChannelNextIs
<1> QED
  BY <1>1, <1>2, <1>3, <1>4, <1>5, <1>6, <1>7 DEF Next

\* To a station that sends frames, every connection that began with an empty m_recv_buffer
\* is a FrameChannel: the JSON bodies come out of recv once each and in order.
THEOREM StreamImplementsChannel == Spec => ImplementsChannel
<1>1. Init => ChannelHeld /\ Channel!Init
  BY DEF Init, ChannelHeld, Clean, Channel!Init
<1>2. Types /\ ChannelHeld /\ [Next]_vars => ChannelHeld'
  BY HeldStep
<1>3. Types /\ ChannelHeld /\ [Next]_vars => [Channel!Next]_(Channel!vars)
  BY ChannelStep
<1> QED
  BY <1>1, <1>2, <1>3, StreamTypes, PTL DEF Spec, ImplementsChannel, Channel!Spec

-----------------------------------------------------------------------------
(* NoCommandInvented.  Whatever was cut short before, all the client holds are bytes *)
(* of frames that were sent, in their order.                                   *)


\* Bytes of frames: each is that of a body in S (src) at a place in its frame (off), and the
\* next one is behind it in the same frame or begins another.
Labels(s, S, src, off) ==
  /\ \A i \in 1 .. Len(s) : /\ src[i] \in S
                            /\ off[i] \in 1 .. HeaderLen + Len(src[i])
                            /\ s[i] = Encode(src[i])[off[i]]
  /\ \A i \in 1 .. Len(s) - 1 : (src[i + 1] = src[i] /\ off[i + 1] = off[i] + 1) \/ off[i + 1] = 1

Labelled(s, S) == \E src, off : Labels(s, S, src, off)

\* Bytes of frames of bodies in S are bytes of frames of bodies in a larger set ...
LEMMA LabelledMore ==
  ASSUME NEW s, NEW S, NEW T, S \subseteq T, Labelled(s, S)
  PROVE  Labelled(s, T)
<1>1. PICK src, off : Labels(s, S, src, off)
  BY DEF Labelled
<1>2. Labels(s, T, src, off)
  BY <1>1 DEF Labels
<1> QED
  BY <1>2 DEF Labelled

\* ... and so are the first of them,
LEMMA LabelledFirst ==
  ASSUME NEW s \in Seq(Byte), NEW t \in Seq(Byte), NEW S, Labelled(s \o t, S)
  PROVE  Labelled(s, S)
<1>1. PICK src, off : Labels(s \o t, S, src, off)
  BY DEF Labelled
<1>2. /\ Len(s) \in Nat /\ Len(t) \in Nat /\ Len(s \o t) = Len(s) + Len(t)
      /\ \A i \in 1 .. Len(s) : (s \o t)[i] = s[i]
  BY Joined
<1>3. \A i \in 1 .. Len(s) : i \in 1 .. Len(s \o t)
  BY <1>2
<1>4. \A i \in 1 .. Len(s) - 1 : i \in 1 .. Len(s \o t) - 1
  BY <1>2
<1>5. Labels(s, S, src, off)
  BY <1>1, <1>2, <1>3, <1>4 DEF Labels
<1> QED
  BY <1>5 DEF Labelled

\* those behind a place,
LEMMA LabelledFrom ==
  ASSUME NEW s \in Seq(Byte), NEW p \in 0 .. Len(s), NEW S, Labelled(s, S)
  PROVE  Labelled(At(s, p), S)
<1> DEFINE t == At(s, p)
<1>1. PICK src, off : Labels(s, S, src, off)
  BY DEF Labelled
<1>2. Len(t) = Len(s) - p /\ Len(s) \in Nat
  BY AtIs
<1>3. \A i \in 1 .. Len(t) : p + i \in 1 .. Len(s) /\ t[i] = s[p + i]
  <2>1. p + 1 \in 1 .. Len(s) + 1 /\ Len(s) \in (p + 1) - 1 .. Len(s)
    BY <1>2
  <2>2. \A i \in 1 .. Len(s) - (p + 1) + 1 : t[i] = s[(p + 1) + i - 1]
    BY <2>1, Piece DEF At
  <2> HIDE DEF t
  <2>3. ASSUME NEW i \in 1 .. Len(t) PROVE p + i \in 1 .. Len(s) /\ t[i] = s[p + i]
    <3>1. i \in 1 .. Len(s) - (p + 1) + 1 /\ (p + 1) + i - 1 = p + i /\ p + i \in 1 .. Len(s)
      BY <1>2
    <3> QED
      BY <3>1, <2>2
  <2> QED
    BY <2>3
<1> DEFINE src2 == [i \in 1 .. Len(t) |-> src[p + i]]
           off2 == [i \in 1 .. Len(t) |-> off[p + i]]
<1> HIDE DEF t
<1>4. \A i \in 1 .. Len(t) : src2[i] = src[p + i] /\ off2[i] = off[p + i]
  OBVIOUS
<1> HIDE DEF src2, off2
<1>5. ASSUME NEW i \in 1 .. Len(t)
      PROVE  src2[i] \in S /\ off2[i] \in 1 .. HeaderLen + Len(src2[i]) /\ t[i] = Encode(src2[i])[off2[i]]
  BY <1>1, <1>3, <1>4 DEF Labels
<1>6. ASSUME NEW i \in 1 .. Len(t) - 1
      PROVE  (src2[i + 1] = src2[i] /\ off2[i + 1] = off2[i] + 1) \/ off2[i + 1] = 1
  <2>1. /\ i \in 1 .. Len(t) /\ i + 1 \in 1 .. Len(t) /\ p + i \in 1 .. Len(s) - 1
        /\ p + (i + 1) = (p + i) + 1
    BY <1>2
  <2>2. src2[i] = src[p + i] /\ off2[i] = off[p + i] /\ src2[i + 1] = src[(p + i) + 1] /\ off2[i + 1] = off[(p + i) + 1]
    BY <2>1, <1>4
  <2> QED
    BY <2>1, <2>2, <1>1 DEF Labels
<1>7. Labels(t, S, src2, off2)
  BY <1>5, <1>6 DEF Labels
<1> QED
  BY <1>7 DEF Labelled, t

\* and those with one more frame behind them.
LEMMA LabelledSend ==
  ASSUME NEW s \in Seq(Byte), NEW S \in SUBSET Bodies, NEW b \in Bodies, Labelled(s, S)
  PROVE  Labelled(s \o Encode(b), S \cup {b})
<1> DEFINE x == Encode(b)
           t == s \o x
           n == Len(s)
<1>1. PICK src, off : Labels(s, S, src, off)
  BY DEF Labelled
<1>2. x \in Seq(Byte) /\ Len(x) = HeaderLen + Len(b) /\ Len(x) \in Nat
  BY Vocabulary, EncodeIs, LenProperties
<1>3. /\ n \in Nat /\ Len(t) = n + Len(x)
      /\ \A i \in 1 .. n : t[i] = s[i]
      /\ \A i \in 1 .. Len(x) : t[n + i] = x[i]
  BY <1>2, Joined
<1> DEFINE src2 == [i \in 1 .. Len(t) |-> IF i <= n THEN src[i] ELSE b]
           off2 == [i \in 1 .. Len(t) |-> IF i <= n THEN off[i] ELSE i - n]
<1> HIDE DEF t, n
<1>4. /\ \A i \in 1 .. n : i \in 1 .. Len(t) /\ src2[i] = src[i] /\ off2[i] = off[i]
      /\ \A i \in 1 .. Len(t) : i > n => src2[i] = b /\ off2[i] = i - n
  <2>1. ASSUME NEW i \in 1 .. n PROVE i \in 1 .. Len(t) /\ i <= n
    BY <1>2, <1>3
  <2>2. ASSUME NEW i \in 1 .. Len(t), i > n PROVE ~(i <= n)
    BY <1>3, <2>2
  <2> QED
    BY <2>1, <2>2
<1> HIDE DEF src2, off2
<1>5. ASSUME NEW i \in 1 .. Len(t)
      PROVE  src2[i] \in S \cup {b} /\ off2[i] \in 1 .. HeaderLen + Len(src2[i]) /\ t[i] = Encode(src2[i])[off2[i]]
  <2>1. CASE i \in 1 .. n
    BY <2>1, <1>1, <1>3, <1>4 DEF Labels, n
  <2>2. CASE i > n
    <3>1. src2[i] = b /\ off2[i] = i - n /\ i - n \in 1 .. Len(x) /\ n + (i - n) = i
      BY <2>2, <1>2, <1>3, <1>4
    <3>2. t[i] = x[i - n]
      BY <3>1, <1>3
    <3> QED
      BY <3>1, <3>2, <1>2
  <2> QED
    BY <2>1, <2>2, <1>3
<1>6. ASSUME NEW i \in 1 .. Len(t) - 1
      PROVE  (src2[i + 1] = src2[i] /\ off2[i + 1] = off2[i] + 1) \/ off2[i + 1] = 1
  <2>0. i \in 1 .. Len(t) /\ i + 1 \in 1 .. Len(t) /\ n \in Nat
    BY <1>2, <1>3
  <2>1. CASE i \in 1 .. n - 1
    <3>1. i \in 1 .. n /\ i + 1 \in 1 .. n
      BY <2>0, <2>1
    <3> QED
      BY <2>1, <3>1, <1>1, <1>4 DEF Labels, n
  <2>2. CASE i = n
    BY <2>0, <2>2, <1>4
  <2>3. CASE i > n
    BY <2>0, <2>3, <1>4
  <2> QED
    BY <2>0, <2>1, <2>2, <2>3
<1>7. Labels(t, S \cup {b}, src2, off2)
  BY <1>5, <1>6 DEF Labels
<1> QED
  BY <1>7 DEF Labelled, t

\* A header within the limit begins with a zero byte.
LEMMA FirstByte ==
  ASSUME NEW s \in Seq(Byte), Complete(s)
  PROVE  s[1] = 0
<1> DEFINE h == [i \in 1 .. HeaderLen |-> s[i]]
<1>1. HeaderLen \in Nat \ {0} /\ HeaderLen <= Len(s) /\ BodyLen(s) <= MaxBody /\ MaxBody \in Nat /\ Len(s) \in Nat
  <2>1. BodyLen(s) \in 0 .. MaxBody /\ HeaderLen \in Nat \ {0} /\ HeaderLen + BodyLen(s) <= Len(s) /\ Len(s) \in Nat
    BY CompleteIs
  <2> QED
    BY <2>1, ProtocolAssumption
<1>2. \A i \in 1 .. HeaderLen : s[i] \in Byte /\ h[i] = s[i]
  <2>1. \A i \in 1 .. HeaderLen : i \in 1 .. Len(s)
    BY <1>1
  <2> QED
    BY <2>1, ElementOfSeq
<1>3. h \in [1 .. HeaderLen -> Byte]
  BY <1>2
<1>4. BodyLen(s) = BodyLen(h)
  <2>1. \A i \in 1 .. HeaderLen : s[i] \in Nat /\ h[i] = s[i]
    BY <1>2, ProtocolAssumption DEF Byte
  <2> HIDE DEF h
  <2> QED
    BY <2>1, BodyLenSame
<1>5. h[1] = 0
  <2> HIDE DEF h
  <2> QED
    BY <1>1, <1>3, <1>4, LimitAssumption
<1>6. 1 \in 1 .. HeaderLen
  BY <1>1
<1> QED
  BY <1>2, <1>5, <1>6

\* In a frame on the wire the first byte is zero and no byte of the body is.
LEMMA FrameBytes ==
  ASSUME NEW b \in Bodies, NEW o \in 1 .. HeaderLen + Len(b)
  PROVE  /\ o = 1 => Encode(b)[o] = 0
         /\ o > HeaderLen => Encode(b)[o] # 0
<1>1. /\ Encode(b) \in Seq(Byte) /\ Complete(Encode(b)) /\ Body(Encode(b)) = b
      /\ BodyLen(Encode(b)) = Len(b) /\ b \in Seq(Byte \ {0}) /\ Len(b) \in Nat /\ HeaderLen \in Nat
  BY Vocabulary, EncodeIs, LenProperties, ProtocolAssumption
<1>2. o = 1 => Encode(b)[o] = 0
  BY <1>1, FirstByte
<1>3. ASSUME o > HeaderLen PROVE Encode(b)[o] # 0
  <2>1. o - HeaderLen \in 1 .. Len(b) /\ HeaderLen + (o - HeaderLen) = o
    BY <1>1, <1>3
  <2>2. \A i \in 1 .. Len(b) : b[i] = Encode(b)[HeaderLen + i]
    BY <1>1, CompleteIs
  <2>3. b[o - HeaderLen] \in Byte \ {0}
    BY <1>1, <2>1, ElementOfSeq
  <2> QED
    BY <2>1, <2>2, <2>3
<1> QED
  BY <1>2, <1>3

\* A command read out of such bytes is a body in S.
LEMMA CommandWasSent ==
  ASSUME NEW S \in SUBSET Bodies, NEW s \in Seq(Byte), Labelled(s, S), Complete(s), Text(Body(s)) \in Commands
  PROVE  Text(Body(s)) \in S
<1> DEFINE text == Text(Body(s))
           H == HeaderLen
<1>1. PICK src, off : Labels(s, S, src, off)
  BY DEF Labelled
<1>2. /\ H \in Nat \ {0} /\ BodyLen(s) \in Nat /\ H + BodyLen(s) <= Len(s) /\ Len(s) \in Nat
      /\ Body(s) \in Seq(Byte) /\ Len(Body(s)) = BodyLen(s)
      /\ \A i \in 1 .. BodyLen(s) : Body(s)[i] = s[H + i]
  BY CompleteIs
<1>3. PICK n \in 0 .. BodyLen(s) : text = SubSeq(Body(s), 1, n) /\ \A i \in 1 .. n : Body(s)[i] # 0
  BY <1>2, TextIs
<1>4. /\ text \in Seq(Byte) /\ Len(text) = n
      /\ \A i \in 1 .. n : text[i] = Body(s)[i]
  <2>1. 1 \in 1 .. Len(Body(s)) + 1 /\ n \in 1 - 1 .. Len(Body(s)) /\ n - 1 + 1 = n /\ \A i \in 1 .. n : 1 + i - 1 = i
    BY <1>2
  <2> HIDE DEF Byte
  <2> QED
    BY <2>1, <1>2, <1>3, Piece
<1> HIDE DEF H, text
<1>5. \A i \in 1 .. n : text[i] = s[H + i] /\ s[H + i] # 0
  <2>1. \A i \in 1 .. n : i \in 1 .. BodyLen(s)
    BY <1>2
  <2> QED
    BY <2>1, <1>2, <1>3, <1>4
<1>6. n # 0
  <2>1. text # <<>>
    BY VocabularyAssumption, ProtocolAssumption DEF text
  <2> QED
    BY <2>1, <1>4, EmptySeq
\* The body begins within a header's length of the place the header was read at.
<1> DEFINE near == {k \in 0 .. H : off[1 + k] <= H + k}
<1>7. H \in near
  <2>1. 0 \in near
    <3>1. s[1] = 0 /\ 1 \in 1 .. Len(s)
      BY <1>2, FirstByte
    <3>2. src[1] \in Bodies /\ off[1] \in 1 .. H + Len(src[1]) /\ s[1] = Encode(src[1])[off[1]]
      BY <1>1, <3>1 DEF Labels, H
    <3>3. ~(off[1] > H)
      BY <3>1, <3>2, FrameBytes DEF H
    <3>4. off[1] \in Nat
      BY <3>2
    <3> QED
      BY <1>2, <3>3, <3>4
  <2>2. ASSUME NEW k \in 0 .. H - 1, k \in near PROVE k + 1 \in near
    <3>1. 1 + k \in 1 .. Len(s) - 1 /\ 1 + k \in 1 .. Len(s) /\ 1 + (k + 1) = (1 + k) + 1
      BY <1>2, <1>3, <1>6
    <3>2. off[(1 + k) + 1] = off[1 + k] + 1 \/ off[(1 + k) + 1] = 1
      BY <1>1, <3>1 DEF Labels
    <3>3. off[1 + k] \in Nat /\ off[1 + k] <= H + k
      BY <1>1, <2>2, <3>1 DEF Labels
    <3>4. off[1 + (k + 1)] <= H + (k + 1)
      BY <1>2, <3>1, <3>2, <3>3
    <3> QED
      BY <1>2, <3>4
  <2> HIDE DEF near
  <2>3. 0 .. H \subseteq near
    BY <1>2, <2>1, <2>2, ReachesUpTo
  <2> QED
    BY <1>2, <2>3
\* No frame begins inside the text, for a frame begins with a zero byte.
<1>8. ASSUME NEW i \in 1 .. n
      PROVE  /\ H + i \in 1 .. Len(s) /\ src[H + i] \in S /\ src[H + i] \in Bodies
             /\ off[H + i] \in 1 .. HeaderLen + Len(src[H + i]) /\ off[H + i] \in Nat
             /\ s[H + i] = Encode(src[H + i])[off[H + i]] /\ off[H + i] # 1
  <2>1. H + i \in 1 .. Len(s)
    BY <1>2, <1>3
  <2>2. /\ src[H + i] \in S /\ src[H + i] \in Bodies
        /\ off[H + i] \in 1 .. HeaderLen + Len(src[H + i]) /\ s[H + i] = Encode(src[H + i])[off[H + i]]
    BY <1>1, <2>1 DEF Labels
  <2>3. off[H + i] # 1
    BY <1>5, <2>2, FrameBytes
  <2> QED
    BY <2>1, <2>2, <2>3
<1> DEFINE b == src[H + 1]
           first == off[H + 1]
           within == {k \in 0 .. n - 1 : src[H + 1 + k] = b /\ off[H + 1 + k] = first + k}
<1>9. n - 1 \in Nat /\ 1 \in 1 .. n
  BY <1>3, <1>6
<1>10. b \in S /\ b \in Bodies /\ first \in 2 .. 2 * HeaderLen
  <2>1. off[1 + H] <= H + H /\ 1 + H = H + 1
    BY <1>2, <1>7
  <2>2. off[H + 1] \in Nat /\ off[H + 1] >= 1 /\ off[H + 1] # 1 /\ b \in S /\ b \in Bodies
    BY <1>8, <1>9
  <2> QED
    BY <1>2, <2>1, <2>2 DEF H
<1>11. 0 .. n - 1 \subseteq within
  <2>1. 0 \in within
    BY <1>2, <1>9, <1>10
  <2>2. ASSUME NEW k \in 0 .. (n - 1) - 1, k \in within PROVE k + 1 \in within
    <3>1. /\ k + 1 \in 1 .. n /\ k + 2 \in 1 .. n /\ H + 1 + k = H + (k + 1) /\ H + 1 + (k + 1) = H + (k + 2)
          /\ (H + 1 + k) + 1 = H + (k + 2) /\ k + 1 \in 0 .. n - 1 /\ H + 1 + k \in 1 .. Len(s) - 1
      BY <1>2, <1>3, <1>9
    <3>2. off[H + (k + 2)] # 1
      BY <3>1, <1>8
    <3>3. /\ src[H + 1 + (k + 1)] = src[H + 1 + k]
          /\ off[H + 1 + (k + 1)] = off[H + 1 + k] + 1
      BY <1>1, <3>1, <3>2 DEF Labels
    <3>4. off[H + 1 + (k + 1)] = first + (k + 1)
      <4>1. first \in Nat /\ off[H + 1 + k] = first + k
        BY <1>8, <1>9, <2>2
      <4> HIDE DEF first
      <4> QED
        BY <3>3, <4>1
    <3> QED
      BY <2>2, <3>1, <3>3, <3>4
  <2> HIDE DEF within
  <2> QED
    BY <1>9, <2>1, <2>2, ReachesUpTo
<1> DEFINE last == first + n - 1
           piece == SubSeq(Encode(b), first, last)
<1>12. /\ last \in 1 .. HeaderLen + Len(b)
       /\ \A i \in 1 .. n : text[i] = Encode(b)[first + i - 1]
  <2>1. ASSUME NEW i \in 1 .. n PROVE src[H + i] = b /\ off[H + i] = first + i - 1
    <3>1. i - 1 \in 0 .. n - 1 /\ H + 1 + (i - 1) = H + i
      BY <1>2, <1>9
    <3>2. src[H + i] = b /\ off[H + i] = first + (i - 1)
      BY <3>1, <1>11
    <3>3. first + (i - 1) = first + i - 1
      <4> HIDE DEF first
      <4> QED
        BY <1>10
    <3> QED
      BY <3>2, <3>3
  <2>2. off[H + n] = last /\ src[H + n] = b /\ off[H + n] \in 1 .. HeaderLen + Len(src[H + n])
    <3>1. n \in 1 .. n
      BY <1>9
    <3> QED
      BY <3>1, <2>1, <1>8
  <2> QED
    BY <2>1, <2>2, <1>5, <1>8
<1> HIDE DEF b, first
<1>13. text = piece
  <2>1. Encode(b) \in Seq(Byte) /\ Len(Encode(b)) = HeaderLen + Len(b) /\ Len(Encode(b)) \in Nat /\ first \in Nat
    BY <1>10, Vocabulary, EncodeIs, LenProperties
  <2>2. first \in 1 .. Len(Encode(b)) + 1 /\ last \in first - 1 .. Len(Encode(b)) /\ last - first + 1 = n
    BY <2>1, <1>9, <1>10, <1>12
  <2> HIDE DEF last
  <2>3. piece \in Seq(Byte) /\ Len(piece) = n /\ \A i \in 1 .. n : piece[i] = Encode(b)[first + i - 1]
    BY <2>1, <2>2, Piece
  <2> HIDE DEF piece, Byte
  <2> QED
    BY <2>3, <1>4, <1>12, SeqEqual
<1>14. piece \in Commands => piece = b
  <2> HIDE DEF last
  <2> QED
    BY <1>10, <1>12, VocabularyAssumption
<1>15. text \in S
  <2> HIDE DEF piece
  <2> QED
    BY <1>10, <1>13, <1>14 DEF text
<1> QED
  BY <1>15 DEF text

\* Whatever the first connection left behind and however connections cut frames short,
\* recv returns no command the station did not send (TcpClient::recv and onDisconnected,
\* parseFrame): the reading can fall out of step only to refuse, to wait or to find texts
\* that Control does not look into.
THEOREM NoCommandIsInvented == Spec => []NoCommandInvented
<1> DEFINE Held == noise = 0 => /\ Labelled(m_recv_buffer \o wire, everSent)
                                /\ \A i \in 1 .. Len(got) : got[i] \in Commands => got[i] \in everSent
<1>1. Init => Held
  <2> SUFFICES ASSUME Init PROVE Held
    OBVIOUS
  <2>1. m_recv_buffer \o wire = <<>> /\ got = <<>>
    <3>1. <<>> \in Seq(Byte)
      BY EmptySeq
    <3> QED
      BY <3>1, ConcatEmptySeq DEF Init
  <2>2. Labels(<<>>, everSent, <<>>, <<>>)
    BY DEF Labels
  <2> QED
    BY <2>1, <2>2 DEF Labelled
<1>2. ASSUME Types, Held, [Next]_vars PROVE Held'
  <2>0. /\ m_recv_buffer \in Seq(Byte) /\ wire \in Seq(Byte) /\ got \in Seq(Json) /\ Len(got) \in Nat
        /\ everSent \in SUBSET Bodies /\ noise \in Nat
    BY <1>2, LenProperties DEF Types
  <2>1. CASE Connect
    <3>1. m_recv_buffer' = m_recv_buffer /\ wire' = <<>> /\ got' = <<>> /\ noise' = noise /\ everSent' = everSent
      BY <2>1 DEF Connect
    <3>2. m_recv_buffer' \o wire' = m_recv_buffer
      BY <2>0, <3>1, ConcatEmptySeq
    <3>3. noise = 0 => Labelled(m_recv_buffer, everSent)
      BY <1>2, <2>0, LabelledFirst
    <3> QED
      BY <3>1, <3>2, <3>3
  <2>2. ASSUME NEW n \in 1 .. Len(wire), Readable(n) PROVE Held'
    <3> DEFINE left == SubSeq(wire, n + 1, Len(wire))
               held == m_recv_buffer \o SubSeq(wire, 1, n)
               I == {c \in Seq(Byte) : Labelled(c \o left, everSent)}
    <3>1. left \in Seq(Byte) /\ held \in Seq(Byte) /\ m_recv_buffer \o wire = held \o left
      <4>1. n \in 0 .. Len(wire)
        OBVIOUS
      <4> QED
        BY <1>2, <4>1, WireSplit
    <3>2. wire' = left /\ noise' = noise /\ everSent' = everSent
      BY <2>2 DEF Readable
    <3> SUFFICES ASSUME noise = 0
                 PROVE  /\ Labelled(m_recv_buffer' \o wire', everSent)
                        /\ \A i \in 1 .. Len(got') : got'[i] \in Commands => got'[i] \in everSent
      BY <3>2
    <3> HIDE DEF left, held
    <3>3. ASSUME NEW c \in I, Complete(c) PROVE Rest(c) \in I
      <4> DEFINE k == HeaderLen + BodyLen(c)
      <4>1. c \in Seq(Byte) /\ Labelled(c \o left, everSent) /\ c \o left \in Seq(Byte)
        BY <3>1, Joined
      <4>2. Complete(c \o left) /\ BodyLen(c \o left) = BodyLen(c) /\ Rest(c \o left) = Rest(c) \o left
        BY <3>1, <3>3, <4>1, FrameStays
      <4>3. k \in 0 .. Len(c \o left)
        <5>1. /\ HeaderLen + BodyLen(c \o left) \in Nat /\ Len(c \o left) \in Nat
              /\ HeaderLen + BodyLen(c \o left) <= Len(c \o left)
          BY <4>1, <4>2, CompleteIs
        <5> QED
          BY <4>2, <5>1
      <4>4. Rest(c \o left) = At(c \o left, k)
        BY <4>2 DEF Rest, At
      <4>5. Labelled(At(c \o left, k), everSent)
        <5> HIDE DEF k
        <5> QED
          BY <4>1, <4>3, LabelledFrom
      <4>6. Rest(c) \in Seq(Byte)
        BY <3>3, <4>1, RestShorter
      <4> HIDE DEF k
      <4> QED
        BY <4>2, <4>4, <4>5, <4>6
    <3>4. PICK c \in I : Taken(c)
      <4>1. m_recv_buffer \o SubSeq(wire, 1, n) \in I
        BY <1>2, <3>1 DEF held
      <4> HIDE DEF I
      <4>2. I \in SUBSET Seq(Byte)
        BY DEF I
      <4> QED
        BY <2>2, <3>3, <4>1, <4>2, ReadableIs
    <3>5. CASE ~Complete(c) /\ m_recv_buffer' = c /\ got' = got
      BY <1>2, <3>2, <3>4, <3>5
    <3>6. CASE /\ Complete(c) /\ Text(Body(c)) \in Json
               /\ m_recv_buffer' = Rest(c) /\ got' = Append(got, Text(Body(c)))
      <4> DEFINE text == Text(Body(c))
      <4>1. Labelled(Rest(c) \o left, everSent)
        BY <3>3, <3>4, <3>6
      <4>2. text \in Commands => text \in everSent
        <5>1. c \in Seq(Byte) /\ Labelled(c \o left, everSent) /\ c \o left \in Seq(Byte)
          BY <3>1, <3>4, Joined
        <5>2. Complete(c \o left) /\ Body(c \o left) = Body(c)
          BY <3>1, <3>6, <5>1, FrameStays
        <5> QED
          BY <2>0, <5>1, <5>2, CommandWasSent
      <4>3. text \in Json
        BY <3>6
      <4> HIDE DEF text
      <4>4. /\ Len(Append(got, text)) = Len(got) + 1 /\ Append(got, text)[Len(got) + 1] = text
            /\ \A i \in 1 .. Len(got) : Append(got, text)[i] = got[i]
        BY <2>0, <4>3, AppendProperties
      <4>5. ASSUME NEW i \in 1 .. Len(got) + 1, Append(got, text)[i] \in Commands
            PROVE  Append(got, text)[i] \in everSent
        <5>1. CASE i = Len(got) + 1
          BY <4>2, <4>4, <4>5, <5>1
        <5>2. CASE i \in 1 .. Len(got)
          BY <1>2, <4>4, <4>5, <5>2
        <5> QED
          BY <2>0, <5>1, <5>2
      <4>6. got' = Append(got, text)
        BY <3>6 DEF text
      <4> QED
        BY <3>2, <3>6, <4>1, <4>4, <4>5, <4>6
    <3> QED
      BY <3>4, <3>5, <3>6 DEF Taken
  <2>3. ASSUME NEW n \in 0 .. Len(wire), Disconnect(n) PROVE Held'
    <3> DEFINE held == m_recv_buffer \o SubSeq(wire, 1, n)
    <3>1. m_recv_buffer' = held /\ wire' = <<>> /\ UNCHANGED <<got, noise, everSent>>
      BY <2>3 DEF Disconnect
    <3>2. noise = 0 => Labelled(held, everSent)
      <4> DEFINE left == SubSeq(wire, n + 1, Len(wire))
      <4>1. held \in Seq(Byte) /\ left \in Seq(Byte) /\ m_recv_buffer \o wire = held \o left
        BY <1>2, WireSplit
      <4> HIDE DEF held, left
      <4> QED
        BY <1>2, <4>1, LabelledFirst
    <3>3. held \o <<>> = held
      <4>1. held \in Seq(Byte)
        BY <1>2, WireSplit
      <4> QED
        BY <4>1, ConcatEmptySeq
    <3> HIDE DEF held
    <3> QED
      BY <1>2, <3>1, <3>2, <3>3
  <2>4. ASSUME NEW b \in Bodies, StationSend(b) PROVE Held'
    <3>1. /\ m_recv_buffer' = m_recv_buffer /\ wire' = wire \o Encode(b) /\ got' = got /\ noise' = noise
          /\ everSent' = everSent \cup {b}
      BY <2>4 DEF StationSend
    <3>2. m_recv_buffer \o (wire \o Encode(b)) = (m_recv_buffer \o wire) \o Encode(b)
          /\ m_recv_buffer \o wire \in Seq(Byte)
      <4>1. m_recv_buffer \in Seq(Byte) /\ wire \in Seq(Byte) /\ Encode(b) \in Seq(Byte)
        BY <2>0, Vocabulary
      <4>2. m_recv_buffer \o wire \in Seq(Byte)
        BY <4>1, Joined
      <4>3. m_recv_buffer \o (wire \o Encode(b)) = (m_recv_buffer \o wire) \o Encode(b)
        BY <4>1, Associative, ZenonT(30)
      <4> QED
        BY <4>2, <4>3
    <3>3. noise = 0 => Labelled((m_recv_buffer \o wire) \o Encode(b), everSent \cup {b})
      BY <1>2, <2>0, <3>2, LabelledSend
    <3> QED
      BY <1>2, <3>1, <3>2, <3>3
  <2>5. ASSUME NEW b \in Byte, StationBabbles(b) PROVE Held'
    <3>1. noise' # 0
      BY <2>0, <2>5 DEF StationBabbles
    <3> QED
      BY <3>1
  <2>6. CASE UNCHANGED vars
    BY <1>2, <2>6 DEF vars
  <2> QED
    BY <1>2, <2>1, <2>2, <2>3, <2>4, <2>5, <2>6 DEF Next
<1>3. Types /\ Held => NoCommandInvented
  <2> SUFFICES ASSUME Types, Held PROVE NoCommandInvented
    OBVIOUS
  <2>1. DOMAIN got = 1 .. Len(got)
    BY LenProperties DEF Types
  <2> QED
    BY <2>1 DEF NoCommandInvented
<1> QED
  BY <1>1, <1>2, <1>3, StreamTypes, PTL DEF Spec

=============================================================================
