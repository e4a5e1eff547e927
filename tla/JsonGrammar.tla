------------------------------ MODULE JsonGrammar ------------------------------
(***************************************************************************)
(* What a JSON text is, as RFC 8259 defines it and without regard to how   *)
(* it is read: a text is split into its parts in every way there is.       *)
(* Strings are UTF-8, and escaped surrogates come in pairs.                *)
(***************************************************************************)
EXTENDS JsonLexer

Before(s, k) == SubSeq(s, 1, k - 1)
After(s, k)  == SubSeq(s, k + 1, Len(s))
Places(s, byte) == {k \in DOMAIN s : s[k] = byte}

Inner(s) == SubSeq(s, 2, Len(s) - 1)
Wrapped(s, first, last) == Len(s) >= 2 /\ s[1] = first /\ s[Len(s)] = last

Ink(s) == {k \in DOMAIN s : s[k] \notin Whitespace}
Trimmed(s) == IF Ink(s) = {} THEN <<>>
              ELSE SubSeq(s, CHOOSE k \in Ink(s) : \A j \in Ink(s) : k <= j,
                             CHOOSE k \in Ink(s) : \A j \in Ink(s) : j <= k)

\* [ minus ] int [ frac ] [ exp ]
AllDigits(s) == s # <<>> /\ \A k \in DOMAIN s : IsDigit(s[k])
IsInt(s) == AllDigits(s) /\ (Len(s) > 1 => s[1] # Digit0)
IsDecimal(s) == IsInt(s) \/ \E k \in Places(s, Point) : IsInt(Before(s, k)) /\ AllDigits(After(s, k))
IsExponent(s) == AllDigits(s) \/ (s # <<>> /\ s[1] \in {Plus, Minus} /\ AllDigits(Tail(s)))
Unsign(s) == IF s # <<>> /\ s[1] = Minus THEN Tail(s) ELSE s
IsNumberText(s) ==
  LET u == Unsign(s)
  IN IsDecimal(u) \/ \E k \in Places(u, 101) \cup Places(u, 69) :
                       IsDecimal(Before(u, k)) /\ IsExponent(After(u, k))

\* The digits and the power of ten of a number.
PowerOf(s) == IF s = <<>> THEN 0
              ELSE IF s[1] = Minus THEN -Decimal(Tail(s))
              ELSE IF s[1] = Plus THEN Decimal(Tail(s)) ELSE Decimal(s)
Scaled(s) ==
  LET u == Unsign(s)
      e == (CHOOSE k \in 1 .. Len(u) + 1 : (k = Len(u) + 1 \/ u[k] \in {101, 69})
                                           /\ \A j \in 1 .. k - 1 : u[j] \notin {101, 69})
      m == Before(u, e)
      behind == IF Places(m, Point) = {} THEN 0 ELSE Len(m) - (CHOOSE k \in Places(m, Point) : TRUE)
  IN [digits |-> Decimal(SelectSeq(m, IsDigit)), power |-> PowerOf(After(u, e)) - behind]

\* One character of a string.
Payload(u) == [k \in DOMAIN u |-> u[k] % (IF k > 1 THEN 64 ELSE 2 ^ (IF Len(u) = 1 THEN 7 ELSE 7 - Len(u)))]
CodePoint(u) == FoldLeft(LAMBDA n, b : 64 * n + b, 0, Payload(u))
IsUnescaped(u) == /\ Len(u) \in 1 .. 4 /\ Utf8(CodePoint(u)) = u
                  /\ CodePoint(u) \in 32 .. 1114111
                  /\ \A set \in {High, Low, {Quote, Backslash}} : CodePoint(u) \notin set
IsHex(u) == Len(u) = 6 /\ u[1] = Backslash /\ u[2] = 117 /\ \A k \in 3 .. 6 : HexDigit(u[k]) # -1
IsEscape(u) ==
  \/ Len(u) = 2 /\ u[1] = Backslash /\ u[2] \in DOMAIN Short
  \/ IsHex(u) /\ get_codepoint(u, 3) \notin High \cup Low
  \/ /\ Len(u) = 12 /\ IsHex(SubSeq(u, 1, 6)) /\ IsHex(SubSeq(u, 7, 12))
     /\ get_codepoint(u, 3) \in High /\ get_codepoint(u, 9) \in Low

RECURSIVE IsCharacters(_)
IsCharacters(s) ==
  s = <<>> \/ \E k \in {1, 2, 3, 4, 6, 12} \cap DOMAIN s :
                /\ IsUnescaped(SubSeq(s, 1, k)) \/ IsEscape(SubSeq(s, 1, k))
                /\ IsCharacters(After(s, k))

IsStringText(s) == Wrapped(s, Quote, Quote) /\ IsCharacters(Inner(s))

RECURSIVE IsValueText(_), IsItems(_), IsFields(_)
IsValueText(s) ==
  LET t == Trimmed(s)
  IN \/ t \in {TrueText, FalseText, NullText} \/ IsNumberText(t) \/ IsStringText(t)
     \/ Wrapped(t, Open, Close) /\ (Ink(Inner(t)) = {} \/ IsItems(Inner(t)))
     \/ Wrapped(t, OpenBrace, CloseBrace) /\ (Ink(Inner(t)) = {} \/ IsFields(Inner(t)))
IsItems(s) == IsValueText(s) \/ \E k \in Places(s, Comma) : IsValueText(Before(s, k)) /\ IsItems(After(s, k))
IsFields(s) == \E c \in Places(s, Colon) :
  /\ IsStringText(Trimmed(Before(s, c)))
  /\ \/ IsValueText(After(s, c))
     \/ \E k \in Places(After(s, c), Comma) :
          IsValueText(Before(After(s, c), k)) /\ IsFields(After(After(s, c), k))

\* A text of the wire may begin with a byte order mark; a zero byte ends it.
WithoutMark(s) == IF Len(s) >= 3 /\ SubSeq(s, 1, 3) = <<239, 187, 191>> THEN SubSeq(s, 4, Len(s)) ELSE s
IsJsonText(s) == LET t == WithoutMark(s)
                 IN IsValueText(t) \/ \E k \in Places(t, 0) : IsValueText(Before(t, k))

=============================================================================
