------------------------------- MODULE JsonLexer -------------------------------
(***************************************************************************)
(* The lexer of json.hpp: scan takes one token from a text, a sequence of  *)
(* bytes.  Tokens and strings are those of JsonString; a number has a      *)
(* value too.                                                              *)
(***************************************************************************)
EXTENDS JsonValue, JsonFloat, JsonString, TLC

CONSTANTS UnsignedMax, IntegerMin, IntegerMax  \* what strtoull and strtoll can return

ASSUME LexerAssumption == UnsignedMax \in Nat /\ IntegerMax \in Nat /\ -IntegerMin \in Nat

\* ASCII.
Comma == 44
Slash == 47
Colon == 58
Open == 91
Close == 93
OpenBrace == 123
CloseBrace == 125

-----------------------------------------------------------------------------
\* Numbers.

Digit0 == 48
IsDigit(c) == c \in 48 .. 57

\* From each label of scan_number, the next one: in front of a point or an
\* exponent, behind the point, and in the exponent.
AfterInteger(s, c) ==
  CASE s \in {"init", "minus"} /\ c = Digit0 -> "zero"
    [] s \in {"init", "minus"} /\ IsDigit(c) /\ c # Digit0 -> "any1"
    [] s = "init" /\ c = Minus -> "minus"
    [] s = "any1" /\ IsDigit(c) -> "any1"
    [] s \in {"zero", "any1"} /\ c = Point -> "decimal1"
    [] s \in {"zero", "any1"} /\ c \in {101, 69} -> "exponent"
    [] OTHER -> IF s \in {"zero", "any1"} THEN "done" ELSE "error"
AfterPoint(s, c) ==
  CASE IsDigit(c) -> "decimal2"
    [] s = "decimal2" /\ c \in {101, 69} -> "exponent"
    [] OTHER -> IF s = "decimal2" THEN "done" ELSE "error"
AfterExponent(s, c) ==
  CASE IsDigit(c) -> "any2"
    [] s = "exponent" /\ c \in {Plus, Minus} -> "sign"
    [] OTHER -> IF s = "any2" THEN "done" ELSE "error"
NumberState(s, c) == CASE s \in {"init", "minus", "zero", "any1"} -> AfterInteger(s, c)
                       [] s \in {"decimal1", "decimal2"} -> AfterPoint(s, c)
                       [] s \in {"exponent", "sign", "any2"} -> AfterExponent(s, c)

\* The states in which the bytes of the number were taken.
RECURSIVE NumberPath(_, _, _)
NumberPath(text, i, path) ==
  LET s == NumberState(IF path = <<>> THEN "init" ELSE Last(path), At(text, i))
  IN IF s \in {"done", "error"} THEN Append(path, s) ELSE NumberPath(text, i + 1, Append(path, s))

Decimal(digits) == FoldLeft(LAMBDA n, d : 10 * n + (d - Digit0), 0, digits)

\* Unsigned if it has no sign, no point and no exponent, signed if it has a sign
\* only; what does not fit is read as a floating-point number.
scan_number(text, i) ==
  LET path == NumberPath(text, i, <<>>)
      end == i + Len(path) - 1
      Bytes(states) == [j \in 1 .. Len(path) |-> IF path[j] \in states THEN <<text[i + j - 1]>> ELSE <<>>]
      digits == SelectSeq(FlattenSeq(Bytes({"zero", "any1", "decimal2"})), IsDigit)
      decimals == Len(SelectSeq(path, LAMBDA s : s = "decimal2"))
      e == Decimal(FlattenSeq(Bytes({"any2"})))
      exponent == (IF FlattenSeq(Bytes({"sign"})) = <<Minus>> THEN -e ELSE e) - decimals
      neg == At(text, i) = Minus
      n == Decimal(digits)
      whole == \A j \in DOMAIN path : path[j] \notin {"decimal1", "exponent"}
  IN IF Last(path) = "error" THEN Error(end)
     ELSE IF whole /\ ~neg /\ n <= UnsignedMax THEN Valued("value_unsigned", end, n)
     ELSE IF whole /\ neg /\ -n \in IntegerMin .. IntegerMax THEN Valued("value_integer", end, -n)
     ELSE Valued("value_float", end, [neg |-> neg, bits |-> strtod(n, exponent)])

-----------------------------------------------------------------------------

Literal(text, i, literal, kind) ==
  LET bad == {j \in 2 .. Len(literal) : At(text, i + j - 1) # literal[j]}
  IN IF bad = {} THEN Token(kind, i + Len(literal))
     ELSE Error(i - 1 + (CHOOSE j \in bad : \A k \in bad : j <= k))

TrueText  == <<116, 114, 117, 101>>
FalseText == <<102, 97, 108, 115, 101>>
NullText  == <<110, 117, 108, 108>>

Structural == (Open :> "begin_array") @@ (Close :> "end_array") @@ (OpenBrace :> "begin_object")
              @@ (CloseBrace :> "end_object") @@ (Colon :> "name_separator") @@ (Comma :> "value_separator")

Whitespace == {32, 9, 10, 13}

\* The token that begins at position i or behind the whitespace there; a zero
\* byte ends the text.
RECURSIVE scan(_, _)
scan(text, i) ==
  LET c == At(text, i)
  IN CASE c \in Whitespace -> scan(text, i + 1)
       [] c \in DOMAIN Structural -> Token(Structural[c], i + 1)
       [] c = TrueText[1] -> Literal(text, i, TrueText, "literal_true")
       [] c = FalseText[1] -> Literal(text, i, FalseText, "literal_false")
       [] c = NullText[1] -> Literal(text, i, NullText, "literal_null")
       [] c = Quote -> scan_string(text, i + 1)
       [] c = Minus \/ IsDigit(c) -> scan_number(text, i)
       [] c \in {0, Eof} -> Token("end_of_input", i)
       [] OTHER -> Error(i)

\* Where the first token may begin: behind a byte order mark.  Half of one is an
\* error of the first token.
skip_bom(text) ==
  IF At(text, 1) # 239 THEN Token("start", 1)
  ELSE IF At(text, 2) # 187 THEN Error(2)
  ELSE IF At(text, 3) # 191 THEN Error(3)
  ELSE Token("start", 4)

=============================================================================
