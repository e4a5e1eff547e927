------------------------------- MODULE JsonFloat -------------------------------
(***************************************************************************)
(* How json.hpp writes a floating-point number, Grisu2, and how strtod     *)
(* reads one, for a binary format of any width: a double has Precision 53, *)
(* MaxExponent 1024, and a diyfp of 64 bits; TLC is given a format small   *)
(* enough to look at every number.  A positive number is its bits, as in   *)
(* IEEE 754: bits \div HiddenBit is the biased exponent, the rest the      *)
(* fraction, and the numbers are ordered like their bits.                  *)
(***************************************************************************)
EXTENDS Integers, Sequences, SequencesExt

CONSTANTS
  Precision,    \* std::numeric_limits<double>::digits
  MaxExponent,  \* std::numeric_limits<double>::max_exponent
  Width,        \* diyfp::kPrecision
  kAlpha, kGamma,
  kCachedPowersMinDecExp, kCachedPowersDecStep, CachedPowers, \* the table and its size
  kMinExp, kMaxExp  \* where the exponential notation begins

ASSUME FloatAssumption ==
  /\ Precision \in Nat \ {0, 1} /\ MaxExponent \in Nat \ {0} /\ Width >= Precision + 3
  /\ kAlpha >= 4 - Width /\ kGamma < 0 /\ kAlpha < kGamma
  /\ kMinExp < 0 /\ kMaxExp > 0

-----------------------------------------------------------------------------
\* The format.

HiddenBit == 2 ^ (Precision - 1)
kBias == MaxExponent - 1 + Precision - 1

Infinity == (2 * MaxExponent - 1) * HiddenBit  \* the bits of infinity
Finite == 0 .. Infinity - 1

\* A diyfp: f * 2^e.
Diyfp(f, e) == [f |-> f, e |-> e]

Decoded(bits) ==
  LET E == bits \div HiddenBit
      F == bits % HiddenBit
  IN IF E = 0 THEN Diyfp(F, 1 - kBias) ELSE Diyfp(F + HiddenBit, E - kBias)

\* In units of half the least number, every number and every midpoint is whole.
Units(bits) == LET v == Decoded(bits) IN 2 * v.f * 2 ^ (v.e - (1 - kBias))
Midpoint == [bits \in 0 .. Infinity - 1 |-> (Units(bits) + Units(bits + 1)) \div 2]

\* strtod of digits * 10^exponent: the nearest number, the even one of two, or
\* infinity.  The first two cases are numbers far beyond the format's ends, so that
\* TLC can do with its integers for up to six digits.
strtod(digits, exponent) ==
  LET n == IF exponent > 0 THEN digits * 10 ^ exponent ELSE digits
      d == IF exponent < 0 THEN 10 ^ (-exponent) ELSE 1
      q == (n * 2 ^ kBias) \div d
      r == (n * 2 ^ kBias) % d
      RoundsDown(b) == q < Midpoint[b] \/ (q = Midpoint[b] /\ r = 0 /\ b % 2 = 0)
  IN IF digits = 0 \/ exponent < -9 THEN 0
     ELSE IF exponent > 3 \/ n \div d >= 2 ^ (MaxExponent + 1) THEN Infinity
     ELSE CHOOSE b \in 0 .. Infinity :
            /\ b = Infinity \/ RoundsDown(b)
            /\ b = 0 \/ ~RoundsDown(b - 1)

-----------------------------------------------------------------------------
\* diyfp.

sub(x, y) == Diyfp(x.f - y.f, x.e)

\* The upper Width bits of the product, rounded.
mul(x, y) == Diyfp((x.f * y.f + 2 ^ (Width - 1)) \div 2 ^ Width, x.e + y.e + Width)

BitLength(n) == CHOOSE k \in 1 .. 31 : 2 ^ (k - 1) <= n /\ (k = 31 \/ n < 2 ^ k)

normalize_to(x, target) == Diyfp(x.f * 2 ^ (x.e - target), target)
normalize(x) == normalize_to(x, x.e - (Width - BitLength(x.f)))

BadBoundaries(bits) ==
  LET v == Decoded(bits)
      plus == normalize(Diyfp(2 * v.f + 1, v.e - 1))
      minus == Diyfp(2 * v.f - 3, v.e - 1)
  IN [w |-> normalize(v), minus |-> normalize_to(minus, plus.e), plus |-> plus]

\* The number and the midpoints to its neighbours; the lower neighbour of a power
\* of two is closer.
compute_boundaries(bits) ==
  LET v == Decoded(bits)
      closer == bits % HiddenBit = 0 /\ bits \div HiddenBit > 1
      plus == normalize(Diyfp(2 * v.f + 1, v.e - 1))
      minus == IF closer THEN Diyfp(4 * v.f - 1, v.e - 2) ELSE Diyfp(2 * v.f - 1, v.e - 1)
  IN [w |-> normalize(v), minus |-> normalize_to(minus, plus.e), plus |-> plus]

-----------------------------------------------------------------------------
\* Powers of ten.

\* The normalized diyfp next to 10^k, as a row of the table.
CachedPower(k) ==
  LET power == 10 ^ (IF k < 0 THEN -k ELSE k)
      e == IF k < 0 THEN -(Width - 1 + BitLength(power - 1)) ELSE BitLength(power) - Width
      f == IF k < 0 THEN (2 * 2 ^ (-e) + power) \div (2 * power)
           ELSE IF e < 0 THEN power * 2 ^ (-e)
           ELSE (2 * power + 2 ^ e) \div (2 * 2 ^ e)
  IN [f |-> f, e |-> e, k |-> k]

kCachedPowers ==
  [i \in 0 .. CachedPowers - 1 |-> CachedPower(kCachedPowersMinDecExp + i * kCachedPowersDecStep)]

\* C++ rounds a quotient towards zero.
Quotient(a, b) == IF a < 0 THEN -((-a) \div b) ELSE a \div b

\* The least row that brings the exponent of the product up to kAlpha.
get_cached_power_for_binary_exponent(e) ==
  LET f == kAlpha - e - 1
      k == Quotient(f * 78913, 2 ^ 18) + (IF f > 0 THEN 1 ELSE 0)
  IN kCachedPowers[(-kCachedPowersMinDecExp + k + kCachedPowersDecStep - 1) \div kCachedPowersDecStep]

\* 10^(k-1) <= n < 10^k, for what fits below the point.
find_largest_pow10(n) == CHOOSE k \in 1 .. 9 : n < 10 ^ k /\ (k = 1 \/ 10 ^ (k - 1) <= n)

-----------------------------------------------------------------------------
\* Digits.

\* The last digit is decremented while that brings the number closer to w.
RECURSIVE grisu2_round(_, _, _, _, _)
grisu2_round(buf, dist, delta, rest, ten_k) ==
  IF /\ rest < dist /\ delta - rest >= ten_k
     /\ rest + ten_k < dist \/ dist - rest > rest + ten_k - dist
  THEN grisu2_round([buf EXCEPT ![Len(buf)] = @ - 1], dist, delta, rest + ten_k, ten_k)
  ELSE buf

\* The digits behind the point.
RECURSIVE Fractional(_, _, _, _, _, _)
Fractional(buf, exponent, p2, delta, dist, one) ==
  LET d == (10 * p2) \div one
      r == (10 * p2) % one
      digits == Append(buf, d)
  IN IF r <= 10 * delta
     THEN [buf |-> grisu2_round(digits, 10 * dist, 10 * delta, r, one), exponent |-> exponent - 1]
     ELSE Fractional(digits, exponent - 1, r, 10 * delta, 10 * dist, one)

\* The digits in front of it, n of which are left; p1 and p2 are the parts of M+.
RECURSIVE Integral(_, _, _, _, _, _, _, _)
Integral(buf, exponent, n, p1, p2, delta, dist, one) ==
  LET pow10 == 10 ^ (n - 1)
      digits == Append(buf, p1 \div pow10)
      rest == (p1 % pow10) * one + p2
  IN IF n = 0 THEN Fractional(buf, exponent, p2, delta, dist, one)
     ELSE IF rest <= delta
     THEN [buf |-> grisu2_round(digits, dist, delta, rest, pow10 * one), exponent |-> exponent + n - 1]
     ELSE Integral(digits, exponent, n - 1, p1 % pow10, p2, delta, dist, one)

\* The digits of M+ from left to right, until they are a number in [M-, M+].
grisu2_digit_gen(exponent, M_minus, w, M_plus) ==
  LET one == 2 ^ (-M_plus.e)
      p1 == M_plus.f \div one
  IN Integral(<<>>, exponent, find_largest_pow10(p1), p1, M_plus.f % one,
              sub(M_plus, M_minus).f, sub(M_plus, w).f, one)

\* Everything is scaled by a power of ten; the bounds give way by one unit in the
\* last place for what the scaling rounded.
grisu2(bits) ==
  LET b == compute_boundaries(bits)
      cached == get_cached_power_for_binary_exponent(b.plus.e)
      c_minus_k == Diyfp(cached.f, cached.e)
      w_minus == mul(b.minus, c_minus_k)
      w_plus == mul(b.plus, c_minus_k)
  IN grisu2_digit_gen(-cached.k, Diyfp(w_minus.f + 1, w_minus.e), mul(b.w, c_minus_k),
                      Diyfp(w_plus.f - 1, w_plus.e))

-----------------------------------------------------------------------------
\* Text, as a sequence of ASCII codes.

Digit(d) == 48 + d
Digits(buf) == [i \in DOMAIN buf |-> Digit(buf[i])]
Zeros(n) == [i \in 1 .. n |-> Digit(0)]
Point == 46
Minus == 45
Plus == 43
Exp == 101

\* At least two digits.
append_exponent(e) ==
  LET k == IF e < 0 THEN -e ELSE e
  IN <<IF e < 0 THEN Minus ELSE Plus>>
     \o (IF k < 100 THEN <<>> ELSE <<Digit(k \div 100)>>)
     \o <<Digit((k % 100) \div 10), Digit(k % 10)>>

BadFormat(buf, exponent) ==
  LET k == Len(buf)
      n == k + exponent
  IN IF k <= n THEN Digits(buf) \o Zeros(n - k)
     ELSE <<Digit(0), Point>> \o Zeros(-n) \o Digits(buf)

\* buf * 10^exponent with a point in it or behind it, or with an exponent.
format_buffer(buf, exponent) ==
  LET k == Len(buf)
      n == k + exponent
      text == Digits(buf)
  IN IF k <= n /\ n <= kMaxExp THEN text \o Zeros(n - k) \o <<Point, Digit(0)>>
     ELSE IF 0 < n /\ n <= kMaxExp THEN SubSeq(text, 1, n) \o <<Point>> \o SubSeq(text, n + 1, k)
     ELSE IF kMinExp < n /\ n <= 0 THEN <<Digit(0), Point>> \o Zeros(-n) \o text
     ELSE <<text[1]>> \o (IF k = 1 THEN <<>> ELSE <<Point>> \o Tail(text))
          \o <<Exp>> \o append_exponent(n - 1)

\* A finite number, of either sign.
to_chars(neg, bits) ==
  (IF neg THEN <<Minus>> ELSE <<>>)
  \o (IF bits = 0 THEN <<Digit(0), Point, Digit(0)>>
      ELSE LET g == grisu2(bits) IN format_buffer(g.buf, g.exponent))

=============================================================================
