-------------------------------- MODULE JsonDump -------------------------------
(***************************************************************************)
(* dump() of json.hpp, as the program calls it: no indentation, strings as *)
(* in JsonString.  The result is a text and whether it was written without *)
(* an exception.                                                           *)
(***************************************************************************)
EXTENDS JsonParser

-----------------------------------------------------------------------------
\* Numbers.

RECURSIVE DecimalText(_)
DecimalText(n) == (IF n < 10 THEN <<>> ELSE DecimalText(n \div 10)) \o <<Digit(n % 10)>>

dump_integer(n) == IF n < 0 THEN <<Minus>> \o DecimalText(-n) ELSE DecimalText(n)

\* What is not finite is written as null.
dump_float(v) == IF v.bits >= Infinity THEN NullText ELSE to_chars(v.neg, v.bits)

-----------------------------------------------------------------------------
\* Values.

Written(text) == [ok |-> TRUE, text |-> text]
Around(first, parts, last) ==
  [ok |-> \A i \in DOMAIN parts : parts[i].ok,
   text |-> <<first>> \o FlattenSeq([i \in DOMAIN parts |->
                (IF i = 1 THEN <<>> ELSE <<Comma>>) \o parts[i].text]) \o <<last>>]
Quoted(s) == LET d == dump_escaped(s)
             IN [ok |-> d.ok, text |-> <<Quote>> \o d.text \o <<Quote>>]
Pair(name, v) == [ok |-> name.ok /\ v.ok, text |-> name.text \o <<Colon>> \o v.text]

RECURSIVE dump(_)
dump(v) ==
  CASE v.type = "object" ->
         LET keys == Keys(v)
         IN Around(OpenBrace, [i \in DOMAIN keys |-> Pair(Quoted(keys[i]), dump(v.fields[keys[i]]))], CloseBrace)
    [] v.type = "array" -> Around(Open, [i \in DOMAIN v.items |-> dump(v.items[i])], Close)
    [] v.type = "string" -> Quoted(v.string)
    [] v.type = "boolean" -> Written(IF v.boolean THEN TrueText ELSE FalseText)
    [] v.type \in {"number_integer", "number_unsigned"} -> Written(dump_integer(v.integer))
    [] v.type = "number_float" -> Written(dump_float(v))
    [] v.type = "null" -> Written(NullText)

=============================================================================
