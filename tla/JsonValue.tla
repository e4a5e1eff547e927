------------------------------- MODULE JsonValue -------------------------------
(***************************************************************************)
(* A JSON value as json.hpp keeps it.  A string is a sequence of bytes; an *)
(* object is a function from its keys, which std::map keeps in the order   *)
(* of their bytes; a floating-point number has the bits of JsonFloat.      *)
(***************************************************************************)
EXTENDS Integers, Sequences, SequencesExt, FiniteSets, Functions

Null           == [type |-> "null"]
Boolean(b)     == [type |-> "boolean", boolean |-> b]
Unsigned(n)    == [type |-> "number_unsigned", integer |-> n]
Integer(n)     == [type |-> "number_integer", integer |-> n]
Float(neg, b)  == [type |-> "number_float", neg |-> neg, bits |-> b]
String(s)      == [type |-> "string", string |-> s]
Array(items)   == [type |-> "array", items |-> items]
Object(fields) == [type |-> "object", fields |-> fields]

EmptyObject == Object([k \in {} |-> Null])

\* (*object)[key] = v: what the key had before is gone.
Inserted(object, key, v) == Object([k \in DOMAIN object.fields \cup {key} |->
                                      IF k = key THEN v ELSE object.fields[k]])

contains(v, key) == v.type = "object" /\ key \in DOMAIN v.fields
member(v, key) == v.fields[key]

\* std::less of two strings.
RECURSIVE Less(_, _)
Less(s, t) == IF s = <<>> \/ t = <<>> THEN s = <<>> /\ t # <<>>
              ELSE Head(s) < Head(t) \/ (Head(s) = Head(t) /\ Less(Tail(s), Tail(t)))

\* The keys, in the order in which the object is walked.
Keys(object) ==
  LET keys == DOMAIN object.fields
  IN [i \in 1 .. Cardinality(keys) |-> CHOOSE k \in keys : Cardinality({j \in keys : Less(j, k)}) = i - 1]

=============================================================================
