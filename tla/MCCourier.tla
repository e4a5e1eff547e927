------------------------------- MODULE MCCourier -------------------------------
(* Texts of seven kinds.  Doubles have 5 bits of precision and 4 of exponent, and  *)
(* integers up to 99, so that TLC can look at every report and at literals on    *)
(* both sides of every boundary; the proportions of Grisu2's parameters are      *)
(* those of json.hpp.                                                            *)
EXTENDS Courier

Bytes(s) == {<<b>> : b \in s}

\* [ ] { } , : "a" "b" 1 space true
Structures == Bytes({91, 93, 123, 125, 44, 58, 49, 32}) \cup {<<34, 97, 34>>, <<34, 98, 34>>, TrueText}
\* UTF-8: lead and trailing bytes at the ends of every range
Strings == Bytes({34, 97, 127, 128, 143, 144, 159, 160, 191, 193, 194, 223, 224, 225, 237, 240, 244, 245})
\* " \ n NUL \u d83d de00 0000 001f 005c
Escaping == Bytes({34, 92, 110, 0}) \cup {<<92, 117>>, <<100, 56, 51, 100>>, <<100, 101, 48, 48>>,
            <<48, 48, 48, 48>>, <<48, 48, 49, 102>>, <<48, 48, 53, 99>>}
\* {"cmd":"SET_SPEED","params":{"speed": and }} around - . 0 1 5 9 e e-
Numbers == {Prefix, Suffix} \cup {<<101, 45>>} \cup Bytes({45, 46, 48, 49, 53, 57, 101})
\* { } "cmd": ,"params": {"speed": "SET_SPEED" "START_SPRAY" null
Named(s) == <<34>> \o s \o <<34>>
Commands == {<<123>>, <<125>>, NullText, Named(Cmd) \o <<58>>, <<44>> \o Named(Params) \o <<58>>,
             <<123>> \o Named(Speed) \o <<58>>, Named(SET_SPEED), Named(START_SPRAY)}
\* A byte order mark, whole or not, zero bytes, 1 space e +
Marks == Bytes({239, 187, 191, 0, 49, 32, 101, 43})
\* [1e1 ,1e1,1e1,1e1 ] which are written with 10.0: texts up to the limit, below and above
Growing == {<<91, 49, 101, 49>>, <<44, 49, 101, 49, 44, 49, 101, 49, 44, 49, 101, 49>>, <<93>>}

MCAlphabets == {Structures, Strings, Escaping, Numbers, Commands, Marks, Growing}
MCMaxPieces == (Structures :> 6) @@ (Strings :> 6) @@ (Escaping :> 6) @@ (Numbers :> 6)
               @@ (Commands :> 8) @@ (Marks :> 5) @@ (Growing :> 6)
MCClimb == Finite
Alpha == -10
Gamma == -2
MinDecExp == -2
MinExp == -1
MinInt == -50
=============================================================================
