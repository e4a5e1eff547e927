------------------------------- MODULE Protocol -------------------------------
(***************************************************************************)
(* The length-prefixed frame decoder, parseFrame of src/protocol.cpp: a    *)
(* big-endian length of HeaderLen bytes (FRAME_HEADER_LEN), then that many *)
(* bytes of JSON.  The byte alphabet, the header size and the 1 MB limit   *)
(* are parameters, so that small instances keep the arithmetic that decides*)
(* what a header read from the middle of another frame looks like.         *)
(***************************************************************************)
EXTENDS Integers, Sequences

CONSTANTS HeaderLen,  \* bytes of the length header (4)
          Base,       \* values of a byte (256)
          MaxBody,    \* largest accepted body (1024 * 1024)
          Json        \* the texts json::parse accepts

Byte == 0 .. Base - 1

ASSUME ProtocolAssumption ==
  /\ HeaderLen \in Nat \ {0}
  /\ Base \in Nat \ {0, 1}
  /\ MaxBody \in Nat
  /\ Json \subseteq Seq(Byte \ {0}) \ {<<>>}

-----------------------------------------------------------------------------

\* ntohl of the first HeaderLen bytes.
BodyLen(buf) ==
  LET be[i \in 0 .. HeaderLen] == IF i = 0 THEN 0 ELSE Base * be[i - 1] + buf[i]
  IN  be[HeaderLen]

\* A header can hold every length up to the limit of 1 MB, and its first byte is 0 in
\* all of them.
ASSUME LimitAssumption ==
  LET Headers == [1 .. HeaderLen -> Byte]
  IN  /\ \A n \in 0 .. MaxBody : \E h \in Headers : BodyLen(h) = n
      /\ \A h \in Headers : BodyLen(h) <= MaxBody => h[1] = 0

\* A definition called Bad... is a mistake that could have been made in the one
\* that follows; nothing uses it.

\* The header is there, is within the limit, and its whole body has arrived.
HasHeader(buf) == Len(buf) >= HeaderLen

BadOversized(buf) == HasHeader(buf) /\ BodyLen(buf) > Base * Base * MaxBody

Oversized(buf) == HasHeader(buf) /\ BodyLen(buf) > MaxBody
Complete(buf)  == /\ HasHeader(buf)
                  /\ ~Oversized(buf)
                  /\ Len(buf) >= HeaderLen + BodyLen(buf)

Body(buf) == SubSeq(buf, HeaderLen + 1, HeaderLen + BodyLen(buf))

BadRest(buf) == SubSeq(buf, HeaderLen + BodyLen(buf) + 2, Len(buf))

Rest(buf) == SubSeq(buf, HeaderLen + BodyLen(buf) + 1, Len(buf))

\* What json::parse reads of a body: to its lexer a zero byte is the end of the input.
Text(body) ==
  LET ends == {n \in 0 .. Len(body) : n = Len(body) \/ body[n + 1] = 0}
  IN  SubSeq(body, 1, CHOOSE n \in ends : \A other \in ends : n <= other)

\* The loop of parseFrame: a complete frame whose body is not JSON is dropped
\* and the next one is tried; anything incomplete or oversized ends the call
\* and stays in the buffer.
parseFrame[buf \in Seq(Byte)] ==
  IF ~Complete(buf)
    THEN [ok |-> FALSE, frame |-> <<>>, buffer |-> buf]
  ELSE IF Text(Body(buf)) \in Json
    THEN [ok |-> TRUE, frame |-> Text(Body(buf)), buffer |-> Rest(buf)]
  ELSE parseFrame[Rest(buf)]

-----------------------------------------------------------------------------

\* The header htonl(body.length()) as the senders write it: what ntohl reads as n.
Header(n) == CHOOSE h \in [1 .. HeaderLen -> Byte] : BodyLen(h) = n

\* One frame on the wire.
Encode(body) == Header(Len(body)) \o body

=============================================================================
