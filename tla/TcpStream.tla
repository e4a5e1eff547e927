------------------------------- MODULE TcpStream ------------------------------
(***************************************************************************)
(* The receive path of the Comm process, byte by byte: what TcpClient::recv*)
(* (src/tcp_client.cpp) reads from the ground station's connection,        *)
(* m_recv_buffer across connections, and the frames the TCP branch of the  *)
(* event loop (src/comm_main.cpp) hands on.  When a connection goes up or  *)
(* down is TcpClient's business; here both simply happen.                  *)
(***************************************************************************)
EXTENDS Protocol, FiniteSets

CONSTANTS Bodies,    \* what the station sends: JSON texts, and texts that are not
          Commands,  \* JSON objects with no white space around them, as dump() writes them
          MaxSent,   \* bound: frames sent on one connection
          MaxNoise,  \* bound: bytes of a behaviour that are sent without framing
          MaxConns   \* bound: connections of a behaviour

ASSUME StreamAssumption ==
  /\ Bodies \subseteq Seq(Byte \ {0})
  /\ \A b \in Bodies : Len(b) <= MaxBody
  /\ MaxSent \in Nat
  /\ MaxNoise \in Nat
  /\ MaxConns \in Nat

\* Of the station's messages: no command begins in the header of a frame or within a
\* header's length of the body's beginning, but for the body itself.  (Within an object
\* another begins at the fifth byte at the earliest.)
ASSUME VocabularyAssumption ==
  /\ Commands \subseteq Json
  /\ \A b \in Bodies : \A first \in 2 .. 2 * HeaderLen, last \in 1 .. HeaderLen + Len(b) :
       LET piece == SubSeq(Encode(b), first, last)
       IN  piece \in Commands => piece = b

VARIABLES
  connected,      \* m_state = TcpState::CONNECTED
  m_recv_buffer,  \* the client's unparsed bytes
  wire,           \* bytes of this connection the client has not read
  conns,          \* connections established so far
  \* History, read by the properties only.
  stream,         \* every byte sent on this connection
  sent,           \* bodies the station sent on this connection
  due,            \* those of them that are JSON
  got,            \* frames recv returned on this connection
  leftover,       \* m_recv_buffer when this connection was established
  everSent,       \* bodies the station sent on any connection
  noise           \* bytes sent without framing on any connection

vars == <<connected, m_recv_buffer, wire, conns, stream, sent, due, got, leftover, everSent, noise>>

Init ==
  /\ connected = FALSE /\ m_recv_buffer = <<>> /\ wire = <<>>
  /\ conns = 0 /\ stream = <<>> /\ sent = <<>> /\ due = <<>> /\ got = <<>> /\ leftover = <<>>
  /\ everSent = {} /\ noise = 0

-----------------------------------------------------------------------------

\* A connection is established; nothing on the way resets m_recv_buffer.
Connect ==
  /\ ~connected
  /\ conns < MaxConns
  /\ connected' = TRUE
  /\ wire' = <<>>
  /\ conns' = conns + 1
  /\ stream' = <<>> /\ sent' = <<>> /\ due' = <<>> /\ got' = <<>> /\ leftover' = m_recv_buffer
  /\ UNCHANGED <<m_recv_buffer, everSent, noise>>

BadReadableKeeps(n) ==
  /\ connected
  /\ LET res == parseFrame[m_recv_buffer \o SubSeq(wire, 1, n)]
     IN  /\ m_recv_buffer' = m_recv_buffer \o SubSeq(wire, 1, n)
         /\ got' = IF res.ok THEN Append(got, res.frame) ELSE got
  /\ wire' = SubSeq(wire, n + 1, Len(wire))
  /\ UNCHANGED <<connected, conns, stream, sent, due, leftover, everSent, noise>>

\* EPOLLIN: recv drains the n bytes that have arrived, up to EAGAIN, and then
\* takes at most one frame out of the buffer.
Readable(n) ==
  /\ connected
  /\ LET res == parseFrame[m_recv_buffer \o SubSeq(wire, 1, n)]
     IN  /\ m_recv_buffer' = res.buffer
         /\ got' = IF res.ok THEN Append(got, res.frame) ELSE got
  /\ wire' = SubSeq(wire, n + 1, Len(wire))
  /\ UNCHANGED <<connected, conns, stream, sent, due, leftover, everSent, noise>>

\* onDisconnected, for whatever reason.  When it is recv that meets the end of
\* the stream or an error, the n bytes it has read are in the buffer already,
\* and it leaves without parsing.  The buffer outlives the socket.
Disconnect(n) ==
  /\ connected
  /\ connected' = FALSE
  /\ m_recv_buffer' = m_recv_buffer \o SubSeq(wire, 1, n)
  /\ wire' = <<>>
  /\ UNCHANGED <<conns, stream, sent, due, got, leftover, everSent, noise>>

\* The ground station, a well-behaved one: whole frames, one after the other.
StationSend(b) ==
  /\ connected
  /\ Len(sent) < MaxSent /\ noise = 0
  /\ wire' = wire \o Encode(b)
  /\ stream' = stream \o Encode(b)
  /\ sent' = Append(sent, b)
  /\ due' = IF b \in Json THEN Append(due, b) ELSE due
  /\ everSent' = everSent \cup {b}
  /\ UNCHANGED <<connected, m_recv_buffer, conns, got, leftover, noise>>

\* One that is not: any bytes, on its first connection.
StationBabbles(b) ==
  /\ connected
  /\ conns = 1 /\ sent = <<>> /\ noise < MaxNoise
  /\ wire' = Append(wire, b)
  /\ stream' = Append(stream, b)
  /\ noise' = noise + 1
  /\ UNCHANGED <<connected, m_recv_buffer, conns, sent, due, got, leftover, everSent>>

Next ==
  \/ Connect
  \/ \E n \in 1 .. Len(wire) : Readable(n)
  \/ \E n \in 0 .. Len(wire) : Disconnect(n)
  \/ \E b \in Bodies : StationSend(b)
  \/ \E b \in Byte : StationBabbles(b)

Spec == Init /\ [][Next]_vars

-----------------------------------------------------------------------------

\* Frames begin at offset 0 and right behind every acceptable frame.
From(p) == SubSeq(stream, p + 1, Len(stream))
FrameAt(p) == Complete(From(p))
FrameStarts ==
  LET start[p \in 0 .. Len(stream)] ==
        p = 0 \/ \E q \in 0 .. p - 1 : /\ start[q]
                                        /\ FrameAt(q)
                                        /\ p = q + HeaderLen + BodyLen(From(q))
  IN  {p \in 0 .. Len(stream) : start[p]}

Framed == {p \in FrameStarts : FrameAt(p) /\ Text(Body(From(p))) \in Json}

\* However the bytes of a connection are cut into reads, and whatever they are,
\* those the client holds and those on the wire begin where a frame begins, and
\* behind the frames recv has returned, which are the JSON bodies in front, in
\* order: recv and parseFrame lose, repeat and reorder nothing, and a bad packet
\* costs itself only.  Stated of connections that began with an empty m_recv_buffer.
StreamIntact ==
  connected /\ leftover = <<>> =>
    \E p \in FrameStarts :
      LET taken == {q \in Framed : q < p}
          nth(q) == Cardinality({r \in taken : r <= q})
      IN  /\ Len(got) = Cardinality(taken)
          /\ \A q \in taken : got[nth(q)] = Text(Body(From(q)))
          /\ m_recv_buffer \o wire = From(p)

\* Bytes left over from an earlier connection can garble what follows them, even into
\* a JSON text that nobody sent: a length byte may be a digit, and a text may be cut
\* short behind a string.  But never into a command: a header whose first byte is not
\* 0 is refused, so a body begins near the beginning of one that was sent.
NoCommandInvented ==
  noise = 0 => \A i \in DOMAIN got : got[i] \in Commands => got[i] \in everSent

-----------------------------------------------------------------------------

\* Every connection that began with an empty m_recv_buffer is a FrameChannel, to
\* a station that sends frames.
Clean == connected /\ leftover = <<>> /\ noise = 0

Channel == INSTANCE FrameChannel WITH
  Message   <- Json,
  open      <- Clean,
  queue     <- IF Clean THEN SubSeq(due, Len(got) + 1, Len(due)) ELSE <<>>,
  delivered <- IF Clean THEN got ELSE <<>>

ImplementsChannel == Channel!Spec

=============================================================================
