--------------------------- MODULE TcpClientProofs ----------------------------
(* Invariance proofs for TcpClient: types, LinkObserved and TimelyDetection    *)
(* for every choice of the intervals, and NoPrematureTimeout and               *)
(* AttemptsBackOff for kernels whose connect(2) never succeeds at once.        *)
EXTENDS TcpClient, Induction

USE DEF NoFd, Fd, Never

-----------------------------------------------------------------------------
(* The methods.                                                                *)

\* What every method preserves of the object: its type, and that it has a
\* watched socket exactly when it is not DISCONNECTED.
Held(c) ==
  /\ c \in Client
  /\ c.state = "DISCONNECTED" <=> c.fd = NoFd
  /\ c.state = "CONNECTED" => "IN" \in c.interest
  /\ c.state = "CONNECTING" => c.interest = {"IN", "OUT"}

\* A failure leaves the client without a socket.
LEMMA FailHeld ==
  ASSUME NEW c \in Client
  PROVE  Held(handleFail(c)) /\ handleFail(c).state = "DISCONNECTED"
<1>1. close(c) \in Client /\ close(c).state = "DISCONNECTED" /\ close(c).fd = NoFd
  BY DEF close, Client
<1>2. 0 \in Age /\ \A b \in 1 .. MaxBackoff : Lesser(2 * b, MaxBackoff) \in 1 .. MaxBackoff
  BY TcpClientAssumption DEF Age, Horizon, Lesser
<1>. QED
  BY <1>1, <1>2 DEF handleFail, Held, Client

\* onDisconnected preserves Held and ends DISCONNECTED.
LEMMA DisconnectedHeld ==
  ASSUME NEW c, Held(c)
  PROVE  Held(onDisconnected(c)) /\ onDisconnected(c).state = "DISCONNECTED"
BY FailHeld DEF Held, onDisconnected

\* resetHeartbeatTimer and onDataReceived set timers only.
LEMMA TimersHeld ==
  ASSUME NEW c, Held(c)
  PROVE  /\ Held(resetHeartbeatTimer(c)) /\ Held(onDataReceived(c))
         /\ resetHeartbeatTimer(c).state = c.state /\ resetHeartbeatTimer(c).recv = 0
         /\ onDataReceived(c).state = c.state /\ onDataReceived(c).recv = 0
<1>1. 0 \in Age
  BY TcpClientAssumption DEF Age, Horizon
<1>. QED
  BY <1>1 DEF Held, Client, resetHeartbeatTimer, onDataReceived

\* A heartbeat leaves the receive timer alone, unless it drops the link.
LEMMA SendHeld ==
  ASSUME NEW c, Held(c), NEW sent \in BOOLEAN
  PROVE  /\ Held(sendHeartbeat(c, sent))
         /\ sendHeartbeat(c, sent).state = "CONNECTED" =>
              c.state = "CONNECTED" /\ sendHeartbeat(c, sent).recv = c.recv
<1>1. 0 \in Age
  BY TcpClientAssumption DEF Age, Horizon
<1>. QED
  BY <1>1, DisconnectedHeld DEF Held, Client, sendHeartbeat

\* A link that survives the check has heard a frame recently.
LEMMA CheckHeld ==
  ASSUME NEW c, Held(c)
  PROVE  LET d == checkHeartbeatTimeout(c)
         IN  /\ Held(d)
             /\ d.state = "CONNECTED" =>
                  /\ c.state = "CONNECTED"
                  /\ d.recv # Never /\ d.recv < HbTimeout
                  /\ d.recv = IF c.recv = Never THEN c.send ELSE c.recv
<1>. DEFINE recv == IF c.recv = Never THEN c.send ELSE c.recv
            d == [c EXCEPT !.recv = recv]
<1>1. recv \in Age /\ Held(d)
  BY DEF Held, Client
<1>2. CASE c.state # "CONNECTED"
  BY <1>2 DEF checkHeartbeatTimeout
<1>3. CASE c.state = "CONNECTED" /\ recv >= HbTimeout
  <2>1. checkHeartbeatTimeout(c) = onDisconnected(d)
    BY <1>3 DEF checkHeartbeatTimeout
  <2>. QED
    BY <2>1, <1>1, DisconnectedHeld
<1>4. CASE c.state = "CONNECTED" /\ ~(recv >= HbTimeout)
  <2>1. checkHeartbeatTimeout(c) = d
    BY <1>4 DEF checkHeartbeatTimeout
  <2>2. d.recv = recv /\ d.state = "CONNECTED"
    BY <1>4 DEF Held, Client
  <2>. QED
    BY <2>1, <2>2, <1>1, <1>4, TcpClientAssumption DEF Age
<1>. QED
  BY <1>2, <1>3, <1>4

\* A connection that completes starts with fresh timers.
LEMMA ResultHeld ==
  ASSUME NEW c, Held(c), NEW error \in BOOLEAN
  PROVE  /\ Held(connectionResult(c, error))
         /\ connectionResult(c, error).state = "CONNECTED" =>
              \/ connectionResult(c, error) = c
              \/ c.state = "CONNECTING" /\ connectionResult(c, error).recv = 0
<1>. DEFINE up == [c EXCEPT !.state = "CONNECTED", !.backoff = 1, !.interest = {"IN"}]
<1>1. CASE c.state # "CONNECTING"
  BY <1>1 DEF connectionResult
<1>2. CASE c.state = "CONNECTING" /\ error
  BY <1>2, FailHeld DEF connectionResult, Held
<1>3. CASE c.state = "CONNECTING" /\ ~error
  <2>1. Held(up)
    <3>1. 1 \in 1 .. MaxBackoff /\ {"IN"} \in SUBSET {"IN", "OUT"} /\ "IN" \in {"IN"}
      BY TcpClientAssumption
    <3>2. up \in Client /\ up.state = "CONNECTED" /\ up.interest = {"IN"} /\ up.fd = c.fd
      BY <3>1 DEF Held, Client
    <3>. QED
      BY <1>3, <3>1, <3>2 DEF Held
  <2>2. connectionResult(c, error) = resetHeartbeatTimer(up)
    BY <1>3 DEF connectionResult
  <2>. QED
    BY <1>3, <2>1, <2>2, TimersHeld
<1>. QED
  BY <1>1, <1>2, <1>3

\* A read drops the link, or refreshes the receive timer on a whole frame.
LEMMA ReadHeld ==
  ASSUME NEW c, Held(c), NEW found
  PROVE  /\ Held(readable(c, found))
         /\ readable(c, found).state = "CONNECTED" =>
              /\ c.state = "CONNECTED"
              /\ found = "frame" => readable(c, found).recv = 0
              /\ found # "frame" => readable(c, found) = c
<1>1. CASE c.fd = NoFd
  BY <1>1 DEF readable, Held
<1>2. CASE c.fd # NoFd /\ found \in {"eof", "reset"}
  BY <1>2, DisconnectedHeld DEF readable
<1>3. CASE c.fd # NoFd /\ found = "frame"
  BY <1>3, TimersHeld DEF readable
<1>4. CASE c.fd # NoFd /\ found \notin {"eof", "reset", "frame"}
  BY <1>4 DEF readable
<1>. QED
  BY <1>1, <1>2, <1>3, <1>4

-----------------------------------------------------------------------------
(* Types and LinkObserved.                                                     *)

LinkInv == TypeOK /\ LinkObserved

\* Registration with epoll ends with a fully watched socket or with none.
LEMMA RegisteredHeld ==
  ASSUME NEW c \in Client, c.fd # NoFd, c.state # "DISCONNECTED", NEW ok \in BOOLEAN
  PROVE  /\ Held(Registered(c, ok))
         /\ Registered(c, ok).fd = NoFd <=> ~ok
         /\ Registered(c, ok).state = "CONNECTED" => Registered(c, ok).recv = c.recv
<1>1. CASE ok
  <2>. DEFINE d == [c EXCEPT !.interest = {"IN", "OUT"}]
  <2>1. /\ d \in Client /\ d.interest = {"IN", "OUT"} /\ d.fd = c.fd
        /\ d.state = c.state /\ d.recv = c.recv
    BY DEF Client
  <2>2. Registered(c, ok) = d
    BY <1>1 DEF Registered
  <2>. QED
    BY <1>1, <2>1, <2>2 DEF Held
<1>2. CASE ~ok
  <2>1. Registered(c, ok) = close(c)
    BY <1>2 DEF Registered
  <2>2. close(c) \in Client /\ close(c).state = "DISCONNECTED" /\ close(c).fd = NoFd
    BY DEF close, Client
  <2>. QED
    BY <1>2, <2>1, <2>2 DEF Held
<1>. QED
  BY <1>1, <1>2

\* The link invariant speaks of the client only through Held.
LEMMA LinkInvHeld ==
  LinkInv <=> /\ Held(client)
              /\ client.state = "DISCONNECTED" <=> sock = "none"
              /\ TypeOK
BY DEF LinkInv, LinkObserved, TypeOK, Held

\* Counting up to the Horizon stays within Age.
LEMMA AgeFacts ==
  /\ 0 \in Age /\ Horizon \in Age
  /\ \A a \in Age : Lesser(a + 1, Horizon) \in Age
  /\ \A a \in Age, s \in 1 .. MaxWait : Older(a, s) \in Age
  /\ \A s : Older(Never, s) = Never
BY TcpClientAssumption DEF Age, Horizon, Lesser, Older

\* Record and Settle keep their variables in their types.
LEMMA RecordType ==
  ASSUME TypeOK, NEW mid, NEW found, Record(mid, found)
  PROVE  silence' \in Age /\ fails' \in Age
BY AgeFacts DEF TypeOK, Record

\* The link invariant holds at the start.
LEMMA LinkInit == Init => LinkInv
<1>1. SUFFICES ASSUME Init PROVE LinkInv
  OBVIOUS
<1>2. client \in Client
  BY <1>1, AgeFacts, TcpClientAssumption DEF Init, Client
<1>. QED
  BY <1>1, <1>2, AgeFacts DEF Init, LinkInv, TypeOK, LinkObserved

\* Every step keeps types and LinkObserved.
LEMMA LinkNext == LinkInv /\ [Next]_vars => LinkInv'
<1>. SUFFICES ASSUME LinkInv, [Next]_vars PROVE LinkInv'
  OBVIOUS
<1>. USE DEF LinkInv
<1>h. Held(client) /\ (client.state = "DISCONNECTED" <=> sock = "none") /\ client \in Client
  BY LinkInvHeld DEF TypeOK
<1>s. ASSUME Held(client'), TypeOK', client'.state = "DISCONNECTED" <=> sock' = "none"
      PROVE  LinkInv'
  BY <1>s DEF LinkObserved, Held
<1>1. CASE NoAttempt \/ SocketFails
  BY <1>1 DEF NoAttempt, SocketFails, TypeOK, LinkObserved
<1>2. ASSUME NEW added \in BOOLEAN, ConnectStarts(added) PROVE LinkInv'
  <2>. DEFINE c == [client EXCEPT !.state = "CONNECTING", !.fd = Fd, !.attempt = 0]
  <2>1. client' = Registered(c, added) /\ Settle("syn")
    BY <1>2 DEF ConnectStarts
  <2>c. c \in Client /\ c.fd # NoFd /\ c.state = "CONNECTING"
    <3>1. c.fd = Fd /\ c.state = "CONNECTING"
      BY <1>h DEF Client
    <3>2. c \in Client
      BY <1>h, AgeFacts DEF Client
    <3>. QED
      BY <3>1, <3>2
  <2>. HIDE DEF c
  <2>2. Held(client') /\ (client'.fd = NoFd <=> ~added)
    BY <2>1, <2>c, RegisteredHeld
  <2>3. sock' = (IF added THEN "syn" ELSE "none")
        /\ inbox' \in {"nothing", inbox}
    BY <2>1, <2>2 DEF Settle
  <2>4. TypeOK'
    BY <1>2, <2>2, <2>3, AgeFacts DEF ConnectStarts, TypeOK, Held
  <2>. QED
    BY <1>s, <2>2, <2>3, <2>4 DEF Held
<1>3. ASSUME NEW added \in BOOLEAN, ConnectSucceeds(added) PROVE LinkInv'
  <2>. DEFINE c == [client EXCEPT !.state = "CONNECTED", !.fd = Fd, !.backoff = 1]
  <2>1. client' = Registered(c, added) /\ Settle("open")
    BY <1>3 DEF ConnectSucceeds
  <2>0. 1 \in 1 .. MaxBackoff
    BY TcpClientAssumption
  <2>c. c \in Client /\ c.fd # NoFd /\ c.state = "CONNECTED"
    <3>1. c.fd = Fd /\ c.state = "CONNECTED"
      BY <1>h DEF Client
    <3>2. c \in Client
      BY <1>h, <2>0 DEF Client
    <3>. QED
      BY <3>1, <3>2
  <2>. HIDE DEF c
  <2>2. Held(client') /\ (client'.fd = NoFd <=> ~added)
    BY <2>1, <2>c, RegisteredHeld
  <2>3. sock' = (IF added THEN "open" ELSE "none")
        /\ inbox' \in {"nothing", inbox}
    BY <2>1, <2>2 DEF Settle
  <2>4. TypeOK'
    BY <1>3, <2>2, <2>3, AgeFacts DEF ConnectSucceeds, TypeOK, Held
  <2>. QED
    BY <1>s, <2>2, <2>3, <2>4 DEF Held
<1>4. CASE ConnectFails
  <2>1. Held(client') /\ client'.state = "DISCONNECTED" /\ sock' = sock
        /\ client.state = "DISCONNECTED"
    BY <1>4, <1>h, FailHeld DEF ConnectFails, Due
  <2>2. TypeOK'
    BY <1>4, <2>1, AgeFacts DEF ConnectFails, TypeOK, Held
  <2>. QED
    BY <1>s, <1>h, <2>1, <2>2
<1>d. ASSUME Held(client'), Settle(sock), pc' \in {"check", "wait", "connect", "tcp"},
             Record(client, "nothing"), UNCHANGED <<reachable, sinceCall>>,
             client'.state # "DISCONNECTED" => client.state # "DISCONNECTED"
      PROVE  LinkInv'
  <2>1. TypeOK'
    BY <1>d, RecordType DEF TypeOK, Settle, Held
  <2>2. client'.state = "DISCONNECTED" <=> sock' = "none"
    BY <1>d, <1>h DEF Settle, Held
  <2>. QED
    BY <1>s, <1>d, <2>1, <2>2
<1>5. CASE SendHeartbeat
  <2>1. PICK sent \in BOOLEAN : client' = sendHeartbeat(client, sent)
    BY <1>5 DEF SendHeartbeat
  <2>2. client'.state # "DISCONNECTED" => client.state # "DISCONNECTED"
    BY <2>1, <1>h DEF sendHeartbeat
  <2>. QED
    BY <1>5, <1>d, <1>h, <2>1, <2>2, SendHeld DEF SendHeartbeat
<1>6. CASE CheckHeartbeatTimeout
  <2>1. client'.state # "DISCONNECTED" => client.state # "DISCONNECTED"
    BY <1>6, <1>h DEF CheckHeartbeatTimeout, checkHeartbeatTimeout
  <2>. QED
    BY <1>6, <1>d, <1>h, <2>1, CheckHeld DEF CheckHeartbeatTimeout
<1>7. CASE Tick
  <2>1. PICK s \in 1 .. MaxWait :
          /\ client' = [client EXCEPT !.attempt = Older(@, s), !.send = Older(@, s),
                                      !.recv = Older(@, s)]
          /\ silence' = Older(silence, s)
          /\ sinceCall' = Older(sinceCall, s)
    BY <1>7 DEF Tick
  <2>2. Held(client') /\ client'.state = client.state
    BY <2>1, <1>h, AgeFacts DEF Held, Client
  <2>3. TypeOK'
    BY <1>7, <2>1, <2>2, AgeFacts DEF Tick, TypeOK, Held
  <2>. QED
    BY <1>7, <1>s, <1>h, <2>2, <2>3 DEF Tick
<1>8. CASE EndOfPass
  BY <1>8 DEF EndOfPass, TypeOK, LinkObserved
<1>9. CASE TcpEvent
  <2>. DEFINE broken == sock = "refused" \/ inbox = "reset"
              c1 == IF "OUT" \in Events THEN connectionResult(client, broken) ELSE client
              c2 == IF "IN" \in Events THEN readable(c1, inbox) ELSE c1
              c3 == IF "ERR" \in Events THEN onDisconnected(c2) ELSE c2
  <2>1. /\ client.fd # NoFd
        /\ client' = c3
        /\ sock' = IF c3.fd = NoFd THEN "none" ELSE sock
        /\ inbox' \in {"nothing", inbox} /\ pc' \in {"connect", "ipc"}
        /\ UNCHANGED <<reachable, sinceCall>>
    BY <1>9 DEF TcpEvent
  <2>2. Record(c1, IF "IN" \in Events THEN inbox ELSE "nothing")
    BY <1>9 DEF TcpEvent
  <2>3. Held(c1)
    BY <1>h, ResultHeld, broken \in BOOLEAN
  <2>4. Held(c2)
    BY <2>3, ReadHeld
  <2>5. Held(c3)
    BY <2>4, DisconnectedHeld
  <2>. HIDE DEF c1, c2, c3
  <2>6. TypeOK'
    BY <2>1, <2>2, <2>5, RecordType DEF TypeOK, Held
  <2>7. client'.state = "DISCONNECTED" <=> sock' = "none"
    BY <2>1, <2>5, <1>h DEF Held
  <2>. QED
    BY <1>s, <2>1, <2>5, <2>6, <2>7
<1>10. CASE IpcEvent
  <2>1. Held(client') /\ (client'.state # "DISCONNECTED" => client.state # "DISCONNECTED")
    BY <1>10, <1>h, DisconnectedHeld DEF IpcEvent
  <2>2. pc' \in {"connect", "tcp"}
    BY <1>10 DEF IpcEvent
  <2>. QED
    BY <1>10, <1>d, <2>1, <2>2 DEF IpcEvent
<1>11. CASE Network
  <2>1. CASE HandshakeEnds
    BY <2>1 DEF HandshakeEnds, TypeOK, LinkObserved
  <2>2. CASE NetworkChanges
    BY <2>2 DEF NetworkChanges, TypeOK, LinkObserved
  <2>3. ASSUME NEW found \in {"bytes", "frame", "eof", "reset"}, Arrives(found)
        PROVE  LinkInv'
    BY <2>3 DEF Arrives, TypeOK, LinkObserved
  <2>. QED
    BY <1>11, <2>1, <2>2, <2>3 DEF Network
<1>12. CASE UNCHANGED vars
  BY <1>12 DEF vars, TypeOK, LinkObserved
<1>. QED
  BY <1>1, <1>2, <1>3, <1>4, <1>5, <1>6, <1>7, <1>8, <1>9, <1>10, <1>11, <1>12 DEF Next, Loop

\* Type correctness of TcpClient.
THEOREM TypeCorrect == Spec => []TypeOK
<1>1. LinkInv => TypeOK
  BY DEF LinkInv
<1>. QED
  BY <1>1, LinkInit, LinkNext, PTL DEF Spec

\* A link the client believes in is always a socket that epoll watches, and
\* nothing else ever is: tryConnect, checkConnectionResult, the heartbeats and
\* the event loop leave no half-open state behind.
THEOREM LinkIsObserved == Spec => []LinkObserved
<1>1. LinkInv => LinkObserved
  BY DEF LinkInv
<1>. QED
  BY <1>1, LinkInit, LinkNext, PTL DEF Spec

-----------------------------------------------------------------------------
(* The heartbeat timer.                                                        *)

\* The receive timer never runs behind the silence it measures, except right
\* after a connect(2) that succeeded at once, and the check keeps it short.
TimerInv ==
  client.state = "CONNECTED" =>
    /\ client.recv = Never => silence = 0 /\ pc \in {"beat", "check"}
    /\ client.recv # Never => silence <= client.recv
    /\ silence < HbTimeout + MaxWait
    /\ pc = "wait" => client.recv < HbTimeout

\* The timer invariant holds at the start.
LEMMA TimerInit == Init => TimerInv
BY DEF Init, TimerInv

\* Every step keeps the timer invariant.
LEMMA TimerNext == LinkInv /\ TimerInv /\ [Next]_vars => TimerInv'
<1>. SUFFICES ASSUME LinkInv, TimerInv, [Next]_vars, client'.state = "CONNECTED"
              PROVE  TimerInv'
  BY DEF TimerInv
<1>h. Held(client) /\ client \in Client /\ silence \in Age
  BY LinkInvHeld DEF LinkInv, TypeOK
<1>n. Age \subseteq Nat /\ 0 < HbTimeout + MaxWait /\ HbTimeout \in Nat /\ MaxWait \in Nat
      /\ Horizon \in Nat
  BY TcpClientAssumption DEF Age, Horizon
<1>r. client.recv \in Age \cup {Never} /\ client.send \in Age
  BY <1>h DEF Client
<1>v. (client.recv # Never => client.recv \in Nat) /\ client.send \in Nat
  BY <1>r, <1>n
<1>1. CASE NoAttempt \/ SocketFails
  BY <1>1 DEF NoAttempt, SocketFails, TimerInv
<1>2. ASSUME NEW added \in BOOLEAN, ConnectStarts(added) PROVE TimerInv'
  <2>. DEFINE c == [client EXCEPT !.state = "CONNECTING", !.fd = Fd, !.attempt = 0]
  <2>1. client' = Registered(c, added) /\ c.state = "CONNECTING"
    BY <1>2, <1>h DEF ConnectStarts, Client
  <2>2. client'.state # "CONNECTED"
    BY <2>1 DEF Registered, close
  <2>. QED
    BY <2>2
<1>3. ASSUME NEW added \in BOOLEAN, ConnectSucceeds(added) PROVE TimerInv'
  <2>. DEFINE c == [client EXCEPT !.state = "CONNECTED", !.fd = Fd, !.backoff = 1]
  <2>0. 1 \in 1 .. MaxBackoff
    BY TcpClientAssumption
  <2>1. c \in Client /\ c.fd # NoFd /\ c.state = "CONNECTED" /\ c.recv = client.recv
    <3>1. c.fd = Fd /\ c.state = "CONNECTED" /\ c.recv = client.recv
      BY <1>h DEF Client
    <3>2. c \in Client
      BY <1>h, <2>0 DEF Client
    <3>. QED
      BY <3>1, <3>2
  <2>2. client' = Registered(c, added) /\ silence' = 0 /\ pc' = "beat"
    BY <1>3 DEF ConnectSucceeds
  <2>. HIDE DEF c
  <2>3. client'.recv = client.recv
    BY <2>1, <2>2, RegisteredHeld
  <2>. QED
    BY <2>2, <2>3, <1>n, <1>v DEF TimerInv
<1>4. CASE ConnectFails
  BY <1>4, <1>h, FailHeld DEF ConnectFails
<1>5. CASE SendHeartbeat
  <2>1. client.state = "CONNECTED" /\ client'.recv = client.recv
    BY <1>5, <1>h, SendHeld DEF SendHeartbeat
  <2>2. silence' = silence /\ pc = "beat" /\ pc' = "check"
    BY <1>5, <2>1 DEF SendHeartbeat, Record
  <2>. QED
    BY <2>1, <2>2 DEF TimerInv
<1>6. CASE CheckHeartbeatTimeout
  <2>1. /\ client.state = "CONNECTED"
        /\ client'.recv # Never /\ client'.recv < HbTimeout
        /\ client'.recv = IF client.recv = Never THEN client.send ELSE client.recv
    BY <1>6, <1>h, CheckHeld DEF CheckHeartbeatTimeout
  <2>2. silence' = silence /\ pc' = "wait"
    BY <1>6, <2>1 DEF CheckHeartbeatTimeout, Record
  <2>3. silence <= client'.recv
    <3>1. CASE client.recv = Never
      BY <3>1, <2>1, <1>v DEF TimerInv
    <3>2. CASE client.recv # Never
      BY <3>2, <2>1 DEF TimerInv
    <3>. QED
      BY <3>1, <3>2
  <2>. QED
    BY <2>1, <2>2, <2>3 DEF TimerInv
<1>7. CASE Tick
  <2>1. PICK s \in 1 .. MaxWait :
          /\ client' = [client EXCEPT !.attempt = Older(@, s), !.send = Older(@, s),
                                      !.recv = Older(@, s)]
          /\ silence' = Older(silence, s)
    BY <1>7 DEF Tick
  <2>2. client.state = "CONNECTED" /\ client'.recv = Older(client.recv, s)
    BY <2>1, <1>h DEF Client
  <2>3. pc = "wait" /\ pc' = "late"
    BY <1>7 DEF Tick
  <2>4. client.recv \in Age /\ silence <= client.recv /\ client.recv < HbTimeout
    BY <2>2, <2>3, <1>r DEF TimerInv
  <2>. QED
    BY <2>1, <2>2, <2>3, <2>4, <1>n, <1>h DEF TimerInv, Older, Lesser
<1>8. CASE EndOfPass
  BY <1>8 DEF EndOfPass, TimerInv
<1>9. CASE TcpEvent
  <2>. DEFINE broken == sock = "refused" \/ inbox = "reset"
              c1 == IF "OUT" \in Events THEN connectionResult(client, broken) ELSE client
              c2 == IF "IN" \in Events THEN readable(c1, inbox) ELSE c1
              c3 == IF "ERR" \in Events THEN onDisconnected(c2) ELSE c2
              found == IF "IN" \in Events THEN inbox ELSE "nothing"
  <2>1. client' = c3 /\ pc' \in {"connect", "ipc"} /\ pc \in {"wait", "late", "tcp"}
        /\ Record(c1, found)
    BY <1>9 DEF TcpEvent
  <2>2. Held(c1) /\ (c1.state = "CONNECTED" =>
                       c1 = client \/ (client.state = "CONNECTING" /\ c1.recv = 0))
    BY <1>h, ResultHeld, broken \in BOOLEAN
  <2>3. Held(c2) /\ (c2.state = "CONNECTED" =>
                       /\ c1.state = "CONNECTED"
                       /\ found = "frame" => c2.recv = 0
                       /\ found # "frame" => c2 = c1)
    BY <2>2, ReadHeld
  <2>4. c3.state = "CONNECTED" => c3 = c2
    BY <2>3, DisconnectedHeld
  <2>. HIDE DEF c1, c2, c3, found
  <2>5. silence' = IF client.state # "CONNECTED" \/ found = "frame" THEN 0 ELSE silence
    BY <2>1, <2>3, <2>4 DEF Record
  <2>6. CASE found = "frame"
    BY <2>1, <2>3, <2>4, <2>5, <2>6, <1>n DEF TimerInv
  <2>7. CASE found # "frame" /\ client.state = "CONNECTED"
    BY <2>1, <2>2, <2>3, <2>4, <2>5, <2>7, <1>n, <1>r DEF TimerInv
  <2>8. CASE found # "frame" /\ client.state # "CONNECTED"
    BY <2>1, <2>2, <2>3, <2>4, <2>5, <2>8, <1>n DEF TimerInv
  <2>. QED
    BY <2>6, <2>7, <2>8
<1>10. CASE IpcEvent
  <2>1. client' = client
    BY <1>10, <1>h, DisconnectedHeld DEF IpcEvent
  <2>2. silence' = silence /\ pc \in {"wait", "late", "ipc"} /\ pc' \in {"connect", "tcp"}
    BY <1>10, <2>1 DEF IpcEvent, Record
  <2>. QED
    BY <2>1, <2>2 DEF TimerInv
<1>11. CASE Network
  BY <1>11 DEF Network, HandshakeEnds, NetworkChanges, Arrives, TimerInv
<1>12. CASE UNCHANGED vars
  BY <1>12 DEF vars, TimerInv
<1>. QED
  BY <1>1, <1>2, <1>3, <1>4, <1>5, <1>6, <1>7, <1>8, <1>9, <1>10, <1>11, <1>12 DEF Next, Loop

\* However the loop is scheduled, a link that stays CONNECTED has delivered a
\* frame in the last HbTimeout + MaxWait seconds.
THEOREM TimelyDetected == Spec => []TimelyDetection
<1>1. LinkInv /\ TimerInv => TimelyDetection
  <2>. SUFFICES ASSUME LinkInv, TimerInv, client.state = "CONNECTED", pc = "wait"
                PROVE  silence < HbTimeout
    BY DEF TimelyDetection, TimerInv
  <2>1. client.recv \in Age \cup {Never} /\ silence \in Age
    BY DEF LinkInv, TypeOK, Client
  <2>. QED
    BY <2>1, TcpClientAssumption DEF TimerInv, Age, Horizon
<1>. QED
  BY <1>1, LinkInit, LinkNext, TimerInit, TimerNext, PTL DEF Spec

-----------------------------------------------------------------------------
(* The heartbeat check and live links.                                         *)

\* The receive timer of a link that came up through checkConnectionResult
\* never runs ahead of the silence.
FreshInv == client.state = "CONNECTED" => client.recv # Never /\ client.recv <= silence

\* Every step keeps FreshInv when no connect(2) succeeds at once.
LEMMA FreshNext ==
  ~ConnectAtOnce /\ LinkInv /\ FreshInv /\ [Next]_vars => FreshInv'
<1>. SUFFICES ASSUME ~ConnectAtOnce, LinkInv, FreshInv, [Next]_vars,
                     client'.state = "CONNECTED"
              PROVE  FreshInv'
  BY DEF FreshInv
<1>h. Held(client) /\ client \in Client /\ silence \in Age
  BY LinkInvHeld DEF LinkInv, TypeOK
<1>n. Age \subseteq Nat /\ Horizon \in Nat
  BY TcpClientAssumption DEF Age, Horizon
<1>r. client.recv \in Age \cup {Never}
  BY <1>h DEF Client
<1>1. CASE NoAttempt \/ SocketFails
  BY <1>1 DEF NoAttempt, SocketFails, FreshInv
<1>2. ASSUME NEW added \in BOOLEAN, ConnectStarts(added) PROVE FreshInv'
  <2>. DEFINE c == [client EXCEPT !.state = "CONNECTING", !.fd = Fd, !.attempt = 0]
  <2>1. client' = Registered(c, added) /\ c.state = "CONNECTING"
    BY <1>2, <1>h DEF ConnectStarts, Client
  <2>2. client'.state # "CONNECTED"
    BY <2>1 DEF Registered, close
  <2>. QED
    BY <2>2
<1>3. ASSUME NEW added \in BOOLEAN, ConnectSucceeds(added) PROVE FreshInv'
  BY <1>3 DEF ConnectSucceeds
<1>4. CASE ConnectFails
  BY <1>4, <1>h, FailHeld DEF ConnectFails
<1>5. CASE SendHeartbeat
  <2>1. client.state = "CONNECTED" /\ client'.recv = client.recv
    BY <1>5, <1>h, SendHeld DEF SendHeartbeat
  <2>2. silence' = silence
    BY <1>5, <2>1 DEF SendHeartbeat, Record
  <2>. QED
    BY <2>1, <2>2 DEF FreshInv
<1>6. CASE CheckHeartbeatTimeout
  <2>1. /\ client.state = "CONNECTED" /\ client'.recv # Never
        /\ client'.recv = IF client.recv = Never THEN client.send ELSE client.recv
    BY <1>6, <1>h, CheckHeld DEF CheckHeartbeatTimeout
  <2>2. silence' = silence
    BY <1>6, <2>1 DEF CheckHeartbeatTimeout, Record
  <2>. QED
    BY <2>1, <2>2 DEF FreshInv
<1>7. CASE Tick
  <2>1. PICK s \in 1 .. MaxWait :
          /\ client' = [client EXCEPT !.attempt = Older(@, s), !.send = Older(@, s),
                                      !.recv = Older(@, s)]
          /\ silence' = Older(silence, s)
    BY <1>7 DEF Tick
  <2>2. client.state = "CONNECTED" /\ client'.recv = Older(client.recv, s)
    BY <2>1, <1>h DEF Client
  <2>3. client.recv \in Nat /\ silence \in Nat /\ client.recv <= silence
    BY <2>2, <1>h, <1>n, <1>r DEF FreshInv
  <2>. QED
    BY <2>1, <2>2, <2>3, <1>n, TcpClientAssumption DEF FreshInv, Older, Lesser
<1>8. CASE EndOfPass
  BY <1>8 DEF EndOfPass, FreshInv
<1>9. CASE TcpEvent
  <2>. DEFINE broken == sock = "refused" \/ inbox = "reset"
              c1 == IF "OUT" \in Events THEN connectionResult(client, broken) ELSE client
              c2 == IF "IN" \in Events THEN readable(c1, inbox) ELSE c1
              c3 == IF "ERR" \in Events THEN onDisconnected(c2) ELSE c2
              found == IF "IN" \in Events THEN inbox ELSE "nothing"
  <2>1. client' = c3 /\ Record(c1, found)
    BY <1>9 DEF TcpEvent
  <2>2. Held(c1) /\ (c1.state = "CONNECTED" =>
                       c1 = client \/ (client.state = "CONNECTING" /\ c1.recv = 0))
    BY <1>h, ResultHeld, broken \in BOOLEAN
  <2>3. Held(c2) /\ (c2.state = "CONNECTED" =>
                       /\ c1.state = "CONNECTED"
                       /\ found = "frame" => c2.recv = 0
                       /\ found # "frame" => c2 = c1)
    BY <2>2, ReadHeld
  <2>4. c3.state = "CONNECTED" => c3 = c2
    BY <2>3, DisconnectedHeld
  <2>. HIDE DEF c1, c2, c3, found
  <2>5. silence' = IF client.state # "CONNECTED" \/ found = "frame" THEN 0 ELSE silence
    BY <2>1, <2>3, <2>4 DEF Record
  <2>6. CASE found = "frame"
    BY <2>1, <2>3, <2>4, <2>5, <2>6 DEF FreshInv
  <2>7. CASE found # "frame" /\ client.state = "CONNECTED"
    BY <2>1, <2>2, <2>3, <2>4, <2>5, <2>7 DEF FreshInv
  <2>8. CASE found # "frame" /\ client.state # "CONNECTED"
    BY <2>1, <2>2, <2>3, <2>4, <2>5, <2>8 DEF FreshInv
  <2>. QED
    BY <2>6, <2>7, <2>8
<1>10. CASE IpcEvent
  <2>1. client' = client
    BY <1>10, <1>h, DisconnectedHeld DEF IpcEvent
  <2>2. silence' = silence
    BY <1>10, <2>1 DEF IpcEvent, Record
  <2>. QED
    BY <2>1, <2>2 DEF FreshInv
<1>11. CASE Network
  BY <1>11 DEF Network, HandshakeEnds, NetworkChanges, Arrives, FreshInv
<1>12. CASE UNCHANGED vars
  BY <1>12 DEF vars, FreshInv
<1>. QED
  BY <1>1, <1>2, <1>3, <1>4, <1>5, <1>6, <1>7, <1>8, <1>9, <1>10, <1>11, <1>12 DEF Next, Loop

\* Only the check can drop a link at its place in the loop, and it does so
\* only when the receive timer has reached HbTimeout.
LEMMA CheckDrops ==
  LinkInv /\ FreshInv /\ [Next]_vars /\ pc = "check" /\ client.state = "CONNECTED"
    /\ client'.state # "CONNECTED" => silence >= HbTimeout
<1>. SUFFICES ASSUME LinkInv, FreshInv, [Next]_vars, pc = "check",
                     client.state = "CONNECTED", client'.state # "CONNECTED"
              PROVE  silence >= HbTimeout
  OBVIOUS
<1>1. client \in Client /\ silence \in Age
  BY DEF LinkInv, TypeOK
<1>2. CheckHeartbeatTimeout
  BY DEF Next, Loop, Network, vars, NoAttempt, SocketFails, ConnectStarts, ConnectSucceeds,
         ConnectFails, SendHeartbeat, Tick, EndOfPass, TcpEvent, IpcEvent,
         HandshakeEnds, NetworkChanges, Arrives
<1>3. client' = checkHeartbeatTimeout(client)
  BY <1>2 DEF CheckHeartbeatTimeout
<1>4. [client EXCEPT !.recv = client.recv].state = "CONNECTED"
  BY <1>1 DEF Client
<1>5. client.recv >= HbTimeout /\ client.recv <= silence
  BY <1>3, <1>4 DEF FreshInv, checkHeartbeatTimeout
<1>. QED
  BY <1>1, <1>5, TcpClientAssumption DEF Client, Age, Horizon

\* A station that sends a frame every HbTimeout seconds is never dropped by
\* checkHeartbeatTimeout, if links come up through checkConnectionResult, which
\* resets the timers: stated with the timers' age at the moment of the check.
THEOREM NeverPremature == ~ConnectAtOnce => (Spec => NoPrematureTimeout)
<1>. SUFFICES ASSUME ~ConnectAtOnce PROVE Spec => NoPrematureTimeout
  OBVIOUS
<1>1. Init => FreshInv
  BY DEF Init, FreshInv
<1>2. LinkInv /\ FreshInv /\ [Next]_vars => FreshInv'
  BY FreshNext
<1>3. LinkInv /\ FreshInv /\ [Next]_vars
        => [pc = "check" /\ client.state = "CONNECTED" /\ client'.state # "CONNECTED"
              => silence >= HbTimeout]_vars
  BY CheckDrops
<1>. QED
  BY <1>1, <1>2, <1>3, LinkInit, LinkNext, PTL DEF Spec, NoPrematureTimeout

-----------------------------------------------------------------------------
(* The backoff.                                                                *)

\* Power is what its definition says, and exceeds its argument.
LEMMA Powers ==
  /\ Power[0] = 1
  /\ \A n \in Nat : Power[n] \in Nat /\ Power[n] > n /\ Power[n + 1] = 2 * Power[n]
<1>. DEFINE D == Nat
            V == Nat
            F == [f \in [D -> V] |-> [n \in D |-> IF n = 0 THEN 1 ELSE 2 * f[n - 1]]]
            self == [n \in D |-> n]
<1>1. ASSUME NEW f \in [D -> V] PROVE F[f] \in [D -> V]
  BY <1>1
<1>2. ASSUME NEW f \in [D -> V], NEW g \in [D -> V], NEW n \in Nat, Agree(f, g, D, self, n)
      PROVE  Agree(F[f], F[g], D, self, n + 1)
  <2>1. ASSUME NEW i \in D, i < n + 1, i # 0 PROVE f[i - 1] = g[i - 1]
    <3>1. i - 1 \in D /\ i - 1 < n
      BY <2>1
    <3>. QED
      BY <3>1, <1>2 DEF Agree
  <2>2. ASSUME NEW i \in D, i < n + 1 PROVE F[f][i] = F[g][i]
    BY <2>1, <2>2
  <2>. QED
    BY <2>2 DEF Agree
<1>3. Recursive(F, D, V, self) /\ V # {}
  <2>1. F \in [[D -> V] -> [D -> V]]
    BY <1>1
  <2>2. self \in [D -> Nat] /\ V # {}
    OBVIOUS
  <2>. HIDE DEF F, D, V, self
  <2>. QED
    BY <1>2, <2>1, <2>2 DEF Recursive
<1>4. PICK f \in [D -> V] : f = F[f]
  <2>. HIDE DEF F, D, V, self
  <2>. QED
    BY <1>3, Recursion
<1>5. f = [n \in Nat |-> IF n = 0 THEN 1 ELSE 2 * f[n - 1]]
  BY <1>4
<1>6. Power = [n \in Nat |-> IF n = 0 THEN 1 ELSE 2 * Power[n - 1]]
  BY <1>5 DEF Power
<1>7. Power[0] = 1 /\ \A n \in Nat : Power[n + 1] = 2 * Power[n]
  BY <1>6
<1>. DEFINE S == {n \in Nat : Power[n] \in Nat /\ Power[n] > n}
<1>8. Nat \subseteq S
  <2>1. 0 \in S
    BY <1>7
  <2>2. \A n \in Nat : n \in S => n + 1 \in S
    BY <1>7
  <2>. HIDE DEF S
  <2>. QED
    BY <2>1, <2>2, Reaches
<1>. QED
  BY <1>7, <1>8

\* What the failures so far ask for, and what one more asks for: twice the distance,
\* unless the cap has been reached.
LEMMA Doubled ==
  ASSUME NEW n \in Age, NEW b \in 1 .. MaxBackoff, b >= Lesser(Power[n], MaxBackoff)
  PROVE  Lesser(2 * b, MaxBackoff) >= Lesser(Power[Lesser(n + 1, Horizon)], MaxBackoff)
<1>1. MaxBackoff \in Nat /\ Horizon \in Nat /\ MaxBackoff <= Horizon /\ n \in Nat /\ n <= Horizon
  BY TcpClientAssumption DEF Horizon, Age
<1>2. Power[n] \in Nat /\ Power[n + 1] = 2 * Power[n] /\ Power[Horizon] \in Nat
      /\ Power[Horizon] > Horizon
  BY <1>1, Powers
<1>3. CASE n + 1 <= Horizon
  <2>1. Lesser(n + 1, Horizon) = n + 1
    BY <1>3 DEF Lesser
  <2>. QED
    BY <1>1, <1>2, <2>1 DEF Lesser
<1>4. CASE ~(n + 1 <= Horizon)
  <2>1. n = Horizon /\ Lesser(n + 1, Horizon) = Horizon
    BY <1>1, <1>4 DEF Lesser
  <2>. QED
    BY <1>1, <1>2, <2>1 DEF Lesser
<1>. QED
  BY <1>3, <1>4

\* What a method makes of the backoff: one that drops the link doubles it and times the
\* attempt, and no other touches either.
Drops(c, d) == c.state # "DISCONNECTED" /\ d.state = "DISCONNECTED"
Backs(c, d) ==
  /\ d.backoff = IF Drops(c, d) THEN Lesser(2 * c.backoff, MaxBackoff) ELSE c.backoff
  /\ d.attempt = IF Drops(c, d) THEN 0 ELSE c.attempt
  /\ c.state = "DISCONNECTED" => d.state = "DISCONNECTED"

\* One method after the other.
LEMMA BacksTwice == ASSUME NEW c, NEW d, NEW e, Backs(c, d), Backs(d, e) PROVE Backs(c, e)
BY DEF Backs, Drops

\* A failure doubles the backoff, whatever state it meets.
LEMMA FailDoubles ==
  ASSUME NEW c \in Client
  PROVE  /\ handleFail(c).backoff = Lesser(2 * c.backoff, MaxBackoff)
         /\ handleFail(c).attempt = 0 /\ handleFail(c).state = "DISCONNECTED"
<1>1. close(c) \in Client /\ close(c).state = "DISCONNECTED" /\ close(c).backoff = c.backoff
  BY DEF close, Client
<1>. HIDE DEF close
<1>. QED
  BY <1>1 DEF handleFail, Client

\* onDisconnected, the heartbeats and recv.
LEMMA MethodsBack ==
  ASSUME NEW c \in Client
  PROVE  /\ Backs(c, c)
         /\ Backs(c, onDisconnected(c))
         /\ \A sent \in BOOLEAN : Backs(c, sendHeartbeat(c, sent))
         /\ Backs(c, checkHeartbeatTimeout(c))
         /\ \A found : Backs(c, readable(c, found))
<1>1. Backs(c, c)
  BY DEF Backs, Drops
<1>2. ASSUME NEW d \in Client PROVE Backs(d, onDisconnected(d))
  BY FailDoubles DEF onDisconnected, Backs, Drops
<1>3. ASSUME NEW sent \in BOOLEAN PROVE Backs(c, sendHeartbeat(c, sent))
  <2>1. Backs(c, [c EXCEPT !.send = 0])
    BY DEF Backs, Drops, Client
  <2>. QED
    BY <1>1, <1>2, <2>1 DEF sendHeartbeat
<1>4. Backs(c, checkHeartbeatTimeout(c))
  <2>. DEFINE recv == IF c.recv = Never THEN c.send ELSE c.recv
              d == [c EXCEPT !.recv = recv]
  <2>1. d \in Client /\ Backs(c, d)
    BY DEF Client, Backs, Drops
  <2>2. Backs(c, onDisconnected(d))
    BY <2>1, <1>2, BacksTwice
  <2>3. checkHeartbeatTimeout(c) \in {c, d, onDisconnected(d)}
    BY DEF checkHeartbeatTimeout
  <2>. HIDE DEF d
  <2>. QED
    BY <1>1, <2>1, <2>2, <2>3
<1>5. ASSUME NEW found PROVE Backs(c, readable(c, found))
  <2>1. Backs(c, onDataReceived(c))
    BY DEF onDataReceived, Backs, Drops, Client
  <2>. QED
    BY <1>1, <1>2, <2>1 DEF readable
<1>. QED
  BY <1>1, <1>2, <1>3, <1>4, <1>5

\* A connect(2) that is answered ends in a link with a fresh backoff, or in a failure.
LEMMA ResultBacks ==
  ASSUME NEW c \in Client, NEW error \in BOOLEAN
  PROVE  LET d == connectionResult(c, error)
         IN  \/ Backs(c, d) /\ (d.state = "CONNECTED" => c.state = "CONNECTED")
             \/ /\ c.state = "CONNECTING" /\ d.state = "CONNECTED"
                /\ d.backoff = 1 /\ d.attempt = c.attempt
<1>1. CASE c.state # "CONNECTING"
  BY <1>1, MethodsBack DEF connectionResult
<1>2. CASE c.state = "CONNECTING" /\ error
  BY <1>2, FailDoubles DEF connectionResult, Backs, Drops
<1>3. CASE c.state = "CONNECTING" /\ ~error
  BY <1>3 DEF connectionResult, resetHeartbeatTimer, Client
<1>. QED
  BY <1>1, <1>2, <1>3

\* connect(2) was called when the attempt was timed, or before; and the backoff is what the
\* failures since the link was last up ask for.
BackoffInv ==
  /\ client.attempt <= sinceCall
  /\ client.backoff >= Lesser(Power[fails], MaxBackoff)

\* A step that calls methods and not connect(2) keeps the invariant: mid is the client
\* after the connection it completed, if it did.
LEMMA BackoffHeld ==
  ASSUME LinkInv, BackoffInv, NEW mid, NEW found, Record(mid, found), sinceCall' = sinceCall,
         \/ Backs(client, client') /\ (mid.state = "CONNECTED" => client.state = "CONNECTED")
         \/ /\ client.state = "CONNECTING" /\ mid.state = "CONNECTED"
            /\ mid.backoff = 1 /\ mid.attempt = client.attempt
            /\ Backs(mid, client')
  PROVE  BackoffInv'
<1>1. /\ client.backoff \in 1 .. MaxBackoff /\ client.attempt \in Nat
      /\ fails \in Age /\ 0 \in Age /\ sinceCall \in Nat
  BY TcpClientAssumption DEF LinkInv, TypeOK, Client, Age, Horizon
<1>2. MaxBackoff \in Nat /\ MaxBackoff >= 1
  BY TcpClientAssumption
<1>3. CASE Backs(client, client') /\ (mid.state = "CONNECTED" => client.state = "CONNECTED")
  <2>1. fails' = IF Drops(client, client') THEN Lesser(fails + 1, Horizon) ELSE fails
    BY <1>3 DEF Record, Drops
  <2>2. CASE Drops(client, client')
    <3>1. client'.backoff = Lesser(2 * client.backoff, MaxBackoff) /\ client'.attempt = 0
      BY <1>3, <2>2 DEF Backs
    <3>2. client'.backoff >= Lesser(Power[fails'], MaxBackoff)
      BY <3>1, <2>1, <2>2, <1>1, Doubled DEF BackoffInv
    <3>. QED
      BY <3>1, <3>2, <1>1 DEF BackoffInv
  <2>3. CASE ~Drops(client, client')
    BY <1>3, <2>1, <2>3 DEF Backs, BackoffInv
  <2>. QED
    BY <2>2, <2>3
<1>4. CASE /\ client.state = "CONNECTING" /\ mid.state = "CONNECTED"
           /\ mid.backoff = 1 /\ mid.attempt = client.attempt
           /\ Backs(mid, client')
  <2>1. fails' = IF Drops(mid, client') THEN Lesser(0 + 1, Horizon) ELSE 0
    BY <1>4 DEF Record, Drops
  <2>2. 1 >= Lesser(Power[0], MaxBackoff) /\ 1 \in 1 .. MaxBackoff
    BY <1>2, Powers DEF Lesser
  <2>3. CASE Drops(mid, client')
    <3>1. client'.backoff = Lesser(2 * 1, MaxBackoff) /\ client'.attempt = 0
      BY <1>4, <2>3 DEF Backs
    <3>2. client'.backoff >= Lesser(Power[fails'], MaxBackoff)
      BY <3>1, <2>1, <2>2, <2>3, <1>1, Doubled
    <3>. QED
      BY <3>1, <3>2, <1>1 DEF BackoffInv
  <2>4. CASE ~Drops(mid, client')
    BY <1>4, <2>1, <2>2, <2>4 DEF Backs, BackoffInv
  <2>. QED
    BY <2>3, <2>4
<1>. QED
  BY <1>3, <1>4

\* Every step keeps the backoff invariant, when no connect(2) succeeds at once.
LEMMA BackoffNext == ~ConnectAtOnce /\ LinkInv /\ BackoffInv /\ [Next]_vars => BackoffInv'
<1>. SUFFICES ASSUME ~ConnectAtOnce, LinkInv, BackoffInv, [Next]_vars PROVE BackoffInv'
  OBVIOUS
<1>h. client \in Client /\ Held(client) /\ fails \in Age /\ sinceCall \in Age
  BY LinkInvHeld DEF LinkInv, TypeOK
<1>m. Backs(client, client)
  BY <1>h, MethodsBack
<1>1. CASE NoAttempt \/ SocketFails
  BY <1>1 DEF NoAttempt, SocketFails, BackoffInv
<1>2. ASSUME NEW added \in BOOLEAN, ConnectStarts(added) PROVE BackoffInv'
  <2>. DEFINE c == [client EXCEPT !.state = "CONNECTING", !.fd = Fd, !.attempt = 0]
  <2>1. client' = Registered(c, added) /\ sinceCall' = 0 /\ fails' = fails
    BY <1>2 DEF ConnectStarts
  <2>2. c.attempt = 0 /\ c.backoff = client.backoff /\ c \in Client
    <3>1. 0 \in Age
      BY AgeFacts
    <3>. QED
      BY <1>h, <3>1 DEF Client
  <2>. HIDE DEF c
  <2>3. client'.attempt = 0 /\ client'.backoff = client.backoff
    BY <2>1, <2>2 DEF Registered, close, Client
  <2>. QED
    BY <2>1, <2>3 DEF BackoffInv
<1>3. ASSUME NEW added \in BOOLEAN, ConnectSucceeds(added) PROVE BackoffInv'
  BY <1>3 DEF ConnectSucceeds
<1>4. CASE ConnectFails
  <2>1. /\ client'.backoff = Lesser(2 * client.backoff, MaxBackoff) /\ client'.attempt = 0
        /\ sinceCall' = 0 /\ fails' = Lesser(fails + 1, Horizon)
    BY <1>4, <1>h, FailDoubles DEF ConnectFails
  <2>2. client.backoff \in 1 .. MaxBackoff
    BY <1>h DEF Client
  <2>. QED
    BY <2>1, <2>2, <1>h, Doubled DEF BackoffInv
<1>5. CASE SendHeartbeat
  <2>1. Backs(client, client') /\ Record(client, "nothing") /\ sinceCall' = sinceCall
    BY <1>5, <1>h, MethodsBack DEF SendHeartbeat
  <2>. QED
    BY <2>1, BackoffHeld
<1>6. CASE CheckHeartbeatTimeout
  <2>1. Backs(client, client') /\ Record(client, "nothing") /\ sinceCall' = sinceCall
    BY <1>6, <1>h, MethodsBack DEF CheckHeartbeatTimeout
  <2>. QED
    BY <2>1, BackoffHeld
<1>7. CASE Tick
  <2>1. PICK s \in 1 .. MaxWait :
          /\ client' = [client EXCEPT !.attempt = Older(@, s), !.send = Older(@, s),
                                      !.recv = Older(@, s)]
          /\ sinceCall' = Older(sinceCall, s)
    BY <1>7 DEF Tick
  <2>2. client'.attempt = Older(client.attempt, s) /\ client'.backoff = client.backoff
        /\ fails' = fails
    BY <2>1, <1>7, <1>h DEF Client, Tick
  <2>3. client.attempt \in Age /\ client.attempt <= sinceCall
    BY <1>h DEF Client, BackoffInv
  <2>4. client'.attempt <= sinceCall'
    BY <2>1, <2>2, <2>3, <1>h, TcpClientAssumption DEF Older, Lesser, Age, Horizon
  <2>. QED
    BY <2>2, <2>4 DEF BackoffInv
<1>8. CASE EndOfPass
  BY <1>8 DEF EndOfPass, BackoffInv
<1>9. CASE TcpEvent
  <2>. DEFINE broken == sock = "refused" \/ inbox = "reset"
              c1 == IF "OUT" \in Events THEN connectionResult(client, broken) ELSE client
              c2 == IF "IN" \in Events THEN readable(c1, inbox) ELSE c1
              c3 == IF "ERR" \in Events THEN onDisconnected(c2) ELSE c2
              found == IF "IN" \in Events THEN inbox ELSE "nothing"
  <2>1. client' = c3 /\ Record(c1, found) /\ sinceCall' = sinceCall
    BY <1>9 DEF TcpEvent
  <2>2. c1 \in Client /\ c2 \in Client
    <3>1. Held(c1)
      BY <1>h, ResultHeld, broken \in BOOLEAN
    <3>2. Held(c2)
      BY <3>1, ReadHeld
    <3>. QED
      BY <3>1, <3>2 DEF Held
  <2>3. \/ Backs(client, c1) /\ (c1.state = "CONNECTED" => client.state = "CONNECTED")
        \/ /\ client.state = "CONNECTING" /\ c1.state = "CONNECTED"
           /\ c1.backoff = 1 /\ c1.attempt = client.attempt
    BY <1>h, <1>m, ResultBacks, broken \in BOOLEAN
  <2>. HIDE DEF c1
  <2>4. Backs(c1, c2)
    BY <2>2, MethodsBack
  <2>. HIDE DEF c2
  <2>5. Backs(c2, c3)
    BY <2>2, MethodsBack
  <2>. HIDE DEF c3, found
  <2>6. Backs(c1, client')
    BY <2>1, <2>4, <2>5, BacksTwice
  <2>7. CASE Backs(client, c1) /\ (c1.state = "CONNECTED" => client.state = "CONNECTED")
    BY <2>1, <2>6, <2>7, BacksTwice, BackoffHeld
  <2>8. CASE /\ client.state = "CONNECTING" /\ c1.state = "CONNECTED"
             /\ c1.backoff = 1 /\ c1.attempt = client.attempt
    BY <2>1, <2>6, <2>8, BackoffHeld
  <2>. QED
    BY <2>3, <2>7, <2>8
<1>10. CASE IpcEvent
  <2>1. Backs(client, client') /\ Record(client, "nothing") /\ sinceCall' = sinceCall
    BY <1>10, <1>h, <1>m, MethodsBack DEF IpcEvent
  <2>. QED
    BY <2>1, BackoffHeld
<1>11. CASE Network
  BY <1>11 DEF Network, HandshakeEnds, NetworkChanges, Arrives, BackoffInv
<1>12. CASE UNCHANGED vars
  BY <1>12 DEF vars, BackoffInv
<1>. QED
  BY <1>1, <1>2, <1>3, <1>4, <1>5, <1>6, <1>7, <1>8, <1>9, <1>10, <1>11, <1>12 DEF Next, Loop

\* Where connect(2) is called, the backoff has passed since the last call.
LEMMA CallsApart ==
  LinkInv /\ BackoffInv /\ [Next]_vars /\ pc = "connect" /\ client' # client
    => sinceCall >= Lesser(Power[fails], MaxBackoff)
<1>. SUFFICES ASSUME LinkInv, BackoffInv, [Next]_vars, pc = "connect", client' # client
              PROVE  sinceCall >= Lesser(Power[fails], MaxBackoff)
  OBVIOUS
<1>1. client.attempt \in Nat /\ client.backoff \in Nat /\ sinceCall \in Nat /\ fails \in Nat
      /\ MaxBackoff \in Nat
  BY TcpClientAssumption DEF LinkInv, TypeOK, Client, Age, Horizon
<1>2. Lesser(Power[fails], MaxBackoff) \in Nat
  BY <1>1, Powers DEF Lesser
<1>3. Due
  BY DEF Next, Loop, Network, vars, NoAttempt, SocketFails, ConnectStarts, ConnectSucceeds,
         ConnectFails, SendHeartbeat, CheckHeartbeatTimeout, Tick, EndOfPass, TcpEvent, IpcEvent,
         HandshakeEnds, NetworkChanges, Arrives
<1>. QED
  BY <1>1, <1>2, <1>3 DEF Due, BackoffInv

\* Attempts to connect are apart by 1, 2, 4, ... seconds and so on up to the cap, however
\* the attempts before them failed: in connect(2), in epoll_ctl, in the handshake, or after
\* it (tryConnect, handleFail, checkConnectionResult, onDisconnected).
THEOREM AttemptsAreApart == ~ConnectAtOnce => (Spec => AttemptsBackOff)
<1>. SUFFICES ASSUME ~ConnectAtOnce PROVE Spec => AttemptsBackOff
  OBVIOUS
<1>1. Init => BackoffInv
  BY Powers, TcpClientAssumption DEF Init, BackoffInv, Lesser, Horizon
<1>2. LinkInv /\ BackoffInv /\ [Next]_vars => BackoffInv'
  BY BackoffNext
<1>3. LinkInv /\ BackoffInv /\ [Next]_vars
        => [pc = "connect" /\ client' # client => sinceCall >= Lesser(Power[fails], MaxBackoff)]_vars
  BY CallsApart
<1>. QED
  BY <1>1, <1>2, <1>3, LinkInit, LinkNext, PTL DEF Spec, AttemptsBackOff

=============================================================================
