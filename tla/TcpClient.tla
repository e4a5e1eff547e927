------------------------------- MODULE TcpClient ------------------------------
(***************************************************************************)
(* The TCP link of the Comm process: class TcpClient (src/tcp_client.cpp)  *)
(* together with the steps of the main loop that call it (A, B2, C and the *)
(* TCP branch of D in src/comm_main.cpp), and the ground station and the   *)
(* kernel at the other end.  What the bytes mean is TcpStream's business:  *)
(* here a read finds part of a frame, a whole frame, or the end.           *)
(*                                                                         *)
(* One operator per method maps the object before the call to the object   *)
(* after it.  A time_t member x is kept as its age, time(nullptr) - x.     *)
(***************************************************************************)
EXTENDS Integers

CONSTANTS HbInterval,     \* m_heartbeat_interval, seconds
          HbTimeout,      \* m_heartbeat_timeout, seconds
          MaxBackoff,     \* cap of m_backoff_seconds
          MaxWait,        \* most seconds between two passes of the loop
          ConnectAtOnce   \* may a non-blocking connect(2) succeed at once?

ASSUME TcpClientAssumption ==
  /\ HbInterval \in Nat \ {0} /\ HbTimeout \in Nat \ {0} /\ MaxBackoff \in Nat \ {0}
  /\ MaxWait \in Nat \ {0}
  /\ ConnectAtOnce \in BOOLEAN

Lesser(m, n) == IF m <= n THEN m ELSE n

NoFd  == -1
Fd    == 4                  \* the socket's descriptor, whichever it is
Never == -1                 \* m_last_recv_time = 0
\* Bound: ages are counted up to here, beyond every limit they meet.
Horizon == HbInterval + HbTimeout + MaxBackoff + MaxWait

VARIABLES
  client,   \* the TcpClient, and epoll's interest in its socket
  pc,       \* where the main loop is: A, B2 (two calls), epoll_wait, the events
  sock,     \* the kernel's end of the socket
  inbox,    \* what the next read will find
  reachable,\* can the ground station be reached?
  \* History, read by the properties only.
  silence,  \* seconds since the link came up or a whole frame was taken
  sinceCall,\* seconds since connect(2) was last called
  fails     \* handleFail calls since the link was last up (up to Horizon)

vars == <<client, pc, sock, inbox, reachable, silence, sinceCall, fails>>

-----------------------------------------------------------------------------
\* The methods.  A definition called Bad... is a mistake that could have been
\* made in the one that follows; nothing uses it.

BadCloseKeepsFd(c) == [c EXCEPT !.state = "DISCONNECTED", !.interest = {}]

close(c) == [c EXCEPT !.state = "DISCONNECTED", !.fd = NoFd, !.interest = {}]

BadFailUntimed(c) == [close(c) EXCEPT !.backoff = Lesser(2 * @, MaxBackoff)]

handleFail(c) ==
  [close(c) EXCEPT !.attempt = 0, !.backoff = Lesser(2 * @, MaxBackoff)]

onDisconnected(c) == IF c.state = "DISCONNECTED" THEN c ELSE handleFail(c)

BadResetSendOnly(c) == [c EXCEPT !.send = 0]

resetHeartbeatTimer(c) == [c EXCEPT !.send = 0, !.recv = 0]

onDataReceived(c) == [c EXCEPT !.recv = 0]

BadSendRefreshes(c, sent) ==
  IF c.state # "CONNECTED" \/ c.send < HbInterval THEN c
  ELSE IF sent THEN resetHeartbeatTimer(c)
  ELSE onDisconnected(c)

sendHeartbeat(c, sent) ==
  IF c.state # "CONNECTED" \/ c.send < HbInterval THEN c
  ELSE IF sent THEN [c EXCEPT !.send = 0]
  ELSE onDisconnected(c)

checkHeartbeatTimeout(c) ==
  LET recv == IF c.recv = Never THEN c.send ELSE c.recv
      d    == [c EXCEPT !.recv = recv]
  IN  IF c.state # "CONNECTED" THEN c
      ELSE IF recv >= HbTimeout THEN onDisconnected(d) ELSE d

\* checkConnectionResult, and what the loop adds when it reports success.
connectionResult(c, error) ==
  IF c.state # "CONNECTING" THEN c
  ELSE IF error THEN handleFail(c)
  ELSE resetHeartbeatTimer([c EXCEPT !.state = "CONNECTED", !.backoff = 1,
                                     !.interest = {"IN"}])

\* recv on a closed descriptor does nothing; found is what the socket holds.
readable(c, found) ==
  IF c.fd = NoFd THEN c
  ELSE CASE found \in {"eof", "reset"} -> onDisconnected(c)
         [] found = "frame"            -> onDataReceived(c)
         [] OTHER                      -> c

-----------------------------------------------------------------------------

Init ==
  /\ client = [state |-> "DISCONNECTED", fd |-> NoFd, interest |-> {}, backoff |-> 1,
               attempt |-> Horizon, send |-> Horizon, recv |-> Never]
  /\ pc = "connect" /\ sock = "none" /\ inbox = "nothing"
  /\ reachable \in BOOLEAN
  /\ silence = 0 /\ sinceCall = Horizon /\ fails = 0

Older(age, s) == IF age = Never THEN Never ELSE Lesser(age + s, Horizon)

\* The kernel's side of a client that has closed its socket.
Settle(status) ==
  /\ sock' = IF client'.fd = NoFd THEN "none" ELSE status
  /\ inbox' = IF client'.fd = NoFd THEN "nothing" ELSE inbox

\* History of a step that read the given kind of input; mid is the client
\* after any connection it completed and before any failure it met.
Record(mid, found) ==
  LET up   == client.state # "CONNECTED" /\ mid.state = "CONNECTED"
      down == client.state # "DISCONNECTED" /\ client'.state = "DISCONNECTED"
      failed == IF up THEN 0 ELSE fails
  IN  /\ silence' = IF up \/ found = "frame" THEN 0 ELSE silence
      /\ fails' = IF down THEN Lesser(failed + 1, Horizon) ELSE failed

-----------------------------------------------------------------------------
\* A: tryConnect, when DISCONNECTED, and the registration with epoll.

Due == client.state = "DISCONNECTED" /\ client.attempt >= client.backoff

\* Connected or connecting, or still backing off.
NoAttempt ==
  /\ pc = "connect" /\ ~Due
  /\ pc' = "beat"
  /\ UNCHANGED <<client, sock, inbox, reachable, silence, sinceCall, fails>>

\* socket, fcntl or inet_pton fail: no state is left behind, not even an attempt.
SocketFails ==
  /\ pc = "connect" /\ Due
  /\ pc' = "beat"
  /\ UNCHANGED <<client, sock, inbox, reachable, silence, sinceCall, fails>>

BadRegisteredAnyway(c, ok) == IF ok THEN [c EXCEPT !.interest = {"IN", "OUT"}] ELSE c

\* epoll_ctl(ADD) for readability and writability; the link is dropped if it fails.
Registered(c, ok) == IF ok THEN [c EXCEPT !.interest = {"IN", "OUT"}] ELSE close(c)

ConnectStarts(added) ==
  /\ pc = "connect" /\ Due
  /\ client' = Registered([client EXCEPT !.state = "CONNECTING", !.fd = Fd, !.attempt = 0],
                          added)
  /\ Settle("syn")
  /\ pc' = "beat" /\ sinceCall' = 0
  /\ UNCHANGED <<reachable, silence, fails>>

\* connect(2) returns 0: the attempt is not timed and the timers are not reset.
ConnectSucceeds(added) ==
  /\ ConnectAtOnce /\ reachable
  /\ pc = "connect" /\ Due
  /\ client' = Registered([client EXCEPT !.state = "CONNECTED", !.fd = Fd, !.backoff = 1],
                          added)
  /\ Settle("open")
  /\ pc' = "beat" /\ sinceCall' = 0
  /\ silence' = 0 /\ fails' = 0
  /\ UNCHANGED reachable

ConnectFails ==
  /\ ~reachable
  /\ pc = "connect" /\ Due
  /\ client' = handleFail(client)
  /\ pc' = "beat" /\ sinceCall' = 0
  /\ fails' = Lesser(fails + 1, Horizon)
  /\ UNCHANGED <<sock, inbox, reachable, silence>>

-----------------------------------------------------------------------------
\* B2: the heartbeat.

SendHeartbeat ==
  /\ pc = "beat"
  /\ \E sent \in BOOLEAN : client' = sendHeartbeat(client, sent)
  /\ Settle(sock)
  /\ pc' = "check"
  /\ Record(client, "nothing")
  /\ UNCHANGED <<reachable, sinceCall>>

CheckHeartbeatTimeout ==
  /\ pc = "check"
  /\ client' = checkHeartbeatTimeout(client)
  /\ Settle(sock)
  /\ pc' = "wait"
  /\ Record(client, "nothing")
  /\ UNCHANGED <<reachable, sinceCall>>

-----------------------------------------------------------------------------
\* C and D: epoll_wait and the events.

\* The clock moves in epoll_wait, and by at most MaxWait before it returns.
Tick ==
  /\ pc = "wait"
  /\ pc' = "late"
  /\ \E s \in 1 .. MaxWait :
       /\ client' = [client EXCEPT !.attempt = Older(@, s), !.send = Older(@, s),
                                   !.recv = Older(@, s)]
       /\ silence' = Older(silence, s) /\ sinceCall' = Older(sinceCall, s)
  /\ UNCHANGED <<sock, inbox, reachable, fails>>

\* epoll_wait returns 0, or the one event it reported has been handled.
EndOfPass ==
  /\ pc \in {"late", "tcp", "ipc"}
  /\ pc' = "connect"
  /\ UNCHANGED <<client, sock, inbox, reachable, silence, sinceCall, fails>>

\* What epoll reports of the socket, given the interest.
Events ==
  LET writable == IF sock \in {"open", "refused"} THEN {"OUT"} ELSE {}
      readables == IF sock = "refused" \/ inbox # "nothing" THEN {"IN"} ELSE {}
      error == IF sock = "refused" \/ inbox = "reset" THEN {"ERR"} ELSE {}
  IN  ((writable \cup readables) \cap client.interest) \cup error

\* The TCP branch of the event loop: writable, then readable, then error.
TcpEvent ==
  LET broken == sock = "refused" \/ inbox = "reset"
      c1 == IF "OUT" \in Events THEN connectionResult(client, broken) ELSE client
      c2 == IF "IN" \in Events THEN readable(c1, inbox) ELSE c1
      c3 == IF "ERR" \in Events THEN onDisconnected(c2) ELSE c2
  IN  /\ pc \in {"wait", "late", "tcp"}
      /\ client.fd # NoFd /\ Events # {}
      /\ client' = c3
      /\ sock' = IF c3.fd = NoFd THEN "none" ELSE sock
      /\ inbox' = IF "IN" \in Events \/ c3.fd = NoFd THEN "nothing" ELSE inbox
      /\ pc' = IF pc = "tcp" THEN "connect" ELSE "ipc"
      /\ Record(c1, IF "IN" \in Events THEN inbox ELSE "nothing")
      /\ UNCHANGED <<reachable, sinceCall>>

\* The IPC branch: telemetry from Control is sent on, and the send may fail.
IpcEvent ==
  /\ pc \in {"wait", "late", "ipc"}
  /\ \E sent \in BOOLEAN :
       client' = IF client.state = "CONNECTED" /\ ~sent THEN onDisconnected(client) ELSE client
  /\ Settle(sock)
  /\ pc' = IF pc = "ipc" THEN "connect" ELSE "tcp"
  /\ Record(client, "nothing")
  /\ UNCHANGED <<reachable, sinceCall>>

-----------------------------------------------------------------------------
\* The ground station and the network.

HandshakeEnds ==
  /\ sock = "syn"
  /\ sock' = IF reachable THEN "open" ELSE "refused"
  /\ UNCHANGED <<client, pc, inbox, reachable, silence, sinceCall, fails>>

Arrives(found) ==
  /\ sock = "open"
  /\ \/ inbox \in {"nothing", "bytes"} /\ found \in {"bytes", "frame"}
     \/ ~reachable /\ found \in {"eof", "reset"}
  /\ inbox' = found
  /\ UNCHANGED <<client, pc, sock, reachable, silence, sinceCall, fails>>

NetworkChanges ==
  /\ reachable' = ~reachable
  /\ UNCHANGED <<client, pc, sock, inbox, silence, sinceCall, fails>>

-----------------------------------------------------------------------------

Loop ==
  \/ NoAttempt \/ SocketFails \/ ConnectFails
  \/ \E added \in BOOLEAN : ConnectStarts(added) \/ ConnectSucceeds(added)
  \/ SendHeartbeat \/ CheckHeartbeatTimeout
  \/ Tick \/ EndOfPass \/ TcpEvent \/ IpcEvent

Network ==
  \/ HandshakeEnds \/ NetworkChanges
  \/ \E found \in {"bytes", "frame", "eof", "reset"} : Arrives(found)

Next == Loop \/ Network

Spec == Init /\ [][Next]_vars

\* The loop runs, time passes, a handshake ends one way or the other, epoll
\* reports what is ready, and local resources do not fail for ever.
Fairness ==
  /\ WF_vars(Loop) /\ SF_vars(Tick) /\ WF_vars(HandshakeEnds)
  /\ SF_vars(TcpEvent) /\ SF_vars(ConnectStarts(TRUE))

FairSpec == Spec /\ Fairness

-----------------------------------------------------------------------------

Age == 0 .. Horizon
Client == [state : {"DISCONNECTED", "CONNECTING", "CONNECTED"}, fd : {NoFd, Fd},
           interest : SUBSET {"IN", "OUT"}, backoff : 1 .. MaxBackoff,
           attempt : Age, send : Age, recv : Age \cup {Never}]

TypeOK ==
  /\ client \in Client
  /\ pc \in {"connect", "beat", "check", "wait", "late", "tcp", "ipc"}
  /\ sock \in {"none", "syn", "refused", "open"}
  /\ inbox \in {"nothing", "bytes", "frame", "eof", "reset"}
  /\ reachable \in BOOLEAN
  /\ silence \in Age /\ sinceCall \in Age /\ fails \in Age

\* Whatever fails and wherever: a client that believes in its link holds a
\* socket that epoll watches, for its result too while it is pending, and a
\* client that does not holds none.  Otherwise the link would hang for ever,
\* since the loop reconnects in DISCONNECTED only.
LinkObserved ==
  /\ client.state = "DISCONNECTED" <=> client.fd = NoFd
  /\ client.state = "DISCONNECTED" <=> sock = "none"
  /\ client.state = "CONNECTED" => "IN" \in client.interest
  /\ client.state = "CONNECTING" => client.interest = {"IN", "OUT"}

\* A dead station is noticed: no link stays CONNECTED for HbTimeout seconds
\* without a frame, give or take the one pass of the loop it takes to look.
TimelyDetection ==
  client.state = "CONNECTED" =>
    /\ silence < HbTimeout + MaxWait
    /\ pc = "wait" => silence < HbTimeout

\* A live station is not given up: the heartbeat check drops a link only when
\* HbTimeout seconds have passed since it came up and since its last frame.
NoPrematureTimeout ==
  [][pc = "check" /\ client.state = "CONNECTED" /\ client'.state # "CONNECTED"
       => silence >= HbTimeout]_vars

\* Two to the n.
Power[n \in Nat] == IF n = 0 THEN 1 ELSE 2 * Power[n - 1]

\* Successive calls of connect(2) are at least 2^n seconds apart after n
\* failures in a row, up to MaxBackoff, across every way an attempt can end.
AttemptsBackOff ==
  [][pc = "connect" /\ client' # client
       => sinceCall >= Lesser(Power[fails], MaxBackoff)]_vars

\* A station that stays reachable is connected to again and again, however
\* the link, the heartbeats and the backoff stood before.
Reconnects == <>[]reachable => []<>(client.state = "CONNECTED")

=============================================================================
