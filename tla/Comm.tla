--------------------------------- MODULE Comm ---------------------------------
(***************************************************************************)
(* The main loop of the Comm process (src/comm_main.cpp) as a user of file *)
(* descriptors: the TCP client's socket, the IPC client's socket (class    *)
(* UnixSocketClient, src/ipc.cpp), the epoll instance that watches some of *)
(* them, and the kernel, which gives a closed descriptor's number out again*)
(* and always the lowest one.  Control appears as the process that listens *)
(* on /tmp/x_pilot.ipc, accepts one connection in its life and dies.  The  *)
(* TCP link's timing is TcpClient's business: here it comes and goes.      *)
(***************************************************************************)
EXTENDS Integers, FiniteSets

CONSTANTS Fd,          \* the descriptors the process may get
          MaxLives,    \* bound: times Control is started
          MaxPending   \* bound: telemetry frames not yet read

ASSUME CommAssumption ==
  /\ Fd \subseteq Nat /\ Cardinality(Fd) >= 3
  /\ MaxLives \in Nat /\ MaxPending \in Nat

NoFd == -1

VARIABLES
  pc,             \* where the loop is: A, B, B2, C, D
  g_should_exit,
  tcp,            \* state and m_sock_fd of the TcpClient
  ipc_fd,         \* m_sock_fd of the UnixSocketClient
  epoll_fd,
  ready,          \* events of this epoll_wait not yet handled
  desc,           \* kernel: what each descriptor is
  watched,        \* kernel: the descriptors in the epoll set
  control,        \* "down", "listening" (in its accept loop), "busy" (past it), or
                  \* "crowded" (past it, with as many waiting as listen allows)
  peer,           \* Control's end of the IPC connection
  pending,        \* whole telemetry frames on that connection
  half,           \* and the header of another
  lives,
  echoed          \* history: a command went back to the station it came from

process == <<tcp, ipc_fd, epoll_fd, desc, watched>>
environment == <<control, peer, pending, half, lives>>
vars == <<pc, g_should_exit, tcp, ipc_fd, epoll_fd, ready, desc, watched, control, peer,
          pending, half, lives, echoed>>

Free == {fd \in Fd : desc[fd] = "free"}
Lowest == CHOOSE fd \in Free : \A other \in Free : fd <= other

Init ==
  /\ pc = "start" /\ g_should_exit = FALSE
  /\ tcp = [state |-> "DISCONNECTED", fd |-> NoFd]
  /\ ipc_fd = NoFd /\ epoll_fd = NoFd /\ ready = {}
  /\ desc = [fd \in Fd |-> "free"] /\ watched = {}
  /\ control \in {"down", "listening", "busy", "crowded"}
  /\ peer = "none" /\ pending = 0 /\ half = FALSE /\ lives = 0 /\ echoed = FALSE

-----------------------------------------------------------------------------
\* The IPC client.

BadConnectLeaks(wanted) ==
  /\ desc' = [desc EXCEPT ![Lowest] = "ipc"]
  /\ IF control = "down"
       THEN ipc_fd' = NoFd /\ UNCHANGED <<watched, peer>>
       ELSE /\ ipc_fd' = Lowest
            /\ watched' = IF wanted THEN watched \cup {Lowest} ELSE watched
            /\ peer' = "queued"

\* connectToServer: Control need only be listening to succeed, it need not
\* accept.  The caller may want the socket watched.  connect(2) waits, and no signal
\* ends it (signal(2) restarts it), while the connections of earlier Comms fill the
\* backlog of a Control that will not accept them.
connectToServer(wanted) ==
  /\ control # "crowded"
  /\ IF control = "down"
       THEN UNCHANGED <<ipc_fd, desc, watched, peer>>
       ELSE /\ ipc_fd' = Lowest
            /\ desc' = [desc EXCEPT ![Lowest] = "ipc"]
            /\ watched' = IF wanted THEN watched \cup {Lowest} ELSE watched
            /\ peer' = "queued"

\* Before the loop: the first connection is made, and epoll never hears of it.
Start ==
  /\ pc = "start"
  /\ connectToServer(FALSE)
  /\ pc' = "epoll"
  /\ UNCHANGED <<g_should_exit, tcp, epoll_fd, ready, control, pending, half, lives, echoed>>

EpollCreated ==
  /\ pc = "epoll"
  /\ epoll_fd' = Lowest
  /\ desc' = [desc EXCEPT ![Lowest] = "epoll"]
  /\ pc' = "connect"
  /\ UNCHANGED <<g_should_exit, tcp, ipc_fd, ready, watched, environment, echoed>>

-----------------------------------------------------------------------------
\* A: the TCP link.

\* The last descriptor of a socket goes, and the socket leaves the epoll set.
Closed(fd) == /\ desc' = [desc EXCEPT ![fd] = "free"]
              /\ watched' = watched \ {fd}

\* close, by way of handleFail or not.
TcpDown ==
  /\ tcp' = [state |-> "DISCONNECTED", fd |-> NoFd]
  /\ IF tcp.fd = NoFd THEN UNCHANGED <<desc, watched>> ELSE Closed(tcp.fd)

BadTryConnect ==
  /\ pc = "connect" /\ ~g_should_exit
  /\ tcp.state = "DISCONNECTED"
  /\ \E s \in {"CONNECTING", "CONNECTED"} : tcp' = [state |-> s, fd |-> Lowest]
  /\ desc' = [desc EXCEPT ![Lowest] = "tcp"]
  /\ pc' = "ipc"
  /\ UNCHANGED <<g_should_exit, ipc_fd, epoll_fd, ready, watched, environment, echoed>>

\* tryConnect gets a socket under way, which is then watched.
TryConnect ==
  /\ pc = "connect" /\ ~g_should_exit
  /\ tcp.state = "DISCONNECTED"
  /\ \E s \in {"CONNECTING", "CONNECTED"} : tcp' = [state |-> s, fd |-> Lowest]
  /\ desc' = [desc EXCEPT ![Lowest] = "tcp"]
  /\ watched' = watched \cup {Lowest}
  /\ pc' = "ipc"
  /\ UNCHANGED <<g_should_exit, ipc_fd, epoll_fd, ready, environment, echoed>>

\* The link exists, or tryConnect waits, or it fails and leaves no socket.
NoConnect ==
  /\ pc = "connect" /\ ~g_should_exit
  /\ pc' = "ipc"
  /\ UNCHANGED <<g_should_exit, process, ready, environment, echoed>>

-----------------------------------------------------------------------------
\* B and B2: the IPC connection, and the heartbeat.

IpcUsable == ipc_fd # NoFd

BadReconnectOffline ==
  /\ pc = "ipc"
  /\ IF IpcUsable \/ tcp.state = "DISCONNECTED"
       THEN UNCHANGED <<ipc_fd, desc, watched, peer>>
       ELSE connectToServer(TRUE)
  /\ pc' = "beat"
  /\ UNCHANGED <<g_should_exit, tcp, epoll_fd, ready, control, pending, half, lives, echoed>>

ReconnectIpc ==
  /\ pc = "ipc"
  /\ IF IpcUsable THEN UNCHANGED <<ipc_fd, desc, watched, peer>> ELSE connectToServer(TRUE)
  /\ pc' = "beat"
  /\ UNCHANGED <<g_should_exit, tcp, epoll_fd, ready, control, pending, half, lives, echoed>>

\* sendHeartbeat and checkHeartbeatTimeout may each find the link dead.
Heartbeat ==
  /\ pc = "beat"
  /\ \/ TcpDown
     \/ UNCHANGED <<tcp, desc, watched>>
  /\ pc' = "wait"
  /\ UNCHANGED <<g_should_exit, ipc_fd, epoll_fd, ready, environment, echoed>>

-----------------------------------------------------------------------------
\* C: epoll_wait reports every watched socket that has something to say; whether
\* the TCP socket has is the station's choice.  A timeout or EINTR reports none.

IpcHasEvent == desc[ipc_fd] = "ipc" /\ (pending > 0 \/ half \/ peer = "closed")


\* The timeout is a second, so that the loop comes round when nothing happens.
EpollWait ==
  /\ pc = "wait"
  /\ \E station \in SUBSET ({tcp.fd} \cap watched) :
       ready' = station \cup {fd \in {ipc_fd} \cap watched : IpcHasEvent}
  /\ pc' = "events"
  /\ UNCHANGED <<g_should_exit, process, environment, echoed>>

EventsEnd ==
  /\ pc = "events" /\ ready = {}
  /\ pc' = "connect"
  /\ UNCHANGED <<g_should_exit, process, ready, environment, echoed>>

-----------------------------------------------------------------------------
\* D: the events, in whatever order epoll has put them.

Handling(fd) == pc = "events" /\ fd \in ready /\ ready' = ready \ {fd}

\* Writable: the connection is there.
TcpConnected(fd) ==
  /\ Handling(fd) /\ fd = tcp.fd
  /\ tcp.state = "CONNECTING"
  /\ tcp' = [tcp EXCEPT !.state = "CONNECTED"]
  /\ UNCHANGED <<pc, g_should_exit, ipc_fd, epoll_fd, desc, watched, environment, echoed>>

\* Refused, ended or reset.
TcpLost(fd) ==
  /\ Handling(fd) /\ fd = tcp.fd
  /\ TcpDown
  /\ UNCHANGED <<pc, g_should_exit, ipc_fd, epoll_fd, environment, echoed>>

\* A command, passed to the descriptor in ipc_client, whatever that is by now;
\* the result of sendFrame is not looked at.
TcpCommand(fd) ==
  /\ Handling(fd) /\ fd = tcp.fd
  /\ tcp.state = "CONNECTED"
  /\ echoed' = (echoed \/ (IpcUsable /\ desc[ipc_fd] = "tcp"))
  /\ UNCHANGED <<pc, g_should_exit, process, environment>>

\* Part of a frame, or EPOLLOUT of a link that was connected at once.
TcpNothing(fd) ==
  /\ Handling(fd) /\ fd = tcp.fd
  /\ UNCHANGED <<pc, g_should_exit, process, environment, echoed>>

\* recvFrame returns a frame (it blocks while there is only a header).  It is
\* sent on over a connected link, which may break of it.
IpcTelemetry(fd) ==
  /\ Handling(fd) /\ fd # tcp.fd /\ fd = ipc_fd
  /\ pending > 0
  /\ pending' = pending - 1
  /\ \/ UNCHANGED <<tcp, desc, watched>>
     \/ tcp.state = "CONNECTED" /\ TcpDown
  /\ UNCHANGED <<pc, g_should_exit, ipc_fd, epoll_fd, control, peer, half, lives, echoed>>

BadIpcLost(fd) ==
  /\ Handling(fd) /\ fd # tcp.fd /\ fd = ipc_fd
  /\ pending = 0 /\ peer = "closed"
  /\ UNCHANGED <<pc, g_should_exit, process, environment, echoed>>

BadIpcHalf(fd) ==
  /\ Handling(fd) /\ fd # tcp.fd /\ fd = ipc_fd
  /\ pending = 0 /\ (peer = "closed" \/ half)
  /\ Closed(fd)
  /\ half' = FALSE
  /\ UNCHANGED <<pc, g_should_exit, tcp, ipc_fd, epoll_fd, control, peer, pending, lives,
                 echoed>>

\* recvFrame fails: the descriptor is closed behind ipc_client's back.
IpcLost(fd) ==
  /\ Handling(fd) /\ fd # tcp.fd /\ fd = ipc_fd
  /\ pending = 0 /\ peer = "closed"
  /\ Closed(fd)
  /\ half' = FALSE
  /\ UNCHANGED <<pc, g_should_exit, tcp, ipc_fd, epoll_fd, control, peer, pending, lives,
                 echoed>>

\* The socket has been closed since epoll_wait returned.
StaleEvent(fd) ==
  /\ Handling(fd) /\ fd \notin {tcp.fd, ipc_fd}
  /\ UNCHANGED <<pc, g_should_exit, process, environment, echoed>>

\* The loop ends; the second close of a shared number fails with EBADF.
CleanUp ==
  /\ pc = "connect" /\ g_should_exit
  /\ desc' = [fd \in Fd |-> IF fd \in {epoll_fd, tcp.fd, ipc_fd} THEN "free" ELSE desc[fd]]
  /\ watched' = {}
  /\ tcp' = [state |-> "DISCONNECTED", fd |-> NoFd] /\ ipc_fd' = NoFd
  /\ pc' = "done"
  /\ UNCHANGED <<g_should_exit, epoll_fd, ready, environment, echoed>>

-----------------------------------------------------------------------------
\* Control and the Manager.

ControlStarts ==
  /\ control = "down" /\ lives < MaxLives
  /\ control' = "listening" /\ lives' = lives + 1
  /\ UNCHANGED <<pc, g_should_exit, process, ready, peer, pending, half, echoed>>

\* The one accept of its life.
ControlAccepts ==
  /\ control = "listening" /\ peer = "queued"
  /\ control' = "busy" /\ peer' = "accepted"
  /\ UNCHANGED <<pc, g_should_exit, process, ready, pending, half, lives, echoed>>

\* sendFrame: the header, then the body.
ControlBeginsFrame ==
  /\ peer = "accepted" /\ ~half /\ pending < MaxPending
  /\ half' = TRUE
  /\ UNCHANGED <<pc, g_should_exit, process, ready, control, peer, pending, lives, echoed>>

ControlEndsFrame ==
  /\ peer = "accepted" /\ half
  /\ half' = FALSE /\ pending' = pending + 1
  /\ UNCHANGED <<pc, g_should_exit, process, ready, control, peer, lives, echoed>>

\* A frame it refuses: Control closes the connection and lives on.
ControlHangsUp ==
  /\ peer = "accepted"
  /\ peer' = "closed"
  /\ UNCHANGED <<pc, g_should_exit, process, ready, control, pending, half, lives, echoed>>

ControlDies ==
  /\ control # "down"
  /\ control' = "down"
  /\ peer' = IF peer = "none" THEN "none" ELSE "closed"
  /\ UNCHANGED <<pc, g_should_exit, process, ready, pending, half, lives, echoed>>

Signal ==
  /\ pc # "done"
  /\ g_should_exit' = TRUE
  /\ UNCHANGED <<pc, process, ready, environment, echoed>>

-----------------------------------------------------------------------------

Event(fd) ==
  \/ TcpConnected(fd) \/ TcpLost(fd) \/ TcpCommand(fd) \/ TcpNothing(fd)
  \/ IpcTelemetry(fd) \/ IpcLost(fd) \/ StaleEvent(fd)

Loop ==
  \/ Start \/ EpollCreated \/ TryConnect \/ NoConnect \/ ReconnectIpc \/ Heartbeat
  \/ EpollWait \/ (\E fd \in Fd : Event(fd)) \/ EventsEnd \/ CleanUp

Control ==
  \/ ControlStarts \/ ControlAccepts \/ ControlBeginsFrame \/ ControlEndsFrame
  \/ ControlHangsUp \/ ControlDies

Next == Loop \/ Control \/ Signal

Spec == Init /\ [][Next]_vars

\* The loop runs, and a Control that has sent a header sends the body or dies.
FairSpec == Spec /\ WF_vars(Loop) /\ WF_vars(ControlEndsFrame)

-----------------------------------------------------------------------------

\* A loop that opens a socket each time one of two peers is away never loses
\* track of one: whatever is open is the epoll instance or held by a client,
\* and the TCP client's number is that of a TCP socket.
NoLeak ==
  /\ \A fd \in Fd :
       /\ desc[fd] = "tcp" => fd = tcp.fd
       /\ desc[fd] = "ipc" => fd = ipc_fd
       /\ desc[fd] = "epoll" => fd = epoll_fd
  /\ tcp.fd # NoFd => desc[tcp.fd] = "tcp"

\* What epoll watches is open and has a handler; a TCP socket always is watched.
Watched ==
  /\ watched \subseteq {tcp.fd, ipc_fd} \ {NoFd}
  /\ \A fd \in watched : desc[fd] \in {"tcp", "ipc"}
  /\ tcp.fd # NoFd => tcp.fd \in watched

\* Until its first connection to Control, Comm goes on trying, be the ground
\* station there or not, and is connected if Control stays up.  So it is with a Control
\* that has taken another Comm, but not with one whose backlog stays full.
IpcFound == <>(control # "crowded") => []<>(ipc_fd # NoFd \/ control = "down" \/ g_should_exit)

\* The IPC socket itself, not a TCP socket that got its number.
IpcWatched == ipc_fd \in watched /\ desc[ipc_fd] = "ipc"

\* The end of a watched IPC connection is noticed, and its descriptor released,
\* however much telemetry is still to be read, and even mid-frame.
IpcLossNoticed == (peer = "closed" /\ IpcWatched) ~> ~IpcWatched

\* Once told to exit the loop ends, although recvFrame blocks on half a frame; but
\* not while connect(2) blocks.
ExitHonoured == <>(control # "crowded") => (g_should_exit ~> pc = "done")

-----------------------------------------------------------------------------
\* What System makes of one Comm and the Controls it meets.  The first Control is
\* up or has died when Comm starts, so that one of n lives is number n + 1.

UpIf(b) == IF b THEN "up" ELSE "down"

\* Where Control is and where the connection's other end is, for System.  One that is
\* past its accept and not this Comm's has another, or none any more.
Place == CASE control = "down" -> "out"
           [] control = "listening" -> "accepting"
           [] OTHER -> IF peer = "accepted" THEN "serving" ELSE "refused"

\* A number that is no longer the connection's leads nowhere.  (Which Control a
\* connection that has ended led to makes no difference to System.)
Link == IF ipc_fd = NoFd THEN [to |-> 0, watched |-> FALSE]
        ELSE IF desc[ipc_fd] # "ipc" THEN [to |-> -1, watched |-> FALSE]
        ELSE IF ipc_fd \in watched THEN [to |-> lives + 1, watched |-> TRUE]
        ELSE [to |-> lives + 1, watched |-> FALSE]

S == INSTANCE System WITH
  Backlog  <- 5,
  MaxLives <- 0,
  life     <- [control_process |-> UpIf(control # "down"), comm_process |-> UpIf(pc # "done"),
               view_process |-> "gone"],
  asked    <- FALSE,
  stopping <- FALSE,
  nth      <- [control_process |-> lives + 1, comm_process |-> 1, view_process |-> 0],
  control  <- Place,
  bound    <- lives + 1,
  backlog  <- IF peer = "queued" THEN <<1>> ELSE <<>>,
  client   <- IF peer = "accepted" THEN 1 ELSE 0,
  comm     <- CASE pc = "start" -> "boot" [] pc = "done" -> "out" [] OTHER -> "loop",
  link     <- Link,
  name     <- lives + 1,
  mapped   <- IF control = "down" THEN 0 ELSE lives + 1,
  view     <- "out",
  shown    <- 0,
  unlinked <- {},
  ending   <- IF control = "down" THEN "crash" ELSE "none"

\* What the loop does with descriptors that are closed behind a client's back, given
\* out again and reported by epoll late is what System lets a Comm do: it tries
\* once before the loop, connects again only if it never was connected, drops only
\* a connection that has ended, and one that is not watched never.  (A start of
\* Control is several steps of System.)
StepsOfSystem == [][~ControlStarts => [S!Next]_(S!vars)]_vars

-----------------------------------------------------------------------------
\* What the readme and comments say, and the code does not do.

\* Data goes from the station to Control and from Control to the station
\* (readme.md:58), not from the station back to the station.
NoEcho == ~echoed

=============================================================================
