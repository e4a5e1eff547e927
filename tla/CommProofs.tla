------------------------------- MODULE CommProofs -------------------------------
(***************************************************************************)
(* What holds of Comm's descriptors for every set of them that the kernel  *)
(* may give out, and for any number of Control's lives and frames.         *)
(***************************************************************************)
EXTENDS Comm, Sequences, FiniteSetTheorems, WellFoundedInduction, TLAPS

Kind == {"free", "tcp", "ipc", "epoll"}

\* What the clients hold, and a TCP client without a link has no socket.
Types ==
  /\ desc \in [Fd -> Kind]
  /\ tcp \in [state : {"DISCONNECTED", "CONNECTING", "CONNECTED"}, fd : Fd \cup {NoFd}]
  /\ tcp.state = "DISCONNECTED" => tcp.fd = NoFd
  /\ ipc_fd \in Fd \cup {NoFd} /\ epoll_fd \in Fd \cup {NoFd}

\* In which order the first descriptors are made.  The number in the IPC client,
\* which may be stale, is given out to TCP sockets but never to the epoll instance,
\* because that one comes before the first close.
Order ==
  /\ pc = "start" => ipc_fd = NoFd
  /\ pc \in {"start", "epoll"} => epoll_fd = NoFd /\ tcp.fd = NoFd /\ watched = {}
  /\ pc = "epoll" /\ ipc_fd # NoFd => desc[ipc_fd] = "ipc"
  /\ ipc_fd # NoFd => desc[ipc_fd] # "epoll"

Inv == Types /\ Order /\ NoLeak /\ Watched

-----------------------------------------------------------------------------
\* The kernel always has a number, and gives out one that is free.

LEMMA NoFdIsNone == NoFd \notin Fd
BY CommAssumption DEF NoFd

LEMMA TwoAreNotEnough == ASSUME NEW a, NEW b PROVE \E fd \in Fd : fd # a /\ fd # b
<1> SUFFICES ASSUME Fd \subseteq {a} \cup {b} PROVE FALSE
  OBVIOUS
<1>1. IsFiniteSet({a}) /\ Cardinality({a}) = 1
  BY FS_Singleton
<1>2. IsFiniteSet({a} \cup {b}) /\ Cardinality({a} \cup {b}) <= 2
  BY <1>1, FS_AddElement
<1>3. Cardinality(Fd) <= Cardinality({a} \cup {b}) /\ IsFiniteSet(Fd)
  BY <1>2, FS_Subset
<1>4. Cardinality(Fd) \in Nat /\ Cardinality({a} \cup {b}) \in Nat
  BY <1>2, <1>3, FS_CardinalityType
<1> QED
  BY <1>2, <1>3, <1>4, CommAssumption

LEMMA HasSmallest ==
  ASSUME NEW Set \in SUBSET Nat, Set # {} PROVE \E n \in Set : \A other \in Set : n <= other
<1>1. PICK n \in Set : \A other \in Set : ~(<<other, n>> \in OpToRel(<, Nat))
  BY NatLessThanWellFounded, WFMin
<1>2. \A other \in Set : ~(other < n)
  BY <1>1 DEF OpToRel
<1> QED
  BY <1>2

LEMMA LowestIsFree ==
  ASSUME Free # {} PROVE Lowest \in Fd /\ Lowest # NoFd /\ desc[Lowest] = "free"
<1>1. Free \in SUBSET Nat
  BY CommAssumption DEF Free
<1>2. \E fd \in Free : \A other \in Free : fd <= other
  BY <1>1, HasSmallest
<1>3. Lowest \in Free
  BY <1>2 DEF Lowest
<1> QED
  BY <1>3, NoFdIsNone DEF Free

\* All that is open is held by two of three: one number is left for the third.
LEMMA RoomForOne ==
  ASSUME Inv, tcp.fd = NoFd \/ epoll_fd = NoFd \/ ipc_fd = NoFd
  PROVE  Free # {}
<1>1. \E a, b : {tcp.fd, epoll_fd, ipc_fd} \ {NoFd} \subseteq {a, b}
  OBVIOUS
<1>2. PICK a, b : {tcp.fd, epoll_fd, ipc_fd} \ {NoFd} \subseteq {a, b}
  BY <1>1
<1>3. PICK fd \in Fd : fd # a /\ fd # b
  BY TwoAreNotEnough
<1>4. fd # NoFd
  BY CommAssumption DEF NoFd
<1>5. desc[fd] \in Kind /\ desc[fd] \notin {"tcp", "ipc", "epoll"}
  BY <1>2, <1>3, <1>4 DEF Inv, Types, NoLeak
<1> QED
  BY <1>5 DEF Free, Kind

-----------------------------------------------------------------------------

LEMMA InitInv == Init => Inv
BY CommAssumption DEF Init, Inv, Types, Order, NoLeak, Watched, Kind, NoFd

LEMMA StartInv == Inv /\ Start => Inv'
<1> SUFFICES ASSUME Inv, Start PROVE Inv'
  OBVIOUS
<1>1. Lowest \in Fd /\ Lowest # NoFd /\ desc[Lowest] = "free"
  BY RoomForOne, LowestIsFree DEF Inv, Order, Start
<1> USE <1>1, NoFdIsNone DEF Inv, Start, connectToServer
<1>2. Types'
  BY DEF Types, Kind
<1>3. Order'
  BY DEF Types, Order
<1>4. NoLeak'
  BY DEF Types, Order, NoLeak
<1>5. Watched'
  BY DEF Order, Watched
<1> QED
  BY <1>2, <1>3, <1>4, <1>5

LEMMA EpollCreatedInv == Inv /\ EpollCreated => Inv'
<1> SUFFICES ASSUME Inv, EpollCreated PROVE Inv'
  OBVIOUS
<1>1. Lowest \in Fd /\ Lowest # NoFd /\ desc[Lowest] = "free"
  BY RoomForOne, LowestIsFree DEF Inv, Order, EpollCreated
<1> USE <1>1, NoFdIsNone DEF Inv, EpollCreated
<1>2. Types'
  BY DEF Types, Kind
<1>3. Order'
  BY DEF Types, Order
<1>4. NoLeak'
  BY DEF Types, Order, NoLeak
<1>5. Watched'
  BY DEF Order, Watched
<1> QED
  BY <1>2, <1>3, <1>4, <1>5

\* The new socket may have the number that the IPC client still keeps.
LEMMA TryConnectInv == Inv /\ TryConnect => Inv'
<1> SUFFICES ASSUME Inv, TryConnect PROVE Inv'
  OBVIOUS
<1>1. tcp.fd = NoFd
  BY DEF Inv, Types, TryConnect
<1>2. Lowest \in Fd /\ Lowest # NoFd /\ desc[Lowest] = "free"
  BY <1>1, RoomForOne, LowestIsFree
<1>3. PICK s \in {"CONNECTING", "CONNECTED"} : tcp' = [state |-> s, fd |-> Lowest]
  BY DEF TryConnect
<1> USE <1>1, <1>2, <1>3, NoFdIsNone DEF Inv, TryConnect
<1>4. Types'
  BY DEF Types, Kind
<1>5. Order'
  BY DEF Types, Order
<1>6. NoLeak'
  BY DEF Types, NoLeak
<1>7. Watched'
  BY DEF Types, Watched
<1> QED
  BY <1>4, <1>5, <1>6, <1>7

LEMMA ReconnectIpcInv == Inv /\ ReconnectIpc => Inv'
<1> SUFFICES ASSUME Inv, ReconnectIpc PROVE Inv'
  OBVIOUS
<1>1. CASE IpcUsable \/ control = "down"
  BY <1>1 DEF ReconnectIpc, connectToServer, Inv, Types, Order, NoLeak, Watched
<1>2. CASE ~IpcUsable /\ control # "down"
  <2>1. ipc_fd = NoFd
    BY <1>2 DEF IpcUsable
  <2>2. Lowest \in Fd /\ Lowest # NoFd /\ desc[Lowest] = "free"
    BY <2>1, RoomForOne, LowestIsFree
  <2> USE <1>2, <2>1, <2>2, NoFdIsNone DEF Inv, ReconnectIpc, connectToServer
  <2>3. Types'
    BY DEF Types, Kind
  <2>4. Order'
    BY DEF Types, Order
  <2>5. NoLeak'
    BY DEF Types, NoLeak
  <2>6. Watched'
    BY DEF Types, NoLeak, Watched
  <2> QED
    BY <2>3, <2>4, <2>5, <2>6
<1> QED
  BY <1>1, <1>2

\* The TCP link ends, with or without a socket, wherever the loop is.
LEMMA TcpDownInv ==
  ASSUME Inv, TcpDown, UNCHANGED <<ipc_fd, epoll_fd>>,
         pc \notin {"start", "epoll"}, pc' \notin {"start", "epoll"}
  PROVE  Inv'
<1> USE DEF Inv, TcpDown, Closed
<1>1. Types'
  BY DEF Types, Kind
<1>2. Order'
  BY DEF Types, Order
<1>3. NoLeak'
  BY DEF Types, NoLeak
<1>4. Watched'
  BY DEF Types, NoLeak, Watched
<1> QED
  BY <1>1, <1>2, <1>3, <1>4

\* A step that leaves the descriptors and their holders alone.
LEMMA SameInv ==
  ASSUME Inv, UNCHANGED process,
         pc' = pc \/ {pc, pc'} \cap {"start", "epoll"} = {}
  PROVE  Inv'
BY DEF process, Inv, Types, Order, NoLeak, Watched

\* The IPC socket is closed; its number stays in the client.
LEMMA IpcLostInv == \A fd \in Fd : Inv /\ IpcLost(fd) => Inv'
<1> SUFFICES ASSUME NEW fd \in Fd, Inv, IpcLost(fd) PROVE Inv'
  OBVIOUS
<1> USE DEF Inv, IpcLost, Handling, Closed
<1>1. Types'
  BY DEF Types, Kind
<1>2. Order'
  BY DEF Types, Order
<1>3. NoLeak'
  BY DEF Types, NoLeak
<1>4. Watched'
  BY DEF Types, Watched
<1> QED
  BY <1>1, <1>2, <1>3, <1>4

LEMMA EventInv == \A fd \in Fd : Inv /\ Event(fd) => Inv'
<1> SUFFICES ASSUME NEW fd \in Fd, Inv, Event(fd) PROVE Inv'
  OBVIOUS
<1>1. CASE TcpConnected(fd)
  BY <1>1 DEF TcpConnected, Inv, Types, Order, NoLeak, Watched
<1>2. CASE TcpLost(fd)
  BY <1>2, TcpDownInv DEF TcpLost, Handling
<1>3. CASE TcpCommand(fd) \/ TcpNothing(fd) \/ StaleEvent(fd)
  BY <1>3, SameInv DEF TcpCommand, TcpNothing, StaleEvent
<1>4. CASE IpcTelemetry(fd)
  <2>1. CASE TcpDown
    BY <1>4, <2>1, TcpDownInv DEF IpcTelemetry, Handling
  <2>2. CASE UNCHANGED <<tcp, desc, watched>>
    BY <1>4, <2>2, SameInv DEF IpcTelemetry, process
  <2> QED
    BY <1>4, <2>1, <2>2 DEF IpcTelemetry
<1>5. CASE IpcLost(fd)
  BY <1>5, IpcLostInv
<1> QED
  BY <1>1, <1>2, <1>3, <1>4, <1>5 DEF Event

LEMMA CleanUpInv == Inv /\ CleanUp => Inv'
<1> SUFFICES ASSUME Inv, CleanUp PROVE Inv'
  OBVIOUS
<1> USE DEF Inv, CleanUp
<1>1. Types'
  BY DEF Types, Kind
<1>2. Order'
  BY DEF Order
<1>3. NoLeak'
  BY DEF Types, NoLeak, Kind
<1>4. Watched'
  BY DEF Watched
<1> QED
  BY <1>1, <1>2, <1>3, <1>4

LEMMA LoopInv == Inv /\ Loop => Inv'
<1> SUFFICES ASSUME Inv, Loop PROVE Inv'
  OBVIOUS
<1>1. CASE NoConnect \/ EpollWait \/ EventsEnd
  BY <1>1, SameInv DEF NoConnect, EpollWait, EventsEnd
<1>2. CASE Heartbeat
  <2>1. CASE TcpDown
    BY <1>2, <2>1, TcpDownInv DEF Heartbeat
  <2>2. CASE UNCHANGED <<tcp, desc, watched>>
    BY <1>2, <2>2, SameInv DEF Heartbeat, process
  <2> QED
    BY <1>2, <2>1, <2>2 DEF Heartbeat
<1> QED
  BY <1>1, <1>2, StartInv, EpollCreatedInv, TryConnectInv, ReconnectIpcInv, EventInv,
     CleanUpInv DEF Loop

LEMMA StepInv == Inv /\ [Next]_vars => Inv'
<1> SUFFICES ASSUME Inv, [Next]_vars PROVE Inv'
  OBVIOUS
<1>1. CASE Loop
  BY <1>1, LoopInv
<1>2. CASE Control
  <2>1. UNCHANGED process /\ pc' = pc
    BY <1>2 DEF Control, ControlStarts, ControlAccepts, ControlBeginsFrame,
                ControlEndsFrame, ControlHangsUp, ControlDies
  <2> QED
    BY <2>1, SameInv
<1>3. CASE Signal
  BY <1>3, SameInv DEF Signal
<1>4. CASE UNCHANGED vars
  BY <1>4, SameInv DEF vars, process
<1> QED
  BY <1>1, <1>2, <1>3, <1>4 DEF Next

\* The invariant of the loop: what the clients hold, and in which order the
\* descriptors came into being.
THEOREM Invariance == Spec => []Inv
BY InitInv, StepInv, PTL DEF Spec

\* However often Control and the station come and go, an open descriptor is the epoll
\* instance or held by a client (steps A, B and D and the clean-up of main).
THEOREM NeverLeaks == Spec => []NoLeak
BY Invariance, PTL DEF Inv

\* What epoll watches is open and has a handler, and a TCP socket always is watched
\* (the calls of epoll_ctl in steps A and B).
THEOREM AlwaysWatched == Spec => []Watched
BY Invariance, PTL DEF Inv

-----------------------------------------------------------------------------
\* Comm among the other processes.

\* A client without a number was never connected, and an event of the IPC client that
\* is still to be handled is one of its socket, not of another with its number.
Meeting ==
  /\ lives \in Nat
  /\ ipc_fd = NoFd /\ pc # "done" => peer = "none"
  /\ peer = "accepted" => control = "busy"
  /\ pc # "events" => ready = {}
  /\ \A fd \in ready : fd = ipc_fd /\ fd # tcp.fd => desc[fd] = "ipc" /\ fd \in watched

\* What a TCP socket that goes leaves of the IPC client's.
LEMMA TcpDownKeepsIpc ==
  ASSUME Inv, TcpDown
  PROVE  /\ \A fd \in Fd : desc[fd] = "ipc" <=> desc'[fd] = "ipc"
         /\ \A fd \in Fd : desc[fd] = "ipc" => (fd \in watched <=> fd \in watched')
BY NoFdIsNone DEF Inv, Types, NoLeak, TcpDown, Closed

LEMMA MeetingStep == Inv /\ Meeting /\ [Next]_vars => Meeting'
<1> SUFFICES ASSUME Inv, Meeting, [Next]_vars PROVE Meeting'
  OBVIOUS
<1> USE DEF Meeting
<1>1. CASE Start \/ EpollCreated \/ TryConnect \/ NoConnect \/ ReconnectIpc
  <2>1. CASE Start
    <3>1. Lowest # NoFd
      BY <2>1, RoomForOne, LowestIsFree DEF Inv, Order, Start
    <3> QED
      BY <2>1, <3>1 DEF Start, connectToServer
  <2>2. CASE ReconnectIpc
    <3>1. ipc_fd = NoFd => Lowest # NoFd
      BY RoomForOne, LowestIsFree
    <3> QED
      BY <2>2, <3>1 DEF ReconnectIpc, connectToServer, IpcUsable
  <2> QED
    BY <1>1, <2>1, <2>2 DEF EpollCreated, TryConnect, NoConnect, environment, process
<1>2. CASE Heartbeat
  BY <1>2 DEF Heartbeat, environment
<1>3. CASE EpollWait
  <2>1. PICK station \in SUBSET ({tcp.fd} \cap watched) :
          ready' = station \cup {fd \in {ipc_fd} \cap watched : IpcHasEvent}
    BY <1>3 DEF EpollWait
  <2> QED
    BY <1>3, <2>1 DEF EpollWait, IpcHasEvent, environment, process
<1>4. ASSUME NEW fd \in Fd, Event(fd) PROVE Meeting'
  <2>1. CASE TcpConnected(fd) \/ TcpCommand(fd) \/ TcpNothing(fd) \/ StaleEvent(fd)
    BY <2>1 DEF TcpConnected, TcpCommand, TcpNothing, StaleEvent, Handling, environment,
                process, Inv, Types
  <2>2. CASE TcpLost(fd)
    <3>1. tcp'.fd = NoFd
      BY <2>2 DEF TcpLost, TcpDown
    <3>2. ipc_fd = NoFd \/ ipc_fd \in Fd
      BY DEF Inv, Types
    <3>3. NoFd \notin watched
      BY DEF Inv, Watched
    <3> QED
      BY <2>2, <3>1, <3>2, <3>3, TcpDownKeepsIpc DEF TcpLost, Handling, environment
  <2>3. CASE IpcTelemetry(fd)
    BY <2>3, TcpDownKeepsIpc DEF IpcTelemetry, Handling
  <2>4. CASE IpcLost(fd)
    BY <2>4 DEF IpcLost, Handling, Closed
  <2> QED
    BY <1>4, <2>1, <2>2, <2>3, <2>4 DEF Event
<1>5. CASE EventsEnd \/ CleanUp
  BY <1>5 DEF EventsEnd, CleanUp, environment, process
<1>6. CASE Control \/ Signal
  BY <1>6 DEF Control, ControlStarts, ControlAccepts, ControlBeginsFrame, ControlEndsFrame,
              ControlHangsUp, ControlDies, Signal, process, environment
<1>7. CASE UNCHANGED vars
  BY <1>7 DEF vars
<1> QED
  BY <1>1, <1>2, <1>3, <1>4, <1>5, <1>6, <1>7 DEF Next, Loop

LEMMA MeetingHolds == Spec => []Meeting
<1>1. Init => Meeting
  BY DEF Init, Meeting
<1> QED
  BY <1>1, MeetingStep, Invariance, PTL DEF Spec

USE DEF Place, UpIf, Link
USE DEF S!vars, S!manager, S!sockets, S!memory

\* A step that System does not see: the IPC client keeps its number, and its socket, if
\* it is one still, stays watched or not.
LEMMA Unseen ==
  ASSUME Inv, UNCHANGED <<ipc_fd, control, peer, lives>>,
         {pc, pc'} \cap {"start", "done"} = {} \/ pc' = pc,
         \A fd \in Fd : desc[fd] = "ipc" <=> desc'[fd] = "ipc",
         \A fd \in Fd : desc[fd] = "ipc" => (fd \in watched <=> fd \in watched')
  PROVE  UNCHANGED S!vars
<1>1. ipc_fd = NoFd \/ ipc_fd \in Fd
  BY DEF Inv, Types
<1>2. Link' = Link
  BY <1>1
<1> QED
  BY <1>2

\* Before the loop: a connection that nobody watches, or none.
LEMMA StartIsStep == ASSUME Inv, Meeting, Start PROVE S!FirstAttempt
<1>1. Lowest \in Fd /\ Lowest # NoFd
  BY RoomForOne, LowestIsFree DEF Inv, Order, Start
<1>2. ipc_fd = NoFd /\ peer = "none" /\ watched = {} /\ desc \in [Fd -> Kind]
  BY DEF Inv, Types, Order, Meeting, Start
<1>3. Append(<<>>, 1) = <<1>>
  OBVIOUS
<1> USE DEF Start, connectToServer
<1>4. CASE control = "down"
  BY <1>2, <1>4 DEF S!FirstAttempt, S!Reachable, S!Blocked, S!Listening
<1>5. CASE control # "down"
  <2>1. S!Reachable /\ ~S!Blocked
    BY <1>2, <1>5 DEF S!Reachable, S!Blocked, S!Listening
  <2>2. Link' = [to |-> lives + 1, watched |-> FALSE]
    BY <1>1, <1>2, <1>5 DEF environment
  <2>3. S!Connected(FALSE)
    BY <1>2, <1>3, <1>5, <2>2 DEF S!Connected
  <2> QED
    BY <1>2, <1>5, <2>1, <2>3 DEF S!FirstAttempt
<1> QED
  BY <1>4, <1>5

\* Step B, which is taken by a client that was never connected.
LEMMA ReconnectIsStep ==
  ASSUME Inv, Meeting, ReconnectIpc PROVE S!Reconnects \/ UNCHANGED S!vars
<1> USE DEF ReconnectIpc, connectToServer
<1>1. CASE IpcUsable \/ control = "down"
  BY <1>1, Unseen
<1>2. CASE ~IpcUsable /\ control # "down"
  <2>1. ipc_fd = NoFd /\ peer = "none" /\ desc \in [Fd -> Kind]
    BY <1>2 DEF IpcUsable, Inv, Types, Meeting
  <2>2. Lowest \in Fd /\ Lowest # NoFd
    BY <2>1, RoomForOne, LowestIsFree
  <2>3. Append(<<>>, 1) = <<1>>
    OBVIOUS
  <2>4. S!Reachable /\ ~S!Blocked
    BY <1>2, <2>1 DEF S!Reachable, S!Blocked, S!Listening
  <2>5. Link' = [to |-> lives + 1, watched |-> TRUE]
    BY <1>2, <2>1, <2>2
  <2>6. S!Connected(TRUE)
    BY <1>2, <2>1, <2>3, <2>5 DEF S!Connected
  <2> QED
    BY <1>2, <2>1, <2>4, <2>6 DEF S!Reconnects, S!None
<1> QED
  BY <1>1, <1>2

\* The number in the IPC client is still its socket's when its loss is handled, the
\* socket is watched, and Control's end is gone.
LEMMA IpcLostIsStep ==
  ASSUME Inv, Meeting, NEW fd \in Fd, IpcLost(fd) PROVE S!LosesControl
<1> USE DEF IpcLost, Handling, Closed
<1>1. /\ fd = ipc_fd /\ fd # NoFd /\ desc[fd] = "ipc" /\ fd \in watched /\ peer = "closed"
      /\ desc \in [Fd -> Kind] /\ lives \in Nat
  BY NoFdIsNone DEF Meeting, Inv, Types
<1>2. Link = [to |-> lives + 1, watched |-> TRUE]
  BY <1>1
<1>3. Link' = [to |-> -1, watched |-> FALSE]
  BY <1>1
<1>4. ~S!Attached
  BY <1>1 DEF S!Attached, S!ToSet
<1> QED
  BY <1>1, <1>2, <1>3, <1>4 DEF S!LosesControl, S!Stale

LEMMA CleanUpIsStep == ASSUME CleanUp PROVE S!CommEnds
BY DEF CleanUp, environment, S!CommEnds, S!None, S!Manager!Die

LEMMA ControlIsStep ==
  ASSUME Inv, Meeting, Control, ~ControlStarts
  PROVE  S!Accepts \/ S!RefusesFrame \/ S!ControlCrashes \/ UNCHANGED S!vars
<1>1. CASE ControlAccepts
  BY <1>1 DEF ControlAccepts, process, S!Accepts
<1>2. CASE ControlDies
  BY <1>2 DEF ControlDies, process, S!ControlCrashes, S!ControlGone, S!None, S!Manager!Die
<1>3. CASE ControlBeginsFrame \/ ControlEndsFrame
  BY <1>3, Unseen DEF ControlBeginsFrame, ControlEndsFrame, process
<1>4. CASE ControlHangsUp
  BY <1>4 DEF ControlHangsUp, process, S!RefusesFrame, S!None, Inv, Types, Meeting
<1> QED
  BY <1>1, <1>2, <1>3, <1>4 DEF Control

\* Descriptors come and go without System noticing, because a number that the kernel
\* gives out is not that of the IPC socket.
LEMMA DescriptorsAreUnseen ==
  ASSUME Inv, Meeting, EpollCreated \/ TryConnect \/ Heartbeat \/ (\E fd \in Fd : TcpLost(fd))
                       \/ (\E fd \in Fd : IpcTelemetry(fd))
  PROVE  UNCHANGED S!vars
<1>1. CASE EpollCreated
  <2>1. Lowest \in Fd /\ desc[Lowest] = "free"
    BY <1>1, RoomForOne, LowestIsFree DEF Inv, Order, EpollCreated
  <2> QED
    BY <1>1, <2>1, Unseen DEF EpollCreated, environment, Inv, Types
<1>2. CASE TryConnect
  <2>1. Lowest \in Fd /\ desc[Lowest] = "free"
    BY <1>2, RoomForOne, LowestIsFree DEF Inv, Types, TryConnect
  <2> QED
    BY <1>2, <2>1, Unseen DEF TryConnect, environment, Inv, Types
<1>3. CASE Heartbeat
  BY <1>3, TcpDownKeepsIpc, Unseen DEF Heartbeat, environment
<1>4. CASE \E fd \in Fd : TcpLost(fd)
  BY <1>4, TcpDownKeepsIpc, Unseen DEF TcpLost, Handling, environment
<1>5. CASE \E fd \in Fd : IpcTelemetry(fd)
  BY <1>5, TcpDownKeepsIpc, Unseen DEF IpcTelemetry, Handling
<1> QED
  BY <1>1, <1>2, <1>3, <1>4, <1>5

LEMMA OtherStepsAreUnseen ==
  ASSUME Inv,
         \/ NoConnect \/ EpollWait \/ EventsEnd \/ Signal \/ UNCHANGED vars
         \/ \E fd \in Fd :
              TcpConnected(fd) \/ TcpCommand(fd) \/ TcpNothing(fd) \/ StaleEvent(fd)
  PROVE  UNCHANGED S!vars
<1>1. CASE NoConnect \/ EpollWait \/ EventsEnd \/ Signal \/ UNCHANGED vars
  BY <1>1, Unseen DEF NoConnect, EpollWait, EventsEnd, Signal, vars, process, environment
<1>2. CASE \E fd \in Fd : TcpConnected(fd) \/ TcpCommand(fd) \/ TcpNothing(fd) \/ StaleEvent(fd)
  BY <1>2, Unseen
  DEF TcpConnected, TcpCommand, TcpNothing, StaleEvent, Handling, process, environment
<1> QED
  BY <1>1, <1>2

LEMMA StepIsStep ==
  ASSUME Inv, Meeting, [Next]_vars, ~ControlStarts
  PROVE  [S!Next]_(S!vars)
<1> HIDE DEF S!vars
<1>1. CASE Start \/ ReconnectIpc \/ CleanUp
  BY <1>1, StartIsStep, ReconnectIsStep, CleanUpIsStep DEF S!Next, S!CommSteps
<1>2. CASE \E fd \in Fd : IpcLost(fd)
  BY <1>2, IpcLostIsStep DEF S!Next, S!CommSteps
<1>3. CASE Control
  BY <1>3, ControlIsStep DEF S!Next, S!ControlSteps
<1> QED
  BY <1>1, <1>2, <1>3, DescriptorsAreUnseen, OtherStepsAreUnseen DEF Next, Loop, Event

\* Whatever the kernel makes of its descriptors, Comm does what System allows it: it
\* tries once before the loop (main), connects again only if it never was connected
\* (step B), and drops a connection only if it has ended and is watched (step D).
THEOREM ImplementsSystem == Spec => StepsOfSystem
<1>1. Inv /\ Meeting /\ [Next]_vars
        => [~ControlStarts => [S!Next]_(S!vars)]_vars
  BY StepIsStep
<1> QED
  BY <1>1, MeetingHolds, Invariance, PTL DEF Spec, StepsOfSystem

=============================================================================
