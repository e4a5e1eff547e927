-------------------------------- MODULE Control -------------------------------
(***************************************************************************)
(* The Control process (src/control_main.cpp): its main thread, which waits*)
(* for Comm and then executes its commands, and the simulation thread, both*)
(* writing the RobotState in shared memory without a lock.  Comm appears as*)
(* a peer that connects, sends frames and goes away.                       *)
(*                                                                         *)
(* Distances and amounts are counted in tenths (speed * 0.1).              *)
(***************************************************************************)
EXTENDS Integers, Sequences

CONSTANTS Speed,       \* the speeds of the configuration and of SET_SPEED, of either sign
          Target,      \* cruising altitude
          ClimbStep,   \* metres climbed per round of the simulation (10)
          BatteryLoop, \* rounds between two decrements of battary (10)
          MaxFrames,   \* bound: frames Comm sends
          MaxRounds    \* bound: rounds of the simulation

ASSUME ControlAssumption ==
  /\ Speed \subseteq Int /\ 0 \in Speed
  /\ Target \in Nat /\ ClimbStep \in Nat \ {0} /\ BatteryLoop \in Nat \ {0}
  /\ MaxFrames \in Nat /\ MaxRounds \in Nat

VARIABLES
  main, sim,        \* where the two threads are
  g_should_exit,
  connected,        \* client_fd > 0
  shm,              \* the fields of RobotState that anything depends on
  linked,           \* does /dev/shm hold the object's name?
  currentAltitude, currentState,
  loop_counter,
  inbox,            \* frames on the socket, the last one perhaps not whole
  peer,             \* "none", "up", "midframe" (header sent, body not) or "gone"
  telemetry,        \* altitudes that Comm was sent
  \* History and bounds.
  swing,            \* sum of the changes of speed since the start
  moved,            \* how far this round has moved x, until it sprays
  covered,          \* how far x was moved in the rounds that sprayed
  rounds,           \* rounds begun
  frames,           \* frames begun
  reception         \* of Comm: "none" yet, "accepted", or a frame of it "refused"

flight == <<swing, moved, covered>>
shared == <<shm, currentAltitude, currentState, loop_counter, telemetry>>
history == <<flight, rounds, frames, reception>>
vars == <<main, sim, g_should_exit, connected, shm, linked, currentAltitude, currentState,
          loop_counter, inbox, peer, telemetry, flight, rounds, frames, reception>>

\* What a frame turns out to be: a command; a JSON object without "cmd", or with
\* one of no known name; one whose "cmd" or "speed" has the wrong type; no JSON.
Frame == [cmd : {"SET_SPEED"}, speed : Speed]
         \cup [cmd : {"START_SPRAY", "STOP_SPRAY", "other", "mistyped", "garbage"}]

RobotState == [x : Int, z : Nat, speed : Speed, battary : Nat, is_spraying : BOOLEAN,
               sprayed_amount : Int]

\* memset(shm_ptr, 0, ...), then the configured speed.
Zeroed(s) == [x |-> 0, z |-> 0, speed |-> s, battary |-> 0, is_spraying |-> FALSE,
              sprayed_amount |-> 0]

Init ==
  /\ main = "start" /\ sim = "none" /\ g_should_exit = FALSE
  /\ connected = FALSE /\ linked = FALSE
  /\ \E s \in Speed : shm = Zeroed(s)
  /\ currentAltitude = 0 /\ currentState = "CLIMBING" /\ loop_counter = 0
  /\ inbox = <<>> /\ peer = "none" /\ telemetry = <<>>
  /\ swing = 0 /\ moved = 0 /\ covered = 0
  /\ rounds = 0 /\ frames = 0 /\ reception = "none"

Abs(n) == IF n < 0 THEN -n ELSE n

\* The speed that shared memory shows changes.
Swings(s) == swing' = swing + Abs(s - shm.speed) /\ UNCHANGED <<moved, covered>>

SetSpeed(s) == shm' = [shm EXCEPT !.speed = s] /\ Swings(s)

-----------------------------------------------------------------------------
\* The main thread.

\* The shared memory: shm.open may fail, and leave a name or not.
MapMemory ==
  /\ main = "start"
  /\ \/ main' = "mapped" /\ linked' = TRUE
     \/ main' = "failed" /\ linked' \in BOOLEAN
  /\ UNCHANGED <<sim, g_should_exit, connected, inbox, peer, shared, history>>

\* The listening socket.  Without it runMission returns, and the destructor of
\* shm removes what was created.
Bind ==
  /\ main = "mapped"
  /\ \/ main' = "accept" /\ UNCHANGED linked
     \/ main' = "unbound" /\ linked' = FALSE
  /\ UNCHANGED <<sim, g_should_exit, connected, inbox, peer, shared, history>>

\* One round of waiting for a client: while (!g_should_exit), and into select.
AwaitClient ==
  /\ main = "accept" /\ ~g_should_exit
  /\ main' = "select"
  /\ UNCHANGED <<sim, g_should_exit, connected, linked, inbox, peer, shared, history>>

\* The only accept there is, and the simulation thread is started.
Accept ==
  /\ main = "select"
  /\ peer # "none"
  /\ connected' = TRUE /\ reception' = "accepted"
  /\ main' = "listen" /\ sim' = "top"
  /\ UNCHANGED <<g_should_exit, linked, inbox, peer, shared, flight, rounds, frames>>

\* A second went by.
AcceptTimeout ==
  /\ main = "select"
  /\ main' = "accept"
  /\ UNCHANGED <<sim, g_should_exit, connected, linked, inbox, peer, shared, history>>

\* The signal was handled within select, which fails: runMission returns.
AcceptInterrupted ==
  /\ main = "select" /\ g_should_exit
  /\ main' = "exited" /\ linked' = FALSE
  /\ UNCHANGED <<sim, g_should_exit, connected, inbox, peer, shared, history>>

\* The signal was handled outside select: the mission begins, to end at once.
AcceptEnds ==
  /\ main = "accept" /\ g_should_exit
  /\ main' = "listen" /\ sim' = "top"
  /\ UNCHANGED <<g_should_exit, connected, linked, inbox, peer, shared, history>>

\* One round of waiting for commands, with a client ...
AwaitCommand ==
  /\ main = "listen" /\ ~g_should_exit /\ connected
  /\ main' = "poll"
  /\ UNCHANGED <<sim, g_should_exit, connected, linked, inbox, peer, shared, history>>

\* ... select reports it: a frame, the first part of one, or its end ...
ClientReady ==
  /\ main = "poll"
  /\ inbox # <<>> \/ peer \in {"midframe", "gone"}
  /\ main' = "recv"
  /\ UNCHANGED <<sim, g_should_exit, connected, linked, inbox, peer, shared, history>>

\* ... or a second goes by, or a signal interrupts select.
PollEmpty ==
  /\ main = "poll"
  /\ (inbox = <<>> /\ peer = "up") \/ g_should_exit
  /\ main' = "listen"
  /\ UNCHANGED <<sim, g_should_exit, connected, linked, inbox, peer, shared, history>>

\* Nothing comes back from these: there is no second accept.
Disconnect ==
  /\ main' = "listen"
  /\ connected' = FALSE
  /\ UNCHANGED <<sim, g_should_exit, linked, peer, shared, flight, rounds, frames>>

BadRecvFails ==
  /\ main = "recv" /\ inbox = <<>>
  /\ peer \in {"gone", "midframe"}
  /\ Disconnect
  /\ UNCHANGED <<inbox, reception>>

\* recvFrame meets the end of the stream, or a signal cuts a read short that had
\* part of its bytes.
RecvFails ==
  /\ main = "recv" /\ inbox = <<>>
  /\ peer = "gone" \/ (peer = "midframe" /\ g_should_exit)
  /\ Disconnect
  /\ UNCHANGED <<inbox, reception>>

\* The body is no JSON (or is empty, or too long): taken for a disconnection.
RecvGarbage ==
  /\ main = "recv" /\ inbox # <<>> /\ Head(inbox).cmd = "garbage"
  /\ Disconnect
  /\ inbox' = Tail(inbox) /\ reception' = "refused"

\* A frame arrives whole; execution of its command is a step of its own.
Recv ==
  /\ main = "recv" /\ inbox # <<>> /\ Head(inbox).cmd # "garbage"
  /\ main' = "handle"
  /\ UNCHANGED <<sim, g_should_exit, connected, linked, inbox, peer, shared, history>>

\* handleCommand of a frame it understands or ignores.
handleCommand ==
  /\ main = "handle" /\ Head(inbox).cmd # "mistyped"
  /\ LET f == Head(inbox)
     IN  \/ f.cmd = "SET_SPEED" /\ SetSpeed(f.speed)
         \/ f.cmd = "START_SPRAY" /\ shm' = [shm EXCEPT !.is_spraying = TRUE] /\ UNCHANGED flight
         \/ f.cmd \in {"STOP_SPRAY", "other"} /\ UNCHANGED <<shm, flight>>
  /\ inbox' = Tail(inbox)
  /\ main' = "listen"
  /\ UNCHANGED <<sim, g_should_exit, connected, linked, peer, currentAltitude, currentState,
                 loop_counter, telemetry, rounds, frames, reception>>

\* json's type_error leaves main: std::terminate, threads and destructors and all.
handleMistyped ==
  /\ main = "handle" /\ Head(inbox).cmd = "mistyped"
  /\ main' = "aborted" /\ sim' = "ended"
  /\ UNCHANGED <<g_should_exit, connected, linked, inbox, peer, shared, history>>

ListenEnds ==
  /\ main = "listen" /\ g_should_exit
  /\ main' = "join"
  /\ UNCHANGED <<sim, g_should_exit, connected, linked, inbox, peer, shared, history>>

BadJoin ==
  /\ main = "join"
  /\ main' = "clear"
  /\ UNCHANGED <<sim, g_should_exit, connected, linked, inbox, peer, shared, history>>

\* sim_thread.join()
Join ==
  /\ main = "join" /\ sim = "ended"
  /\ main' = "clear"
  /\ UNCHANGED <<sim, g_should_exit, connected, linked, inbox, peer, shared, history>>

\* The state is cleared and runMission returns; ~ScopedShm unmaps and unlinks.
Clear ==
  /\ main = "clear"
  /\ shm' = [shm EXCEPT !.is_spraying = FALSE, !.speed = 0]
  /\ Swings(0)
  /\ main' = "exited" /\ linked' = FALSE
  /\ UNCHANGED <<sim, g_should_exit, connected, inbox, peer, currentAltitude, currentState,
                 loop_counter, telemetry, rounds, frames, reception>>

-----------------------------------------------------------------------------
\* The simulation thread, a round every 100 ms.

BadSimEnds ==
  /\ sim = "top" /\ g_should_exit /\ currentState = "CRUISING"
  /\ sim' = "ended"
  /\ UNCHANGED <<main, g_should_exit, connected, linked, inbox, peer, shared, history>>

SimEnds ==
  /\ sim = "top" /\ g_should_exit
  /\ sim' = "ended"
  /\ UNCHANGED <<main, g_should_exit, connected, linked, inbox, peer, shared, history>>

RoundBegins ==
  /\ sim = "top" /\ ~g_should_exit /\ rounds < MaxRounds
  /\ rounds' = rounds + 1

BadCruise == currentAltitude # Target

\* performClimb climbs on; sendTelemetry has looked at client_fd, not yet sent.
StillClimbing == currentAltitude < Target

Climb ==
  /\ RoundBegins
  /\ currentState = "CLIMBING" /\ StillClimbing
  /\ currentAltitude' = currentAltitude + ClimbStep
  /\ shm' = [shm EXCEPT !.z = currentAltitude']
  /\ sim' = IF connected THEN "send" ELSE "move"
  /\ UNCHANGED <<main, g_should_exit, connected, linked, currentState, loop_counter, inbox,
                 peer, telemetry, flight, frames, reception>>

\* performClimb at the target altitude.
StartCruising ==
  /\ RoundBegins
  /\ currentState = "CLIMBING" /\ ~StillClimbing
  /\ currentState' = "CRUISING"
  /\ sim' = "move"
  /\ UNCHANGED <<main, g_should_exit, connected, linked, shm, currentAltitude, loop_counter,
                 inbox, peer, telemetry, flight, frames, reception>>

performCruise ==
  /\ RoundBegins
  /\ currentState = "CRUISING"
  /\ sim' = "move"
  /\ UNCHANGED <<main, g_should_exit, connected, linked, shared, inbox, peer, flight, frames,
                 reception>>

BadSendLater ==
  /\ sim = "send"
  /\ telemetry' = IF connected /\ inbox = <<>> THEN Append(telemetry, currentAltitude)
                  ELSE telemetry
  /\ sim' = "move"
  /\ UNCHANGED <<main, g_should_exit, connected, linked, shm, currentAltitude, currentState,
                 loop_counter, inbox, peer, history>>

\* The frame is sent, unless the main thread has closed the socket meanwhile or
\* Comm has: sendFrame fails and the thread goes on.
SendTelemetry ==
  /\ sim = "send"
  /\ telemetry' = IF connected /\ peer # "gone" THEN Append(telemetry, currentAltitude)
                  ELSE telemetry
  /\ sim' = "move"
  /\ UNCHANGED <<main, g_should_exit, connected, linked, shm, currentAltitude, currentState,
                 loop_counter, inbox, peer, history>>

BadMove ==
  /\ sim = "move"
  /\ moved' = IF currentState = "CRUISING" THEN shm.speed ELSE 0
  /\ shm' = [shm EXCEPT !.x = @ + moved']
  /\ sim' = "spray"
  /\ UNCHANGED <<main, g_should_exit, connected, linked, currentAltitude, currentState,
                 loop_counter, inbox, peer, telemetry, swing, covered, rounds, frames, reception>>

\* x moves on with the speed read here ...
Move ==
  /\ sim = "move"
  /\ moved' = IF currentState = "CRUISING" THEN shm.speed ELSE 0
  /\ shm' = [shm EXCEPT !.x = @ + moved']
  /\ sim' = IF currentState = "CRUISING" THEN "spray" ELSE "battery"
  /\ UNCHANGED <<main, g_should_exit, connected, linked, currentAltitude, currentState,
                 loop_counter, inbox, peer, telemetry, swing, covered, rounds, frames, reception>>

\* ... and the amount with the speed read again.
Spray ==
  /\ sim = "spray"
  /\ IF shm.is_spraying
       THEN shm' = [shm EXCEPT !.sprayed_amount = @ + shm.speed] /\ covered' = covered + moved
       ELSE UNCHANGED <<shm, covered>>
  /\ moved' = 0
  /\ sim' = "battery"
  /\ UNCHANGED <<main, g_should_exit, connected, linked, currentAltitude, currentState,
                 loop_counter, inbox, peer, telemetry, swing, rounds, frames, reception>>

\* battary is an integer: subtracting 0.1 and truncating takes 1 off.
Battery ==
  /\ sim = "battery"
  /\ IF loop_counter + 1 >= BatteryLoop
       THEN /\ loop_counter' = 0
            /\ shm' = IF shm.battary > 0 THEN [shm EXCEPT !.battary = @ - 1] ELSE shm
       ELSE loop_counter' = loop_counter + 1 /\ UNCHANGED shm
  /\ sim' = "top"
  /\ UNCHANGED <<main, g_should_exit, connected, linked, currentAltitude, currentState, inbox,
                 peer, telemetry, history>>

-----------------------------------------------------------------------------
\* Comm, and the Manager's SIGTERM.

Ended == {"exited", "failed", "unbound", "aborted"}
Running == main \notin Ended

PeerConnects ==
  /\ main \notin {"start", "mapped"} /\ Running
  /\ peer = "none" /\ peer' = "up"
  /\ UNCHANGED <<main, sim, g_should_exit, connected, linked, inbox, shared, history>>

PeerBeginsFrame ==
  /\ Running /\ peer = "up" /\ frames < MaxFrames
  /\ peer' = "midframe" /\ frames' = frames + 1
  /\ UNCHANGED <<main, sim, g_should_exit, connected, linked, inbox, shared, flight, rounds,
                 reception>>

PeerEndsFrame ==
  /\ Running /\ peer = "midframe"
  /\ peer' = "up"
  /\ \E f \in Frame : inbox' = Append(inbox, f)
  /\ UNCHANGED <<main, sim, g_should_exit, connected, linked, shared, history>>

PeerGoes ==
  /\ Running /\ peer \in {"up", "midframe"}
  /\ peer' = "gone"
  /\ UNCHANGED <<main, sim, g_should_exit, connected, linked, inbox, shared, history>>

Signal ==
  /\ Running
  /\ g_should_exit' = TRUE
  /\ UNCHANGED <<main, sim, connected, linked, inbox, peer, shared, history>>

-----------------------------------------------------------------------------

MainThread ==
  \/ MapMemory \/ Bind \/ AwaitClient \/ Accept \/ AcceptTimeout \/ AcceptInterrupted \/ AcceptEnds
  \/ AwaitCommand \/ ClientReady \/ PollEmpty \/ RecvFails \/ RecvGarbage \/ Recv
  \/ handleCommand \/ handleMistyped
  \/ ListenEnds \/ Join \/ Clear

SimThread ==
  \/ Climb \/ StartCruising \/ performCruise \/ SimEnds
  \/ SendTelemetry \/ Move \/ Spray \/ Battery

Comm == PeerConnects \/ PeerBeginsFrame \/ PeerEndsFrame \/ PeerGoes

Next == MainThread \/ SimThread \/ Comm \/ Signal

Spec == Init /\ [][Next]_vars

\* Both threads are scheduled, and Comm does not stop for ever within a frame:
\* it sends the two parts one after the other, and its death closes the socket.
FairSpec == Spec /\ WF_vars(MainThread) /\ WF_vars(SimThread) /\ WF_vars(PeerEndsFrame)

-----------------------------------------------------------------------------
\* Properties.

TypeOK ==
  /\ main \in {"start", "mapped", "accept", "select", "listen", "poll", "recv", "handle",
               "join", "clear"} \cup Ended
  /\ sim \in {"none", "top", "send", "move", "spray", "battery", "ended"}
  /\ g_should_exit \in BOOLEAN /\ connected \in BOOLEAN /\ linked \in BOOLEAN
  /\ shm \in RobotState
  /\ currentAltitude \in Nat /\ currentState \in {"CLIMBING", "CRUISING"}
  /\ loop_counter \in 0 .. BatteryLoop - 1
  /\ inbox \in Seq(Frame) /\ peer \in {"none", "up", "midframe", "gone"}
  /\ telemetry \in Seq(Nat)
  /\ swing \in Nat /\ moved \in Int /\ covered \in Int
  /\ rounds \in 0 .. MaxRounds /\ frames \in 0 .. MaxFrames
  /\ reception \in {"none", "accepted", "refused"}

\* "It does not affect the rough logic" (the comment on the unlocked reads of
\* speed): the amount sprayed and the distance flown while spraying differ, either
\* way, by no more than the speed was changed, however the two threads interleave.
DriftBounded == Abs(shm.sprayed_amount - covered) <= swing

\* Nobody touches shared memory once main clears it, to unmap it next: the
\* simulation thread has ended.
NoUseAfterUnmap == main \in {"clear", "exited"} => sim \in {"none", "ended"}

\* As long as Comm is there, every climb is reported to it once, in order, by a
\* thread that shares client_fd with the one that closes it.
TelemetryComplete ==
  connected /\ peer # "gone" /\ main # "aborted" =>
    /\ currentAltitude = ClimbStep * (Len(telemetry) + IF sim = "send" THEN 1 ELSE 0)
    /\ \A i \in 1 .. Len(telemetry) : telemetry[i] = ClimbStep * i

\* The vehicle cruises at the first altitude of its staircase that is not below
\* the target, and shows it in shared memory.
CruiseAltitude ==
  /\ shm.z = currentAltitude
  /\ currentAltitude < Target + ClimbStep
  /\ currentState = "CRUISING" => currentAltitude >= Target

\* Once asked to stop Control does, even from within a blocking read of half a
\* frame and whatever the two threads are doing.
Stops == g_should_exit ~> main \in Ended

-----------------------------------------------------------------------------
\* What System makes of one Control and the one Comm that connects to it: number
\* 1 of each, without a View.

\* Where main is, for System: it keeps apart why there is no client.
Place ==
  CASE main = "start" -> "boot"
    [] main = "mapped" -> "mapped"
    [] main \in {"accept", "select"} -> "accepting"
    [] main \in Ended -> "out"
    [] OTHER -> IF connected THEN "serving"
                ELSE IF reception = "none" \/ g_should_exit THEN "leaving"
                ELSE IF reception = "refused" THEN "refused" ELSE "deaf"

Ending == CASE main = "failed" -> "failed"
            [] main \in {"exited", "unbound"} -> "orderly"
            [] main = "aborted" -> "crash"
            [] OTHER -> "none"

UpIf(b) == IF b THEN "up" ELSE "down"
OneIf(b) == IF b THEN 1 ELSE 0

S == INSTANCE System WITH
  Backlog  <- 5,
  MaxLives <- 1,
  life     <- [control_process |-> UpIf(Running), comm_process |-> UpIf(peer # "gone"),
               view_process |-> "gone"],
  asked    <- FALSE,
  stopping <- FALSE,
  nth      <- [control_process |-> 1, comm_process |-> 1, view_process |-> 0],
  control  <- Place,
  bound    <- OneIf(main \notin {"start", "mapped", "failed", "unbound"}),
  backlog  <- IF peer # "none" /\ reception = "none" /\ Running THEN <<1>> ELSE <<>>,
  client   <- OneIf(connected /\ Running),
  comm     <- IF peer = "gone" THEN "out" ELSE "loop",
  link     <- IF peer \in {"up", "midframe"} THEN [to |-> 1, watched |-> TRUE]
              ELSE [to |-> 0, watched |-> FALSE],
  name     <- OneIf(linked),
  mapped   <- OneIf(main # "start" /\ Running),
  view     <- "out",
  shown    <- 0,
  unlinked <- IF main \in {"exited", "unbound"} THEN {1} ELSE {},
  ending   <- Ending

\* What two threads, a peer and a signal do to the name of the memory, the
\* sockets and the process itself is what System lets Control and Comm do; above
\* all, a Comm that lives loses its connection to a signal or to a frame of its own
\* that is refused, and to no other cause.
StepsOfSystem == [][S!Next]_(S!vars)

=============================================================================
