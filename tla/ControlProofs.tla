----------------------------- MODULE ControlProofs ----------------------------
(***************************************************************************)
(* What holds of Control for every set of speeds, altitude, climbing step  *)
(* and number of frames and rounds.                                        *)
(***************************************************************************)
EXTENDS Control, TLAPS

\* Where the threads can be together: the simulation thread starts once the
\* wait for Comm is over, and has ended when main goes on past the join; a frame
\* is there to be handled; before the simulation begins nothing has happened.
Phases ==
  /\ main \in {"start", "mapped", "accept", "select"} => sim = "none"
  /\ main \in {"clear", "exited"} => sim \in {"none", "ended"}
  /\ main = "handle" => inbox # <<>>
  /\ sim = "none" => currentAltitude = 0 /\ telemetry = <<>>

\* Type correctness together with the above is inductive.
Inv == TypeOK /\ Phases

USE DEF shared, flight, history, Ended

\* The change from one speed to another.
LEMMA ChangeNat ==
  ASSUME NEW s \in Int, NEW t \in Int
  PROVE  Abs(s - t) \in Nat /\ Abs(s - t) >= s - t
BY DEF Abs

\* Frames on the socket are frames.
LEMMA InboxHead ==
  ASSUME inbox \in Seq(Frame), inbox # <<>>
  PROVE  Head(inbox) \in Frame /\ Tail(inbox) \in Seq(Frame)
OBVIOUS

\* A command that sets a speed sets one of Speed.
LEMMA SpeedOfFrame ==
  ASSUME NEW f \in Frame, f.cmd = "SET_SPEED" PROVE f.speed \in Speed
BY DEF Frame

LEMMA SpeedInt == Speed \subseteq Int /\ (\A s \in Speed : s \in Int) /\ 0 \in Speed
BY ControlAssumption

\* What the simulation adds up are numbers.
LEMMA RobotStateFields ==
  ASSUME NEW m \in RobotState
  PROVE  /\ m.x \in Int /\ m.z \in Nat /\ m.battary \in Nat /\ m.sprayed_amount \in Int
         /\ m.speed \in Speed /\ m.speed \in Int
         /\ m.is_spraying \in BOOLEAN
BY SpeedInt DEF RobotState

\* Updates of one field leave a RobotState.
LEMMA RobotStateUpdates ==
  ASSUME NEW m \in RobotState
  PROVE  /\ \A n \in Nat : /\ [m EXCEPT !.z = n] \in RobotState
                          /\ [m EXCEPT !.battary = n] \in RobotState
         /\ \A n \in Int : /\ [m EXCEPT !.x = n] \in RobotState
                          /\ [m EXCEPT !.sprayed_amount = n] \in RobotState
         /\ \A s \in Speed : [m EXCEPT !.speed = s] \in RobotState
         /\ [m EXCEPT !.is_spraying = TRUE] \in RobotState
         /\ [m EXCEPT !.is_spraying = FALSE, !.speed = 0] \in RobotState
BY SpeedInt DEF RobotState

LEMMA InitInv == Init => Inv
<1> SUFFICES ASSUME Init PROVE Inv
  OBVIOUS
<1> USE ControlAssumption
<1>1. shm \in RobotState
  BY DEF Init, Zeroed, RobotState
<1>2. inbox \in Seq(Frame) /\ telemetry \in Seq(Nat)
  BY DEF Init
<1>3. loop_counter \in 0 .. BatteryLoop - 1 /\ rounds \in 0 .. MaxRounds
      /\ frames \in 0 .. MaxFrames /\ swing \in Nat /\ moved \in Int /\ covered \in Int
  BY DEF Init
<1>4. TypeOK
  BY <1>1, <1>2, <1>3 DEF Init, TypeOK
<1> QED
  BY <1>4 DEF Init, Inv, Phases

LEMMA MainInv == Inv /\ MainThread => Inv'
<1> SUFFICES ASSUME Inv, MainThread PROVE Inv'
  OBVIOUS
<1> USE SpeedInt DEF Inv, TypeOK, Phases
<1>1. CASE MapMemory \/ Bind
  <2>1. /\ main' \in {"mapped", "failed", "accept", "unbound"} /\ linked' \in BOOLEAN
        /\ sim = "none"
        /\ UNCHANGED <<sim, g_should_exit, connected, inbox, peer, shared, history>>
    BY <1>1 DEF MapMemory, Bind
  <2> QED
    BY <2>1
<1>2. CASE AwaitClient
  BY <1>2 DEF AwaitClient
<1>3. CASE Accept
  BY <1>3 DEF Accept
<1>4. CASE AcceptTimeout
  BY <1>4 DEF AcceptTimeout
<1>5. CASE AcceptInterrupted
  BY <1>5 DEF AcceptInterrupted
<1>6. CASE AcceptEnds
  BY <1>6 DEF AcceptEnds
<1>7. CASE AwaitCommand
  BY <1>7 DEF AwaitCommand
<1>8. CASE ClientReady
  BY <1>8 DEF ClientReady
<1>9. CASE PollEmpty
  BY <1>9 DEF PollEmpty
<1>10. CASE RecvFails
  BY <1>10 DEF RecvFails, Disconnect
<1>11. CASE RecvGarbage
  BY <1>11, InboxHead DEF RecvGarbage, Disconnect
<1>12. CASE Recv
  BY <1>12 DEF Recv
<1>13. CASE handleCommand
  <2>1. Head(inbox) \in Frame /\ Tail(inbox) \in Seq(Frame)
    BY <1>13, InboxHead DEF handleCommand
  <2>2. CASE Head(inbox).cmd = "SET_SPEED" /\ SetSpeed(Head(inbox).speed)
    <3>1. Head(inbox).speed \in Speed
      BY <2>1, <2>2, SpeedOfFrame
    <3>2. Abs(Head(inbox).speed - shm.speed) \in Nat
      <4>1. Head(inbox).speed \in Int /\ shm.speed \in Int
        BY <3>1, RobotStateFields
      <4> QED
        BY <4>1, ChangeNat
    <3>3. shm' \in RobotState
      BY <2>2, <3>1, RobotStateUpdates DEF SetSpeed
    <3>4. swing' \in Nat /\ UNCHANGED <<moved, covered>>
      BY <2>2, <3>2 DEF SetSpeed, Swings
    <3> QED
      BY <1>13, <2>1, <3>3, <3>4 DEF handleCommand
  <2>3. CASE shm' = [shm EXCEPT !.is_spraying = TRUE] /\ UNCHANGED flight
    <3>1. shm' \in RobotState
      BY <2>3, RobotStateUpdates
    <3> QED
      BY <1>13, <2>1, <2>3, <3>1 DEF handleCommand
  <2>4. CASE UNCHANGED <<shm, flight>>
    BY <1>13, <2>1, <2>4 DEF handleCommand
  <2> QED
    BY <1>13, <2>2, <2>3, <2>4 DEF handleCommand
<1>14. CASE handleMistyped
  BY <1>14 DEF handleMistyped
<1>15. CASE ListenEnds
  BY <1>15 DEF ListenEnds
<1>16. CASE Join
  BY <1>16 DEF Join
<1>17. CASE Clear
  <2>1. shm' \in RobotState
    BY <1>17, RobotStateUpdates DEF Clear
  <2>2. swing' \in Nat /\ UNCHANGED <<moved, covered>>
    <3>1. shm.speed \in Int /\ 0 \in Int
      BY RobotStateFields
    <3>2. Abs(0 - shm.speed) \in Nat
      BY <3>1, ChangeNat
    <3> QED
      BY <1>17, <3>2 DEF Clear, Swings
  <2> QED
    BY <1>17, <2>1, <2>2 DEF Clear
<1> QED
  BY <1>1, <1>2, <1>3, <1>4, <1>5, <1>6, <1>7, <1>8, <1>9, <1>10, <1>11, <1>12, <1>13,
     <1>14, <1>15, <1>16, <1>17 DEF MainThread

LEMMA SimInv == Inv /\ SimThread => Inv'
<1> SUFFICES ASSUME Inv, SimThread PROVE Inv'
  OBVIOUS
<1> USE ControlAssumption, SpeedInt DEF Inv, TypeOK, Phases
<1>1. CASE Climb
  <2>1. currentAltitude' \in Nat
    BY <1>1, SMTT(30) DEF Climb
  <2>2. shm' \in RobotState
    BY <1>1, <2>1, RobotStateUpdates DEF Climb
  <2> QED
    BY <1>1, <2>1, <2>2, SMTT(30) DEF Climb, RoundBegins
<1>2. CASE StartCruising
  BY <1>2 DEF StartCruising, RoundBegins
<1>3. CASE performCruise
  BY <1>3 DEF performCruise, RoundBegins
<1>4. CASE SimEnds
  BY <1>4 DEF SimEnds
<1>5. CASE SendTelemetry
  BY <1>5 DEF SendTelemetry
<1>6. CASE Move
  <2>1. moved' \in Int
    BY <1>6, RobotStateFields DEF Move
  <2>2. shm' \in RobotState
    <3>1. shm.x + moved' \in Int
      BY <2>1, RobotStateFields
    <3> QED
      BY <1>6, <3>1, RobotStateUpdates DEF Move
  <2> QED
    BY <1>6, <2>1, <2>2 DEF Move
<1>7. CASE Spray
  <2>1. shm' \in RobotState
    <3>1. shm.sprayed_amount + shm.speed \in Int
      BY RobotStateFields
    <3> QED
      BY <1>7, <3>1, RobotStateUpdates DEF Spray
  <2>2. covered' \in Int /\ moved' \in Int
    BY <1>7, SMTT(30) DEF Spray
  <2> QED
    BY <1>7, <2>1, <2>2 DEF Spray
<1>8. CASE Battery
  <2>1. shm' \in RobotState
    <3> DEFINE less == shm.battary - 1
    <3>1. shm.battary > 0 => less \in Nat
      BY RobotStateFields
    <3>2. shm' = shm \/ (shm.battary > 0 /\ shm' = [shm EXCEPT !.battary = less])
      BY <1>8 DEF Battery
    <3>3. shm \in RobotState
      OBVIOUS
    <3>4. \A n \in Nat : [shm EXCEPT !.battary = n] \in RobotState
      BY <3>3, RobotStateUpdates
    <3> HIDE DEF less
    <3> QED
      BY <3>1, <3>2, <3>3, <3>4
  <2> QED
    BY <1>8, <2>1, SMTT(30) DEF Battery
<1> QED
  BY <1>1, <1>2, <1>3, <1>4, <1>5, <1>6, <1>7, <1>8 DEF SimThread

LEMMA OtherInv == Inv /\ (Comm \/ Signal \/ UNCHANGED vars) => Inv'
<1> SUFFICES ASSUME Inv, Comm \/ Signal \/ UNCHANGED vars PROVE Inv'
  OBVIOUS
<1> USE ControlAssumption DEF Inv, TypeOK, Phases
<1>1. CASE PeerConnects
  BY <1>1 DEF PeerConnects
<1>2. CASE PeerBeginsFrame
  BY <1>2 DEF PeerBeginsFrame
<1>3. CASE PeerEndsFrame
  <2>1. PICK f \in Frame : inbox' = Append(inbox, f)
    BY <1>3 DEF PeerEndsFrame
  <2>2. inbox' \in Seq(Frame) /\ inbox' # <<>>
    BY <2>1
  <2> QED
    BY <1>3, <2>2 DEF PeerEndsFrame
<1>4. CASE PeerGoes
  BY <1>4 DEF PeerGoes
<1>5. CASE Signal
  BY <1>5 DEF Signal
<1>6. CASE UNCHANGED vars
  BY <1>6 DEF vars
<1> QED
  BY <1>1, <1>2, <1>3, <1>4, <1>5, <1>6 DEF Comm

LEMMA NextInv == Inv /\ [Next]_vars => Inv'
BY MainInv, SimInv, OtherInv DEF Next

LEMMA InvHolds == Spec => []Inv
BY InitInv, NextInv, PTL DEF Spec

\* Every variable keeps its type; in particular battary never goes below zero
\* and loop_counter stays below its limit.
THEOREM TypeCorrect == Spec => []TypeOK
<1>1. Inv => TypeOK
  BY DEF Inv
<1> QED
  BY <1>1, InvHolds, PTL

\* runMission never clears and unmaps the shared state under a simulation thread
\* that is still running.
THEOREM NeverUsedAfterUnmap == Spec => []NoUseAfterUnmap
<1>1. Inv => NoUseAfterUnmap
  BY DEF Inv, Phases, NoUseAfterUnmap
<1> QED
  BY <1>1, InvHolds, PTL

-----------------------------------------------------------------------------
\* How far the amount sprayed and the distance flown while spraying can drift apart.

\* Between the two reads of speed the bound holds with the second yet to come, if the
\* round is going to spray.
DriftPending ==
  sim = "spray" => Abs((shm.sprayed_amount + shm.speed) - (covered + moved)) <= swing

Drift == DriftBounded /\ DriftPending

\* A change of speed moves a difference by no more than itself.
LEMMA ChangeMoves ==
  ASSUME NEW s \in Int, NEW t \in Int, NEW a \in Int, NEW b \in Int, NEW w \in Nat,
         Abs((a + t) - b) <= w
  PROVE  Abs((a + s) - b) <= w + Abs(s - t)
BY DEF Abs

\* All steps but these leave what Drift is about alone, or end the thread.
LEMMA DriftUnmoved ==
  ASSUME Drift, shm'.sprayed_amount = shm.sprayed_amount, shm'.speed = shm.speed,
         UNCHANGED flight, sim' = "spray" => sim = "spray"
  PROVE  Drift'
BY DEF Drift, DriftBounded, DriftPending

\* Main changes the speed and nothing else that Drift is about.
LEMMA DriftSwings ==
  ASSUME Inv, Drift, NEW s \in Int, Swings(s), shm'.sprayed_amount = shm.sprayed_amount,
         shm'.speed = s, sim' = sim
  PROVE  Drift'
<1>1. /\ shm.sprayed_amount \in Int /\ shm.speed \in Int /\ swing \in Nat
      /\ moved \in Int /\ covered \in Int
  BY RobotStateFields DEF Inv, TypeOK
<1>2. /\ swing' = swing + Abs(s - shm.speed) /\ moved' = moved /\ covered' = covered
      /\ Abs(s - shm.speed) \in Nat
  BY <1>1, ChangeNat DEF Swings
<1>3. DriftBounded'
  <2>1. Abs(shm.sprayed_amount - covered) \in Int
    BY <1>1, ChangeNat
  <2> QED
    BY <1>1, <1>2, <2>1 DEF Drift, DriftBounded
<1>4. DriftPending'
  <2>1. SUFFICES ASSUME sim = "spray"
                 PROVE  Abs((shm.sprayed_amount + s) - (covered + moved)) <= swing + Abs(s - shm.speed)
    BY <1>2 DEF DriftPending
  <2>2. Abs((shm.sprayed_amount + shm.speed) - (covered + moved)) <= swing
    BY <2>1 DEF Drift, DriftPending
  <2>3. covered + moved \in Int
    BY <1>1
  <2> HIDE DEF Abs
  <2> QED
    BY <1>1, <2>2, <2>3, ChangeMoves
<1> QED
  BY <1>3, <1>4 DEF Drift

LEMMA DriftStep == Inv /\ Drift /\ [Next]_vars => Drift'
<1> SUFFICES ASSUME Inv, Drift, [Next]_vars PROVE Drift'
  OBVIOUS
<1>1. shm \in RobotState /\ swing \in Nat /\ moved \in Int /\ covered \in Int
  BY DEF Inv, TypeOK
<1>2. /\ shm.x \in Int /\ shm.sprayed_amount \in Int /\ shm.speed \in Int
      /\ DOMAIN shm = {"x", "z", "speed", "battary", "is_spraying", "sprayed_amount"}
  BY <1>1, RobotStateFields DEF RobotState
<1>3. CASE handleCommand
  <2>1. CASE Head(inbox).cmd = "SET_SPEED" /\ SetSpeed(Head(inbox).speed)
    <3> DEFINE s == Head(inbox).speed
    <3>1. s \in Int
      <4>1. Head(inbox) \in Frame
        BY <1>3, InboxHead DEF handleCommand, Inv, TypeOK, Phases
      <4> QED
        BY <4>1, <2>1, SpeedOfFrame, SpeedInt
    <3>2. /\ shm'.sprayed_amount = shm.sprayed_amount /\ shm'.speed = s /\ Swings(s) /\ sim' = sim
      BY <1>3, <2>1, <1>2 DEF handleCommand, SetSpeed
    <3> HIDE DEF s
    <3> QED
      BY <3>1, <3>2, DriftSwings
  <2>2. CASE shm' = [shm EXCEPT !.is_spraying = TRUE] /\ UNCHANGED flight
    BY <1>3, <2>2, <1>2, DriftUnmoved DEF handleCommand
  <2>3. CASE UNCHANGED <<shm, flight>>
    BY <1>3, <2>3, DriftUnmoved DEF handleCommand
  <2> QED
    BY <1>3, <2>1, <2>2, <2>3 DEF handleCommand
<1>4. CASE Clear
  <2>1. shm'.sprayed_amount = shm.sprayed_amount /\ shm'.speed = 0 /\ Swings(0) /\ sim' = sim
    BY <1>4, <1>2 DEF Clear
  <2> QED
    BY <2>1, DriftSwings
<1>5. CASE Climb
  <2>1. shm'.sprayed_amount = shm.sprayed_amount /\ shm'.speed = shm.speed
    BY <1>5, <1>2 DEF Climb
  <2> QED
    BY <2>1, <1>5, DriftUnmoved DEF Climb
<1>6. CASE Move
  <2>1. /\ shm'.sprayed_amount = shm.sprayed_amount /\ shm'.speed = shm.speed
        /\ swing' = swing /\ covered' = covered
    BY <1>6, <1>2 DEF Move
  <2>2. DriftBounded'
    BY <2>1 DEF Drift, DriftBounded
  <2>3. sim' = "spray" => moved' = shm.speed
    BY <1>6 DEF Move
  <2>4. (shm.sprayed_amount + shm.speed) - (covered + shm.speed) = shm.sprayed_amount - covered
    BY <1>1, <1>2
  <2> QED
    BY <2>1, <2>2, <2>3, <2>4 DEF Drift, DriftBounded, DriftPending
<1>7. CASE Spray
  <2>1. swing' = swing /\ sim = "spray" /\ sim' # "spray"
    BY <1>7 DEF Spray
  <2>2. \/ shm'.sprayed_amount = shm.sprayed_amount /\ covered' = covered
        \/ /\ shm'.sprayed_amount = shm.sprayed_amount + shm.speed
           /\ covered' = covered + moved
    BY <1>7, <1>2 DEF Spray
  <2> QED
    BY <2>1, <2>2 DEF Drift, DriftBounded, DriftPending
<1>8. CASE Battery
  <2>1. shm'.sprayed_amount = shm.sprayed_amount /\ shm'.speed = shm.speed
    BY <1>8, <1>2 DEF Battery
  <2> QED
    BY <2>1, <1>8, DriftUnmoved DEF Battery
<1>9. CASE MapMemory \/ Bind \/ AwaitClient \/ Accept \/ AcceptTimeout \/ AcceptInterrupted
           \/ AcceptEnds
  BY <1>9, DriftUnmoved
  DEF MapMemory, Bind, AwaitClient, Accept, AcceptTimeout, AcceptInterrupted, AcceptEnds
<1>10. CASE AwaitCommand \/ ClientReady \/ PollEmpty \/ RecvFails \/ RecvGarbage \/ Recv
  BY <1>10, DriftUnmoved
  DEF AwaitCommand, ClientReady, PollEmpty, RecvFails, RecvGarbage, Recv, Disconnect
<1>11. CASE handleMistyped \/ ListenEnds \/ Join
  BY <1>11, DriftUnmoved DEF handleMistyped, ListenEnds, Join
<1>12. CASE StartCruising \/ performCruise \/ SimEnds \/ SendTelemetry
  BY <1>12, DriftUnmoved DEF StartCruising, performCruise, RoundBegins, SimEnds, SendTelemetry
<1>13. CASE Comm \/ Signal \/ UNCHANGED vars
  BY <1>13, DriftUnmoved
  DEF Comm, PeerConnects, PeerBeginsFrame, PeerEndsFrame, PeerGoes, Signal, vars
<1> QED
  BY <1>3, <1>4, <1>5, <1>6, <1>7, <1>8, <1>9, <1>10, <1>11, <1>12, <1>13
  DEF Next, MainThread, SimThread

\* However main's writes of speed fall between the simulation's two reads of it,
\* and whatever the speeds, negative ones included: the amount sprayed is the distance
\* flown while spraying, up to what the changes of speed account for.
THEOREM DriftIsBounded == Spec => []DriftBounded
<1>1. Init => Drift
  BY DEF Init, Zeroed, Drift, DriftBounded, DriftPending, Abs
<1>2. Drift => DriftBounded
  BY DEF Drift
<1> QED
  BY <1>1, <1>2, DriftStep, InvHolds, PTL DEF Spec

-----------------------------------------------------------------------------
\* The climb.

LEMMA CruiseStep == Inv /\ CruiseAltitude /\ [Next]_vars => CruiseAltitude'
<1> SUFFICES ASSUME Inv, CruiseAltitude, [Next]_vars PROVE CruiseAltitude'
  OBVIOUS
<1>1. /\ shm \in RobotState /\ currentAltitude \in Nat /\ Target \in Nat /\ ClimbStep \in Nat
      /\ DOMAIN shm = {"x", "z", "speed", "battary", "is_spraying", "sprayed_amount"}
  BY ControlAssumption DEF Inv, TypeOK, RobotState
<1>2. CASE Climb
  <2>1. shm'.z = currentAltitude'
    BY <1>2, <1>1 DEF Climb
  <2> QED
    BY <1>2, <2>1, <1>1 DEF Climb, StillClimbing, CruiseAltitude
<1>3. CASE StartCruising
  BY <1>3, <1>1 DEF StartCruising, StillClimbing, CruiseAltitude
<1>4. ASSUME currentAltitude' = currentAltitude, currentState' = currentState, shm'.z = shm.z
      PROVE  CruiseAltitude'
  BY <1>4 DEF CruiseAltitude
<1>5. CASE handleCommand \/ Clear \/ Move \/ Spray \/ Battery
  <2>1. shm'.z = shm.z
    BY <1>5, <1>1 DEF handleCommand, SetSpeed, Swings, Clear, Move, Spray, Battery
  <2> QED
    BY <1>5, <2>1, <1>4 DEF handleCommand, SetSpeed, Swings, Clear, Move, Spray, Battery
<1>6. CASE MapMemory \/ Bind \/ AwaitClient \/ Accept \/ AcceptTimeout \/ AcceptInterrupted
           \/ AcceptEnds
  BY <1>6, <1>4
  DEF MapMemory, Bind, AwaitClient, Accept, AcceptTimeout, AcceptInterrupted, AcceptEnds
<1>7. CASE AwaitCommand \/ ClientReady \/ PollEmpty \/ RecvFails \/ RecvGarbage \/ Recv
  BY <1>7, <1>4
  DEF AwaitCommand, ClientReady, PollEmpty, RecvFails, RecvGarbage, Recv, Disconnect
<1>8. CASE handleMistyped \/ ListenEnds \/ Join
  BY <1>8, <1>4 DEF handleMistyped, ListenEnds, Join
<1>9. CASE performCruise \/ SimEnds \/ SendTelemetry
  BY <1>9, <1>4 DEF performCruise, RoundBegins, SimEnds, SendTelemetry
<1>10. CASE Comm \/ Signal \/ UNCHANGED vars
  BY <1>10, <1>4
  DEF Comm, PeerConnects, PeerBeginsFrame, PeerEndsFrame, PeerGoes, Signal, vars
<1> QED
  BY <1>2, <1>3, <1>5, <1>6, <1>7, <1>8, <1>9, <1>10 DEF Next, MainThread, SimThread

\* For every target and climbing step, the vehicle levels off at the first step
\* of its staircase that reaches the target.
THEOREM CruisesWhereItShould == Spec => []CruiseAltitude
<1>1. Init => CruiseAltitude
  BY ControlAssumption DEF Init, Zeroed, CruiseAltitude
<1> QED
  BY <1>1, CruiseStep, InvHolds, PTL DEF Spec

-----------------------------------------------------------------------------
\* The telemetry.

\* One more step of the staircase.
LEMMA NextStep == \A n \in Nat : ClimbStep * (n + 1) = ClimbStep * n + ClimbStep
BY ControlAssumption

\* What the simulation thread has climbed and the telemetry it has sent.
Reported ==
  /\ currentAltitude = ClimbStep * (Len(telemetry) + IF sim = "send" THEN 1 ELSE 0)
  /\ \A i \in 1 .. Len(telemetry) : telemetry[i] = ClimbStep * i

\* All steps but these leave altitude and telemetry alone, and do not begin to send.
LEMMA TelemetryUnmoved ==
  ASSUME TelemetryComplete, UNCHANGED <<currentAltitude, telemetry>>,
         sim' = "send" <=> sim = "send",
         connected' => connected, peer' # "gone" => peer # "gone",
         main' # "aborted" => main # "aborted"
  PROVE  TelemetryComplete'
BY DEF TelemetryComplete

LEMMA ClimbTelemetry == Inv /\ TelemetryComplete /\ Climb => TelemetryComplete'
<1> SUFFICES ASSUME Inv, TelemetryComplete, Climb,
                    connected', peer' # "gone", main' # "aborted"
             PROVE  Reported'
  BY DEF TelemetryComplete, Reported
<1>1. /\ sim = "top" /\ sim' = "send" /\ telemetry' = telemetry
      /\ currentAltitude' = currentAltitude + ClimbStep
      /\ connected /\ peer # "gone" /\ main # "aborted"
  BY DEF Climb, RoundBegins
<1>2. Len(telemetry) \in Nat
  BY DEF Inv, TypeOK
<1>3. /\ currentAltitude = ClimbStep * Len(telemetry)
      /\ \A i \in 1 .. Len(telemetry) : telemetry[i] = ClimbStep * i
  BY <1>1, <1>2 DEF TelemetryComplete
<1>4. currentAltitude' = ClimbStep * (Len(telemetry) + 1)
  BY <1>1, <1>2, <1>3, NextStep
<1> QED
  BY <1>1, <1>3, <1>4 DEF Reported

LEMMA SendTelemetryComplete ==
  Inv /\ TelemetryComplete /\ SendTelemetry => TelemetryComplete'
<1> SUFFICES ASSUME Inv, TelemetryComplete, SendTelemetry,
                    connected', peer' # "gone", main' # "aborted"
             PROVE  Reported'
  BY DEF TelemetryComplete, Reported
<1>1. /\ sim = "send" /\ sim' = "move" /\ currentAltitude' = currentAltitude
      /\ telemetry' = Append(telemetry, currentAltitude)
      /\ connected /\ peer # "gone" /\ main # "aborted"
  BY DEF SendTelemetry
<1>2. telemetry \in Seq(Nat) /\ Len(telemetry) \in Nat
  BY DEF Inv, TypeOK
<1>3. /\ currentAltitude = ClimbStep * (Len(telemetry) + 1)
      /\ \A i \in 1 .. Len(telemetry) : telemetry[i] = ClimbStep * i
  BY <1>1 DEF TelemetryComplete
<1>4. /\ Len(telemetry') = Len(telemetry) + 1
      /\ telemetry'[Len(telemetry) + 1] = currentAltitude
      /\ \A i \in 1 .. Len(telemetry) : telemetry'[i] = telemetry[i]
  BY <1>1, <1>2
<1>5. \A i \in 1 .. Len(telemetry') : telemetry'[i] = ClimbStep * i
  BY <1>2, <1>3, <1>4
<1>6. currentAltitude' = ClimbStep * (Len(telemetry') + 0)
  BY <1>1, <1>2, <1>3, <1>4
<1> QED
  BY <1>1, <1>5, <1>6 DEF Reported

\* The first that Comm hears of is the first step.
LEMMA AcceptTelemetry == Inv /\ Accept => TelemetryComplete'
<1> SUFFICES ASSUME Inv, Accept PROVE TelemetryComplete'
  OBVIOUS
<1>1. currentAltitude' = 0 /\ telemetry' = <<>> /\ sim' = "top"
  BY DEF Accept, Inv, Phases
<1>2. ClimbStep * 0 = 0
  BY ControlAssumption
<1> QED
  BY <1>1, <1>2 DEF TelemetryComplete

LEMMA TelemetryStep == Inv /\ TelemetryComplete /\ [Next]_vars => TelemetryComplete'
<1> SUFFICES ASSUME Inv, TelemetryComplete, [Next]_vars PROVE TelemetryComplete'
  OBVIOUS
<1>1. CASE Climb
  BY <1>1, ClimbTelemetry
<1>2. CASE SendTelemetry
  BY <1>2, SendTelemetryComplete
<1>3. CASE Accept
  BY <1>3, AcceptTelemetry
<1>4. CASE MapMemory \/ Bind \/ AwaitClient \/ AcceptTimeout \/ AcceptInterrupted
  BY <1>4, TelemetryUnmoved DEF MapMemory, Bind, AwaitClient, AcceptTimeout, AcceptInterrupted
<1>5. CASE AcceptEnds
  <2>1. sim = "none"
    BY <1>5 DEF AcceptEnds, Inv, Phases
  <2> QED
    BY <1>5, <2>1, TelemetryUnmoved DEF AcceptEnds
<1>6. CASE AwaitCommand \/ ClientReady \/ PollEmpty \/ RecvFails \/ RecvGarbage \/ Recv
  BY <1>6, TelemetryUnmoved
  DEF AwaitCommand, ClientReady, PollEmpty, RecvFails, RecvGarbage, Recv, Disconnect
<1>7. CASE handleCommand \/ ListenEnds \/ Join \/ Clear
  BY <1>7, TelemetryUnmoved DEF handleCommand, ListenEnds, Join, Clear
<1>8. CASE handleMistyped
  BY <1>8 DEF handleMistyped, TelemetryComplete
<1>9. CASE StartCruising \/ performCruise \/ SimEnds \/ Move \/ Spray \/ Battery
  BY <1>9, TelemetryUnmoved
  DEF StartCruising, performCruise, RoundBegins, SimEnds, Move, Spray, Battery
<1>10. CASE Comm \/ Signal \/ UNCHANGED vars
  BY <1>10, TelemetryUnmoved
  DEF Comm, PeerConnects, PeerBeginsFrame, PeerEndsFrame, PeerGoes, Signal, vars
<1> QED
  BY <1>1, <1>2, <1>3, <1>4, <1>5, <1>6, <1>7, <1>8, <1>9, <1>10
  DEF Next, MainThread, SimThread

\* Although one thread closes the socket that the other sends on, a Comm that stays is
\* told of every step of the climb once and in order, for every step and any length.
THEOREM NothingUnreported == Spec => []TelemetryComplete
<1>1. Init => TelemetryComplete
  BY DEF Init, TelemetryComplete
<1> QED
  BY <1>1, TelemetryStep, InvHolds, PTL DEF Spec

-----------------------------------------------------------------------------
\* Control among the other processes.

\* When the memory, the socket and the client come into being: nobody connects
\* before there is a socket, and who has a client has accepted one.
Meeting ==
  /\ main = "start" => ~linked
  /\ main \in {"start", "mapped"} => peer = "none"
  /\ main \in {"start", "mapped", "accept", "select"} => ~connected /\ reception = "none"
  /\ main \in {"poll", "recv", "handle"} => connected
  /\ connected => reception = "accepted"
  /\ reception # "none" => peer # "none"

LEMMA MeetingStep == Meeting /\ [Next]_vars => Meeting'
<1> SUFFICES ASSUME Meeting, [Next]_vars PROVE Meeting'
  OBVIOUS
<1> USE DEF Meeting
<1>1. CASE MapMemory \/ Bind \/ AwaitClient \/ Accept \/ AcceptTimeout
  BY <1>1 DEF MapMemory, Bind, AwaitClient, Accept, AcceptTimeout
<1>2. CASE AcceptInterrupted \/ AcceptEnds \/ AwaitCommand \/ ClientReady \/ PollEmpty
  BY <1>2 DEF AcceptInterrupted, AcceptEnds, AwaitCommand, ClientReady, PollEmpty
<1>3. CASE RecvFails \/ RecvGarbage \/ Recv \/ handleCommand \/ handleMistyped
  BY <1>3 DEF RecvFails, RecvGarbage, Recv, handleCommand, handleMistyped, Disconnect
<1>4. CASE ListenEnds \/ Join \/ Clear
  BY <1>4 DEF ListenEnds, Join, Clear
<1>5. CASE SimThread
  BY <1>5 DEF SimThread, Climb, StartCruising, performCruise, RoundBegins, SimEnds,
              SendTelemetry, Move, Spray, Battery
<1>6. CASE Comm \/ Signal
  BY <1>6 DEF Comm, PeerConnects, PeerBeginsFrame, PeerEndsFrame, PeerGoes, Signal
<1>7. CASE UNCHANGED vars
  BY <1>7 DEF vars
<1> QED
  BY <1>1, <1>2, <1>3, <1>4, <1>5, <1>6, <1>7 DEF Next, MainThread

LEMMA MeetingHolds == Spec => []Meeting
<1>1. Init => Meeting
  BY DEF Init, Meeting
<1> QED
  BY <1>1, MeetingStep, PTL DEF Spec

\* What System sees of Control's state.
USE DEF Place, Ending, UpIf, OneIf, Running
USE DEF S!vars, S!manager, S!sockets, S!memory

Waiting == {"accept", "select"}
Mission == {"listen", "poll", "recv", "handle", "join", "clear"}

\* A step within one of the two loops, or of the other thread.
LEMMA Unseen ==
  ASSUME UNCHANGED <<g_should_exit, connected, linked, reception>>,
         peer' = peer \/ {peer, peer'} = {"up", "midframe"},
         main' = main \/ {main, main'} \subseteq Waiting \/ {main, main'} \subseteq Mission
  PROVE  UNCHANGED S!vars
BY DEF Waiting, Mission

LEMMA MapMemoryIsStep ==
  ASSUME Meeting, MapMemory
  PROVE  S!MapsMemory \/ S!MappingFails
<1> USE DEF MapMemory, Meeting
<1>1. CASE main' = "mapped" /\ linked'
  BY <1>1 DEF S!MapsMemory, S!Created, S!None
<1>2. CASE main' = "failed"
  BY <1>2 DEF S!MappingFails, S!Created, S!None, S!Manager!Die
<1> QED
  BY <1>1, <1>2

LEMMA BindIsStep ==
  ASSUME Meeting, Bind
  PROVE  S!Binds \/ S!ControlReturns
<1> USE DEF Bind, Meeting
<1>1. CASE main' = "accept" /\ UNCHANGED linked
  BY <1>1 DEF S!Binds
<1>2. CASE main' = "unbound" /\ ~linked'
  BY <1>2 DEF S!ControlReturns, S!ControlGone, S!None, S!Manager!Die
<1> QED
  BY <1>1, <1>2

LEMMA AcceptIsStep == ASSUME Meeting, Accept PROVE S!Accepts
BY DEF Accept, Meeting, S!Accepts

\* A signal that is noticed outside select, or that comes when there is no client.
LEMMA LeavingIsStep ==
  ASSUME Meeting, AcceptEnds \/ Signal
  PROVE  S!Leaves \/ UNCHANGED S!vars
<1>1. CASE AcceptEnds
  BY <1>1 DEF AcceptEnds, Meeting, S!Leaves, S!None
<1>2. CASE Signal
  <2>1. CASE Place \in {"deaf", "refused"}
    BY <1>2, <2>1 DEF Signal, S!Leaves, S!None
  <2>2. CASE Place \notin {"deaf", "refused"}
    BY <1>2, <2>2 DEF Signal
  <2> QED
    BY <2>1, <2>2
<1> QED
  BY <1>1, <1>2

\* The client is lost because Comm is gone or because of a signal.
LEMMA RecvFailsIsStep ==
  ASSUME Meeting, RecvFails
  PROVE  S!LosesClient \/ S!Leaves
<1> USE DEF RecvFails, Disconnect, Meeting
<1>1. CASE g_should_exit
  BY <1>1 DEF S!Leaves, S!None
<1>2. CASE ~g_should_exit
  BY <1>2 DEF S!LosesClient, S!None
<1> QED
  BY <1>1, <1>2

\* A frame is refused, whether Comm is still there or not; a signal came first, or not.
LEMMA RecvGarbageIsStep ==
  ASSUME Meeting, RecvGarbage
  PROVE  S!RefusesFrame \/ S!Leaves
<1> USE DEF RecvGarbage, Disconnect, Meeting
<1>1. CASE g_should_exit
  BY <1>1 DEF S!Leaves, S!None
<1>2. CASE ~g_should_exit
  BY <1>2 DEF S!RefusesFrame, S!None
<1> QED
  BY <1>1, <1>2

\* The three ends of a Control that has bound its socket.
LEMMA EndsAreSteps ==
  ASSUME Meeting, AcceptInterrupted \/ Clear \/ handleMistyped
  PROVE  S!ControlReturns \/ S!ControlCrashes
<1>1. CASE AcceptInterrupted \/ Clear
  BY <1>1 DEF AcceptInterrupted, Clear, Meeting,
              S!ControlReturns, S!ControlGone, S!None, S!Manager!Die
<1>2. CASE handleMistyped
  BY <1>2 DEF handleMistyped, Meeting,
              S!ControlCrashes, S!ControlGone, S!None, S!Manager!Die
<1> QED
  BY <1>1, <1>2

LEMMA PeerIsStep ==
  ASSUME Meeting, Comm
  PROVE  S!Reconnects \/ S!CommEnds \/ UNCHANGED S!vars
<1>1. CASE PeerConnects
  <2> USE <1>1 DEF PeerConnects, Meeting
  <2>1. S!Reachable /\ ~S!Blocked
    BY DEF S!Reachable, S!Blocked, S!Listening
  <2>2. Append(<<>>, 1) = <<1>>
    OBVIOUS
  <2>3. S!Connected(TRUE)
    BY <2>2 DEF S!Connected
  <2> QED
    BY <2>1, <2>3 DEF S!Reconnects, S!None
<1>2. CASE PeerGoes
  BY <1>2 DEF PeerGoes, Meeting, S!CommEnds, S!None, S!Manager!Die
<1>3. CASE PeerBeginsFrame \/ PeerEndsFrame
  BY <1>3, Unseen DEF PeerBeginsFrame, PeerEndsFrame
<1> QED
  BY <1>1, <1>2, <1>3 DEF Comm

LEMMA OtherStepsAreUnseen ==
  ASSUME SimThread \/ UNCHANGED vars \/ AwaitClient \/ AcceptTimeout \/ AwaitCommand
         \/ ClientReady \/ PollEmpty \/ Recv \/ handleCommand \/ ListenEnds \/ Join
  PROVE  UNCHANGED S!vars
<1>1. CASE SimThread
  BY <1>1, Unseen DEF SimThread, Climb, StartCruising, performCruise, RoundBegins, SimEnds,
                      SendTelemetry, Move, Spray, Battery
<1>2. CASE AwaitClient \/ AcceptTimeout
  BY <1>2, Unseen DEF AwaitClient, AcceptTimeout, Waiting
<1>3. CASE AwaitCommand \/ ClientReady \/ PollEmpty \/ Recv
  BY <1>3, Unseen DEF AwaitCommand, ClientReady, PollEmpty, Recv, Mission
<1>4. CASE handleCommand \/ ListenEnds \/ Join
  BY <1>4, Unseen DEF handleCommand, ListenEnds, Join, Mission
<1>5. CASE UNCHANGED vars
  BY <1>5, Unseen DEF vars
<1> QED
  BY <1>1, <1>2, <1>3, <1>4, <1>5

LEMMA StepIsStep == Meeting /\ [Next]_vars => [S!Next]_(S!vars)
<1> SUFFICES ASSUME Meeting, [Next]_vars PROVE S!Next \/ UNCHANGED S!vars
  OBVIOUS
<1> HIDE DEF S!vars
<1>1. CASE MapMemory \/ Bind \/ Accept
  BY <1>1, MapMemoryIsStep, BindIsStep, AcceptIsStep DEF S!Next, S!ControlSteps
<1>2. CASE AcceptEnds \/ Signal \/ RecvFails \/ RecvGarbage
  BY <1>2, LeavingIsStep, RecvFailsIsStep, RecvGarbageIsStep DEF S!Next, S!ControlSteps
<1>3. CASE AcceptInterrupted \/ Clear \/ handleMistyped
  BY <1>3, EndsAreSteps DEF S!Next
<1>4. CASE Comm
  BY <1>4, PeerIsStep DEF S!Next, S!CommSteps
<1> QED
  BY <1>1, <1>2, <1>3, <1>4, OtherStepsAreUnseen DEF Next, MainThread

\* Every step of the two threads, of the peer and of the signal is one that System
\* allows Control or Comm: runMission maps and names the memory, binds, accepts, loses
\* its client to nothing but Comm's end, a signal or a frame that it refuses, and leaves
\* what its ending says.
THEOREM ImplementsSystem == Spec => StepsOfSystem
<1>1. Meeting /\ [Next]_vars => [S!Next]_(S!vars)
  BY StepIsStep
<1> QED
  BY <1>1, MeetingHolds, PTL DEF Spec, StepsOfSystem

=============================================================================
