------------------------------ MODULE SystemProofs ------------------------------
(***************************************************************************)
(* What holds of the two names and of the connection for any number of     *)
(* instances of the programs, that end in any way at any moment.           *)
(***************************************************************************)
EXTENDS System, TLAPS

C == "control_process"
O == "comm_process"

\* The states of the programs are those the Supervisor knows, and who is up has been
\* started.
Lives ==
  /\ life \in [Program -> {"new", "up", "down", "gone"}]
  /\ nth \in [Program -> Nat]
  /\ \A p \in Program : life[p] = "up" => nth[p] > 0
  /\ control \in {"out", "boot", "mapped", "accepting", "serving", "deaf", "refused",
                 "leaving"}
  /\ control # "out" <=> life[C] = "up"
  /\ comm # "out" <=> life[O] = "up"
  /\ view # "out" <=> life["view_process"] = "up"

\* Objects are those of Controls that have been started; one that is only starting
\* has none yet.
Objects ==
  /\ name \in Nat /\ mapped \in Nat /\ shown \in Nat
  /\ \A o \in unlinked \cup {name, shown} :
       o \in Nat /\ o <= nth[C] /\ (control = "boot" => o < nth[C])
  /\ None \notin unlinked

\* What has a name is mapped as long as Control runs, and what is shown has a name or
\* had one that was removed.
Memory ==
  /\ control \in {"out", "boot"} <=> mapped = None
  /\ mapped # None => name = mapped
  /\ name \notin unlinked
  /\ view = "showing" <=> shown # None
  /\ shown # None => shown = name \/ shown \in unlinked
  /\ NoLitter

\* The socket's name leads to who listens, and only who serves has a client.
Sockets ==
  /\ Listening => bound = nth[C]
  /\ control # "serving" => client = None
  /\ comm = "boot" => link.to = None

Inv == Lives /\ Objects /\ Memory /\ Sockets

USE DEF C, O, Program, None

LEMMA InitInv == Init => Inv
BY DEF Init, Manager!Init, Inv, Lives, Objects, Memory, Sockets, NoLitter, Listening

\* What the Supervisor does to one program.
LEMMA StartsOne ==
  ASSUME NEW p \in Program, Lives, Manager!Start(p) PROVE
    /\ life' \in [Program -> {"new", "up", "down", "gone"}]
    /\ life[p] # "up" /\ life'[p] = "up" /\ \A q \in Program \ {p} : life'[q] = life[q]
BY DEF Lives, Manager!Start

LEMMA DiesOne ==
  ASSUME NEW p \in Program, Lives, Manager!Die(p) PROVE
    /\ life' \in [Program -> {"new", "up", "down", "gone"}]
    /\ life[p] = "up" /\ life'[p] = "down" /\ \A q \in Program \ {p} : life'[q] = life[q]
BY DEF Lives, Manager!Die

\* A Control that starts: all the objects are older.
LEMMA ControlStartsInv == Inv /\ ControlStarts => Inv'
<1> SUFFICES ASSUME Inv, ControlStarts PROVE Inv'
  OBVIOUS
<1> USE DEF Inv, ControlStarts, sockets, memory
<1>1. Lives'
  BY StartsOne DEF Lives
<1>2. control = "out"
  BY StartsOne DEF Lives
<1>3. Objects'
  BY <1>2 DEF Lives, Objects
<1>4. Memory'
  BY <1>2 DEF Memory, NoLitter
<1>5. Sockets'
  BY <1>2 DEF Sockets, Listening
<1> QED
  BY <1>1, <1>3, <1>4, <1>5

\* The name leads to an object of this or of an earlier Control, which nobody removed.
LEMMA CreatedObject ==
  ASSUME Inv, control = "boot"
  PROVE  /\ Created \in Nat /\ Created > 0 /\ Created <= nth[C] /\ Created \notin unlinked
         /\ name # None => Created = name
BY DEF Inv, Lives, Objects, Memory, Created

LEMMA ControlStepsInv == Inv /\ (ControlSteps \/ RefusesFrame \/ Leaves) => Inv'
<1> SUFFICES ASSUME Inv, ControlSteps \/ RefusesFrame \/ Leaves PROVE Inv'
  OBVIOUS
<1> USE DEF Inv, manager, memory
<1>1. CASE MapsMemory
  <2> USE <1>1 DEF MapsMemory, sockets
  <2>1. Lives'
    BY DEF Lives
  <2>2. Objects'
    BY CreatedObject DEF Objects, Lives
  <2>3. Memory'
    BY CreatedObject DEF Memory, NoLitter
  <2>4. Sockets'
    BY DEF Sockets, Listening
  <2> QED
    BY <2>1, <2>2, <2>3, <2>4
<1>2. CASE Binds
  BY <1>2 DEF Binds, Lives, Objects, Memory, NoLitter, Sockets, Listening
<1>3. CASE Accepts
  BY <1>3 DEF Accepts, Lives, Objects, Memory, NoLitter, Sockets, Listening
<1>4. CASE LosesClient
  BY <1>4 DEF LosesClient, Lives, Objects, Memory, NoLitter, Sockets, Listening
<1>5. CASE Leaves
  BY <1>5 DEF Leaves, Lives, Objects, Memory, NoLitter, Sockets, Listening
<1>6. CASE RefusesFrame
  BY <1>6 DEF RefusesFrame, Lives, Objects, Memory, NoLitter, Sockets, Listening
<1> QED
  BY <1>1, <1>2, <1>3, <1>4, <1>5, <1>6 DEF ControlSteps

\* However Control ends, what it leaves is known by the way it ended.
LEMMA ControlEndsInv == Inv /\ (MappingFails \/ ControlReturns \/ ControlCrashes) => Inv'
<1> SUFFICES ASSUME Inv, MappingFails \/ ControlReturns \/ ControlCrashes PROVE Inv'
  OBVIOUS
<1> USE DEF Inv
<1>1. CASE MappingFails
  <2> USE <1>1 DEF MappingFails, sockets
  <2>1. Lives'
    BY DiesOne DEF Lives
  <2>2. Objects'
    BY CreatedObject DEF Objects, Lives
  <2>3. Memory'
    BY CreatedObject DEF Memory, NoLitter
  <2>4. Sockets'
    BY DEF Sockets, Listening
  <2> QED
    BY <2>1, <2>2, <2>3, <2>4
<1>2. CASE ControlReturns \/ ControlCrashes
  <2>1. ControlGone
    BY <1>2 DEF ControlReturns, ControlCrashes
  <2> USE <2>1 DEF ControlGone
  <2>2. Lives'
    BY DiesOne DEF Lives
  <2>3. Objects'
    BY <1>2 DEF ControlReturns, ControlCrashes, Lives, Objects, Memory
  <2>4. Memory'
    BY <1>2 DEF ControlReturns, ControlCrashes, Objects, Memory, NoLitter
  <2>5. Sockets'
    BY DEF Sockets, Listening
  <2> QED
    BY <2>2, <2>3, <2>4, <2>5
<1> QED
  BY <1>1, <1>2

\* Comm's steps leave the memory alone, and View's the sockets.
LEMMA CommInv == Inv /\ (CommStarts \/ CommSteps \/ CommEnds) => Inv'
<1> SUFFICES ASSUME Inv, CommStarts \/ CommSteps \/ CommEnds PROVE Inv'
  OBVIOUS
<1> USE DEF Inv, memory
<1>1. CASE CommStarts
  <2> USE <1>1 DEF CommStarts
  <2>1. Lives'
    BY StartsOne DEF Lives
  <2> QED
    BY <2>1 DEF Lives, Objects, Memory, NoLitter, Sockets, Listening
<1>2. CASE FirstAttempt
  BY <1>2 DEF FirstAttempt, Lives, Objects, Memory, NoLitter, Sockets, Listening, manager
<1>3. CASE Reconnects
  BY <1>3 DEF Reconnects, Connected, Lives, Objects, Memory, NoLitter, Sockets, Listening, manager
<1>4. CASE LosesControl
  BY <1>4 DEF LosesControl, Lives, Objects, Memory, NoLitter, Sockets, Listening, manager
<1>5. CASE CommEnds
  <2> USE <1>5 DEF CommEnds
  <2>1. Lives'
    BY DiesOne DEF Lives
  <2> QED
    BY <2>1 DEF Objects, Memory, NoLitter, Sockets, Listening
<1> QED
  BY <1>1, <1>2, <1>3, <1>4, <1>5 DEF CommSteps

LEMMA ViewInv == Inv /\ (ViewStarts \/ ViewOpens \/ ViewEnds) => Inv'
<1> SUFFICES ASSUME Inv, ViewStarts \/ ViewOpens \/ ViewEnds PROVE Inv'
  OBVIOUS
<1> USE DEF Inv, sockets
<1>1. CASE ViewStarts
  <2> USE <1>1 DEF ViewStarts, memory
  <2>1. Lives'
    BY StartsOne DEF Lives
  <2>2. view # "showing"
    BY StartsOne DEF Lives
  <2> QED
    BY <2>1, <2>2 DEF Lives, Objects, Memory, NoLitter, Sockets, Listening
<1>2. CASE ViewOpens
  BY <1>2 DEF ViewOpens, Lives, Objects, Memory, NoLitter, Sockets, Listening, manager
<1>3. CASE ViewEnds
  <2> USE <1>3 DEF ViewEnds
  <2>1. Lives'
    BY DiesOne DEF Lives
  <2> QED
    BY <2>1 DEF Lives, Objects, Memory, NoLitter, Sockets, Listening
<1> QED
  BY <1>1, <1>2, <1>3

LEMMA ManagerInv == Inv /\ (Stops \/ GivesUp) => Inv'
<1> SUFFICES ASSUME Inv, Stops \/ GivesUp PROVE Inv'
  OBVIOUS
<1>1. UNCHANGED <<nth, control, comm, view, sockets, memory>>
  BY DEF Stops, GivesUp
<1>2. /\ life' \in [Program -> {"new", "up", "down", "gone"}]
      /\ \A q \in Program : life'[q] = "up" <=> life[q] = "up"
  BY DEF Inv, Lives, Stops, GivesUp, Manager!Ask, Manager!Stop, Manager!Drop
<1> QED
  BY <1>1, <1>2 DEF Inv, Lives, Objects, Memory, NoLitter, Sockets, Listening, sockets, memory

LEMMA StepInv == Inv /\ [Next]_vars => Inv'
<1> SUFFICES ASSUME Inv, [Next]_vars PROVE Inv'
  OBVIOUS
<1>1. CASE Next
  BY <1>1, ControlStartsInv, ControlStepsInv, ControlEndsInv, CommInv, ViewInv, ManagerInv DEF Next
<1>2. CASE UNCHANGED vars
  BY <1>2 DEF vars, manager, sockets, memory, Inv, Lives, Objects, Memory, NoLitter, Sockets, Listening
<1> QED
  BY <1>1, <1>2

\* The invariant of the three programs: who is up, which objects there are, and
\* what the two names lead to.
THEOREM Invariance == Spec => []Inv
BY InitInv, StepInv, PTL DEF Spec

\* Whatever its predecessors left behind and however they died, the two names lead
\* to the Control that runs (ScopedShm::open, bindAndListen).
THEOREM NamesAlwaysLead == Spec => []NamesLeadToControl
<1>1. Inv => NamesLeadToControl
  BY DEF Inv, Lives, Objects, Memory, Sockets, NamesLeadToControl, Listening
<1> QED
  BY <1>1, Invariance, PTL

\* A View shows the Control that runs until a Control that exits in order removes
\* the name of the object (ScopedShm::reset).
THEOREM ViewAlwaysFollows == Spec => []ViewFollowsControl
<1>1. Inv => ViewFollowsControl
  BY DEF Inv, Lives, Objects, Memory, ViewFollowsControl
<1> QED
  BY <1>1, Invariance, PTL

\* An object is left only by a Control that was killed or that failed half-way
\* through creating it (ScopedShm::open and its destructor).
THEOREM NeverLitter == Spec => []NoLitter
<1>1. Inv => NoLitter
  BY DEF Inv, Memory
<1> QED
  BY <1>1, Invariance, PTL

-----------------------------------------------------------------------------
\* The connection.  A step changes one program, and only its end, a signal or a frame
\* that is refused ends the link.

Ended == control' \in {"refused", "leaving", "out"} \/ comm' = "out"

\* A Control that starts was not connected to anybody.
LEMMA ControlStepKeepsLink ==
  ASSUME Inv, Linked,
         \/ ControlStarts \/ ControlSteps \/ RefusesFrame \/ Leaves
         \/ MappingFails \/ ControlReturns \/ ControlCrashes
  PROVE  Linked' \/ Ended
<1>1. control = "serving"
  BY DEF Inv, Lives, Sockets, Linked
<1>2. CASE ControlStarts
  BY <1>2, StartsOne DEF ControlStarts, Inv, Linked
<1>3. CASE LosesClient
  BY <1>3 DEF LosesClient, Linked
<1>4. CASE ControlReturns \/ ControlCrashes \/ RefusesFrame \/ Leaves
  BY <1>4 DEF ControlReturns, ControlCrashes, ControlGone, RefusesFrame, Leaves, Ended
<1> QED
  BY <1>1, <1>2, <1>3, <1>4
  DEF ControlSteps, MapsMemory, MappingFails, Binds, Accepts

\* A Comm that has a connection makes no other, and sees its end only when there is one.
LEMMA CommStepKeepsLink ==
  ASSUME Inv, Linked, CommStarts \/ CommSteps \/ CommEnds
  PROVE  Linked' \/ Ended
<1>1. link.to > 0 /\ link.to = nth[C] /\ comm # "boot"
  BY DEF Inv, Lives, Sockets, Linked
<1>2. CASE CommStarts
  BY <1>2, StartsOne DEF CommStarts, Inv, Linked
<1>3. CASE Reconnects
  BY <1>1, <1>3 DEF Reconnects
<1>4. CASE LosesControl
  <2>1. Attached
    BY DEF Attached, Linked
  <2> QED
    BY <2>1, <1>4 DEF LosesControl
<1>5. CASE CommEnds
  BY <1>5 DEF CommEnds, Ended
<1> QED
  BY <1>1, <1>2, <1>3, <1>4, <1>5 DEF CommSteps, FirstAttempt

LEMMA OtherStepKeepsLink ==
  ASSUME Inv, Linked, ViewStarts \/ ViewOpens \/ ViewEnds \/ Stops \/ GivesUp
  PROVE  Linked' \/ Ended
<1>1. UNCHANGED <<client, link>> /\ nth'[C] = nth[C] /\ nth'[O] = nth[O]
  BY DEF ViewStarts, ViewOpens, ViewEnds, Stops, GivesUp, sockets, Inv, Lives
<1>2. life'[C] = "up" /\ life'[O] = "up"
  <2>1. /\ life[C] = "up" /\ life[O] = "up" /\ Lives
    BY DEF Inv, Linked
  <2>2. CASE ViewStarts
    BY <2>1, <2>2, StartsOne DEF ViewStarts
  <2>3. CASE ViewEnds
    BY <2>1, <2>3, DiesOne DEF ViewEnds
  <2>4. CASE ViewOpens
    BY <2>1, <2>4 DEF ViewOpens, manager
  <2>5. CASE Stops
    BY <2>1, <2>5 DEF Stops, Manager!Ask, Manager!Stop
  <2>6. CASE GivesUp
    BY <2>1, <2>6 DEF GivesUp, Manager!Drop, Lives
  <2> QED
    BY <2>2, <2>3, <2>4, <2>5, <2>6
<1> QED
  BY <1>1, <1>2 DEF Linked

LEMMA StepKeepsLink ==
  ASSUME Inv, Linked, [Next]_vars
  PROVE  Linked' \/ Ended
<1>1. CASE Next
  BY <1>1, ControlStepKeepsLink, CommStepKeepsLink, OtherStepKeepsLink DEF Next
<1>2. CASE UNCHANGED vars
  BY <1>2 DEF vars, manager, sockets, Linked
<1> QED
  BY <1>1, <1>2

-----------------------------------------------------------------------------
\* No second link: who is in the backlog, and whose connection was accepted.

\* Those that wait, and the one that was accepted, are Comms that have been started; the
\* one that runs is among them only if it has connected.
Connections ==
  /\ backlog \in Seq(Nat) /\ client \in Nat
  /\ \A i \in DOMAIN backlog : backlog[i] <= nth[O]
  /\ client <= nth[O]
  /\ comm # "out" /\ link.to = None
       => client # nth[O] /\ \A i \in DOMAIN backlog : backlog[i] # nth[O]

\* A Comm that connects has a Control to connect to.
LEMMA ReachableIsSome == ASSUME Inv, Reachable PROVE bound > 0
BY DEF Inv, Lives, Reachable, Listening

LEMMA ConnectedConnections ==
  ASSUME Inv, Connections, Reachable, NEW b \in BOOLEAN, Connected(b), UNCHANGED <<client, nth>>
  PROVE  Connections'
<1>1. link'.to # None
  BY ReachableIsSome DEF Connected
<1>2. nth[O] \in Nat
  BY DEF Inv, Lives
<1>3. backlog' = Append(backlog, nth[O])
  BY DEF Connected
<1> QED
  BY <1>1, <1>2, <1>3 DEF Connections

LEMMA ConnectionsStep == Inv /\ Connections /\ [Next]_vars => Connections'
<1> SUFFICES ASSUME Inv, Connections, [Next]_vars PROVE Connections'
  OBVIOUS
<1>1. nth[O] \in Nat /\ (comm # "out" => nth[O] > 0)
  BY DEF Inv, Lives
<1>2. ASSUME UNCHANGED <<comm, link, client, backlog>>, nth'[O] = nth[O] PROVE Connections'
  BY <1>2 DEF Connections
<1>3. CASE ControlStarts \/ MapsMemory \/ MappingFails \/ ViewStarts \/ ViewOpens \/ ViewEnds
           \/ Stops \/ GivesUp \/ UNCHANGED vars
  BY <1>2, <1>3 DEF ControlStarts, MapsMemory, MappingFails, ViewStarts, ViewOpens, ViewEnds,
                    Stops, GivesUp, vars, sockets, Inv, Lives
<1>4. CASE Binds
  BY <1>4 DEF Binds, Connections
<1>5. CASE Accepts
  <2>1. /\ backlog # <<>> /\ client' = Head(backlog) /\ backlog' = Tail(backlog)
        /\ UNCHANGED <<nth, comm, link>>
    BY <1>5 DEF Accepts
  <2>2. backlog \in Seq(Nat) /\ 1 \in DOMAIN backlog /\ Head(backlog) = backlog[1]
    BY <2>1 DEF Connections
  <2>3. /\ Tail(backlog) \in Seq(Nat)
        /\ \A i \in DOMAIN Tail(backlog) : i + 1 \in DOMAIN backlog /\ Tail(backlog)[i] = backlog[i + 1]
    BY <2>1, <2>2
  <2> QED
    BY <2>1, <2>2, <2>3 DEF Connections
<1>6. CASE LosesClient \/ RefusesFrame \/ Leaves
  BY <1>1, <1>6 DEF LosesClient, RefusesFrame, Leaves, Connections
<1>7. CASE ControlReturns \/ ControlCrashes
  <2>1. backlog' = <<>> /\ client' = None /\ UNCHANGED <<nth, comm, link>>
    BY <1>7 DEF ControlReturns, ControlCrashes, ControlGone
  <2> QED
    BY <1>1, <2>1 DEF Connections
<1>8. CASE CommStarts
  <2>1. nth'[O] = nth[O] + 1 /\ UNCHANGED <<client, backlog>>
    BY <1>8 DEF CommStarts, Inv, Lives
  <2> QED
    BY <1>1, <2>1 DEF Connections
<1>9. CASE FirstAttempt
  <2>1. CASE Reachable
    BY <1>9, <2>1, ConnectedConnections DEF FirstAttempt
  <2>2. CASE ~Reachable
    BY <1>9, <2>2 DEF FirstAttempt, Connections, Inv, Lives
  <2> QED
    BY <2>1, <2>2
<1>10. CASE Reconnects
  BY <1>10, ConnectedConnections DEF Reconnects
<1>11. CASE LosesControl
  BY <1>11 DEF LosesControl, Connections, Stale
<1>12. CASE CommEnds
  BY <1>12 DEF CommEnds, Connections
<1> QED
  BY <1>3, <1>4, <1>5, <1>6, <1>7, <1>8, <1>9, <1>10, <1>11, <1>12
  DEF Next, ControlSteps, CommSteps

LEMMA ConnectionsHold == Spec => []Connections
<1>1. Init => Connections
  BY DEF Init, Connections
<1> QED
  BY <1>1, ConnectionsStep, Invariance, PTL DEF Spec

\* Only the accept makes a link: whoever connects is not the client already, and nobody
\* who starts has one.
LEMMA OnlyAcceptLinks ==
  ASSUME Inv, Connections, [Next]_vars, Linked'
  PROVE  Linked \/ control = "accepting"
<1>1. /\ nth'[C] \in Nat /\ nth'[C] > 0 /\ nth'[O] \in Nat /\ nth'[O] > 0
      /\ life'[C] = "up" /\ life'[O] = "up"
  <2>1. Lives'
    BY StepInv DEF Inv
  <2> QED
    BY <2>1 DEF Linked, Lives
<1>2. client' # None /\ link'.to = nth'[C]
  BY <1>1 DEF Linked
<1>3. ASSUME UNCHANGED <<client, link>>, nth'[C] = nth[C], nth'[O] = nth[O],
             life[C] = "up", life[O] = "up"
      PROVE  Linked
  BY <1>3 DEF Linked
<1>4. CASE ControlStarts
  BY <1>2, <1>4, StartsOne DEF ControlStarts, sockets, Inv, Lives, Sockets
<1>5. CASE MapsMemory \/ Stops \/ GivesUp \/ ViewOpens \/ UNCHANGED vars
  <2>1. life[C] = "up" /\ life[O] = "up"
    BY <1>1, <1>5 DEF MapsMemory, Stops, GivesUp, ViewOpens, vars, manager,
                      Manager!Ask, Manager!Stop, Manager!Drop, Inv, Lives
  <2> QED
    BY <1>3, <1>5, <2>1 DEF MapsMemory, Stops, GivesUp, ViewOpens, vars, sockets
<1>6. CASE ViewStarts \/ ViewEnds
  <2>1. life[C] = "up" /\ life[O] = "up"
    BY <1>1, <1>6, StartsOne, DiesOne DEF ViewStarts, ViewEnds, Inv
  <2> QED
    BY <1>3, <1>6, <2>1 DEF ViewStarts, ViewEnds, sockets, Inv, Lives
<1>7. CASE Binds
  BY <1>7, <1>2 DEF Binds, Inv, Sockets
<1>8. CASE Accepts
  BY <1>8 DEF Accepts
<1>9. CASE LosesClient \/ RefusesFrame \/ Leaves \/ ControlReturns \/ ControlCrashes
  BY <1>2, <1>9 DEF LosesClient, RefusesFrame, Leaves, ControlReturns, ControlCrashes, ControlGone
<1>10. CASE MappingFails
  BY <1>1, <1>10, DiesOne DEF MappingFails, Inv
<1>11. CASE CommStarts \/ LosesControl
  BY <1>1, <1>2, <1>11 DEF CommStarts, LosesControl, Stale
<1>12. CASE CommEnds
  BY <1>1, <1>12, DiesOne DEF CommEnds, Inv
<1>13. CASE FirstAttempt \/ Reconnects
  <2>1. link.to = None /\ comm # "out" /\ UNCHANGED <<manager, nth, client>>
    BY <1>13 DEF FirstAttempt, Reconnects, Inv, Sockets
  <2>2. client # nth[O]
    BY <2>1 DEF Connections
  <2> QED
    BY <2>1, <2>2 DEF Linked
<1> QED
  BY <1>4, <1>5, <1>6, <1>7, <1>8, <1>9, <1>10, <1>11, <1>12, <1>13
  DEF Next, ControlSteps, CommSteps

\* A connection ends with one of the two instances that made it (LosesClient,
\* LosesControl), with a signal to Control (Leaves) or with a frame that Control refuses
\* (RefusesFrame); no other is made while it lasts, nor after it (Accepts, Reconnects).
THEOREM LinkLasts == Spec => LinkLastsAsLongAsBoth
<1>1. Inv /\ Connections /\ [Next]_vars
        => [/\ Linked => Linked' \/ control' \in {"refused", "leaving", "out"} \/ comm' = "out"
            /\ Linked' => Linked \/ control = "accepting"]_vars
  BY StepKeepsLink, OnlyAcceptLinks DEF Ended
<1> QED
  BY <1>1, Invariance, ConnectionsHold, PTL DEF Spec, LinkLastsAsLongAsBoth

=============================================================================
