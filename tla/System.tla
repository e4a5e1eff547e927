--------------------------------- MODULE System --------------------------------
(***************************************************************************)
(* Control, Comm and View as the Manager keeps them running, and the two   *)
(* names through which they find each other: the socket /tmp/x_pilot.ipc   *)
(* and the shared memory /x_pilot_shm.  The Manager is the Supervisor it   *)
(* implements (module Manager).  Of each program this module keeps what    *)
(* outlives or outlasts one of its instances; what an instance does while  *)
(* it runs is the business of Control and Comm, whose steps are steps of   *)
(* this module (StepsOfSystem in each of them).                            *)
(*                                                                         *)
(* An instance is known by its number among the instances of its program,  *)
(* a shared memory object by the number of the Control that created it.    *)
(***************************************************************************)
EXTENDS Integers, Sequences, SequencesExt

CONSTANTS Backlog,   \* connections that may wait to be accepted (listen(2))
          MaxLives   \* bound: instances of each program

ASSUME SystemAssumption == Backlog \in Nat /\ MaxLives \in Nat

Program == {"control_process", "comm_process", "view_process"}

None  == 0   \* no instance, no object, no descriptor (m_sock_fd = -1)
Stale == -1  \* m_sock_fd is the number of a descriptor that was closed

VARIABLES
  life, asked, stopping,  \* the Supervisor's
  nth,      \* per program, the number of its latest instance
  control,  \* where the running Control is
  bound,    \* the Control the socket's name leads to
  backlog,  \* the Comms whose connections wait to be accepted
  client,   \* client_fd of Control: the Comm it leads to
  comm,     \* where the running Comm is
  link,     \* ipc_client of Comm: the Control it leads to, and whether epoll knows
  name,     \* the object the shared memory's name leads to
  mapped,   \* the object Control has mapped
  view,     \* where the running View is
  shown,    \* the object View has mapped
  \* History.
  unlinked, \* objects whose name was removed
  ending    \* how the latest Control that reached for the memory ended

manager == <<life, asked, stopping>>
sockets == <<bound, backlog, client, link>>
memory  == <<name, mapped, shown, unlinked, ending>>
vars == <<manager, nth, control, comm, view, sockets, memory>>

Manager == INSTANCE Supervisor

Init ==
  /\ Manager!Init
  /\ nth = [p \in Program |-> 0]
  /\ control = "out" /\ comm = "out" /\ view = "out"
  /\ bound = None /\ backlog = <<>> /\ client = None /\ link = [to |-> None, watched |-> FALSE]
  /\ name = None /\ mapped = None /\ shown = None /\ unlinked = {} /\ ending = "none"

-----------------------------------------------------------------------------
\* Control.

\* Of a Control without a client it matters why: Comm was gone ("deaf"), or it was
\* not ("refused").
Listening == control \in {"accepting", "serving", "deaf", "refused", "leaving"}

ControlStarts ==
  /\ nth["control_process"] < MaxLives
  /\ Manager!Start("control_process")
  /\ nth' = [nth EXCEPT !["control_process"] = @ + 1]
  /\ control' = "boot"
  /\ UNCHANGED <<comm, view, sockets, memory>>

BadCreated == nth["control_process"]

\* shm_open(O_CREAT | O_RDWR): the object the name leads to, or a new one.
Created == IF name = None THEN nth["control_process"] ELSE name

\* ScopedShm::open succeeds: from here on Control owns the name.
MapsMemory ==
  /\ control = "boot"
  /\ control' = "mapped"
  /\ name' = Created /\ mapped' = Created /\ ending' = "none"
  /\ UNCHANGED <<manager, nth, comm, view, sockets, shown, unlinked>>

\* It fails in shm_open, or behind it, in ftruncate or mmap, which leaves a name
\* that the destructor will not remove.  runMission returns, and so does main.
MappingFails ==
  /\ control = "boot"
  /\ \E made \in {name, Created} : name' = made
  /\ ending' = "failed"
  /\ Manager!Die("control_process") /\ control' = "out"
  /\ UNCHANGED <<nth, comm, view, sockets, mapped, shown, unlinked>>

BadBinds ==
  /\ control = "mapped"
  /\ control' = "accepting"
  /\ bound' = (IF bound = None THEN nth["control_process"] ELSE bound) /\ backlog' = <<>>
  /\ UNCHANGED <<manager, nth, comm, view, client, link, memory>>

\* bindAndListen, which unlinks whatever an earlier Control has left.
Binds ==
  /\ control = "mapped"
  /\ control' = "accepting"
  /\ bound' = nth["control_process"] /\ backlog' = <<>>
  /\ UNCHANGED <<manager, nth, comm, view, client, link, memory>>

\* The loop around select and accept, which the first connection ends.
Accepts ==
  /\ control = "accepting" /\ backlog # <<>>
  /\ control' = "serving"
  /\ client' = Head(backlog) /\ backlog' = Tail(backlog)
  /\ UNCHANGED <<manager, nth, comm, view, bound, link, memory>>

BadLosesClient ==
  /\ control = "serving"
  /\ control' = "deaf" /\ client' = None
  /\ UNCHANGED <<manager, nth, comm, view, bound, backlog, link, memory>>

\* A Comm that died is at the other end: recvFrame returns false.
LosesClient ==
  /\ control = "serving"
  /\ client # nth["comm_process"] \/ life["comm_process"] # "up"
  /\ control' = "deaf" /\ client' = None
  /\ UNCHANGED <<manager, nth, comm, view, bound, backlog, link, memory>>

\* A Comm, alive perhaps, has sent a frame that recvFrame refuses.  Courier shows
\* which: those that have become too long where Comm wrote them again.
RefusesFrame ==
  /\ control = "serving"
  /\ control' = "refused" /\ client' = None
  /\ UNCHANGED <<manager, nth, comm, view, bound, backlog, link, memory>>

\* A signal ended the wait for a client, came when there was none any more, or cut
\* a frame short, which costs a living Comm its connection: Control will return.
Leaves ==
  /\ control \in {"accepting", "serving", "deaf", "refused"}
  /\ control' = "leaving" /\ client' = None
  /\ UNCHANGED <<manager, nth, comm, view, bound, backlog, link, memory>>

\* What the kernel does when Control is gone: its sockets are closed.  The
\* socket's name stays and leads nowhere.
ControlGone ==
  /\ Manager!Die("control_process")
  /\ control' = "out" /\ mapped' = None
  /\ backlog' = <<>> /\ client' = None
  /\ UNCHANGED <<nth, comm, view, bound, link, shown>>

BadControlReturns ==
  /\ control \notin {"out", "boot"}
  /\ ending' = "orderly" /\ UNCHANGED <<name, unlinked>>
  /\ ControlGone

\* runMission returns, for a signal or an error, and the destructors run:
\* ScopedShm::reset removes the name.
ControlReturns ==
  /\ control \notin {"out", "boot"}
  /\ name' = None /\ unlinked' = unlinked \cup {mapped} /\ ending' = "orderly"
  /\ ControlGone

\* Nothing runs: SIGKILL, an exception nobody catches, or an exit before the
\* memory was reached for (a configuration that cannot be read).
ControlCrashes ==
  /\ control # "out"
  /\ ending' = IF control = "boot" THEN ending ELSE "crash"
  /\ UNCHANGED <<name, unlinked>>
  /\ ControlGone

\* Nobody waits for anything once a signal has been noticed.
ControlFinishes == control = "leaving" /\ ControlReturns

-----------------------------------------------------------------------------
\* Comm.

CommStarts ==
  /\ nth["comm_process"] < MaxLives
  /\ Manager!Start("comm_process")
  /\ nth' = [nth EXCEPT !["comm_process"] = @ + 1]
  /\ comm' = "boot" /\ link' = [to |-> None, watched |-> FALSE]
  /\ UNCHANGED <<control, view, bound, backlog, client, memory>>

\* connect(2) succeeds if the name leads to a socket that somebody listens on, and
\* waits there, signal or not, while too many are waiting.
Reachable == Listening /\ bound = nth["control_process"]
Blocked == Reachable /\ Len(backlog) > Backlog

Connected(watched) ==
  /\ link' = [to |-> bound, watched |-> watched]
  /\ backlog' = Append(backlog, nth["comm_process"])

BadFirstAttempt ==
  /\ comm = "boot" /\ ~Blocked
  /\ comm' = "loop"
  /\ IF Reachable THEN Connected(FALSE)
     ELSE link' = [to |-> Stale, watched |-> FALSE] /\ UNCHANGED backlog
  /\ UNCHANGED <<manager, nth, control, view, bound, client, memory>>

\* Before the loop, and before there is an epoll set.
FirstAttempt ==
  /\ comm = "boot" /\ ~Blocked
  /\ comm' = "loop"
  /\ IF Reachable THEN Connected(FALSE) ELSE UNCHANGED <<link, backlog>>
  /\ UNCHANGED <<manager, nth, control, view, bound, client, memory>>

\* Step B: only a client without a number connects.
Reconnects ==
  /\ comm = "loop" /\ link.to = None /\ Reachable /\ ~Blocked
  /\ Connected(TRUE)
  /\ UNCHANGED <<manager, nth, control, comm, view, bound, client, memory>>

\* Control still has the other end of Comm's connection.
Attached ==
  /\ life["control_process"] = "up" /\ link.to = nth["control_process"]
  /\ nth["comm_process"] \in ToSet(backlog) \cup {client}

\* The end of a watched connection: the descriptor is closed, not forgotten.
LosesControl ==
  /\ comm = "loop" /\ link.to > 0 /\ link.watched /\ ~Attached
  /\ link' = [to |-> Stale, watched |-> FALSE]
  /\ UNCHANGED <<manager, nth, control, comm, view, bound, backlog, client, memory>>

\* Connections that were not accepted stay in the backlog.
CommEnds ==
  /\ Manager!Die("comm_process")
  /\ comm' = "out" /\ link' = [to |-> None, watched |-> FALSE]
  /\ UNCHANGED <<nth, control, view, bound, backlog, client, memory>>

-----------------------------------------------------------------------------
\* View.

ViewStarts ==
  /\ nth["view_process"] < MaxLives
  /\ Manager!Start("view_process")
  /\ nth' = [nth EXCEPT !["view_process"] = @ + 1]
  /\ view' = "boot"
  /\ UNCHANGED <<control, comm, sockets, memory>>

\* Two seconds later: ScopedShm::open, read-only.
ViewOpens ==
  /\ view = "boot" /\ name # None
  /\ view' = "showing" /\ shown' = name
  /\ UNCHANGED <<manager, nth, control, comm, sockets, name, mapped, unlinked, ending>>

\* There is no such object, or a signal, or a crash: the reader removes no name.
ViewEnds ==
  /\ Manager!Die("view_process")
  /\ view' = "out" /\ shown' = None
  /\ UNCHANGED <<nth, control, comm, sockets, name, mapped, unlinked, ending>>

-----------------------------------------------------------------------------
\* The Manager.

Stops ==
  /\ Manager!Ask \/ Manager!Stop
  /\ UNCHANGED <<nth, control, comm, view, sockets, memory>>

GivesUp ==
  /\ \E p \in Program : Manager!Drop(p)
  /\ UNCHANGED <<nth, control, comm, view, sockets, memory>>

-----------------------------------------------------------------------------

ControlSteps == MapsMemory \/ Binds \/ Accepts \/ LosesClient
CommSteps == FirstAttempt \/ Reconnects \/ LosesControl

Next ==
  \/ ControlStarts \/ CommStarts \/ ViewStarts
  \/ ControlSteps \/ CommSteps \/ ViewOpens
  \/ RefusesFrame \/ Leaves \/ MappingFails \/ ControlReturns \/ ControlCrashes \/ CommEnds \/ ViewEnds
  \/ Stops \/ GivesUp

Spec == Init /\ [][Next]_vars

\* A program that runs gets on with it, and nothing makes it die but a signal.
FairSpec == Spec /\ WF_vars(ControlSteps \/ ControlFinishes) /\ WF_vars(CommSteps)

-----------------------------------------------------------------------------

\* Whatever its predecessors left behind and however they died, the two names
\* lead to the Control that runs: a Comm that connects and a View that opens
\* reach it, and nobody's exit takes them away.
NamesLeadToControl ==
  /\ control \notin {"out", "boot"} => name = mapped /\ mapped # None
  /\ Listening => bound = nth["control_process"]

\* A View keeps showing the Control that runs, across crashes and restarts of
\* Control, until a Control that exits in order removes the object's name.
ViewFollowsControl ==
  view = "showing" /\ mapped # None /\ shown \notin unlinked => shown = mapped

\* No object is left in the system unless its Control ran no destructors or
\* failed half-way through creating it.
NoLitter == mapped = None /\ name # None => ending \in {"crash", "failed"}

\* Control executes the commands of this Comm.
Linked == /\ life["control_process"] = "up" /\ life["comm_process"] = "up"
          /\ client = nth["comm_process"] /\ link.to = nth["control_process"]

\* A connection belongs to the two instances that made it.  It ends with one of them,
\* when Control was told to end, or with a frame that Control refuses; no other is
\* made while it lasts, and none after it: a Control is linked once in its life.
LinkLastsAsLongAsBoth ==
  [][/\ Linked => Linked' \/ control' \in {"refused", "leaving", "out"} \/ comm' = "out"
     /\ Linked' => Linked \/ control = "accepting"]_vars

\* A Control that was never connected to and a Comm that never connected,
\* whichever was started first, find each other or one of them dies.
BothFresh ==
  /\ control \in {"boot", "mapped", "accepting"} /\ backlog = <<>>
  /\ comm # "out" /\ link.to = None

LinkForms == BothFresh ~> Linked \/ control = "out" \/ comm = "out"

-----------------------------------------------------------------------------
\* What the readme says, and the code does not do.

\* "Crash self-healing" (readme.md:50): if Control never dies and refuses no frame,
\* and a Comm that was restarted as often as needed runs from some time on, then from
\* some time on Control executes what it forwards.
CommCrashHeals ==
  [](nth["control_process"] <= 1 /\ control # "refused") /\ <>[](control # "out" /\ comm = "loop")
  => <>[]Linked

=============================================================================
