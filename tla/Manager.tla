------------------------------- MODULE Manager --------------------------------
(***************************************************************************)
(* The Manager process (src/manager_main.cpp): it starts Control, Comm and,*)
(* if configured, View, restarts those that die, and stops them all when it*)
(* is told to exit.  The kernel's process table is part of the module: fork*)
(* can fail, a child lives between fork, exec and the installation of its  *)
(* own signal handlers, dies at any time and stays a zombie until waitpid, *)
(* and only then may its pid be given out again.                           *)
(*                                                                         *)
(* A time_t x is kept as its age, time(nullptr) - x, up to Window, and a   *)
(* sleep or deadline as the seconds it still has.                          *)
(***************************************************************************)
EXTENDS Integers

CONSTANTS Pid,          \* what fork can return
          HasView,      \* is view_process_path set?
          Window,       \* a restart within so many seconds of the last is frequent (10)
          MaxRestarts,  \* restarts before frequent ones are refused (3)
          StartGap,     \* seconds between starting Control and Comm (2)
          RestartDelay, \* seconds before a restart (3)
          Nap,          \* seconds between two looks at the children (1)
          Grace,        \* seconds the children have to exit (5)
          Punctual      \* does the Manager take no time but in its sleeps?

ASSUME ManagerAssumption ==
  /\ HasView \in BOOLEAN /\ Punctual \in BOOLEAN
  /\ Window \in Nat /\ MaxRestarts \in Nat \ {0}
  /\ StartGap \in Nat /\ RestartDelay \in Nat /\ Nap \in Nat /\ Grace \in Nat

Name == {"control_process", "comm_process", "view_process"}
NoOne == "no one"       \* what a free pid runs

\* Bound: restart_count, which is compared with MaxRestarts only.
RestartCap == MaxRestarts + 1

VARIABLES
  pc,             \* where main is
  children,       \* the vector, its order left out
  dead_info,      \* the child being restarted
  g_should_exit,
  timer,          \* of the sleep, or of the deadline, under way
  proc,           \* kernel: what became of each pid
  prog,           \* kernel: the program each pid was forked for
  log             \* history: per program, the ages of its last restarts, latest first

vars == <<pc, children, dead_info, g_should_exit, timer, proc, prog, log>>

Info == [pid : Pid, name : Name, restart_count : 0 .. RestartCap,
         last_restart_time : 0 .. Window]

Dead == [name : Name \cup {NoOne}, restart_count : 0 .. RestartCap,
         last_restart_time : 0 .. Window]

\* {0, name, path, 0, 0}: last restarted in 1970, and not yet a pid.
Fresh(n) == [name |-> n, restart_count |-> 0, last_restart_time |-> Window]

NoInfo == [name |-> NoOne, restart_count |-> 0, last_restart_time |-> Window]

Sleeping == {"gap", "delay", "nap"}

\* A process the kernel still knows; one that still executes.
Unreaped == {p \in Pid : proc[p] # "free"}
Zombies == {p \in Pid : proc[p] = "zombie"}
Alive == Unreaped \ Zombies

Init ==
  /\ pc = "control" /\ children = {} /\ dead_info = NoInfo
  /\ g_should_exit = FALSE /\ timer = 0
  /\ proc = [p \in Pid |-> "free"] /\ prog = [p \in Pid |-> NoOne]
  /\ log = [n \in Name |-> [i \in 1 .. RestartCap |-> Window]]

-----------------------------------------------------------------------------

\* start_process: a new process, or nothing at all when fork fails.
BadStart(info) ==
  \E p \in Pid \ Unreaped :
     /\ proc' = [proc EXCEPT ![p] = "forked"]
     /\ prog' = [prog EXCEPT ![p] = info.name]
     /\ UNCHANGED children

start_process(info) ==
  \/ \E p \in Pid \ Unreaped :
       /\ proc' = [proc EXCEPT ![p] = "forked"]
       /\ prog' = [prog EXCEPT ![p] = info.name]
       /\ children' = children \cup
            {[pid |-> p, name |-> info.name, restart_count |-> info.restart_count,
              last_restart_time |-> info.last_restart_time]}
  \/ UNCHANGED <<proc, prog, children>>

\* sleep(s): a signal that is handled while it lasts ends it.
Sleep(place, s) == pc' = place /\ timer' = s
Woken == timer = 0

StartControl ==
  /\ pc = "control"
  /\ start_process(Fresh("control_process"))
  /\ Sleep("gap", StartGap)
  /\ UNCHANGED <<dead_info, g_should_exit, log>>

StartComm ==
  /\ pc = "gap" /\ Woken
  /\ start_process(Fresh("comm_process"))
  /\ pc' = IF HasView THEN "view" ELSE "monitor"
  /\ UNCHANGED <<dead_info, g_should_exit, timer, log>>

StartView ==
  /\ pc = "view"
  /\ start_process(Fresh("view_process"))
  /\ pc' = "monitor"
  /\ UNCHANGED <<dead_info, g_should_exit, timer, log>>

-----------------------------------------------------------------------------
\* The monitor loop.

BadPeek(p) ==
  /\ UNCHANGED <<proc, prog>>
  /\ children' = {c \in children : c.pid # p}

\* waitpid(-1, ..., WNOHANG) returns p, and the vector forgets it.
Reap(p) ==
  /\ proc' = [proc EXCEPT ![p] = "free"]
  /\ prog' = [prog EXCEPT ![p] = NoOne]
  /\ children' = {c \in children : c.pid # p}

BadFrequentNever(c) == FALSE
BadFrequentOneMore(c) == c.last_restart_time < Window /\ c.restart_count > MaxRestarts

\* A program that keeps crashing is not restarted.
Frequent(c) == c.last_restart_time < Window /\ c.restart_count >= MaxRestarts

\* (Nor is a pid that is not in the vector.)
GiveUp(p) ==
  /\ pc = "monitor" /\ ~g_should_exit
  /\ p \in Zombies
  /\ \A c \in children : c.pid = p => Frequent(c)
  /\ Reap(p)
  /\ Sleep("nap", Nap)
  /\ UNCHANGED <<dead_info, g_should_exit, log>>

PrepareRestart(p) ==
  /\ pc = "monitor" /\ ~g_should_exit
  /\ p \in Zombies
  /\ \E c \in children :
       /\ c.pid = p /\ ~Frequent(c)
       /\ dead_info' = [name |-> c.name, last_restart_time |-> 0,
            restart_count |-> IF c.restart_count = RestartCap THEN RestartCap
                              ELSE c.restart_count + 1]
       /\ log' = [log EXCEPT ![c.name] =
            [i \in 1 .. RestartCap |-> IF i = 1 THEN 0 ELSE @[i - 1]]]
  /\ Reap(p)
  /\ Sleep("delay", RestartDelay)
  /\ UNCHANGED g_should_exit

Restart ==
  /\ pc = "delay" /\ Woken
  /\ start_process(dead_info)
  /\ dead_info' = NoInfo
  /\ Sleep("nap", Nap)
  /\ UNCHANGED <<g_should_exit, log>>

NothingDied ==
  /\ pc = "monitor" /\ ~g_should_exit
  /\ Zombies = {}
  /\ Sleep("nap", Nap)
  /\ UNCHANGED <<children, dead_info, g_should_exit, proc, prog, log>>

EndNap ==
  /\ pc = "nap" /\ Woken
  /\ pc' = "monitor"
  /\ UNCHANGED <<children, dead_info, g_should_exit, timer, proc, prog, log>>

-----------------------------------------------------------------------------
\* Shutdown.

\* What SIGTERM does.  Between fork and exec the child still has the Manager's
\* handler, which only sets a flag that exec throws away; between exec and
\* signal() the default action ends it; later it ends in its own time, if ever.
OnTerm(status) ==
  CASE status = "booting" -> "killed"
    [] status = "running" -> "dying"
    [] OTHER              -> status

TracksPid(p) == \E c \in children : c.pid = p

BadTermNoChildren ==
  /\ pc = "monitor" /\ (g_should_exit \/ children = {})
  /\ proc' = [p \in Pid |-> IF TracksPid(p) THEN OnTerm(proc[p]) ELSE proc[p]]
  /\ pc' = "wait" /\ timer' = Grace
  /\ UNCHANGED <<children, dead_info, g_should_exit, prog, log>>

SendTerm ==
  /\ pc = "monitor" /\ g_should_exit
  /\ proc' = [p \in Pid |-> IF TracksPid(p) THEN OnTerm(proc[p]) ELSE proc[p]]
  /\ pc' = "wait" /\ timer' = Grace
  /\ UNCHANGED <<children, dead_info, g_should_exit, prog, log>>

WaitReaps(p) ==
  /\ pc = "wait" /\ children # {} /\ timer > 0
  /\ p \in Zombies
  /\ Reap(p)
  /\ UNCHANGED <<pc, dead_info, g_should_exit, timer, log>>

BadNoDeadline == children = {} \/ Unreaped = {}
BadOneLook == children = {} \/ timer = 0 \/ Zombies = {}

\* Nobody left, the deadline, or waitpid's ECHILD.  While there are children
\* and none has died, the loop sleeps 100 ms and looks again.
WaitIsOver == children = {} \/ timer = 0 \/ Unreaped = {}

WaitEnds ==
  /\ pc = "wait"
  /\ WaitIsOver
  /\ pc' = "kill"
  /\ UNCHANGED <<children, dead_info, g_should_exit, timer, proc, prog, log>>

BadKillsDying(status) == IF status = "dying" THEN "killed" ELSE status

OnKill(status) == IF status \in {"free", "zombie"} THEN status ELSE "killed"

SendKill ==
  /\ pc = "kill"
  /\ proc' = [p \in Pid |-> IF TracksPid(p) THEN OnKill(proc[p]) ELSE proc[p]]
  /\ pc' = "reap"
  /\ UNCHANGED <<children, dead_info, g_should_exit, timer, prog, log>>

\* The last loop reaps whoever is a zombie by now; the vector is left alone.
FinalReap(p) ==
  /\ pc = "reap"
  /\ p \in Zombies
  /\ proc' = [proc EXCEPT ![p] = "free"]
  /\ prog' = [prog EXCEPT ![p] = NoOne]
  /\ UNCHANGED <<pc, children, dead_info, g_should_exit, timer, log>>

Exit ==
  /\ pc = "reap"
  /\ Zombies = {}
  /\ pc' = "done"
  /\ UNCHANGED <<children, dead_info, g_should_exit, timer, proc, prog, log>>

-----------------------------------------------------------------------------
\* The operator, the clock and the children.

\* SIGINT or SIGTERM is handled, during a sleep or just before it began.
Signal ==
  /\ pc # "done"
  /\ g_should_exit' = TRUE
  /\ timer' \in IF pc \in Sleeping THEN {0, timer} ELSE {timer}
  /\ UNCHANGED <<pc, children, dead_info, proc, prog, log>>

Aged(age) == IF age < Window THEN age + 1 ELSE age

\* A Manager that is not punctual may be kept from running for any time.
Tick ==
  /\ pc # "done"
  /\ Punctual => pc \in Sleeping \cup {"wait"} /\ timer > 0
  /\ timer' = IF timer > 0 THEN timer - 1 ELSE 0
  /\ children' = {[c EXCEPT !.last_restart_time = Aged(@)] : c \in children}
  /\ dead_info' = [dead_info EXCEPT !.last_restart_time = Aged(@)]
  /\ log' = [n \in Name |-> [i \in 1 .. RestartCap |-> Aged(log[n][i])]]
  /\ UNCHANGED <<pc, g_should_exit, proc, prog>>

Becomes(p, from, to) ==
  /\ proc[p] \in from
  /\ proc' = [proc EXCEPT ![p] = to]
  /\ UNCHANGED <<pc, children, dead_info, g_should_exit, timer, prog, log>>

Exec(p) == Becomes(p, {"forked"}, "booting")
InstallsHandlers(p) == Becomes(p, {"booting"}, "running")

\* exec fails, the program crashes or returns, or a signal takes effect.
Dies(p) == Becomes(p, {"forked", "booting", "running", "dying", "killed"}, "zombie")

-----------------------------------------------------------------------------

Main ==
  \/ StartControl \/ StartComm \/ StartView
  \/ \E p \in Pid : GiveUp(p) \/ PrepareRestart(p)
  \/ Restart \/ NothingDied \/ EndNap
  \/ SendTerm \/ (\E p \in Pid : WaitReaps(p)) \/ WaitEnds
  \/ SendKill \/ (\E p \in Pid : FinalReap(p)) \/ Exit

Children == \E p \in Pid : Exec(p) \/ InstallsHandlers(p) \/ Dies(p)

Next == Main \/ Signal \/ Tick \/ Children

Spec == Init /\ [][Next]_vars

\* The Manager runs and time passes; its children need not do anything.
FairSpec == Spec /\ WF_vars(Main) /\ WF_vars(Tick)

-----------------------------------------------------------------------------

Status == {"free", "forked", "booting", "running", "dying", "killed", "zombie"}

TypeOK ==
  /\ pc \in {"control", "gap", "view", "monitor", "delay", "nap",
             "wait", "kill", "reap", "done"}
  /\ children \subseteq Info
  /\ dead_info \in Dead
  /\ g_should_exit \in BOOLEAN
  /\ timer \in Nat
  /\ proc \in [Pid -> Status]
  /\ prog \in [Pid -> Name \cup {NoOne}]

\* The vector and the kernel agree until the last loop: the children are the
\* processes that have not been reaped, each under its own name, so a restart
\* has the right history and kill() never reaches somebody else's pid.
Tracked ==
  pc \notin {"reap", "done"} =>
    /\ {c.pid : c \in children} = Unreaped
    /\ \A c \in children : prog[c.pid] = c.name
    /\ \A c, d \in children : c.pid = d.pid => c = d

\* Whatever crashes and whenever: never two processes of the same program, and
\* none of the program that is about to be restarted.
OneInstance ==
  /\ \A p, q \in Unreaped : prog[p] = prog[q] => p = q
  /\ pc = "delay" => \A p \in Unreaped : prog[p] # dead_info.name

\* "No more than 3 restarts in 10 seconds", of each program and at any time: of one
\* restart more than that the first was at least Window seconds ago.
RestartRate == \A n \in Name : log[n][RestartCap] = Window

\* SIGKILL comes only when the children have had their Grace seconds.
GraceHonoured == [][pc = "kill" /\ pc' = "reap" /\ proc' # proc => timer = 0]_vars

\* No child outlives the Manager for longer than a SIGKILL takes.
ShutdownComplete == pc = "done" => Alive \subseteq {p \in Pid : proc[p] = "killed"}

\* Once told to exit the Manager exits, whatever its children do or fail to do.
ExitHonoured == g_should_exit ~> pc = "done"

\* Every child that dies is reaped, even when others keep dying and waitpid
\* prefers them: the limit on restarts is what keeps a crash loop from occupying
\* a punctual monitor for ever.
ZombiesReaped ==
  \A p \in Pid : (proc[p] = "zombie" /\ pc # "done") ~> (proc[p] = "free")

-----------------------------------------------------------------------------

\* Programs whose first start is still to come.
ToStart ==
  (IF pc = "control" THEN {"control_process"} ELSE {})
  \cup (IF pc \in {"control", "gap"} THEN {"comm_process"} ELSE {})
  \cup (IF HasView /\ pc \in {"control", "gap", "view"} THEN {"view_process"} ELSE {})

Life(n) ==
  IF \E p \in Alive : prog[p] = n THEN "up"
  ELSE IF (\E p \in Zombies : prog[p] = n) \/ (pc = "delay" /\ dead_info.name = n) THEN "down"
  ELSE IF n \in ToStart THEN "new"
  ELSE "gone"

\* The Manager is a Supervisor of its programs.
S == INSTANCE Supervisor WITH
  Program  <- Name,
  life     <- [n \in Name |-> Life(n)],
  asked    <- g_should_exit,
  stopping <- pc \in {"wait", "kill", "reap", "done"}

ImplementsSupervisor == S!Spec

=============================================================================
