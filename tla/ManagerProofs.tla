----------------------------- MODULE ManagerProofs ----------------------------
(* Proofs about Manager, for any pids, any times and any number of restarts:   *)
(* the vector of children matches the kernel's process table, no program runs  *)
(* twice, restarts are limited, a finished Manager leaves nothing running, and *)
(* the Manager is a Supervisor.                                                *)
EXTENDS Manager, TLAPS

-----------------------------------------------------------------------------
(* The inductive invariant.                                                    *)

\* No process of program n that waitpid has not returned.
Absent(n) == \A p \in Pid : proc[p] # "free" => prog[p] # n

\* Free pids run nothing, every other one a program.
Programs == \A p \in Pid : proc[p] = "free" <=> prog[p] = NoOne

\* While pc is in the startup sequence, what comes later has not been started.
Startup == /\ \A n \in ToStart : Absent(n)
           /\ pc = "view" => HasView
           /\ pc = "delay" => dead_info.name \in Name

\* The wait for the children ends because they are gone or out of time, and
\* after the SIGKILLs whatever is left has been killed.
Shutdown ==
  /\ pc = "kill" => timer = 0 \/ Unreaped = {}
  /\ pc \in {"reap", "done"} => \A p \in Pid : proc[p] \in {"free", "zombie", "killed"}

Inv == TypeOK /\ Programs /\ Tracked /\ OneInstance /\ Startup /\ Shutdown

-----------------------------------------------------------------------------
(* The operations on processes.                                                *)

\* Starting a program that has no process keeps the table and the vector in
\* step, and adds at most one process of it.
LEMMA StartKeeps ==
  ASSUME TypeOK, Programs, Tracked, OneInstance, pc \notin {"reap", "done"},
         NEW info \in Dead, info.name \in Name, Absent(info.name),
         start_process(info)
  PROVE  /\ children' \subseteq Info
         /\ proc' \in [Pid -> Status] /\ prog' \in [Pid -> Name \cup {NoOne}]
         /\ Programs'
         /\ {c.pid : c \in children'} = Unreaped'
         /\ \A c \in children' : prog'[c.pid] = c.name
         /\ \A c, d \in children' : c.pid = d.pid => c = d
         /\ \A p, q \in Unreaped' : prog'[p] = prog'[q] => p = q
         /\ \A n \in Name \ {info.name} : Absent(n) => Absent(n)'
<1>1. CASE UNCHANGED <<proc, prog, children>>
  BY <1>1 DEF TypeOK, Programs, Tracked, OneInstance, Absent, Unreaped
<1>2. ASSUME NEW p \in Pid \ Unreaped,
             proc' = [proc EXCEPT ![p] = "forked"],
             prog' = [prog EXCEPT ![p] = info.name],
             children' = children \cup
               {[pid |-> p, name |-> info.name, restart_count |-> info.restart_count,
                 last_restart_time |-> info.last_restart_time]}
      PROVE  /\ children' \subseteq Info
             /\ proc' \in [Pid -> Status] /\ prog' \in [Pid -> Name \cup {NoOne}]
             /\ Programs'
             /\ {c.pid : c \in children'} = Unreaped'
             /\ \A c \in children' : prog'[c.pid] = c.name
             /\ \A c, d \in children' : c.pid = d.pid => c = d
             /\ \A m, q \in Unreaped' : prog'[m] = prog'[q] => m = q
             /\ \A n \in Name \ {info.name} : Absent(n) => Absent(n)'
  <2>. DEFINE new == [pid |-> p, name |-> info.name, restart_count |-> info.restart_count,
                      last_restart_time |-> info.last_restart_time]
  <2>1. new \in Info /\ new.pid = p /\ new.name = info.name
    BY DEF Info, Dead
  <2>2. children' = children \cup {new} /\ children \subseteq Info
    BY <1>2 DEF TypeOK
  <2>. HIDE DEF new
  <2>3. proc' \in [Pid -> Status] /\ prog' \in [Pid -> Name \cup {NoOne}]
    BY <1>2 DEF TypeOK, Status
  <2>4. /\ \A q \in Pid : proc'[q] = IF q = p THEN "forked" ELSE proc[q]
        /\ \A q \in Pid : prog'[q] = IF q = p THEN info.name ELSE prog[q]
    BY <1>2 DEF TypeOK
  <2>5. Unreaped' = Unreaped \cup {p}
    BY <2>4 DEF Unreaped
  <2>6. info.name # NoOne
    BY DEF Name, NoOne
  <2>7. Programs'
    BY <2>4, <2>6 DEF Programs
  <2>8. {c.pid : c \in children} = Unreaped /\ \A c \in children : c.pid \in Unreaped
    BY DEF Tracked
  <2>9. {c.pid : c \in children'} = Unreaped'
    BY <2>1, <2>2, <2>5, <2>8
  <2>10. \A c \in children' : prog'[c.pid] = c.name
    BY <2>1, <2>2, <2>4, <2>8 DEF Tracked, Unreaped
  <2>11. \A c, d \in children' : c.pid = d.pid => c = d
    BY <2>1, <2>2, <2>8 DEF Tracked
  <2>12. \A m, q \in Unreaped' : prog'[m] = prog'[q] => m = q
    BY <2>4, <2>5 DEF OneInstance, Absent, Unreaped
  <2>13. \A n \in Name \ {info.name} : Absent(n) => Absent(n)'
    BY <2>4 DEF Absent
  <2>. QED
    BY <2>1, <2>2, <2>3, <2>7, <2>9, <2>10, <2>11, <2>12, <2>13
<1>. QED
  BY <1>1, <1>2 DEF start_process

\* Reaping a zombie that is in the vector keeps the two in step, and leaves no
\* process of its program.
LEMMA ReapKeeps ==
  ASSUME TypeOK, Programs, Tracked, OneInstance, pc \notin {"reap", "done"},
         NEW p \in Zombies, Reap(p)
  PROVE  /\ children' \subseteq Info
         /\ proc' \in [Pid -> Status] /\ prog' \in [Pid -> Name \cup {NoOne}]
         /\ Programs'
         /\ {c.pid : c \in children'} = Unreaped'
         /\ \A c \in children' : prog'[c.pid] = c.name
         /\ \A c, d \in children' : c.pid = d.pid => c = d
         /\ \A m, q \in Unreaped' : prog'[m] = prog'[q] => m = q
         /\ \A n \in Name : Absent(n) => Absent(n)'
         /\ \A c \in children : c.pid = p => Absent(c.name)'
<1>1. p \in Pid /\ p \in Unreaped
  BY DEF Zombies, Unreaped
<1>2. /\ \A q \in Pid : proc'[q] = IF q = p THEN "free" ELSE proc[q]
      /\ \A q \in Pid : prog'[q] = IF q = p THEN NoOne ELSE prog[q]
      /\ proc' \in [Pid -> Status] /\ prog' \in [Pid -> Name \cup {NoOne}]
  BY <1>1 DEF Reap, TypeOK, Status
<1>3. children' = {c \in children : c.pid # p}
  BY DEF Reap
<1>4. Unreaped' = Unreaped \ {p}
  BY <1>2 DEF Unreaped
<1>5. Programs'
  BY <1>2 DEF Programs
<1>6. {c.pid : c \in children} = Unreaped /\ \A c \in children : c.pid \in Unreaped
  BY DEF Tracked
<1>7. {c.pid : c \in children'} = Unreaped'
  BY <1>3, <1>4, <1>6
<1>8. \A c \in children' : prog'[c.pid] = c.name
  BY <1>2, <1>3, <1>6 DEF Tracked, Unreaped
<1>9. \A c, d \in children' : c.pid = d.pid => c = d
  BY <1>3 DEF Tracked
<1>10. \A m, q \in Unreaped' : prog'[m] = prog'[q] => m = q
  BY <1>2, <1>4 DEF OneInstance, Unreaped
<1>11. \A n \in Name : Absent(n) => Absent(n)'
  BY <1>2 DEF Absent
<1>12. \A c \in children : c.pid = p => Absent(c.name)'
  BY <1>1, <1>2 DEF Absent, OneInstance, Tracked, Unreaped
<1>. QED
  BY <1>2, <1>3, <1>5, <1>7, <1>8, <1>9, <1>10, <1>11, <1>12 DEF TypeOK

\* What becomes of a process otherwise changes neither vector nor programs.
LEMMA StatusKeeps ==
  ASSUME TypeOK, Programs, UNCHANGED <<children, prog, dead_info>>,
         proc' \in [Pid -> Status],
         \A p \in Pid : proc'[p] = "free" <=> proc[p] = "free"
  PROVE  /\ Programs' /\ Unreaped' = Unreaped
         /\ Tracked /\ pc \notin {"reap", "done"} => Tracked'
         /\ OneInstance /\ (pc' = "delay" => pc = "delay") => OneInstance'
         /\ \A n : Absent(n) => Absent(n)'
BY DEF TypeOK, Programs, Tracked, OneInstance, Absent, Unreaped

\* Signals leave free pids free, and give statuses.
LEMMA SignalStatus ==
  \A s \in Status : /\ OnTerm(s) \in Status /\ OnKill(s) \in Status
                    /\ OnTerm(s) = "free" <=> s = "free"
                    /\ OnKill(s) = "free" <=> s = "free"
                    /\ OnKill(s) \in {"free", "zombie", "killed"}
BY DEF OnTerm, OnKill, Status

\* The Manager begins with nothing started.
LEMMA InvInit == Init => Inv
<1>. SUFFICES ASSUME Init PROVE Inv
  OBVIOUS
<1>1. Unreaped = {}
  BY DEF Init, Unreaped
<1>0. NoInfo \in Dead
  BY ManagerAssumption DEF NoInfo, Dead, RestartCap
<1>2. TypeOK
  BY <1>0 DEF Init, TypeOK, Status
<1>3. Programs /\ Startup /\ Shutdown
  BY <1>1 DEF Init, Programs, Startup, Shutdown, Absent
<1>4. Tracked /\ OneInstance
  BY <1>1 DEF Init, Tracked, OneInstance
<1>. QED
  BY <1>2, <1>3, <1>4 DEF Inv

-----------------------------------------------------------------------------
(* The steps.                                                                  *)

\* Starting the first programs.
LEMMA StartupStep ==
  Inv /\ (StartControl \/ StartComm \/ StartView) => Inv'
<1>. SUFFICES ASSUME Inv, StartControl \/ StartComm \/ StartView PROVE Inv'
  OBVIOUS
<1>. USE DEF Inv
<1>f. \A n \in Name : Fresh(n) \in Dead /\ Fresh(n).name = n
  BY ManagerAssumption DEF Fresh, Dead, RestartCap
<1>a. ASSUME NEW n \in Name, n \in ToStart, start_process(Fresh(n)),
             pc \in {"control", "gap", "view"}, pc' \in {"gap", "view", "monitor"},
             ToStart' = ToStart \ {n}, ToStart \subseteq Name,
             pc' = "view" => HasView, timer' \in Nat,
             UNCHANGED <<dead_info, g_should_exit>>
      PROVE  Inv'
  <2>1. Absent(n) /\ Fresh(n) \in Dead /\ Fresh(n).name = n
    BY <1>a, <1>f DEF Startup
  <2>2. /\ children' \subseteq Info
        /\ proc' \in [Pid -> Status] /\ prog' \in [Pid -> Name \cup {NoOne}]
        /\ Programs'
        /\ {c.pid : c \in children'} = Unreaped'
        /\ \A c \in children' : prog'[c.pid] = c.name
        /\ \A c, d \in children' : c.pid = d.pid => c = d
        /\ \A p, q \in Unreaped' : prog'[p] = prog'[q] => p = q
        /\ \A m \in Name \ {n} : Absent(m) => Absent(m)'
    BY <1>a, <2>1, StartKeeps
  <2>3. TypeOK'
    BY <1>a, <2>2 DEF TypeOK
  <2>4. Tracked' /\ OneInstance'
    BY <1>a, <2>2 DEF Tracked, OneInstance
  <2>5. Startup' /\ Shutdown'
    BY <1>a, <2>2 DEF Startup, Shutdown
  <2>. QED
    BY <2>2, <2>3, <2>4, <2>5
<1>1. CASE StartControl
  <2>1. /\ pc = "control" /\ pc' = "gap" /\ timer' \in Nat
        /\ start_process(Fresh("control_process"))
        /\ UNCHANGED <<dead_info, g_should_exit>>
    BY <1>1, ManagerAssumption DEF StartControl, Sleep
  <2>2. /\ "control_process" \in ToStart /\ ToStart \subseteq Name
        /\ ToStart' = ToStart \ {"control_process"}
    BY <2>1 DEF ToStart, Name
  <2>. QED
    BY <1>a, <2>1, <2>2 DEF Name
<1>2. CASE StartComm
  <2>1. /\ pc = "gap" /\ pc' = (IF HasView THEN "view" ELSE "monitor")
        /\ start_process(Fresh("comm_process"))
        /\ UNCHANGED <<dead_info, g_should_exit, timer>>
    BY <1>2 DEF StartComm
  <2>2. /\ "comm_process" \in ToStart /\ ToStart \subseteq Name
        /\ ToStart' = ToStart \ {"comm_process"}
    BY <2>1 DEF ToStart, Name
  <2>. QED
    BY <1>a, <2>1, <2>2 DEF Name, TypeOK
<1>3. CASE StartView
  <2>1. /\ pc = "view" /\ pc' = "monitor" /\ HasView
        /\ start_process(Fresh("view_process"))
        /\ UNCHANGED <<dead_info, g_should_exit, timer>>
    BY <1>3 DEF StartView, Startup
  <2>2. /\ "view_process" \in ToStart /\ ToStart \subseteq Name
        /\ ToStart' = ToStart \ {"view_process"}
    BY <2>1 DEF ToStart, Name
  <2>. QED
    BY <1>a, <2>1, <2>2 DEF Name, TypeOK
<1>. QED
  BY <1>1, <1>2, <1>3

\* Reaping in the monitor loop and in the wait for the children.
LEMMA ReapStep ==
  ASSUME NEW p \in Pid
  PROVE  Inv /\ (GiveUp(p) \/ PrepareRestart(p) \/ WaitReaps(p)) => Inv'
<1>. SUFFICES ASSUME Inv, GiveUp(p) \/ PrepareRestart(p) \/ WaitReaps(p) PROVE Inv'
  OBVIOUS
<1>. USE DEF Inv
<1>1. /\ Reap(p) /\ p \in Zombies
      /\ pc \in {"monitor", "wait"} /\ pc' \in {"nap", "delay", "wait"}
      /\ timer' \in Nat /\ UNCHANGED g_should_exit
  BY ManagerAssumption DEF GiveUp, PrepareRestart, WaitReaps, Sleep, TypeOK
<1>2. /\ children' \subseteq Info
      /\ proc' \in [Pid -> Status] /\ prog' \in [Pid -> Name \cup {NoOne}]
      /\ Programs'
      /\ {c.pid : c \in children'} = Unreaped'
      /\ \A c \in children' : prog'[c.pid] = c.name
      /\ \A c, d \in children' : c.pid = d.pid => c = d
      /\ \A m, q \in Unreaped' : prog'[m] = prog'[q] => m = q
      /\ \A c \in children : c.pid = p => Absent(c.name)'
  BY <1>1, ReapKeeps
<1>3. dead_info' \in Dead
      /\ (pc' = "delay" => /\ dead_info'.name \in Name
                           /\ \A q \in Unreaped' : prog'[q] # dead_info'.name)
  <2>1. CASE PrepareRestart(p)
    <3>1. PICK c \in children :
            /\ c.pid = p
            /\ dead_info' = [name |-> c.name, last_restart_time |-> 0,
                 restart_count |-> IF c.restart_count = RestartCap THEN RestartCap
                                   ELSE c.restart_count + 1]
      BY <2>1 DEF PrepareRestart
    <3>2. c \in Info
      BY DEF TypeOK
    <3>3. (IF c.restart_count = RestartCap THEN RestartCap ELSE c.restart_count + 1)
            \in 0 .. RestartCap
          /\ 0 \in 0 .. Window /\ c.name \in Name
      BY <3>2, ManagerAssumption DEF Info, RestartCap
    <3>4. dead_info' \in Dead /\ dead_info'.name = c.name
      BY <3>1, <3>3 DEF Dead
    <3>5. Absent(c.name)'
      BY <3>1, <1>2
    <3>6. \A q \in Unreaped' : prog'[q] # dead_info'.name
      BY <3>4, <3>5 DEF Absent, Unreaped
    <3>. QED
      BY <3>3, <3>4, <3>5, <3>6
  <2>2. CASE GiveUp(p) \/ WaitReaps(p)
    BY <2>2, <1>1 DEF GiveUp, WaitReaps, Sleep, TypeOK
  <2>. QED
    BY <2>1, <2>2
<1>4. TypeOK'
  BY <1>1, <1>2, <1>3 DEF TypeOK
<1>5a. Tracked'
  BY <1>1, <1>2 DEF Tracked
<1>5b. pc' = "delay" => \A q \in Unreaped' : prog'[q] # dead_info'.name
  BY <1>3
<1>5. Tracked' /\ OneInstance'
  BY <1>2, <1>5a, <1>5b DEF OneInstance
<1>6. Startup' /\ Shutdown'
  BY <1>1, <1>3 DEF Startup, Shutdown, ToStart
<1>. QED
  BY <1>2, <1>4, <1>5, <1>6

\* The restart itself.
LEMMA RestartStep == Inv /\ Restart => Inv'
<1>. SUFFICES ASSUME Inv, Restart PROVE Inv'
  OBVIOUS
<1>. USE DEF Inv
<1>1. /\ pc = "delay" /\ pc' = "nap" /\ timer' \in Nat /\ UNCHANGED g_should_exit
      /\ start_process(dead_info) /\ dead_info' = NoInfo
  BY ManagerAssumption DEF Restart, Sleep
<1>2. dead_info \in Dead /\ dead_info.name \in Name /\ Absent(dead_info.name)
  BY <1>1 DEF TypeOK, Startup, OneInstance, Absent, Unreaped
<1>3. /\ children' \subseteq Info
      /\ proc' \in [Pid -> Status] /\ prog' \in [Pid -> Name \cup {NoOne}]
      /\ Programs'
      /\ {c.pid : c \in children'} = Unreaped'
      /\ \A c \in children' : prog'[c.pid] = c.name
      /\ \A c, d \in children' : c.pid = d.pid => c = d
      /\ \A p, q \in Unreaped' : prog'[p] = prog'[q] => p = q
  BY <1>1, <1>2, StartKeeps
<1>4. TypeOK'
  BY <1>1, <1>3, ManagerAssumption DEF TypeOK, NoInfo, Dead, RestartCap
<1>5. Tracked' /\ OneInstance' /\ Startup' /\ Shutdown'
  BY <1>1, <1>3 DEF Tracked, OneInstance, Startup, Shutdown, ToStart
<1>. QED
  BY <1>3, <1>4, <1>5

\* Steps of main that touch neither vector nor programs.
LEMMA MainStep ==
  Inv /\ (NothingDied \/ EndNap \/ SendTerm \/ WaitEnds \/ SendKill \/ Exit) => Inv'
<1>. SUFFICES ASSUME Inv, NothingDied \/ EndNap \/ SendTerm \/ WaitEnds \/ SendKill \/ Exit
              PROVE  Inv'
  OBVIOUS
<1>. USE DEF Inv
<1>a. ASSUME UNCHANGED <<children, prog, dead_info, g_should_exit>>,
             proc' \in [Pid -> Status],
             \A p \in Pid : proc'[p] = "free" <=> proc[p] = "free",
             timer' \in Nat,
             pc \in {"monitor", "nap", "wait", "kill", "reap"},
             pc' \in {"monitor", "nap", "wait", "kill", "reap", "done"},
             pc = "reap" => pc' = "done", Shutdown'
      PROVE  Inv'
  <2>1. /\ Programs' /\ Unreaped' = Unreaped
        /\ Tracked /\ pc \notin {"reap", "done"} => Tracked'
        /\ OneInstance'
    BY <1>a, StatusKeeps
  <2>2. TypeOK'
    BY <1>a DEF TypeOK
  <2>3. Tracked'
    BY <1>a, <2>1 DEF Tracked
  <2>4. Startup'
    BY <1>a DEF Startup, ToStart
  <2>. QED
    BY <1>a, <2>1, <2>2, <2>3, <2>4
<1>1. CASE NothingDied
  BY <1>1, <1>a, ManagerAssumption DEF NothingDied, Sleep, TypeOK, Shutdown
<1>2. CASE EndNap
  BY <1>2, <1>a DEF EndNap, TypeOK, Shutdown
<1>3. CASE SendTerm
  <2>1. /\ pc = "monitor" /\ pc' = "wait" /\ timer' \in Nat
        /\ UNCHANGED <<children, prog, dead_info, g_should_exit>>
        /\ proc' = [p \in Pid |-> IF TracksPid(p) THEN OnTerm(proc[p]) ELSE proc[p]]
    BY <1>3, ManagerAssumption DEF SendTerm
  <2>2. proc' \in [Pid -> Status]
        /\ \A p \in Pid : proc'[p] = "free" <=> proc[p] = "free"
    BY <2>1, SignalStatus DEF TypeOK
  <2>. QED
    BY <2>1, <2>2, <1>a DEF Shutdown
<1>4. CASE WaitEnds
  <2>1. /\ pc = "wait" /\ pc' = "kill" /\ WaitIsOver
        /\ UNCHANGED <<children, prog, proc, dead_info, g_should_exit, timer>>
    BY <1>4 DEF WaitEnds
  <2>2. children = {} => Unreaped = {}
    BY <2>1 DEF Tracked
  <2>3. Shutdown'
    BY <2>1, <2>2 DEF Shutdown, WaitIsOver, Unreaped
  <2>. QED
    BY <2>1, <2>3, <1>a DEF TypeOK
<1>5. CASE SendKill
  <2>1. /\ pc = "kill" /\ pc' = "reap"
        /\ UNCHANGED <<children, prog, dead_info, g_should_exit, timer>>
        /\ proc' = [p \in Pid |-> IF TracksPid(p) THEN OnKill(proc[p]) ELSE proc[p]]
    BY <1>5 DEF SendKill
  <2>2. proc' \in [Pid -> Status]
        /\ \A p \in Pid : proc'[p] = "free" <=> proc[p] = "free"
    BY <2>1, SignalStatus DEF TypeOK
  <2>3. \A p \in Pid : ~TracksPid(p) => proc[p] = "free"
    BY <2>1 DEF Tracked, Unreaped, TracksPid
  <2>4. Shutdown'
    BY <2>1, <2>3, SignalStatus DEF Shutdown, TypeOK
  <2>. QED
    BY <2>1, <2>2, <2>4, <1>a DEF TypeOK
<1>6. CASE Exit
  BY <1>6, <1>a DEF Exit, TypeOK, Shutdown
<1>. QED
  BY <1>1, <1>2, <1>3, <1>4, <1>5, <1>6

\* The last loop, after which the vector no longer matters.
LEMMA FinalReapStep == ASSUME NEW p \in Pid PROVE Inv /\ FinalReap(p) => Inv'
<1>. SUFFICES ASSUME Inv, FinalReap(p) PROVE Inv'
  OBVIOUS
<1>. USE DEF Inv
<1>1. /\ pc = "reap" /\ p \in Zombies
      /\ proc' = [proc EXCEPT ![p] = "free"] /\ prog' = [prog EXCEPT ![p] = NoOne]
      /\ UNCHANGED <<pc, children, dead_info, g_should_exit, timer>>
  BY DEF FinalReap
<1>2. /\ \A q \in Pid : proc'[q] = IF q = p THEN "free" ELSE proc[q]
      /\ \A q \in Pid : prog'[q] = IF q = p THEN NoOne ELSE prog[q]
      /\ proc' \in [Pid -> Status] /\ prog' \in [Pid -> Name \cup {NoOne}]
  BY <1>1 DEF TypeOK, Status
<1>3. TypeOK' /\ Programs'
  BY <1>1, <1>2 DEF TypeOK, Programs
<1>4. Tracked' /\ OneInstance'
  BY <1>1, <1>2 DEF Tracked, OneInstance, Unreaped
<1>5. Startup' /\ Shutdown'
  BY <1>1, <1>2 DEF Startup, Shutdown, ToStart
<1>. QED
  BY <1>3, <1>4, <1>5

\* Time only changes ages.
LEMMA TickStep == Inv /\ Tick => Inv'
<1>. SUFFICES ASSUME Inv, Tick PROVE Inv'
  OBVIOUS
<1>. USE DEF Inv
<1>. DEFINE older(c) == [c EXCEPT !.last_restart_time = Aged(@)]
<1>1. /\ timer' = (IF timer > 0 THEN timer - 1 ELSE 0)
      /\ children' = {older(c) : c \in children}
      /\ dead_info' = older(dead_info)
      /\ UNCHANGED <<pc, g_should_exit, proc, prog>>
  BY DEF Tick
<1>2. \A a \in 0 .. Window : Aged(a) \in 0 .. Window
  BY ManagerAssumption DEF Aged
<1>3. \A c \in children : older(c) \in Info /\ older(c).pid = c.pid /\ older(c).name = c.name
  BY <1>2 DEF TypeOK, Info
<1>4. dead_info' \in Dead /\ dead_info'.name = dead_info.name
  BY <1>1, <1>2 DEF TypeOK, Dead
<1>. HIDE DEF older
<1>5. timer' \in Nat /\ (timer = 0 => timer' = 0)
  BY <1>1 DEF TypeOK
<1>6. TypeOK' /\ Programs' /\ Unreaped' = Unreaped
  BY <1>1, <1>3, <1>4, <1>5 DEF TypeOK, Programs, Unreaped
<1>7. Tracked'
  <2>1. {c.pid : c \in children'} = {c.pid : c \in children}
    BY <1>1, <1>3
  <2>. QED
    BY <2>1, <1>1, <1>3, <1>6 DEF Tracked
<1>8. OneInstance' /\ Startup' /\ Shutdown'
  BY <1>1, <1>4, <1>5, <1>6 DEF OneInstance, Startup, Shutdown, ToStart, Absent
<1>. QED
  BY <1>6, <1>7, <1>8

\* Neither do signals to the Manager and the lives of the children disturb it.
LEMMA EnvironmentStep == Inv /\ (Signal \/ Children) => Inv'
<1>. SUFFICES ASSUME Inv, Signal \/ Children PROVE Inv'
  OBVIOUS
<1>. USE DEF Inv
<1>1. CASE Signal
  <2>1. timer' \in Nat /\ (timer = 0 => timer' = 0)
    BY <1>1 DEF Signal, TypeOK
  <2>2. UNCHANGED <<pc, children, dead_info, proc, prog>> /\ g_should_exit' = TRUE
    BY <1>1 DEF Signal
  <2>3. TypeOK' /\ Programs' /\ Tracked' /\ OneInstance'
    BY <2>1, <2>2 DEF TypeOK, Programs, Tracked, OneInstance, Unreaped
  <2>. QED
    BY <2>1, <2>2, <2>3 DEF Startup, Shutdown, ToStart, Absent, Unreaped
<1>2. CASE Children
  <2>1. PICK p \in Pid : Exec(p) \/ InstallsHandlers(p) \/ Dies(p)
    BY <1>2 DEF Children
  <2>2. PICK to \in Status :
          /\ proc[p] # "free" /\ to # "free"
          /\ proc[p] \in {"zombie", "killed"} => to = "zombie"
          /\ proc' = [proc EXCEPT ![p] = to]
          /\ UNCHANGED <<pc, children, dead_info, g_should_exit, timer, prog>>
    BY <2>1 DEF Exec, InstallsHandlers, Dies, Becomes, Status
  <2>3. /\ \A q \in Pid : proc'[q] = IF q = p THEN to ELSE proc[q]
        /\ proc' \in [Pid -> Status]
    BY <2>2 DEF TypeOK
  <2>4. \A q \in Pid : proc'[q] = "free" <=> proc[q] = "free"
    BY <2>2, <2>3
  <2>5. /\ Programs' /\ Unreaped' = Unreaped /\ OneInstance'
        /\ \A n : Absent(n) => Absent(n)'
    BY <2>2, <2>3, <2>4, StatusKeeps
  <2>6. TypeOK' /\ Tracked'
    BY <2>2, <2>3, <2>5 DEF TypeOK, Tracked
  <2>7. Startup'
    BY <2>2, <2>5 DEF Startup, ToStart
  <2>8. Shutdown'
    BY <2>2, <2>3, <2>5 DEF Shutdown
  <2>. QED
    BY <2>5, <2>6, <2>7, <2>8
<1>. QED
  BY <1>1, <1>2

\* Every step keeps the invariant.
LEMMA InvNext == Inv /\ [Next]_vars => Inv'
<1>. SUFFICES ASSUME Inv, [Next]_vars PROVE Inv'
  OBVIOUS
<1>1. CASE Main
  <2>1. CASE StartControl \/ StartComm \/ StartView
    BY <2>1, StartupStep
  <2>2. ASSUME NEW p \in Pid, GiveUp(p) \/ PrepareRestart(p) \/ WaitReaps(p) PROVE Inv'
    BY <2>2, ReapStep
  <2>3. CASE Restart
    BY <2>3, RestartStep
  <2>4. CASE NothingDied \/ EndNap \/ SendTerm \/ WaitEnds \/ SendKill \/ Exit
    BY <2>4, MainStep
  <2>5. ASSUME NEW p \in Pid, FinalReap(p) PROVE Inv'
    BY <2>5, FinalReapStep
  <2>. QED
    BY <1>1, <2>1, <2>2, <2>3, <2>4, <2>5 DEF Main
<1>2. CASE Tick
  BY <1>2, TickStep
<1>3. CASE Signal \/ Children
  BY <1>3, EnvironmentStep
<1>4. CASE UNCHANGED vars
  BY <1>4 DEF vars, Inv, TypeOK, Programs, Tracked, OneInstance, Startup, Shutdown, ToStart,
              Absent, Unreaped
<1>. QED
  BY <1>1, <1>2, <1>3, <1>4 DEF Next

-----------------------------------------------------------------------------
(* The theorems.                                                               *)

\* The invariant holds throughout.
LEMMA InvAlways == Spec => []Inv
BY InvInit, InvNext, PTL DEF Spec

\* Type correctness of Manager.
THEOREM TypeCorrect == Spec => []TypeOK
<1>1. Inv => TypeOK
  BY DEF Inv
<1>. QED
  BY <1>1, InvAlways, PTL

\* The vector children and the kernel's table of unreaped processes agree until
\* the last loop of main: no pid is signalled, or restarted, that is not ours.
THEOREM AlwaysTracked == Spec => []Tracked
<1>1. Inv => Tracked
  BY DEF Inv
<1>. QED
  BY <1>1, InvAlways, PTL

\* start_process never creates a second process of a program.
THEOREM NeverTwoInstances == Spec => []OneInstance
<1>1. Inv => OneInstance
  BY DEF Inv
<1>. QED
  BY <1>1, InvAlways, PTL

\* When main returns, every child is reaped, a zombie, or about to die of
\* SIGKILL.
THEOREM NothingSurvives == Spec => []ShutdownComplete
<1>1. Inv => ShutdownComplete
  BY DEF Inv, Shutdown, ShutdownComplete, Alive, Unreaped, Zombies
<1>. QED
  BY <1>1, InvAlways, PTL

\* The SIGKILLs follow the Grace seconds, or hit nobody.
THEOREM KillsOnlyAfterGrace == Spec => GraceHonoured
<1>1. Inv /\ [Next]_vars => [pc = "kill" /\ pc' = "reap" /\ proc' # proc => timer = 0]_vars
  <2>. SUFFICES ASSUME Inv, [Next]_vars, pc = "kill", pc' = "reap", proc' # proc, timer # 0
                PROVE  FALSE
    OBVIOUS
  <2>1. SendKill
    BY DEF Next, Main, Children, vars, StartControl, StartComm, StartView, GiveUp,
           PrepareRestart, Restart, NothingDied, EndNap, SendTerm, WaitReaps, WaitEnds,
           FinalReap, Exit, Signal, Tick, Exec, InstallsHandlers, Dies, Becomes
  <2>2. proc' = [p \in Pid |-> IF TracksPid(p) THEN OnKill(proc[p]) ELSE proc[p]]
    BY <2>1 DEF SendKill
  <2>3. Unreaped = {}
    BY DEF Inv, Shutdown
  <2>4. \A p \in Pid : ~TracksPid(p)
    BY <2>3 DEF Inv, Tracked, TracksPid
  <2>5. proc' = proc
    BY <2>2, <2>4 DEF Inv, TypeOK
  <2>. QED
    BY <2>5
<1>. QED
  BY <1>1, InvAlways, PTL DEF Spec, GraceHonoured

-----------------------------------------------------------------------------
(* How often the Manager restarts a program, for any window, any limit and a   *)
(* Manager of any speed.                                                       *)

Logs == [Name -> [1 .. RestartCap -> 0 .. Window]]

\* What a ProcessInfo knows is enough: its time is that of the latest restart, and its
\* count, which is never reset, is no lower than the number of restarts.
Knows(info) ==
  \A i \in 1 .. RestartCap :
    /\ info.last_restart_time <= log[info.name][i]
    /\ i > info.restart_count => log[info.name][i] = Window

NeverRestarted(n) == \A i \in 1 .. RestartCap : log[n][i] = Window

History ==
  /\ log \in Logs
  /\ \A c \in children : Knows(c)
  /\ pc = "delay" => Knows(dead_info)
  /\ \A n \in ToStart : NeverRestarted(n)

RateInv == Inv /\ History /\ RestartRate

LEMMA Numbers ==
  /\ RestartCap \in Nat /\ RestartCap >= 2 /\ RestartCap = MaxRestarts + 1
  /\ Window \in Nat /\ MaxRestarts \in Nat
BY ManagerAssumption DEF RestartCap

LEMMA ToStartNames == ToStart \subseteq Name
BY DEF ToStart, Name

LEMMA InitRate == Init => History /\ RestartRate
<1> SUFFICES ASSUME Init PROVE History /\ RestartRate
  OBVIOUS
<1>1. \A n \in Name : log[n] = [i \in 1 .. RestartCap |-> Window]
  BY DEF Init
<1>2. log \in Logs
  BY Numbers DEF Init, Logs
<1>3. RestartCap \in 1 .. RestartCap
  BY Numbers
<1> QED
  BY <1>1, <1>2, <1>3, ToStartNames DEF Init, History, RestartRate, NeverRestarted

\* A new child of a known program: what it knows is what its ProcessInfo knew.
LEMMA StartHistory ==
  ASSUME NEW info, start_process(info), Knows(info),
         \A c \in children : Knows(c), log' = log
  PROVE  \A c \in children' : Knows(c)'
BY DEF start_process, Knows

\* The first starts.
LEMMA FirstHistory ==
  ASSUME Inv, History, RestartRate, StartControl \/ StartComm \/ StartView
  PROVE  History' /\ RestartRate'
<1> USE DEF History
<1>1. PICK n \in ToStart : start_process(Fresh(n))
  <2>1. CASE StartControl
    BY <2>1 DEF StartControl, ToStart
  <2>2. CASE StartComm
    BY <2>2 DEF StartComm, ToStart
  <2>3. CASE StartView
    BY <2>3 DEF StartView, ToStart, Inv, Startup
  <2> QED
    BY <2>1, <2>2, <2>3
<1>2. log' = log /\ ToStart' \subseteq ToStart /\ pc' # "delay"
  BY DEF StartControl, StartComm, StartView, ToStart, Sleep
<1>3. Knows(Fresh(n))
  BY <1>1, Numbers DEF Knows, Fresh, NeverRestarted
<1>4. \A c \in children' : Knows(c)'
  BY <1>1, <1>2, <1>3, StartHistory
<1> QED
  BY <1>2, <1>4 DEF NeverRestarted, RestartRate

\* The restart: the dead child's ProcessInfo becomes the new child's.
LEMMA RestartHistory ==
  ASSUME History, RestartRate, Restart PROVE History' /\ RestartRate'
<1> USE DEF History
<1>1. log' = log /\ pc = "delay" /\ pc' = "nap" /\ start_process(dead_info)
  BY DEF Restart, Sleep
<1>2. \A c \in children' : Knows(c)'
  BY <1>1, StartHistory
<1> QED
  BY <1>1, <1>2 DEF NeverRestarted, RestartRate, ToStart

\* The decision.  A count below the limit leaves room for one more; another may only
\* follow when the latest restart has left the window, and with it all before it.
LEMMA PrepareHistory ==
  ASSUME Inv, History, RestartRate, NEW p \in Pid, PrepareRestart(p)
  PROVE  History' /\ RestartRate'
<1> USE DEF History
<1>1. PICK c \in children :
        /\ c.pid = p /\ ~Frequent(c)
        /\ dead_info' = [name |-> c.name, last_restart_time |-> 0,
             restart_count |-> IF c.restart_count = RestartCap THEN RestartCap
                               ELSE c.restart_count + 1]
        /\ log' = [log EXCEPT ![c.name] =
             [i \in 1 .. RestartCap |-> IF i = 1 THEN 0 ELSE log[c.name][i - 1]]]
  BY DEF PrepareRestart
<1>2. /\ c \in Info /\ c.name \in Name /\ c.restart_count \in Nat
      /\ c.restart_count <= RestartCap
      /\ c.last_restart_time \in Nat /\ c.last_restart_time <= Window
  BY Numbers DEF Inv, TypeOK, Info
<1>3. \A i \in 1 .. RestartCap : log[c.name][i] \in Nat /\ log[c.name][i] <= Window
  BY <1>2, Numbers DEF Logs
<1>4. /\ log'[c.name][1] = 0
      /\ \A i \in 2 .. RestartCap : log'[c.name][i] = log[c.name][i - 1]
      /\ \A n \in Name \ {c.name} : log'[n] = log[n]
  BY <1>1, <1>2, Numbers DEF Logs
<1>5. log' \in Logs
  <2> DEFINE shifted == [i \in 1 .. RestartCap |-> IF i = 1 THEN 0 ELSE log[c.name][i - 1]]
  <2>1. shifted \in [1 .. RestartCap -> 0 .. Window]
    BY <1>3, Numbers
  <2>2. log' = [log EXCEPT ![c.name] = shifted]
    BY <1>1
  <2> HIDE DEF shifted
  <2> QED
    BY <2>1, <2>2 DEF Logs
<1>6. Knows(c)
  OBVIOUS
<1>7. log[c.name][MaxRestarts] = Window
  <2>1. c.last_restart_time = Window \/ c.restart_count < MaxRestarts
    BY <1>1, <1>2, Numbers DEF Frequent
  <2>2. MaxRestarts \in 1 .. RestartCap
    BY Numbers, ManagerAssumption
  <2> QED
    BY <1>2, <1>3, <1>6, <2>1, <2>2, Numbers DEF Knows
<1>8. RestartRate'
  BY <1>2, <1>4, <1>7, Numbers DEF RestartRate
<1>9. Knows(dead_info)'
  <2>1. dead_info'.name = c.name /\ dead_info'.last_restart_time = 0
    BY <1>1
  <2>2. dead_info'.restart_count \in Nat
        /\ dead_info'.restart_count \in {RestartCap, c.restart_count + 1}
    BY <1>1, <1>2, Numbers
  <2>3. \A i \in 1 .. RestartCap : 0 <= log'[c.name][i]
    BY <1>2, <1>5, Numbers DEF Logs
  <2>4. ASSUME NEW i \in 1 .. RestartCap, i > dead_info'.restart_count
        PROVE  log'[c.name][i] = Window
    <3>1. i - 1 \in 1 .. RestartCap /\ i \in 2 .. RestartCap /\ i - 1 > c.restart_count
      BY <1>2, <2>2, <2>4, Numbers
    <3> QED
      BY <1>4, <1>6, <3>1 DEF Knows
  <2> QED
    BY <2>1, <2>3, <2>4 DEF Knows
<1>10. \A d \in children' : d \in children /\ d.name \in Name \ {c.name}
  <2>1. children' = {d \in children : d.pid # p}
    BY DEF PrepareRestart, Reap
  <2>2. ASSUME NEW d \in children, d.pid # p PROVE d.name # c.name
    <3>1. c.pid \in Unreaped /\ d.pid \in Unreaped
          /\ prog[c.pid] = c.name /\ prog[d.pid] = d.name
      BY DEF Inv, Tracked, PrepareRestart
    <3> QED
      BY <1>1, <2>2, <3>1 DEF Inv, OneInstance
  <2>3. \A d \in children : d.name \in Name
    BY DEF Inv, TypeOK, Info
  <2> QED
    BY <2>1, <2>2, <2>3
<1>11. \A d \in children' : Knows(d)'
  BY <1>4, <1>10 DEF Knows
<1>12. ToStart' = {}
  BY DEF PrepareRestart, Sleep, ToStart
<1> QED
  BY <1>5, <1>8, <1>9, <1>11, <1>12

\* Time makes the latest restart older no faster than those before it.
LEMMA TickHistory ==
  ASSUME Inv, History, RestartRate, Tick PROVE History' /\ RestartRate'
<1> USE DEF History
<1>1. /\ children' = {[c EXCEPT !.last_restart_time = Aged(@)] : c \in children}
      /\ dead_info' = [dead_info EXCEPT !.last_restart_time = Aged(@)]
      /\ log' = [n \in Name |-> [i \in 1 .. RestartCap |-> Aged(log[n][i])]]
      /\ pc' = pc
  BY DEF Tick
<1>2. \A n \in Name : \A i \in 1 .. RestartCap :
        log[n][i] \in 0 .. Window /\ log'[n][i] = Aged(log[n][i])
  BY <1>1 DEF Logs
<1>3. \A a \in 0 .. Window : Aged(a) \in 0 .. Window
      /\ \A b \in 0 .. Window : a <= b => Aged(a) <= Aged(b)
  BY Numbers DEF Aged
<1>4. Aged(Window) = Window
  BY Numbers DEF Aged
<1>5. log' \in Logs
  BY <1>1, <1>2, <1>3 DEF Logs
<1>6. RestartRate'
  <2>1. RestartCap \in 1 .. RestartCap
    BY Numbers
  <2> QED
    BY <1>2, <1>4, <2>1 DEF RestartRate
<1>7. ASSUME NEW info, NEW older, Knows(info), info.name \in Name,
             info.last_restart_time \in 0 .. Window,
             older.name = info.name, older.restart_count = info.restart_count,
             older.last_restart_time = Aged(info.last_restart_time)
      PROVE  \A i \in 1 .. RestartCap :
               /\ older.last_restart_time <= log'[older.name][i]
               /\ i > older.restart_count => log'[older.name][i] = Window
  BY <1>2, <1>3, <1>4, <1>7 DEF Knows
<1>8. \A c \in children' : Knows(c)'
  <2> SUFFICES ASSUME NEW older \in children' PROVE Knows(older)'
    OBVIOUS
  <2>1. PICK c \in children : older = [c EXCEPT !.last_restart_time = Aged(@)]
    BY <1>1
  <2>2. c \in Info
    BY DEF Inv, TypeOK
  <2>3. /\ c.name \in Name /\ c.last_restart_time \in 0 .. Window
        /\ older.name = c.name /\ older.restart_count = c.restart_count
        /\ older.last_restart_time = Aged(c.last_restart_time)
    BY <2>1, <2>2 DEF Info
  <2> QED
    BY <1>7, <2>3 DEF Knows
<1>9. pc' = "delay" => Knows(dead_info)'
  <2> SUFFICES ASSUME pc = "delay" PROVE Knows(dead_info)'
    BY <1>1
  <2>1. dead_info \in Dead /\ dead_info.name \in Name
    BY DEF Inv, TypeOK, Startup
  <2>2. /\ dead_info.last_restart_time \in 0 .. Window
        /\ dead_info'.name = dead_info.name
        /\ dead_info'.restart_count = dead_info.restart_count
        /\ dead_info'.last_restart_time = Aged(dead_info.last_restart_time)
    BY <1>1, <2>1 DEF Dead
  <2> QED
    BY <1>7, <2>1, <2>2 DEF Knows
<1>10. \A n \in ToStart' : NeverRestarted(n)'
  BY <1>1, <1>2, <1>4, ToStartNames DEF NeverRestarted, ToStart
<1> QED
  BY <1>5, <1>6, <1>8, <1>9, <1>10

\* Everything else only forgets children.
LEMMA OtherHistory ==
  ASSUME History, RestartRate, log' = log, children' \subseteq children,
         ToStart' \subseteq ToStart, pc' = "delay" => pc = "delay" /\ dead_info' = dead_info
  PROVE  History' /\ RestartRate'
BY DEF History, RestartRate, Knows, NeverRestarted

LEMMA RateStep == RateInv /\ [Next]_vars => RateInv'
<1> SUFFICES ASSUME RateInv, [Next]_vars PROVE History' /\ RestartRate'
  BY InvNext DEF RateInv
<1> USE DEF RateInv
<1>1. CASE StartControl \/ StartComm \/ StartView
  BY <1>1, FirstHistory
<1>2. CASE Restart
  BY <1>2, RestartHistory
<1>3. ASSUME NEW p \in Pid, PrepareRestart(p) PROVE History' /\ RestartRate'
  BY <1>3, PrepareHistory
<1>4. CASE Tick
  BY <1>4, TickHistory
<1>5. ASSUME NEW p \in Pid, GiveUp(p) \/ WaitReaps(p) \/ FinalReap(p)
      PROVE  History' /\ RestartRate'
  BY <1>5, OtherHistory DEF GiveUp, WaitReaps, FinalReap, Reap, Sleep, ToStart
<1>6. CASE NothingDied \/ EndNap \/ SendTerm \/ WaitEnds \/ SendKill \/ Exit
  BY <1>6, OtherHistory DEF NothingDied, EndNap, SendTerm, WaitEnds, SendKill, Exit, Sleep, ToStart
<1>7. CASE Signal \/ Children \/ UNCHANGED vars
  BY <1>7, OtherHistory
  DEF Signal, Children, Exec, InstallsHandlers, Dies, Becomes, vars, ToStart
<1> QED
  BY <1>1, <1>2, <1>3, <1>4, <1>5, <1>6, <1>7 DEF Next, Main

\* However crashes, naps and delays fall, of any MaxRestarts + 1 restarts of a program the
\* first and the last are Window seconds apart: last_restart_time and a count that is
\* never reset are enough (lines 121 and 122 of main).
THEOREM RestartsAreRare == Spec => []RestartRate
<1>1. Init => RateInv
  BY InvInit, InitRate DEF RateInv
<1>2. RateInv => RestartRate
  BY DEF RateInv
<1> QED
  BY <1>1, <1>2, RateStep, PTL DEF Spec

-----------------------------------------------------------------------------
(* The Manager is a Supervisor: each of its steps starts, loses or drops one   *)
(* program, notes the wish to stop or begins the stop, or changes nothing that *)
(* the Supervisor knows of.                                                    *)

\* The Supervisor's variables.
Lives == [n \in Name |-> Life(n)]
Stopping == pc \in {"wait", "kill", "reap", "done"}

Up(n) == \E p \in Alive : prog[p] = n
Left(n) == (\E p \in Zombies : prog[p] = n) \/ (pc = "delay" /\ dead_info.name = n)

LEMMA LifeIs ==
  ASSUME NEW n
  PROVE  /\ Up(n) => Life(n) = "up"
         /\ ~Up(n) /\ Left(n) => Life(n) = "down"
         /\ ~Up(n) /\ ~Left(n) /\ n \in ToStart => Life(n) = "new"
         /\ ~Up(n) /\ ~Left(n) /\ n \notin ToStart => Life(n) = "gone"
BY DEF Life, Up, Left

LEMMA LifeWillBe ==
  ASSUME NEW n
  PROVE  /\ Up(n)' => Life(n)' = "up"
         /\ ~Up(n)' /\ Left(n)' => Life(n)' = "down"
         /\ ~Up(n)' /\ ~Left(n)' /\ n \in ToStart' => Life(n)' = "new"
         /\ ~Up(n)' /\ ~Left(n)' /\ n \notin ToStart' => Life(n)' = "gone"
BY DEF Life, Up, Left

\* A program of which nothing changes lives on as before.
LEMMA SameLife ==
  ASSUME NEW n, Up(n)' <=> Up(n), Left(n)' <=> Left(n), n \in ToStart' <=> n \in ToStart
  PROVE  Life(n)' = Life(n)
BY LifeIs, LifeWillBe

\* One program at a time.
LEMMA OneMoves ==
  ASSUME NEW n \in Name, \A m \in Name \ {n} : Life(m)' = Life(m)
  PROVE  Lives' = [Lives EXCEPT ![n] = Life(n)'] /\ Lives[n] = Life(n)
BY DEF Lives

LEMMA NobodyMoves ==
  ASSUME \A n \in Name : Life(n)' = Life(n)
  PROVE  Lives' = Lives
BY DEF Lives

LEMMA InitSupervisor == Init => S!Init
<1> SUFFICES ASSUME Init PROVE S!Init
  OBVIOUS
<1>1. \A n : ~Up(n) /\ ~Left(n)
  BY DEF Init, Up, Left, Alive, Unreaped, Zombies
<1>2. \A n \in Name : Life(n) \in {"new", "gone"}
  BY <1>1, LifeIs
<1> QED
  BY <1>2 DEF S!Init, Init

-----------------------------------------------------------------------------

\* What start_process does: the program is up, or as if there had never been one.
LEMMA StartMoves ==
  ASSUME Inv, NEW info, info.name \in Name, Absent(info.name), start_process(info),
         pc' # "delay", pc = "delay" => dead_info.name = info.name,
         Left(info.name) \/ info.name \in ToStart,
         ToStart' = ToStart \ {info.name},
         UNCHANGED g_should_exit, ~Stopping, ~Stopping'
  PROVE  S!Next
<1> DEFINE n == info.name
<1>0. n \in Name /\ n # NoOne
  BY DEF Name, NoOne
<1>1. ~Up(n) /\ ~\E p \in Zombies : prog[p] = n
  BY DEF Absent, Up, Alive, Unreaped, Zombies
<1>2. Life(n) \in {"new", "down"}
  BY <1>1, LifeIs
<1>3. CASE UNCHANGED <<proc, prog>>
  <2>1. \A m : (Up(m)' <=> Up(m))
    BY <1>3 DEF Up, Alive, Unreaped, Zombies
  <2>2. \A m : (\E p \in Zombies' : prog'[p] = m) <=> \E p \in Zombies : prog[p] = m
    BY <1>3 DEF Zombies
  <2>3. \A m \in Name \ {n} : Life(m)' = Life(m)
    BY <2>1, <2>2, SameLife DEF Left
  <2>4. Life(n)' = "gone"
    BY <1>1, <2>1, <2>2, LifeWillBe DEF Left
  <2>5. Lives' = [Lives EXCEPT ![n] = "gone"] /\ Lives[n] \in {"new", "down"}
    BY <1>2, <2>3, <2>4, OneMoves
  <2>6. S!Drop(n)
    BY <2>5 DEF S!Drop, Lives, Stopping
  <2> QED
    BY <2>6 DEF S!Next
<1>4. ASSUME NEW p \in Pid \ Unreaped,
             proc' = [proc EXCEPT ![p] = "forked"], prog' = [prog EXCEPT ![p] = n]
      PROVE  S!Next
  <2>1. /\ \A q \in Pid : proc'[q] = IF q = p THEN "forked" ELSE proc[q]
        /\ \A q \in Pid : prog'[q] = IF q = p THEN n ELSE prog[q]
        /\ proc[p] = "free"
    BY <1>4 DEF Inv, TypeOK, Unreaped
  <2>2. \A m \in Name \ {n} : (Up(m)' <=> Up(m))
    BY <2>1 DEF Up, Alive, Unreaped, Zombies
  <2>3. \A m \in Name \ {n} :
          (\E q \in Zombies' : prog'[q] = m) <=> \E q \in Zombies : prog[q] = m
    BY <2>1 DEF Zombies
  <2>4. \A m \in Name \ {n} : Life(m)' = Life(m)
    BY <2>2, <2>3, SameLife DEF Left
  <2>5. Up(n)'
    BY <2>1 DEF Up, Alive, Unreaped, Zombies
  <2>6. Lives' = [Lives EXCEPT ![n] = "up"] /\ Lives[n] \in {"new", "down"}
    BY <1>2, <2>4, <2>5, LifeWillBe, OneMoves
  <2>7. S!Start(n)
    BY <2>6 DEF S!Start, Lives, Stopping
  <2> QED
    BY <2>7 DEF S!Next
<1> QED
  BY <1>3, <1>4 DEF start_process

\* The first starts and the restart.
LEMMA StartsMap ==
  ASSUME Inv, StartControl \/ StartComm \/ StartView \/ Restart PROVE S!Next
<1> USE DEF Inv
<1>1. CASE StartControl
  BY <1>1, StartMoves DEF StartControl, Sleep, ToStart, Startup, Stopping, Fresh, Name
<1>2. CASE StartComm
  BY <1>2, StartMoves DEF StartComm, ToStart, Startup, Stopping, Fresh, Name
<1>3. CASE StartView
  BY <1>3, StartMoves DEF StartView, ToStart, Startup, Stopping, Fresh, Name
<1>4. CASE Restart
  <2>1. /\ pc = "delay" /\ pc' = "nap" /\ UNCHANGED g_should_exit
        /\ start_process(dead_info) /\ dead_info.name \in Name
    BY <1>4 DEF Restart, Sleep, Startup
  <2>2. Absent(dead_info.name)
    BY <2>1 DEF OneInstance, Absent, Unreaped
  <2>3. Left(dead_info.name) /\ ToStart = {} /\ ToStart' = {}
    BY <2>1 DEF Left, ToStart
  <2> QED
    BY <2>1, <2>2, <2>3, StartMoves DEF Stopping
<1> QED
  BY <1>1, <1>2, <1>3, <1>4

\* The end of a zombie: its program is to be restarted, or gone.
LEMMA ReapMoves ==
  ASSUME Inv, NEW p \in Zombies,
         proc' = [proc EXCEPT ![p] = "free"], prog' = [prog EXCEPT ![p] = NoOne],
         pc # "delay", pc' = "delay" => dead_info'.name = prog[p],
         ToStart = {}, ToStart' = {}, UNCHANGED g_should_exit, Stopping' <=> Stopping
  PROVE  [S!Next]_(S!vars)
<1>0. PICK n \in Name : n = prog[p]
  BY DEF Inv, TypeOK, Programs, Zombies
<1>1. /\ n = prog[p] /\ n # NoOne /\ p \in Pid /\ proc[p] = "zombie"
      /\ \A q \in Pid : proc'[q] = IF q = p THEN "free" ELSE proc[q]
      /\ \A q \in Pid : prog'[q] = IF q = p THEN NoOne ELSE prog[q]
  BY <1>0 DEF Inv, TypeOK, Programs, Zombies
<1>2. \A q \in Pid \ {p} : proc[q] # "free" => prog[q] # n
  BY <1>1 DEF Inv, OneInstance, Unreaped
<1>3. ~Up(n) /\ Left(n) /\ ~Up(n)' /\ ~\E q \in Zombies' : prog'[q] = n
  BY <1>1, <1>2 DEF Up, Left, Alive, Unreaped, Zombies
<1>4. \A m \in Name \ {n} :
        /\ Up(m)' <=> Up(m)
        /\ (\E q \in Zombies' : prog'[q] = m) <=> \E q \in Zombies : prog[q] = m
  <2>1. NoOne \notin Name
    BY DEF NoOne, Name
  <2> QED
    BY <1>1, <2>1 DEF Up, Alive, Unreaped, Zombies
<1>5. \A m \in Name \ {n} : Life(m)' = Life(m)
  BY <1>4, SameLife DEF Left
<1>6. Life(n) = "down" /\ Life(n)' \in {"down", "gone"}
  BY <1>3, LifeIs, LifeWillBe
<1>7. CASE Life(n)' = "down"
  BY <1>1, <1>5, <1>6, <1>7, NobodyMoves DEF S!vars, Lives, Stopping
<1>8. CASE Life(n)' = "gone"
  <2>1. Lives' = [Lives EXCEPT ![n] = "gone"] /\ Lives[n] = "down"
    BY <1>1, <1>5, <1>6, <1>8, OneMoves
  <2>2. S!Drop(n)
    BY <2>1 DEF S!Drop, Lives, Stopping
  <2> QED
    BY <1>1, <2>2 DEF S!Next
<1> QED
  BY <1>6, <1>7, <1>8

LEMMA ReapsMap ==
  ASSUME Inv, NEW p \in Pid,
         GiveUp(p) \/ PrepareRestart(p) \/ WaitReaps(p) \/ FinalReap(p)
  PROVE  [S!Next]_(S!vars)
<1>1. CASE GiveUp(p)
  BY <1>1, ReapMoves DEF GiveUp, Reap, Sleep, ToStart, Stopping
<1>2. CASE PrepareRestart(p)
  <2>1. /\ p \in Zombies /\ pc = "monitor" /\ pc' = "delay" /\ UNCHANGED g_should_exit
        /\ proc' = [proc EXCEPT ![p] = "free"] /\ prog' = [prog EXCEPT ![p] = NoOne]
    BY <1>2 DEF PrepareRestart, Reap, Sleep
  <2>2. dead_info'.name = prog[p]
    BY <1>2, <2>1 DEF PrepareRestart, Inv, Tracked
  <2> QED
    BY <2>1, <2>2, ReapMoves DEF ToStart, Stopping
<1>3. CASE WaitReaps(p)
  BY <1>3, ReapMoves DEF WaitReaps, Reap, ToStart, Stopping
<1>4. CASE FinalReap(p)
  BY <1>4, ReapMoves DEF FinalReap, ToStart, Stopping
<1> QED
  BY <1>1, <1>2, <1>3, <1>4

\* Signals and the lives of the children, as far as a process stays what it was to the
\* Supervisor: free, executing or a zombie.
LEMMA StatusMoves ==
  ASSUME Inv, prog' = prog,
         \A q \in Pid : /\ proc'[q] = "free" <=> proc[q] = "free"
                        /\ proc'[q] = "zombie" <=> proc[q] = "zombie",
         pc' = "delay" <=> pc = "delay", dead_info'.name = dead_info.name, ToStart' = ToStart
  PROVE  Lives' = Lives
<1>1. \A n : /\ Up(n)' <=> Up(n)
             /\ (\E q \in Zombies' : prog'[q] = n) <=> \E q \in Zombies : prog[q] = n
  BY DEF Up, Alive, Unreaped, Zombies
<1>2. \A n \in Name : Life(n)' = Life(n)
  BY <1>1, SameLife DEF Left
<1> QED
  BY <1>2, NobodyMoves

LEMMA SignalsMap ==
  ASSUME Inv, NothingDied \/ EndNap \/ SendTerm \/ WaitEnds \/ SendKill \/ Exit \/ Signal \/ Tick
  PROVE  [S!Next]_(S!vars)
<1>1. CASE NothingDied \/ EndNap \/ WaitEnds \/ Exit
  <2>1. Lives' = Lives
    BY <1>1, StatusMoves DEF NothingDied, EndNap, WaitEnds, Exit, Sleep, ToStart
  <2> QED
    BY <1>1, <2>1 DEF NothingDied, EndNap, WaitEnds, Exit, Sleep, S!vars, Lives
<1>2. CASE SendTerm
  <2>1. \A q \in Pid : /\ proc'[q] = "free" <=> proc[q] = "free"
                       /\ proc'[q] = "zombie" <=> proc[q] = "zombie"
    BY <1>2 DEF SendTerm, OnTerm
  <2>2. Lives' = Lives
    BY <1>2, <2>1, StatusMoves DEF SendTerm, ToStart
  <2>3. S!Stop
    BY <1>2, <2>2 DEF SendTerm, S!Stop, Lives
  <2> QED
    BY <2>3 DEF S!Next
<1>3. CASE SendKill
  <2>1. \A q \in Pid : /\ proc'[q] = "free" <=> proc[q] = "free"
                       /\ proc'[q] = "zombie" <=> proc[q] = "zombie"
    BY <1>3 DEF SendKill, OnKill
  <2>2. Lives' = Lives
    BY <1>3, <2>1, StatusMoves DEF SendKill, ToStart
  <2> QED
    BY <1>3, <2>2 DEF SendKill, S!vars, Lives
<1>4. CASE Signal
  <2>1. Lives' = Lives
    BY <1>4, StatusMoves DEF Signal, ToStart
  <2>2. S!Ask
    BY <1>4, <2>1 DEF Signal, S!Ask, Lives
  <2> QED
    BY <2>2 DEF S!Next
<1>5. CASE Tick
  <2>1. dead_info'.name = dead_info.name
    BY <1>5 DEF Tick, Inv, TypeOK, Dead
  <2>2. Lives' = Lives
    BY <1>5, <2>1, StatusMoves DEF Tick, ToStart
  <2> QED
    BY <1>5, <2>2 DEF Tick, S!vars, Lives
<1> QED
  BY <1>1, <1>2, <1>3, <1>4, <1>5

LEMMA ChildrenMap == ASSUME Inv, Children PROVE [S!Next]_(S!vars)
<1>1. PICK p \in Pid : Exec(p) \/ InstallsHandlers(p) \/ Dies(p)
  BY DEF Children
<1>2. UNCHANGED <<pc, dead_info, g_should_exit, prog>> /\ ToStart' = ToStart
  BY <1>1 DEF Exec, InstallsHandlers, Dies, Becomes, ToStart
<1>3. CASE Exec(p) \/ InstallsHandlers(p)
  <2>1. \A q \in Pid : /\ proc'[q] = "free" <=> proc[q] = "free"
                       /\ proc'[q] = "zombie" <=> proc[q] = "zombie"
    BY <1>3 DEF Exec, InstallsHandlers, Becomes, Inv, TypeOK
  <2>2. Lives' = Lives
    BY <1>2, <2>1, StatusMoves
  <2> QED
    BY <1>2, <2>2 DEF S!vars, Lives
<1>4. CASE Dies(p)
  <2>0. PICK n \in Name : n = prog[p]
    BY <1>4 DEF Dies, Becomes, Inv, TypeOK, Programs
  <2>1. /\ proc[p] \notin {"free", "zombie"} /\ n = prog[p]
        /\ \A q \in Pid : proc'[q] = IF q = p THEN "zombie" ELSE proc[q]
    BY <1>4, <2>0 DEF Dies, Becomes, Inv, TypeOK, Programs
  <2>2. \A q \in Pid \ {p} : proc[q] # "free" => prog[q] # n
    BY <2>1 DEF Inv, OneInstance, Unreaped
  <2>3. Up(n) /\ ~Up(n)' /\ Left(n)'
    BY <1>2, <2>1, <2>2 DEF Up, Left, Alive, Unreaped, Zombies
  <2>4. \A m \in Name \ {n} :
          /\ Up(m)' <=> Up(m)
          /\ (\E q \in Zombies' : prog'[q] = m) <=> \E q \in Zombies : prog[q] = m
    BY <1>2, <2>1 DEF Up, Alive, Unreaped, Zombies
  <2>5. \A m \in Name \ {n} : Life(m)' = Life(m)
    BY <1>2, <2>4, SameLife DEF Left
  <2>6. Lives' = [Lives EXCEPT ![n] = "down"] /\ Lives[n] = "up"
    BY <2>1, <2>3, <2>5, LifeIs, LifeWillBe, OneMoves
  <2>7. S!Die(n)
    BY <1>2, <2>6 DEF S!Die, Lives
  <2> QED
    BY <2>1, <2>7 DEF S!Next
<1> QED
  BY <1>1, <1>3, <1>4

\* Every step of the Manager is a step of the Supervisor, or none.
LEMMA StepMaps == Inv /\ [Next]_vars => [S!Next]_(S!vars)
<1> SUFFICES ASSUME Inv, [Next]_vars PROVE [S!Next]_(S!vars)
  OBVIOUS
<1>1. CASE Main
  BY <1>1, StartsMap, ReapsMap, SignalsMap DEF Main
<1>2. CASE Signal \/ Tick
  BY <1>2, SignalsMap
<1>3. CASE Children
  BY <1>3, ChildrenMap
<1>4. CASE UNCHANGED vars
  <2>1. Lives' = Lives
    BY <1>4, StatusMoves DEF vars, ToStart
  <2> QED
    BY <1>4, <2>1 DEF vars, S!vars, Lives
<1> QED
  BY <1>1, <1>2, <1>3, <1>4 DEF Next

\* main implements the Supervisor: a program is started once at a time, again only after
\* it has died and never after it was dropped, and not after the stop has begun.
THEOREM IsASupervisor == Spec => ImplementsSupervisor
<1>1. S!Init /\ [][S!Next]_(S!vars) => ImplementsSupervisor
  BY DEF ImplementsSupervisor, S!Spec
<1> QED
  BY <1>1, InitSupervisor, StepMaps, InvAlways, PTL DEF Spec

=============================================================================
