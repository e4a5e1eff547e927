------------------------------ MODULE Supervisor ------------------------------
(***************************************************************************)
(* What the Manager promises of the programs it supervises.  A program is  *)
(* started at most once at a time, again only after it has died, and never *)
(* again once it has been dropped; nothing is started any more once the    *)
(* stop has begun, and the stop begins only when it was asked for.         *)
(***************************************************************************)
CONSTANT Program

VARIABLES life,      \* of each program: new, up, down or gone
          asked,     \* an exit was asked for
          stopping   \* the stop has begun

vars == <<life, asked, stopping>>

Init == /\ life \in [Program -> {"new", "gone"}]
        /\ asked = FALSE /\ stopping = FALSE

Start(n) == /\ ~stopping
            /\ life[n] \in {"new", "down"}
            /\ life' = [life EXCEPT ![n] = "up"]
            /\ UNCHANGED <<asked, stopping>>

Die(n) == /\ life[n] = "up"
          /\ life' = [life EXCEPT ![n] = "down"]
          /\ UNCHANGED <<asked, stopping>>

Drop(n) == /\ life[n] \in {"new", "down"}
           /\ life' = [life EXCEPT ![n] = "gone"]
           /\ UNCHANGED <<asked, stopping>>

Ask == asked' = TRUE /\ UNCHANGED <<life, stopping>>

Stop == asked /\ stopping' = TRUE /\ UNCHANGED <<life, asked>>

Next == (\E n \in Program : Start(n) \/ Die(n) \/ Drop(n)) \/ Ask \/ Stop

Spec == Init /\ [][Next]_vars

=============================================================================
