----------------------------- MODULE FrameChannel -----------------------------
(***************************************************************************)
(* What a framed byte stream promises its user on one connection: the      *)
(* messages the sender put in come out once each and in order; those not   *)
(* yet delivered are lost, all together, when the connection goes down.    *)
(***************************************************************************)
EXTENDS Naturals, Sequences

CONSTANT Message

VARIABLES open,      \* the connection is up
          queue,     \* accepted and not yet delivered
          delivered  \* what the receiver got on this connection, while it is open

vars == <<open, queue, delivered>>

Init == open = FALSE /\ queue = <<>> /\ delivered = <<>>

Open == /\ ~open
        /\ open' = TRUE
        /\ UNCHANGED <<queue, delivered>>

Put(m) == /\ open
          /\ queue' = Append(queue, m)
          /\ UNCHANGED <<open, delivered>>

Deliver == /\ open
           /\ queue # <<>>
           /\ delivered' = Append(delivered, Head(queue))
           /\ queue' = Tail(queue)
           /\ UNCHANGED open

Close == open /\ open' = FALSE /\ queue' = <<>> /\ delivered' = <<>>

Next == Open \/ (\E m \in Message : Put(m)) \/ Deliver \/ Close

Spec == Init /\ [][Next]_vars

=============================================================================
