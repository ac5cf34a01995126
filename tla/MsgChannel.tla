----------------------------- MODULE MsgChannel -----------------------------
(***************************************************************************)
(* What a message queue promises its users: messages come out in the order *)
(* they went in, each one once and to one receiver, until the queue is     *)
(* closed; then no message is accepted and no receiver is kept waiting.    *)
(***************************************************************************)
EXTENDS Sequences

CONSTANTS Messages, Receivers, Nothing

VARIABLES chan,     \* accepted and not yet delivered, oldest first
          closed,
          got       \* what each receiver got last

vars == <<chan, closed, got>>

Init == /\ chan = <<>>
        /\ closed = FALSE
        /\ got = [r \in Receivers |-> Nothing]

Send(msg) == /\ ~closed
             /\ chan' = Append(chan, msg)
             /\ UNCHANGED <<closed, got>>

Deliver(r) == /\ chan # <<>>
              /\ got' = [got EXCEPT ![r] = Head(chan)]
              /\ chan' = Tail(chan)
              /\ UNCHANGED closed

TurnAway(r) == /\ closed
               /\ got' = [got EXCEPT ![r] = Nothing]
               /\ UNCHANGED <<chan, closed>>

Close == closed' = TRUE /\ UNCHANGED <<chan, got>>

Discard == chan' = <<>> /\ UNCHANGED <<closed, got>>

Next == \/ \E msg \in Messages : Send(msg)
        \/ \E r \in Receivers : Deliver(r) \/ TurnAway(r)
        \/ Close \/ Discard

Spec == Init /\ [][Next]_vars
=============================================================================
