---------------------------- MODULE WireDelivery ----------------------------
(***************************************************************************)
(* What one direction of the RD wire promises, seen from its two ends:     *)
(* SocketWire::send at one, MessageBroker::dispatch at the other, and the  *)
(* sender's right to forget a message in between.  Messages are numbered   *)
(* by their order.                                                         *)
(***************************************************************************)
EXTENDS Naturals

VARIABLES
    accepted,   \* messages given to the wire
    last,       \* the message dispatched last, 0 before the first
    top,        \* the greatest message dispatched
    turn,       \* flips with every dispatch, so that none is a stutter
    forgotten,  \* messages the sender will never send again
    garbled     \* the receiver no longer finds the message boundaries

vars == <<accepted, last, top, turn, forgotten, garbled>>

Init == /\ accepted = 0 /\ last = 0 /\ top = 0 /\ forgotten = 0
        /\ turn = FALSE /\ garbled = FALSE

Accept ==
    /\ accepted' = accepted + 1
    /\ UNCHANGED <<last, top, turn, forgotten, garbled>>

\* The next message, in order and without a gap.
Deliver ==
    /\ ~garbled /\ last < accepted
    /\ last' = last + 1
    /\ top' = IF last + 1 > top THEN last + 1 ELSE top
    /\ turn' = ~turn
    /\ UNCHANGED <<accepted, forgotten, garbled>>

\* Number 1 is taken for a new sender's first message and never suppressed:
\* all that was dispatched can be dispatched again, in order.
StartOver ==
    /\ ~garbled /\ last > 0
    /\ last' = 1 /\ turn' = ~turn
    /\ UNCHANGED <<accepted, top, forgotten, garbled>>

\* Only what has been dispatched is forgotten.
Forget ==
    /\ forgotten' \in forgotten + 1 .. accepted
    /\ forgotten' <= top \/ garbled
    /\ UNCHANGED <<accepted, last, top, turn, garbled>>

\* A repeated message other than the first breaks the receiver.
Garble ==
    /\ top > 1
    /\ garbled' = TRUE
    /\ UNCHANGED <<accepted, last, top, turn, forgotten>>

Next == Accept \/ Deliver \/ StartOver \/ Forget \/ Garble

Spec == Init /\ [][Next]_vars
=============================================================================
