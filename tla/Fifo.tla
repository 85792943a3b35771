-------------------------------- MODULE Fifo --------------------------------
(***************************************************************************)
(* What the users of a message queue (gps/utils/msg_q.h) rely on: messages *)
(* are received once each, in the order in which they were sent, until the *)
(* queue is closed; after that nothing is taken in, and what is left is    *)
(* thrown away at once, if at all.                                         *)
(***************************************************************************)
EXTENDS Sequences

CONSTANT Message

VARIABLES contents, closed

Init == contents = <<>> /\ closed = FALSE

Send(m) ==
    /\ ~closed
    /\ contents' = Append(contents, m)
    /\ UNCHANGED closed

Receive ==
    /\ contents # <<>>
    /\ contents' = Tail(contents)
    /\ UNCHANGED closed

Close == ~closed /\ closed' = TRUE /\ UNCHANGED contents

Discard == closed /\ contents' = <<>> /\ UNCHANGED closed

Next == (\E m \in Message : Send(m)) \/ Receive \/ Close \/ Discard

Spec == Init /\ [][Next]_<<contents, closed>>
=============================================================================
