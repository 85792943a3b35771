------------------------------- MODULE LocIpc -------------------------------
(***************************************************************************)
(* Messages between processes over a local datagram socket                 *)
(* (gps/utils/LocIpc.cpp): a short message is one datagram, a long one a   *)
(* head with its length and then parts of at most mMaxTxSize.  A thread    *)
(* listens; its owner ends it with a datagram of its own, the abort, and   *)
(* joins it when the LocThread is destroyed.  The receiver goes away with  *)
(* the thread's runnable, which the thread deletes on its way out.         *)
(*                                                                         *)
(* The kernel's socket keeps datagrams whole and in order, and a sender    *)
(* waits while it is full.  A datagram carries bytes from .. from + size   *)
(* - 1 of the message "of".                                                *)
(***************************************************************************)
EXTENDS Naturals, Sequences, FiniteSetsExt, SequencesExt

CONSTANTS
  Sender,
  Length,        \* of messages, in bytes; some above mMaxTxSize
  mMaxTxSize, HeadSize, AbortSize,
  Room,          \* datagrams that the socket holds
  Alone,         \* while a long message is sent, nobody else sends
  Begun,         \* the thread has begun to listen before it is stopped
  RecvFails,     \* a call of recvfrom may fail
  MaxSent        \* bound: messages of a sender

VARIABLES
  socket,    \* the datagrams in it
  bound,     \* the receiver has it
  sending,   \* for each sender the parts of a long message that are left
  worker,    \* where the thread is
  mRunnable, \* LocThreadDelegate's: LocThread has not been stopped
  msg,       \* the long message being received: [len, pieces]
  owner,     \* where the owner is
  sent, received, stray
     \* ghosts: messages sent and handed on (as pieces); a runnable used when deleted

vars == <<socket, bound, sending, worker, mRunnable, msg, owner, sent, received, stray>>

Abort == [by |-> "owner", n |-> 1, len |-> AbortSize]
NoMessage == [len |-> 0, pieces |-> <<>>]

Init ==
  /\ socket = <<>> /\ bound = TRUE
  /\ sending = [s \in Sender |-> <<>>]
  /\ worker = "new" /\ mRunnable = TRUE /\ msg = NoMessage /\ owner = "idle"
  /\ sent = [s \in Sender |-> <<>>] /\ received = <<>> /\ stray = FALSE

-----------------------------------------------------------------------------
(***************************************************************************)
(* Sock::sendto.                                                           *)
(***************************************************************************)
Datagram(kind, m, from, size) == [kind |-> kind, of |-> m, from |-> from, size |-> size]
Announced(m) == Datagram("head", m, 0, HeadSize)
PartAt(m, from) == Datagram("part", m, from, Min({mMaxTxSize, m.len - from}))

\* Mutant: a last part that is not full is not sent.
FullParts(m) == [i \in 1 .. (m.len \div mMaxTxSize) |-> PartAt(m, (i - 1) * mMaxTxSize)]
parts(m) ==
  [i \in 1 .. ((m.len + mMaxTxSize - 1) \div mMaxTxSize) |-> PartAt(m, (i - 1) * mMaxTxSize)]

datagrams(m) ==
  IF m.len <= mMaxTxSize THEN <<Datagram("whole", m, 0, m.len)>> ELSE <<Announced(m)>> \o parts(m)

LongIsSent == \E s \in Sender : sending[s] # <<>> /\ Last(sending[s]).kind = "part"
NobodySends == \A s \in Sender : sending[s] = <<>>

\* ::sendto: to a socket nobody has bound it fails, and what is left is not sent.
send(s, len) ==
  /\ sending[s] = <<>> /\ Len(sent[s]) < MaxSent
  /\ Alone => IF len > mMaxTxSize THEN NobodySends /\ owner = "idle" ELSE ~LongIsSent
  /\ LET m == [by |-> s, n |-> Len(sent[s]) + 1, len |-> len]
     IN /\ sent' = [sent EXCEPT ![s] = Append(@, m)]
        /\ sending' = [sending EXCEPT ![s] = datagrams(m)]
  /\ UNCHANGED <<socket, bound, worker, mRunnable, msg, owner, received, stray>>

sendto(s) ==
  /\ sending[s] # <<>> /\ Len(socket) < Room
  /\ socket' = IF bound THEN Append(socket, Head(sending[s])) ELSE socket
  /\ sending' = [sending EXCEPT ![s] = IF bound THEN Tail(@) ELSE <<>>]
  /\ UNCHANGED <<bound, worker, mRunnable, msg, owner, sent, received, stray>>

-----------------------------------------------------------------------------
(***************************************************************************)
(* The thread: threadMain, LocIpcRunnable::run, startBlockingListening.    *)
(***************************************************************************)
Same == UNCHANGED <<sending, owner, sent, stray>>

\* A thread that is stopped before it looks at its runnable leaves it there.
threadMain ==
  /\ worker = "new"
  /\ worker' = IF mRunnable THEN "recv" ELSE "ended"
  /\ UNCHANGED <<socket, bound, mRunnable, msg, received>> /\ Same

Take == socket # <<>> /\ socket' = Tail(socket)

\* Sock::recvfrom, by what comes first.
recvAbort ==
  /\ worker = "recv" /\ Take /\ Head(socket).kind = "abort"
  /\ worker' = "leaving"
  /\ UNCHANGED <<bound, mRunnable, msg, received>> /\ Same

\* A part that has lost its head is taken for a short message.
recvShort ==
  /\ worker = "recv" /\ Take /\ Head(socket).kind \in {"whole", "part"}
  /\ received' = Append(received, [len |-> Head(socket).size, pieces |-> <<Head(socket)>>])
  /\ UNCHANGED <<bound, worker, mRunnable, msg>> /\ Same

recvHead ==
  /\ worker = "recv" /\ Take /\ Head(socket).kind = "head"
  /\ msg' = [len |-> Head(socket).of.len, pieces |-> <<>>]
  /\ worker' = "recv parts"
  /\ UNCHANGED <<bound, mRunnable, received>> /\ Same

bytes(pieces) == FoldSeq(LAMBDA p, n : n + p.size, 0, pieces)

\* Whatever comes is a part, as far as the message has room for it.
recvPart ==
  /\ worker = "recv parts" /\ Take
  /\ LET d == Head(socket)
         more == [msg EXCEPT !.pieces = Append(@, [d EXCEPT !.size = Min({@, msg.len - bytes(msg.pieces)})])]
     IN IF bytes(more.pieces) < msg.len THEN msg' = more /\ UNCHANGED <<worker, received>>
        ELSE msg' = NoMessage /\ worker' = "recv" /\ received' = Append(received, more)
  /\ UNCHANGED <<bound, mRunnable>> /\ Same

\* Any failure ends the listening.
recvFails ==
  /\ RecvFails /\ worker \in {"recv", "recv parts"}
  /\ worker' = "leaving"
  /\ UNCHANGED <<socket, bound, mRunnable, msg, received>> /\ Same

\* The runnable is deleted, with its receiver and its socket.
deleteRunnable ==
  /\ worker = "leaving" /\ worker' = "ended"
  /\ mRunnable' = FALSE /\ bound' = FALSE /\ socket' = <<>>
  /\ UNCHANGED <<msg, received>> /\ Same

Worker ==
  \/ threadMain \/ recvAbort \/ recvShort \/ recvHead \/ recvPart \/ deleteRunnable

-----------------------------------------------------------------------------
(***************************************************************************)
(* The owner: stopNonBlockingListening, then the destruction of mThread.   *)
(***************************************************************************)
\* Mutant: the thread is not woken.
NoAbort == socket
abort == IF bound THEN Append(socket, Datagram("abort", Abort, 0, AbortSize)) ELSE socket

stopNonBlockingListening ==
  /\ owner = "idle" /\ Len(socket) < Room
  /\ Begun => worker # "new"
  /\ Alone => ~LongIsSent
  /\ stray' = (stray \/ (worker = "ended"))
  /\ socket' = abort
  /\ owner' = "stop"
  /\ UNCHANGED <<bound, sending, worker, mRunnable, msg, sent, received>>

stop ==
  /\ owner = "stop" /\ mRunnable' = FALSE /\ owner' = "join"
  /\ UNCHANGED <<socket, bound, sending, worker, msg, sent, received, stray>>

join ==
  /\ owner = "join" /\ worker = "ended" /\ owner' = "done"
  /\ UNCHANGED <<socket, bound, sending, worker, mRunnable, msg, sent, received, stray>>

Step == Worker \/ stop \/ join \/ \E s \in Sender : sendto(s)

Next ==
  \/ Step \/ recvFails \/ stopNonBlockingListening
  \/ \E s \in Sender, len \in Length : send(s, len)

\* The threads are scheduled; nobody has to send or to stop.
Spec == Init /\ [][Next]_vars /\ WF_vars(Step)

-----------------------------------------------------------------------------
TypeOK ==
  /\ Len(socket) <= Room /\ bytes(msg.pieces) <= msg.len
  /\ worker \in {"new", "recv", "recv parts", "leaving", "ended"}
  /\ owner \in {"idle", "stop", "join", "done"}

\* The pieces are the bytes of one message, all and in order.
Tiles(r) ==
  LET m == r.pieces[1].of
      before(i) == bytes(SubSeq(r.pieces, 1, i - 1))
  IN /\ r.len = m.len /\ bytes(r.pieces) = m.len
     /\ \A i \in DOMAIN r.pieces : r.pieces[i].of = m /\ r.pieces[i].from = before(i)

From(s) == SelectSeq([i \in DOMAIN received |-> received[i].pieces[1].of], LAMBDA m : m.by = s)

\* What the listener is given are messages as they were sent, each one whole
\* and once, those of a sender in its order, and when nothing is under way and
\* nobody has stopped it, all of them.
ReceivedAsSent ==
  /\ \A i \in DOMAIN received : Tiles(received[i])
  /\ \A s \in Sender : IsPrefix(From(s), sent[s])
  /\ (socket = <<>> /\ worker = "recv" /\ NobodySends) =>
       \A s \in Sender : From(s) = sent[s]

\* The owner does not use the runnable after the thread has deleted it.
NoStrayUse == ~stray

\* Whoever has stopped the listening need not wait for ever for the thread,
\* and then the socket is given up.
StopEnds == owner = "stop" ~> (owner = "done" /\ ~bound)
=============================================================================
