--------------------------- MODULE LocTimerProofs ---------------------------
(***************************************************************************)
(* StopOrCallback and TimersAreKept for any clients, delays and bounds.    *)
(*                                                                         *)
(* Whatever the threads do, a start is called back at most once, and never *)
(* after a stop() of a client has succeeded.  The strengthening says which *)
(* thread holds what: mTimer only ever leads to the client's running       *)
(* delegate, the MsgTask is about to call back only a delegate that its    *)
(* own stop() has ended, and every number in the heap or a message is a    *)
(* delegate's.  The second part adds the order of the messages about a     *)
(* delegate and the system calls the MsgTask has yet to make.              *)
(***************************************************************************)
EXTENDS LocTimer, SequenceTheorems, FiniteSetTheorems, TLAPS

USE LocTimerAssumption

Instant == 1..MaxTime
TimerRec == [client : Client, due : Instant, end : {"running", "stopped", "expired"},
             deleted : BOOLEAN, calls : Seq(Instant)]
MessageRec == [kind : {"push", "remove", "expire"}, timer : Nat]
TaskRec == [pc : {"idle", "next", "stop", "callback", "poll", "settime"}, timer : Nat,
            client : Client \cup {NoClient}, time : 0..MaxTime]

TimersOK == now \in Instant /\ timers \in Seq(TimerRec)

QueueOK ==
    /\ msgQ \in Seq(MessageRec)
    /\ \A i \in 1..Len(msgQ) : IF msgQ[i].kind = "expire" THEN msgQ[i].timer = None
                                ELSE msgQ[i].timer \in Timer

HeapOK == heap \subseteq Timer /\ top \in heap \cup {None}

RunningOK ==
    /\ mTimer \in [Client -> Nat]
    /\ \A c \in Client : mTimer[c] # None =>
         /\ mTimer[c] \in Timer
         /\ timers[mTimer[c]].end = "running"
         /\ timers[mTimer[c]].client = c
    /\ \A t \in Timer : timers[t].end = "running" => mTimer[timers[t].client] = t

TaskOK ==
    /\ task \in TaskRec /\ task.timer \in Timer \cup {None}
    /\ task.pc = "stop" => task.client \in Client
    /\ task.pc = "callback" => /\ task.timer \in Timer
                               /\ timers[task.timer].end = "expired"
                               /\ timers[task.timer].calls = <<>>

IInv == TimersOK /\ QueueOK /\ HeapOK /\ RunningOK /\ TaskOK /\ StopOrCallback

(* What a delegate's number leads to. *)
LEMMA TimerTyped ==
    ASSUME TimersOK, NEW t \in Timer
    PROVE  /\ timers[t] \in TimerRec
           /\ timers[t].client \in Client /\ due(t) \in Instant
           /\ t \in Nat /\ t # None
<1>1. timers[t] \in TimerRec
  BY ElementOfSeq DEF TimersOK, Timer
<1> QED
  BY <1>1 DEF TimerRec, due, Timer, None

(* A message appended about a delegate keeps the queue's invariant. *)
LEMMA AppendOK ==
    ASSUME QueueOK, TimersOK, TimersOK', Timer \subseteq Timer',
           NEW kind \in {"push", "remove", "expire"}, NEW t \in Nat,
           IF kind = "expire" THEN t = None ELSE t \in Timer',
           msgQ' = Append(msgQ, Message(kind, t))
    PROVE  QueueOK'
<1>1. Message(kind, t) \in MessageRec
  BY DEF Message, MessageRec
<1>2. /\ msgQ' \in Seq(MessageRec)
      /\ Len(msgQ') = Len(msgQ) + 1
      /\ \A i \in 1..Len(msgQ) : msgQ'[i] = msgQ[i]
      /\ msgQ'[Len(msgQ) + 1] = Message(kind, t)
  BY <1>1, AppendProperties DEF QueueOK
<1>3. Len(msgQ) \in Nat
  BY LenProperties DEF QueueOK
<1>4. ASSUME NEW i \in 1..Len(msgQ')
      PROVE  IF msgQ'[i].kind = "expire" THEN msgQ'[i].timer = None
             ELSE msgQ'[i].timer \in Timer'
  <2>1. CASE i \in 1..Len(msgQ)
    BY <1>2, <1>4, <2>1 DEF QueueOK
  <2>2. CASE i = Len(msgQ) + 1
    BY <1>2, <1>4, <2>2 DEF Message
  <2> QED
    BY <1>2, <1>3, <2>1, <2>2
<1> QED
  BY <1>2, <1>4 DEF QueueOK

(* Rewriting one delegate leaves the numbering and the other delegates alone. *)
LEMMA RewriteOne ==
    ASSUME TimersOK, NEW t \in Timer, NEW r \in TimerRec, now' = now,
           timers' = [timers EXCEPT ![t] = r]
    PROVE  /\ TimersOK'
           /\ Timer' = Timer
           /\ timers'[t] = r
           /\ \A s \in Timer \ {t} : timers'[s] = timers[s]
<1>1. /\ timers' \in Seq(TimerRec)
      /\ Len(timers') = Len(timers)
      /\ timers'[t] = r
      /\ \A s \in Timer \ {t} : timers'[s] = timers[s]
  BY ExceptSeq DEF TimersOK, Timer
<1> QED
  BY <1>1 DEF TimersOK, Timer

(* stop() of a running timer ends its delegate, which was never called back. *)
LEMMA StopStep ==
    ASSUME IInv, NEW c \in Client, mTimer[c] # None,
           NEW end \in {"stopped", "expired"}, stopTimer(c, end), now' = now
    PROVE  /\ TimersOK' /\ QueueOK' /\ RunningOK' /\ StopOrCallback'
           /\ Timer' = Timer
           /\ timers'[mTimer[c]].end = end
           /\ timers'[mTimer[c]].calls = <<>>
           /\ timers'[mTimer[c]].due = timers[mTimer[c]].due
           /\ timers'[mTimer[c]].deleted = timers[mTimer[c]].deleted
           /\ \A s \in Timer \ {mTimer[c]} : timers'[s] = timers[s]
           /\ mTimer[c] \in Timer /\ timers[mTimer[c]].end = "running"
<1> DEFINE t == mTimer[c]
           r == [timers[t] EXCEPT !.end = end]
<1>1. t \in Timer /\ t \in Nat /\ timers[t].end = "running"
  BY DEF IInv, RunningOK
<1>2. timers[t] \in TimerRec
  BY <1>1, ElementOfSeq DEF IInv, TimersOK, Timer
<1>3. /\ r \in TimerRec /\ r.end = end /\ r.calls = timers[t].calls
      /\ r.due = timers[t].due /\ r.deleted = timers[t].deleted
  BY <1>2 DEF TimerRec
<1>4. timers[t].calls = <<>>
  BY <1>1 DEF IInv, StopOrCallback
<1>5. timers' = [timers EXCEPT ![t] = r]
  BY DEF stopTimer
<1>6. /\ TimersOK' /\ Timer' = Timer /\ timers'[t] = r
      /\ \A s \in Timer \ {t} : timers'[s] = timers[s]
  <2> HIDE DEF r, t
  <2> QED
    BY <1>1, <1>3, <1>5, RewriteOne DEF IInv
<1>7. QueueOK'
  <2>1. msgQ' = Append(msgQ, Message("remove", t))
    BY DEF stopTimer
  <2> HIDE DEF r, t
  <2> QED
    BY <1>1, <1>6, <2>1, AppendOK DEF IInv
<1>8. RunningOK'
  <2>1. mTimer' = [mTimer EXCEPT ![c] = None]
    BY DEF stopTimer
  <2>2. mTimer' \in [Client -> Nat]
    BY <2>1 DEF IInv, RunningOK, None
  <2>3. ASSUME NEW k \in Client, mTimer'[k] # None
        PROVE  /\ mTimer'[k] \in Timer'
               /\ timers'[mTimer'[k]].end = "running"
               /\ timers'[mTimer'[k]].client = k
    <3>1. k # c /\ mTimer'[k] = mTimer[k]
      BY <2>1, <2>3 DEF IInv, RunningOK
    <3>2. /\ mTimer[k] \in Timer
          /\ timers[mTimer[k]].end = "running"
          /\ timers[mTimer[k]].client = k
      BY <2>3, <3>1 DEF IInv, RunningOK
    <3>3. mTimer[k] # t
      BY <3>1, <3>2 DEF IInv, RunningOK
    <3> QED
      BY <1>6, <3>1, <3>2, <3>3
  <2>4. ASSUME NEW s \in Timer', timers'[s].end = "running"
        PROVE  mTimer'[timers'[s].client] = s
    <3>1. s \in Timer /\ s # t /\ timers'[s] = timers[s]
      BY <1>3, <1>6, <2>4
    <3>2. mTimer[timers[s].client] = s /\ timers[s].client \in Client
      BY <2>4, <3>1, TimerTyped DEF IInv, RunningOK
    <3>3. timers[s].client # c
      BY <3>1, <3>2
    <3> QED
      BY <2>1, <3>1, <3>2, <3>3 DEF IInv, RunningOK
  <2> QED
    BY <2>2, <2>3, <2>4 DEF RunningOK
<1>9. StopOrCallback'
  BY <1>3, <1>4, <1>6 DEF IInv, StopOrCallback
<1> QED
  BY <1>1, <1>3, <1>4, <1>6, <1>7, <1>8, <1>9

(* At first there are no delegates. *)
LEMMA InitInv == Init => IInv
<1> SUFFICES ASSUME Init PROVE IInv
  OBVIOUS
<1>1. TimersOK /\ QueueOK
  BY EmptySeq DEF Init, TimersOK, QueueOK, Instant
<1>2. HeapOK /\ RunningOK
  BY EmptySeq DEF Init, HeapOK, RunningOK, None, Timer
<1>3. TaskOK
  BY DEF Init, TaskOK, TaskRec, Idle, None
<1>4. StopOrCallback
  BY DEF Init, StopOrCallback, Timer
<1> QED
  BY <1>1, <1>2, <1>3, <1>4 DEF IInv

(* start() adds a delegate at the end: no number changes its meaning. *)
LEMMA StartStep ==
    ASSUME IInv, NEW c \in Client, NEW d \in Delay, start(c, d)
    PROVE  IInv'
<1> DEFINE n == Len(timers) + 1
           r == [client |-> c, due |-> now + d, end |-> "running",
                 deleted |-> FALSE, calls |-> <<>>]
<1>1. r \in TimerRec
  <2>1. <<>> \in Seq(Instant)
    BY EmptySeq
  <2>2. now + d \in Instant
    BY DEF IInv, TimersOK, Instant, start
  <2> QED
    BY <2>1, <2>2 DEF TimerRec
<1>2. Len(timers) \in Nat
  BY LenProperties DEF IInv, TimersOK
<1>3. timers' = Append(timers, r) /\ now' = now
  BY DEF start
<1>4. /\ timers' \in Seq(TimerRec)
      /\ Len(timers') = n
      /\ timers'[n] = r
      /\ \A s \in Timer : timers'[s] = timers[s]
  <2> HIDE DEF r
  <2> QED
    BY <1>1, <1>3, AppendProperties DEF IInv, TimersOK, Timer
<1>5. Timer' = Timer \cup {n} /\ n \notin Timer /\ n # None
  BY <1>2, <1>4 DEF Timer, None
<1>6. TimersOK'
  BY <1>3, <1>4 DEF IInv, TimersOK
<1>7. QueueOK'
  <2>1. msgQ' = Append(msgQ, Message("push", n))
    BY <1>4 DEF start
  <2>2. n \in Nat /\ n \in Timer' /\ Timer \subseteq Timer'
    BY <1>2, <1>5
  <2>3. QueueOK /\ TimersOK
    BY DEF IInv
  <2> HIDE DEF n, r
  <2> QED
    BY <1>6, <2>1, <2>2, <2>3, AppendOK
<1>8. HeapOK'
  BY <1>5 DEF IInv, HeapOK, start
<1>9. RunningOK'
  <2>1. mTimer' = [mTimer EXCEPT ![c] = n]
    BY <1>4 DEF start
  <2>2. mTimer' \in [Client -> Nat]
    BY <1>2, <2>1 DEF IInv, RunningOK
  <2>3. ASSUME NEW k \in Client, mTimer'[k] # None
        PROVE  /\ mTimer'[k] \in Timer'
               /\ timers'[mTimer'[k]].end = "running"
               /\ timers'[mTimer'[k]].client = k
    <3>1. CASE k = c
      BY <1>4, <1>5, <2>1, <3>1 DEF IInv, RunningOK
    <3>2. CASE k # c
      BY <1>4, <1>5, <2>1, <2>3, <3>2 DEF IInv, RunningOK
    <3> QED
      BY <3>1, <3>2
  <2>4. ASSUME NEW s \in Timer', timers'[s].end = "running"
        PROVE  mTimer'[timers'[s].client] = s
    <3>1. CASE s = n
      BY <1>4, <2>1, <3>1 DEF IInv, RunningOK
    <3>2. CASE s \in Timer
      <4>1. mTimer[timers[s].client] = s /\ timers[s].client \in Client /\ s # None
        BY <1>4, <2>4, <3>2, TimerTyped DEF IInv, RunningOK
      <4>2. timers[s].client # c
        BY <4>1 DEF start
      <4> QED
        BY <1>4, <2>1, <3>2, <4>1, <4>2 DEF IInv, RunningOK
    <3> QED
      BY <1>5, <3>1, <3>2
  <2> QED
    BY <2>2, <2>3, <2>4 DEF RunningOK
<1>10. TaskOK'
  BY <1>4, <1>5 DEF IInv, TaskOK, start
<1>11. StopOrCallback'
  BY <1>4, <1>5 DEF IInv, StopOrCallback
<1> QED
  BY <1>6, <1>7, <1>8, <1>9, <1>10, <1>11 DEF IInv

(* A client's stop(): a delegate the MsgTask calls back is not running. *)
LEMMA ClientStopStep ==
    ASSUME IInv, NEW c \in Client, stop(c)
    PROVE  IInv'
<1>1. stopTimer(c, "stopped") /\ mTimer[c] # None /\ now' = now
  BY DEF stop
<1>2. /\ TimersOK' /\ QueueOK' /\ RunningOK' /\ StopOrCallback'
      /\ Timer' = Timer
      /\ \A s \in Timer \ {mTimer[c]} : timers'[s] = timers[s]
  BY <1>1, StopStep
<1>3. HeapOK'
  BY <1>2 DEF IInv, HeapOK, stop
<1>4. TaskOK'
  <2>1. task' = task
    BY DEF stop
  <2>2. task.pc = "callback" => task.timer # mTimer[c]
    BY <1>1 DEF IInv, TaskOK, RunningOK
  <2> QED
    BY <1>2, <2>1, <2>2 DEF IInv, TaskOK
<1> QED
  BY <1>2, <1>3, <1>4 DEF IInv

(* Popping and removing leave in the heap what was there. *)
LEMMA HeapSteps ==
    ASSUME HeapOK, Timer' = Timer, NEW t \in Timer, pop \/ remove(t) \/ push(t)
    PROVE  HeapOK'
BY DEF HeapOK, pop, remove, push, newTop, Soonest, None

(* updateSoonestTime leaves the MsgTask idle or with system calls to make. *)
LEMMA UpdateStep ==
    ASSUME TimersOK, HeapOK', Timer' = Timer, NEW p, updateSoonestTime(p)
    PROVE  TaskOK'
<1>1. task' = Idle \/ task' = [Idle EXCEPT !.pc = "poll",
                                           !.time = IF top' = None THEN None ELSE due(top')]
  BY DEF updateSoonestTime
<1>2. top' # None => due(top') \in Instant
  <2>1. SUFFICES ASSUME top' # None PROVE due(top') \in Instant
    OBVIOUS
  <2>2. top' \in Timer
    BY <2>1 DEF HeapOK
  <2>3. timers[top'] \in TimerRec
    BY <2>2, ElementOfSeq DEF TimersOK, Timer
  <2> QED
    BY <2>3 DEF TimerRec, due
<1>3. CASE task' = Idle
  BY <1>3 DEF TaskOK, TaskRec, Idle, None
<1>4. CASE task' = [Idle EXCEPT !.pc = "poll",
                                !.time = IF top' = None THEN None ELSE due(top')]
  <2> DEFINE time == IF top' = None THEN None ELSE due(top')
  <2>1. time \in 0..MaxTime
    BY <1>2 DEF None, Instant
  <2>2. task' = [pc |-> "poll", timer |-> None, client |-> NoClient, time |-> time]
    BY <1>4 DEF Idle
  <2> HIDE DEF time
  <2> QED
    BY <2>1, <2>2 DEF TaskOK, TaskRec, None
<1> QED
  BY <1>1, <1>3, <1>4

(* Expiring a delegate just popped: its client, if it has one, is a client. *)
LEMMA ExpireTimerStep ==
    ASSUME TimersOK, Timer' = Timer, NEW t \in Timer, NEW time \in 0..MaxTime,
           expireTimer(t, time)
    PROVE  TaskOK'
<1>1. timers[t] \in TimerRec /\ t \in Nat
  BY ElementOfSeq DEF TimersOK, Timer
<1>2. mClient(t) \in Client \cup {NoClient}
  BY <1>1 DEF TimerRec, mClient
<1>3. task' = [timer |-> t, client |-> mClient(t), time |-> time,
               pc |-> IF mClient(t) = NoClient THEN "next" ELSE "stop"]
  BY DEF expireTimer
<1> HIDE DEF mClient
<1>4. task' \in TaskRec /\ task'.pc # "callback"
  BY <1>1, <1>2, <1>3 DEF TaskRec
<1>5. task'.pc = "stop" => task'.client \in Client
  BY <1>2, <1>3
<1>6. task'.timer = t
  BY <1>1, <1>3
<1> QED
  BY <1>4, <1>5, <1>6 DEF TaskOK

(* When delegates keep their client, end and calls, so do the invariants. *)
LEMMA SameTimers ==
    ASSUME IInv, Timer' = Timer, mTimer' = mTimer,
           \A t \in Timer : /\ timers'[t].client = timers[t].client
                            /\ timers'[t].end = timers[t].end
                            /\ timers'[t].calls = timers[t].calls
    PROVE  RunningOK' /\ StopOrCallback'
BY DEF IInv, RunningOK, StopOrCallback

(* The tail of the queue keeps its messages. *)
LEMMA TailOK ==
    ASSUME QueueOK, msgQ # <<>>, msgQ' = Tail(msgQ), Timer' = Timer
    PROVE  QueueOK' /\ Head(msgQ) \in MessageRec
           /\ (Head(msgQ).kind \in {"push", "remove"} => Head(msgQ).timer \in Timer)
<1>1. /\ msgQ' \in Seq(MessageRec)
      /\ Len(msgQ) \in Nat \ {0}
      /\ Len(msgQ') = Len(msgQ) - 1
      /\ \A i \in 1..Len(msgQ') : msgQ'[i] = msgQ[i + 1]
      /\ Head(msgQ) = msgQ[1]
      /\ Head(msgQ) \in MessageRec
  BY HeadTailProperties, LenProperties, EmptySeq DEF QueueOK
<1> QED
  BY <1>1 DEF QueueOK

(* The three messages. *)
LEMMA MessageStep ==
    ASSUME IInv, HandleMessage
    PROVE  IInv'
<1> DEFINE m == Head(msgQ)
<1>1. msgQ # <<>> /\ msgQ' = Tail(msgQ) /\ now' = now /\ TimersOK /\ QueueOK /\ HeapOK
  BY DEF HandleMessage, IInv
<1>2. CASE m.kind = "push" /\ handlePush(m.timer)
  <2>1. timers' = timers /\ mTimer' = mTimer /\ Timer' = Timer /\ TimersOK'
    BY <1>1, <1>2 DEF handlePush, Timer, TimersOK
  <2>2. QueueOK' /\ m.timer \in Timer
    BY <1>1, <1>2, <2>1, TailOK
  <2>3. HeapOK'
    BY <1>1, <1>2, <2>1, <2>2, HeapSteps DEF handlePush
  <2>4. TaskOK'
    BY <1>1, <1>2, <2>1, <2>3, UpdateStep DEF handlePush
  <2> QED
    BY <2>1, <2>2, <2>3, <2>4, SameTimers DEF IInv
<1>3. CASE m.kind = "remove" /\ handleRemove(m.timer)
  <2> DEFINE t == m.timer
             r == [timers[t] EXCEPT !.deleted = TRUE]
  <2>1. t \in Timer
    BY <1>1, <1>3, TailOK DEF IInv, QueueOK, HandleMessage
  <2>2. timers[t] \in TimerRec
    BY <1>1, <2>1, ElementOfSeq DEF TimersOK, Timer
  <2>3. /\ r \in TimerRec /\ r.client = timers[t].client
        /\ r.end = timers[t].end /\ r.calls = timers[t].calls
    BY <2>2 DEF TimerRec
  <2>4. timers' = [timers EXCEPT ![t] = r] /\ mTimer' = mTimer
    BY <1>3 DEF handleRemove
  <2>5. /\ TimersOK' /\ Timer' = Timer /\ timers'[t] = r
        /\ \A s \in Timer \ {t} : timers'[s] = timers[s]
    <3> HIDE DEF r, t
    <3> QED
      BY <1>1, <2>1, <2>3, <2>4, RewriteOne
  <2>6. RunningOK' /\ StopOrCallback'
    <3> HIDE DEF r, t
    <3> QED
      BY <2>1, <2>3, <2>4, <2>5, SameTimers
  <2>7. QueueOK'
    BY <1>1, <2>5, TailOK
  <2>8. HeapOK'
    BY <1>1, <1>3, <2>1, <2>5, HeapSteps DEF handleRemove
  <2>9. TaskOK'
    <3>1. updateSoonestTime(None) \/ task' = Idle
      BY <1>3 DEF handleRemove
    <3>2. CASE updateSoonestTime(None)
      BY <1>1, <2>5, <2>8, <3>2, UpdateStep
    <3>3. CASE task' = Idle
      BY <3>3 DEF TaskOK, TaskRec, Idle, None
    <3> QED
      BY <3>1, <3>2, <3>3
  <2> QED
    BY <2>5, <2>6, <2>7, <2>8, <2>9 DEF IInv
<1>4. CASE m.kind = "expire" /\ handleExpire
  <2>1. timers' = timers /\ mTimer' = mTimer /\ Timer' = Timer /\ TimersOK'
    BY <1>1, <1>4 DEF handleExpire, Timer, TimersOK
  <2>2. QueueOK'
    BY <1>1, <2>1, TailOK
  <2>3. CASE top = None
    <3>1. task' = Idle /\ HeapOK'
      BY <1>1, <1>4, <2>1, <2>3 DEF handleExpire, heapVars, HeapOK
    <3>2. TaskOK'
      BY <3>1 DEF TaskOK, TaskRec, Idle, None
    <3> QED
      BY <2>1, <2>2, <3>1, <3>2, SameTimers DEF IInv
  <2>4. CASE top # None
    <3>1. top \in Timer /\ pop /\ expireTimer(top, now)
      BY <1>1, <1>4, <2>4 DEF handleExpire, HeapOK
    <3>2. HeapOK'
      BY <1>1, <2>1, <3>1, HeapSteps
    <3>3. TaskOK'
      BY <1>1, <2>1, <3>1, ExpireTimerStep DEF TimersOK, Instant
    <3> QED
      BY <2>1, <2>2, <3>2, <3>3, SameTimers DEF IInv
  <2> QED
    BY <2>3, <2>4
<1> QED
  BY <1>2, <1>3, <1>4 DEF HandleMessage

(* The MsgTask's stop() ends the running delegate that it will call back. *)
LEMMA StopExpiredStep ==
    ASSUME IInv, StopExpired
    PROVE  IInv'
<1> DEFINE c == task.client
<1>1. /\ c \in Client /\ task \in TaskRec
      /\ now' = now /\ heap' = heap /\ top' = top
  BY DEF IInv, TaskOK, StopExpired
<1>2. CASE mTimer[c] # None
  <2>1. /\ stopTimer(c, "expired")
        /\ task' = [task EXCEPT !.pc = "callback", !.timer = mTimer[c]]
    BY <1>2 DEF StopExpired
  <2>2. /\ TimersOK' /\ QueueOK' /\ RunningOK' /\ StopOrCallback'
        /\ Timer' = Timer
        /\ timers'[mTimer[c]].end = "expired"
        /\ timers'[mTimer[c]].calls = <<>>
        /\ mTimer[c] \in Timer
    BY <1>1, <1>2, <2>1, StopStep
  <2>3. mTimer[c] \in Nat
    BY <1>1 DEF IInv, RunningOK
  <2>4. TaskOK'
    BY <1>1, <2>1, <2>2, <2>3 DEF TaskOK, TaskRec
  <2> QED
    BY <1>1, <2>2, <2>4 DEF IInv, HeapOK
<1>3. CASE mTimer[c] = None
  <2>1. /\ task' = [task EXCEPT !.pc = "next"]
        /\ timers' = timers /\ mTimer' = mTimer /\ msgQ' = msgQ
    BY <1>3 DEF StopExpired
  <2>2. TaskOK'
    BY <1>1, <2>1 DEF IInv, TaskOK, TaskRec, Timer
  <2> QED
    BY <1>1, <2>1, <2>2 DEF IInv, TimersOK, QueueOK, HeapOK, RunningOK, StopOrCallback, Timer
<1> QED
  BY <1>2, <1>3

(* The callback is the delegate's first. *)
LEMMA CallbackStep ==
    ASSUME IInv, timeOutCallback
    PROVE  IInv'
<1> DEFINE t == task.timer
           r == [timers[t] EXCEPT !.calls = Append(@, now)]
<1>1. /\ t \in Timer /\ timers[t].end = "expired" /\ timers[t].calls = <<>>
      /\ task \in TaskRec /\ now \in Instant /\ now' = now
  BY DEF IInv, TaskOK, TimersOK, timeOutCallback
<1>2. timers[t] \in TimerRec
  BY <1>1, ElementOfSeq DEF IInv, TimersOK, Timer
<1>3. Append(<<>>, now) \in Seq(Instant) /\ Len(Append(<<>>, now)) = 1
  BY <1>1, EmptySeq, AppendProperties
<1>4. /\ r \in TimerRec /\ r.client = timers[t].client /\ r.end = "expired"
      /\ Len(r.calls) = 1
  BY <1>1, <1>2, <1>3 DEF TimerRec
<1>5. timers' = [timers EXCEPT ![t] = r]
  BY DEF timeOutCallback
<1>6. /\ TimersOK' /\ Timer' = Timer /\ timers'[t] = r
      /\ \A s \in Timer \ {t} : timers'[s] = timers[s]
  <2> HIDE DEF r, t
  <2> QED
    BY <1>1, <1>4, <1>5, RewriteOne DEF IInv
<1>7. RunningOK'
  <2>1. mTimer' = mTimer
    BY DEF timeOutCallback
  <2>2. \A c \in Client : mTimer[c] # t
    BY <1>1 DEF IInv, RunningOK, Timer, None
  <2>3. r.end # "running"
    BY <1>4
  <2> HIDE DEF r, t
  <2> QED
    BY <1>6, <2>1, <2>2, <2>3 DEF IInv, RunningOK
<1>8. StopOrCallback'
  <2> HIDE DEF r, t
  <2> QED
    BY <1>4, <1>6 DEF IInv, StopOrCallback
<1>9. QueueOK' /\ HeapOK'
  BY <1>6 DEF IInv, QueueOK, HeapOK, timeOutCallback
<1>10. TaskOK'
  BY <1>1, <1>6 DEF TaskOK, TaskRec, timeOutCallback
<1> QED
  BY <1>6, <1>7, <1>8, <1>9, <1>10 DEF IInv

(* The next delegate to expire, if there is one. *)
LEMMA PopStep ==
    ASSUME IInv, popIfOutRanks
    PROVE  IInv'
<1>1. /\ timers' = timers /\ mTimer' = mTimer /\ msgQ' = msgQ /\ now' = now
      /\ Timer' = Timer /\ TimersOK /\ HeapOK /\ task \in TaskRec
  BY DEF IInv, TaskOK, popIfOutRanks, Timer
<1>2. TimersOK' /\ QueueOK' /\ RunningOK' /\ StopOrCallback'
  BY <1>1 DEF IInv, TimersOK, QueueOK, RunningOK, StopOrCallback
<1>3. CASE top # None /\ due(top) <= task.time
  <2>1. top \in Timer /\ pop /\ expireTimer(top, task.time)
    BY <1>1, <1>3 DEF popIfOutRanks, HeapOK
  <2>2. HeapOK'
    BY <1>1, <2>1, HeapSteps
  <2>3. task.time \in 0..MaxTime
    BY <1>1 DEF TaskRec
  <2>4. TaskOK'
    BY <1>1, <2>1, <2>3, ExpireTimerStep
  <2> QED
    BY <1>2, <2>2, <2>4 DEF IInv
<1>4. CASE ~(top # None /\ due(top) <= task.time)
  <2>1. heap' = heap /\ top' = top /\ updateSoonestTime(None)
    BY <1>4 DEF popIfOutRanks, heapVars
  <2>2. HeapOK'
    BY <1>1, <2>1 DEF HeapOK
  <2>3. TaskOK'
    BY <1>1, <2>1, <2>2, UpdateStep
  <2> QED
    BY <1>2, <2>2, <2>3 DEF IInv
<1> QED
  BY <1>3, <1>4

(* System calls and time touch neither delegates nor the heap. *)
LEMMA OtherSteps ==
    ASSUME IInv, SetPoll \/ SetTime \/ PollTask \/ Tick \/ UNCHANGED vars
    PROVE  IInv'
<1>1. timers' = timers /\ mTimer' = mTimer /\ heap' = heap /\ top' = top /\ Timer' = Timer
  BY DEF SetPoll, SetTime, PollTask, EpollWait, Disarm, Leave, Tell, Tick, vars, Timer
<1>2. TimersOK'
  <2>1. now' \in Instant
    BY DEF IInv, TimersOK, Instant, SetPoll, SetTime, PollTask, EpollWait, Disarm, Leave, Tell, Tick, vars
  <2> QED
    BY <1>1, <2>1 DEF IInv, TimersOK
<1>3. HeapOK' /\ RunningOK' /\ StopOrCallback'
  BY <1>1 DEF IInv, HeapOK, RunningOK, StopOrCallback
<1>4. QueueOK'
  <2>1. CASE Tell
    BY <1>1, <1>2, <2>1, AppendOK DEF IInv, Tell, None
  <2>2. CASE SetPoll \/ SetTime \/ EpollWait \/ Disarm \/ Leave \/ Tick \/ UNCHANGED vars
    <3>1. msgQ' = msgQ
      BY <2>2 DEF SetPoll, SetTime, EpollWait, Disarm, Leave, Tick, vars
    <3> QED
      BY <1>1, <3>1 DEF IInv, QueueOK
  <2> QED
    BY <2>1, <2>2 DEF PollTask
<1>5. TaskOK'
  <2>1. task' = task \/ task' = [task EXCEPT !.pc = "settime"] \/ task' = Idle
    BY DEF SetPoll, SetTime, PollTask, EpollWait, Disarm, Leave, Tell, Tick, vars
  <2> QED
    BY <1>1, <2>1 DEF IInv, TaskOK, TaskRec, Idle, None
<1> QED
  BY <1>2, <1>3, <1>4, <1>5 DEF IInv

(***************************************************************************)
(* LocTimerDelegate::expire() calls the client back "only if stop() returns*)
(* true, i.e. it hasn't been stopped already" (LocTimer.cpp:534): no start *)
(* is both stopped by its client and called back, or called back twice.    *)
(***************************************************************************)
THEOREM LocTimerStopOrCallback == Spec => []StopOrCallback
<1>1. Init => IInv
  BY InitInv
<1>2. IInv /\ [Next]_vars => IInv'
  <2> SUFFICES ASSUME IInv, [Next]_vars PROVE IInv'
    OBVIOUS
  <2>1. CASE Clients
    BY <2>1, StartStep, ClientStopStep DEF Clients
  <2>2. CASE MsgTask
    BY <2>2, MessageStep, StopExpiredStep, CallbackStep, PopStep, OtherSteps DEF MsgTask
  <2>3. CASE PollTask \/ Tick \/ UNCHANGED vars
    BY <2>3, OtherSteps
  <2> QED
    BY <2>1, <2>2, <2>3 DEF Next
<1>3. IInv => StopOrCallback
  BY DEF IInv
<1> QED
  BY <1>1, <1>2, <1>3, PTL DEF Spec

-----------------------------------------------------------------------------
(***************************************************************************)
(* TimersAreKept.  On top of IInv: the message that deletes a delegate is  *)
(* the last one about it, and is queued exactly while the delegate is      *)
(* ended but not deleted; and of the system calls that follow a change of  *)
(* the top, the MsgTask carries the time of the top as it is now.          *)
(***************************************************************************)
places(q, kind, t) == {i \in 1..Len(q) : q[i] = Message(kind, t)}

RemoveIsLast ==
    \A t \in Timer : \A i \in places(msgQ, "remove", t) :
        /\ \A j \in places(msgQ, "push", t) : j < i
        /\ \A j \in places(msgQ, "remove", t) : j = i

EndedIsRemoved ==
    \A t \in Timer : IF timers[t].end = "running"
                     THEN ~timers[t].deleted /\ places(msgQ, "remove", t) = {}
                     ELSE timers[t].deleted <=> places(msgQ, "remove", t) = {}

DeletedIsOut ==
    \A t \in Timer : timers[t].deleted => t \notin heap /\ places(msgQ, "push", t) = {}

RemovalsOK == RemoveIsLast /\ EndedIsRemoved /\ DeletedIsOut

FdOK ==
    /\ poll \in {"waiting", "disarming", "leaving", "telling"}
    /\ polled \in BOOLEAN
    /\ armed \in 0..MaxTime

TopOK == IF heap = {} THEN top = None ELSE top \in Soonest(heap)

ExpireQueued == places(msgQ, "expire", None) # {}

CallsOK ==
    /\ task.pc \in {"poll", "settime"} => task.time = IF top = None THEN None ELSE due(top)
    /\ task.pc = "settime" => \/ poll # "waiting"
                              \/ ExpireQueued
                              \/ polled <=> (task.time # None)

WakeOK == FdOK /\ TopOK /\ CallsOK /\ PendingIsArmed

(* Where the messages about a delegate stand once one is appended. *)
LEMMA QueuedAppend ==
    ASSUME QueueOK, NEW kind \in {"push", "remove", "expire"}, NEW t \in Nat,
           msgQ' = Append(msgQ, Message(kind, t)), NEW k, NEW s
    PROVE  places(msgQ', k, s) = places(msgQ, k, s) \cup
               (IF Message(kind, t) = Message(k, s) THEN {Len(msgQ) + 1} ELSE {})
<1>1. Message(kind, t) \in MessageRec
  BY DEF Message, MessageRec
<1>2. /\ Len(msgQ) \in Nat
      /\ Len(msgQ') = Len(msgQ) + 1
      /\ \A i \in 1..Len(msgQ) : msgQ'[i] = msgQ[i]
      /\ msgQ'[Len(msgQ) + 1] = Message(kind, t)
  BY <1>1, AppendProperties, LenProperties DEF QueueOK
<1>3. places(msgQ', k, s) = {i \in 1..Len(msgQ') : msgQ'[i] = Message(k, s)}
  BY DEF places
<1> QED
  BY <1>2, <1>3 DEF places

(* ... and once the first is taken. *)
LEMMA QueuedTail ==
    ASSUME QueueOK, msgQ # <<>>, msgQ' = Tail(msgQ), NEW k, NEW s
    PROVE  /\ \A i \in places(msgQ', k, s) : i \in Nat \ {0} /\ i + 1 \in places(msgQ, k, s)
           /\ \A i \in places(msgQ, k, s) : i \in Nat \ {0} /\ (i # 1 => i - 1 \in places(msgQ', k, s))
           /\ 1 \in places(msgQ, k, s) <=> Head(msgQ) = Message(k, s)
<1>1. /\ Len(msgQ) \in Nat \ {0}
      /\ Len(msgQ') = Len(msgQ) - 1
      /\ \A i \in 1..Len(msgQ') : msgQ'[i] = msgQ[i + 1]
      /\ Head(msgQ) = msgQ[1]
  BY HeadTailProperties, LenProperties, EmptySeq DEF QueueOK
<1>2. places(msgQ', k, s) = {i \in 1..Len(msgQ') : msgQ'[i] = Message(k, s)}
  BY DEF places
<1>3. ASSUME NEW i \in places(msgQ, k, s), i # 1
      PROVE  i - 1 \in places(msgQ', k, s)
  <2>1. i - 1 \in 1..Len(msgQ') /\ msgQ[i] = Message(k, s) /\ (i - 1) + 1 = i
    BY <1>1, <1>3 DEF places
  <2>2. msgQ'[i - 1] = Message(k, s)
    BY <1>1, <2>1
  <2> QED
    BY <1>2, <2>1, <2>2
<1>4. ASSUME NEW i \in places(msgQ', k, s)
      PROVE  i \in Nat \ {0} /\ i + 1 \in places(msgQ, k, s)
  BY <1>1, <1>2, <1>4 DEF places
<1> QED
  BY <1>1, <1>3, <1>4 DEF places

(* Messages are equal when kind and delegate are. *)
LEMMA MessageEqual ==
    ASSUME NEW k, NEW s, NEW l, NEW t
    PROVE  Message(k, s) = Message(l, t) <=> k = l /\ s = t
BY DEF Message

(* No message is about a delegate yet to be made. *)
LEMMA NothingQueued ==
    ASSUME QueueOK, NEW t, t \notin Timer, NEW k \in {"push", "remove"}
    PROVE  places(msgQ, k, t) = {}
BY DEF QueueOK, places, Message

(* Steps that end, delete and queue nothing, and add nothing to the heap. *)
LEMMA SameRemovals ==
    ASSUME RemovalsOK, Timer' = Timer, heap' \subseteq heap,
           \A t \in Timer : /\ timers'[t].end = timers[t].end
                            /\ timers'[t].deleted = timers[t].deleted
                            /\ places(msgQ', "push", t) = places(msgQ, "push", t)
                            /\ places(msgQ', "remove", t) = places(msgQ, "remove", t)
    PROVE  RemovalsOK'
<1>1. RemoveIsLast'
  BY DEF RemovalsOK, RemoveIsLast
<1>2. EndedIsRemoved'
  BY DEF RemovalsOK, EndedIsRemoved
<1>3. DeletedIsOut'
  BY DEF RemovalsOK, DeletedIsOut
<1> QED
  BY <1>1, <1>2, <1>3 DEF RemovalsOK

(* A new delegate's first message is the one that pushes it. *)
LEMMA StartRemovals ==
    ASSUME IInv, IInv', RemovalsOK, NEW c \in Client, NEW d \in Delay, start(c, d)
    PROVE  RemovalsOK'
<1> DEFINE n == Len(timers) + 1
           r == [client |-> c, due |-> now + d, end |-> "running",
                 deleted |-> FALSE, calls |-> <<>>]
<1>1. Len(timers) \in Nat /\ QueueOK /\ HeapOK /\ heap' = heap
  BY LenProperties DEF IInv, TimersOK, start
<1>2. timers' = Append(timers, r)
  BY DEF start
<1>3. r \in TimerRec
  <2>1. <<>> \in Seq(Instant)
    BY EmptySeq
  <2>2. now + d \in Instant
    BY DEF IInv, TimersOK, Instant, start
  <2> QED
    BY <2>1, <2>2 DEF TimerRec
<1>4. /\ Len(timers') = n
      /\ timers'[n] = r
      /\ \A s \in Timer : timers'[s] = timers[s]
  <2> HIDE DEF r
  <2> QED
    BY <1>2, <1>3, AppendProperties DEF IInv, TimersOK, Timer
<1>5. Timer' = Timer \cup {n} /\ n \notin Timer /\ n \in Nat
  BY <1>1, <1>4 DEF Timer
<1>6. msgQ' = Append(msgQ, Message("push", n))
  BY <1>4 DEF start
<1>7. r.end = "running" /\ r.deleted = FALSE
  OBVIOUS
<1> HIDE DEF n, r
<1>8. \A t \in Timer' :
        /\ places(msgQ', "push", t) = places(msgQ, "push", t) \cup (IF t = n THEN {Len(msgQ) + 1} ELSE {})
        /\ places(msgQ', "remove", t) = places(msgQ, "remove", t)
  <2> SUFFICES ASSUME NEW t \in Timer'
               PROVE  /\ places(msgQ', "push", t) = places(msgQ, "push", t)
                           \cup (IF t = n THEN {Len(msgQ) + 1} ELSE {})
                      /\ places(msgQ', "remove", t) = places(msgQ, "remove", t)
    OBVIOUS
  <2>1. \A k \in {"push", "remove"} : places(msgQ', k, t) = places(msgQ, k, t) \cup
            (IF Message("push", n) = Message(k, t) THEN {Len(msgQ) + 1} ELSE {})
    BY <1>1, <1>5, <1>6, QueuedAppend
  <2>2. \A k \in {"push", "remove"} :
          Message("push", n) = Message(k, t) <=> k = "push" /\ t = n
    BY MessageEqual
  <2> QED
    BY <2>1, <2>2
<1>9. places(msgQ, "remove", n) = {}
  BY <1>1, <1>5, NothingQueued
<1>10. RemoveIsLast'
  BY <1>5, <1>8, <1>9 DEF RemovalsOK, RemoveIsLast
<1>11. EndedIsRemoved'
  BY <1>4, <1>5, <1>7, <1>8, <1>9 DEF RemovalsOK, EndedIsRemoved
<1>12. DeletedIsOut'
  BY <1>1, <1>4, <1>5, <1>7, <1>8 DEF RemovalsOK, DeletedIsOut
<1> QED
  BY <1>10, <1>11, <1>12 DEF RemovalsOK

(* stop() queues the message that deletes the delegate, after all others. *)
LEMMA StopRemovals ==
    ASSUME IInv, RemovalsOK, NEW c \in Client, mTimer[c] # None,
           NEW end \in {"stopped", "expired"}, stopTimer(c, end), now' = now, heap' = heap
    PROVE  RemovalsOK'
<1> DEFINE t == mTimer[c]
<1>1. /\ Timer' = Timer /\ t \in Timer
      /\ timers'[t].end = end /\ timers[t].end = "running"
      /\ timers'[t].deleted = timers[t].deleted
      /\ \A s \in Timer \ {t} : timers'[s] = timers[s]
  BY StopStep
<1>2. QueueOK /\ t \in Nat
  BY <1>1 DEF IInv, Timer
<1>3. msgQ' = Append(msgQ, Message("remove", t))
  BY DEF stopTimer
<1> HIDE DEF t
<1>4. \A s \in Timer :
        /\ places(msgQ', "push", s) = places(msgQ, "push", s)
        /\ places(msgQ', "remove", s) = places(msgQ, "remove", s) \cup (IF s = t THEN {Len(msgQ) + 1} ELSE {})
  <2> SUFFICES ASSUME NEW s \in Timer
               PROVE  /\ places(msgQ', "push", s) = places(msgQ, "push", s)
                      /\ places(msgQ', "remove", s) = places(msgQ, "remove", s)
                           \cup (IF s = t THEN {Len(msgQ) + 1} ELSE {})
    OBVIOUS
  <2>1. \A k \in {"push", "remove"} : places(msgQ', k, s) = places(msgQ, k, s) \cup
            (IF Message("remove", t) = Message(k, s) THEN {Len(msgQ) + 1} ELSE {})
    BY <1>2, <1>3, QueuedAppend
  <2>2. \A k \in {"push", "remove"} :
          Message("remove", t) = Message(k, s) <=> k = "remove" /\ s = t
    BY MessageEqual
  <2> QED
    BY <2>1, <2>2
<1>5. places(msgQ, "remove", t) = {} /\ ~timers[t].deleted
  BY <1>1 DEF RemovalsOK, EndedIsRemoved
<1>6. \A s \in Timer : \A j \in places(msgQ, "push", s) : j < Len(msgQ) + 1
  BY <1>2, LenProperties DEF places, QueueOK
<1>7. RemoveIsLast'
  BY <1>1, <1>4, <1>5, <1>6 DEF RemovalsOK, RemoveIsLast
<1>8. EndedIsRemoved'
  BY <1>1, <1>4, <1>5 DEF RemovalsOK, EndedIsRemoved
<1>9. DeletedIsOut'
  BY <1>1, <1>4, <1>5 DEF RemovalsOK, DeletedIsOut
<1> QED
  BY <1>7, <1>8, <1>9 DEF RemovalsOK

(* A message handled: what it deletes is out of the heap, and stays out. *)
LEMMA MessageRemovals ==
    ASSUME IInv, RemovalsOK, HandleMessage
    PROVE  RemovalsOK'
<1> DEFINE m == Head(msgQ)
<1>1. msgQ # <<>> /\ msgQ' = Tail(msgQ) /\ now' = now /\ TimersOK /\ QueueOK /\ HeapOK
  BY DEF HandleMessage, IInv
<1>2. m \in MessageRec
  BY <1>1, HeadTailProperties DEF QueueOK
<1>3. m = Message(m.kind, m.timer)
  BY <1>2 DEF MessageRec, Message
<1>4. \A k \in {"push", "remove"} : \A s \in Timer :
        /\ \A i \in places(msgQ', k, s) : i \in Nat \ {0} /\ i + 1 \in places(msgQ, k, s)
        /\ \A i \in places(msgQ, k, s) : i \in Nat \ {0} /\ (i # 1 => i - 1 \in places(msgQ', k, s))
        /\ 1 \in places(msgQ, k, s) <=> k = m.kind /\ s = m.timer
  BY <1>1, <1>3, QueuedTail, MessageEqual
<1>5. Timer' = Timer => RemoveIsLast'
  BY <1>4 DEF RemovalsOK, RemoveIsLast
<1>6. \A k \in {"push", "remove"} : \A s \in Timer :
        k # m.kind \/ s # m.timer => (places(msgQ', k, s) = {} <=> places(msgQ, k, s) = {})
  BY <1>4
<1>7. CASE m.kind = "push" /\ handlePush(m.timer)
  <2>1. timers' = timers /\ Timer' = Timer /\ heap' = heap \cup {m.timer}
    BY <1>7 DEF handlePush, push, Timer
  <2>2. m.timer \in Timer
    BY <1>1, <1>7, <2>1, TailOK
  <2>3. 1 \in places(msgQ, "push", m.timer)
    BY <1>4, <1>7, <2>2
  <2>4. ~timers[m.timer].deleted
    BY <2>2, <2>3 DEF RemovalsOK, DeletedIsOut
  <2>5. EndedIsRemoved'
    BY <1>6, <1>7, <2>1 DEF RemovalsOK, EndedIsRemoved
  <2>6. DeletedIsOut'
    BY <1>6, <1>7, <2>1, <2>4 DEF RemovalsOK, DeletedIsOut
  <2> QED
    BY <1>5, <2>1, <2>5, <2>6 DEF RemovalsOK
<1>8. CASE m.kind = "remove" /\ handleRemove(m.timer)
  <2> DEFINE t == m.timer
             r == [timers[t] EXCEPT !.deleted = TRUE]
  <2>1. t \in Timer
    BY <1>1, <1>8, TailOK DEF QueueOK, HandleMessage, IInv
  <2>2. timers[t] \in TimerRec
    BY <1>1, <2>1, TimerTyped
  <2>3. r \in TimerRec /\ r.end = timers[t].end /\ r.deleted
    BY <2>2 DEF TimerRec
  <2>4. timers' = [timers EXCEPT ![t] = r] /\ heap' = heap \ {t}
    BY <1>8 DEF handleRemove, remove
  <2>5. /\ Timer' = Timer /\ timers'[t].end = timers[t].end /\ timers'[t].deleted
        /\ \A s \in Timer \ {t} : timers'[s] = timers[s]
    <3> HIDE DEF r, t
    <3> QED
      BY <1>1, <2>1, <2>3, <2>4, RewriteOne
  <2>6. 1 \in places(msgQ, "remove", t)
    BY <1>4, <1>8, <2>1
  <2>7. places(msgQ, "push", t) = {} /\ \A j \in places(msgQ, "remove", t) : j = 1
    BY <1>4, <2>1, <2>6 DEF RemovalsOK, RemoveIsLast
  <2>8. places(msgQ', "push", t) = {} /\ places(msgQ', "remove", t) = {}
    <3>1. \A i \in places(msgQ', "push", t) : FALSE
      BY <1>4, <2>1, <2>7
    <3>2. \A i \in places(msgQ', "remove", t) : i \in Nat \ {0} /\ i + 1 = 1
      BY <1>4, <2>1, <2>7
    <3> QED
      BY <3>1, <3>2
  <2>9. timers[t].end # "running"
    BY <2>1, <2>6 DEF RemovalsOK, EndedIsRemoved
  <2>10. \A s \in Timer \ {t} : \A k \in {"push", "remove"} :
            places(msgQ', k, s) = {} <=> places(msgQ, k, s) = {}
    BY <1>6
  <2> HIDE DEF r, t
  <2>11. EndedIsRemoved'
    BY <2>1, <2>5, <2>8, <2>9, <2>10 DEF RemovalsOK, EndedIsRemoved
  <2>12. DeletedIsOut'
    BY <2>1, <2>4, <2>5, <2>8, <2>10 DEF RemovalsOK, DeletedIsOut
  <2> QED
    BY <1>5, <2>5, <2>11, <2>12 DEF RemovalsOK
<1>9. CASE m.kind = "expire" /\ handleExpire
  <2>1. timers' = timers /\ Timer' = Timer /\ heap' \subseteq heap
    BY <1>9 DEF handleExpire, heapVars, pop, Timer
  <2>2. EndedIsRemoved'
    BY <1>6, <1>9, <2>1 DEF RemovalsOK, EndedIsRemoved
  <2>3. DeletedIsOut'
    BY <1>6, <1>9, <2>1 DEF RemovalsOK, DeletedIsOut
  <2> QED
    BY <1>5, <2>1, <2>2, <2>3 DEF RemovalsOK
<1> QED
  BY <1>7, <1>8, <1>9 DEF HandleMessage

(* Every step of the poll thread and the MsgTask keeps the timerfd typed.  *)
LEMMA FdStep ==
    ASSUME IInv, FdOK, [Next]_vars
    PROVE  FdOK'
<1>1. task.time \in 0..MaxTime
  BY DEF IInv, TaskOK, TaskRec
<1>2. poll' \in {"waiting", "disarming", "leaving", "telling"} /\ polled' \in BOOLEAN
  BY DEF FdOK, Next, Clients, start, stop, MsgTask, HandleMessage, StopExpired, timeOutCallback,
         popIfOutRanks, SetPoll, SetTime, PollTask, EpollWait, Disarm, Leave, Tell, Tick, vars
<1>3. armed' = armed \/ armed' = task.time \/ armed' = None
  BY DEF Next, Clients, start, stop, MsgTask, HandleMessage, StopExpired, timeOutCallback,
         popIfOutRanks, SetPoll, SetTime, PollTask, EpollWait, Disarm, Leave, Tell, Tick, vars
<1>4. armed' \in 0..MaxTime
  BY <1>1, <1>3 DEF FdOK, None
<1> QED
  BY <1>2, <1>4 DEF FdOK

(* An expire message stays until the MsgTask takes it. *)
LEMMA ExpireStays ==
    ASSUME IInv
    PROVE  /\ \A kind \in {"push", "remove", "expire"} : \A t \in Nat :
                msgQ' = Append(msgQ, Message(kind, t)) =>
                    /\ ExpireQueued => ExpireQueued'
                    /\ kind = "expire" /\ t = None => ExpireQueued'
           /\ msgQ # <<>> /\ msgQ' = Tail(msgQ) /\ Head(msgQ).kind # "expire" =>
                (ExpireQueued => ExpireQueued')
<1>1. QueueOK
  BY DEF IInv
<1>2. ASSUME NEW kind \in {"push", "remove", "expire"}, NEW t \in Nat,
             msgQ' = Append(msgQ, Message(kind, t))
      PROVE  /\ ExpireQueued => ExpireQueued'
             /\ kind = "expire" /\ t = None => ExpireQueued'
  <2>1. places(msgQ', "expire", None) = places(msgQ, "expire", None) \cup
            (IF Message(kind, t) = Message("expire", None) THEN {Len(msgQ) + 1} ELSE {})
    BY <1>1, <1>2, QueuedAppend
  <2> QED
    BY <2>1 DEF ExpireQueued
<1>3. ASSUME msgQ # <<>>, msgQ' = Tail(msgQ), Head(msgQ).kind # "expire", ExpireQueued
      PROVE  ExpireQueued'
  <2>1. Head(msgQ) # Message("expire", None)
    BY <1>3 DEF Message
  <2>2. PICK i \in places(msgQ, "expire", None) : TRUE
    BY <1>3 DEF ExpireQueued
  <2>3. i # 1 => i - 1 \in places(msgQ', "expire", None)
    BY <1>1, <1>3, QueuedTail
  <2>4. 1 \notin places(msgQ, "expire", None)
    BY <1>1, <1>3, <2>1, QueuedTail
  <2> QED
    BY <2>2, <2>3, <2>4 DEF ExpireQueued
<1> QED
  BY <1>2, <1>3

(* PendingIsArmed, with its disjuncts named. *)
LEMMA PendingAlternatives ==
    /\ PendingIsArmed <=> \/ heap = {} \/ (polled /\ armed = due(top))
                          \/ poll # "waiting" \/ task.pc # "idle" \/ ExpireQueued
    /\ PendingIsArmed' <=> \/ heap' = {} \/ (polled' /\ armed' = timers'[top'].due)
                           \/ poll' # "waiting" \/ task'.pc # "idle" \/ ExpireQueued'
BY DEF PendingIsArmed, ExpireQueued, queued, places, due

(* A top chosen among the soonest of what the heap is left with. *)
LEMMA NewTopOK ==
    ASSUME TimersOK, heap' \subseteq Timer, top' \in newTop(heap'),
           \A t \in Timer : timers'[t].due = timers[t].due
    PROVE  TopOK'
<1>1. TopOK' <=> IF heap' = {} THEN top' = None
                 ELSE top' \in heap' /\ \A t \in heap' : ~(timers'[t].due < timers'[top'].due)
  BY DEF TopOK, Soonest, outRanks, due
<1>2. IF heap' = {} THEN top' = None
      ELSE top' \in heap' /\ \A t \in heap' : ~(timers[t].due < timers[top'].due)
  BY DEF newTop, Soonest, outRanks, due
<1> QED
  BY <1>1, <1>2

(* The heap left alone: the top is still one of the soonest. *)
LEMMA SameTop ==
    ASSUME IInv, TopOK, heap' = heap, top' = top,
           \A t \in Timer : timers'[t].due = timers[t].due
    PROVE  TopOK' /\ (top # None => timers'[top].due = due(top))
<1>1. heap \subseteq Timer /\ top \in heap \cup {None}
  BY DEF IInv, HeapOK
<1>2. TopOK' <=> IF heap' = {} THEN top' = None
                 ELSE top' \in heap' /\ \A t \in heap' : ~(timers'[t].due < timers'[top'].due)
  BY DEF TopOK, Soonest, outRanks, due
<1>3. IF heap = {} THEN top = None
      ELSE top \in heap /\ \A t \in heap : ~(timers[t].due < timers[top].due)
  BY DEF TopOK, Soonest, outRanks, due
<1> QED
  BY <1>1, <1>2, <1>3 DEF due

(* Steps of the clients: the MsgTask, the heap and the timerfd are left alone. *)
LEMMA ClientWake ==
    ASSUME IInv, IInv', WakeOK, UNCHANGED <<heap, top, task, poll, polled, armed>>,
           \A t \in Timer : timers'[t].due = timers[t].due,
           ExpireQueued => ExpireQueued'
    PROVE  TopOK' /\ CallsOK' /\ PendingIsArmed'
<1>1. TopOK' /\ (top # None => timers'[top].due = due(top))
  BY SameTop DEF WakeOK
<1>2. CallsOK'
  BY <1>1 DEF WakeOK, CallsOK, due
<1>3. PendingIsArmed'
  <2>1. heap # {} => top # None
    BY DEF WakeOK, TopOK, IInv, HeapOK, Timer, None, Soonest
  <2> QED
    BY <1>1, <2>1, PendingAlternatives DEF WakeOK
<1> QED
  BY <1>1, <1>2, <1>3

(* updateSoonestTime() starts the system calls for the top as it is now. *)
LEMMA UpdateWake ==
    ASSUME TopOK', HeapOK', Timer' = Timer, NEW p, updateSoonestTime(p),
           \A t \in Timer : timers'[t].due = timers[t].due
    PROVE  /\ CallsOK'
           /\ mustUpdate(p) => PendingIsArmed'
           /\ p = None => PendingIsArmed'
<1>1. top' # None => timers'[top'].due = due(top')
  BY DEF HeapOK, due
<1>2. CASE mustUpdate(p)
  <2>1. task' = [pc |-> "poll", timer |-> None, client |-> NoClient,
                 time |-> IF top' = None THEN None ELSE due(top')]
    BY <1>2 DEF updateSoonestTime, Idle
  <2>2. CallsOK'
    BY <1>1, <2>1 DEF CallsOK, due
  <2>3. PendingIsArmed'
    BY <2>1, PendingAlternatives
  <2> QED
    BY <2>2, <2>3
<1>3. CASE ~mustUpdate(p)
  <2>1. task' = Idle
    BY <1>3 DEF updateSoonestTime
  <2>2. CallsOK'
    BY <2>1 DEF CallsOK, Idle
  <2>3. p = None => top' = None
    BY <1>3 DEF mustUpdate
  <2>4. top' = None => heap' = {}
    BY DEF TopOK, HeapOK, Soonest, Timer, None
  <2> QED
    BY <1>3, <2>2, <2>3, <2>4, PendingAlternatives
<1> QED
  BY <1>2, <1>3

(* The three messages: unless the top stays, the timerfd will follow it. *)
LEMMA MessageWake ==
    ASSUME IInv, IInv', WakeOK, HandleMessage
    PROVE  TopOK' /\ CallsOK' /\ PendingIsArmed'
<1> DEFINE m == Head(msgQ)
<1>1. /\ msgQ # <<>> /\ msgQ' = Tail(msgQ) /\ TimersOK /\ QueueOK /\ HeapOK /\ HeapOK'
      /\ task.pc = "idle" /\ poll' = poll /\ polled' = polled /\ armed' = armed
  BY DEF HandleMessage, IInv
<1>2. m.kind # "expire" => (ExpireQueued => ExpireQueued')
  BY <1>1, ExpireStays
<1>3. PendingIsArmed /\ TopOK
  BY DEF WakeOK
<1>4. CASE m.kind = "push" /\ handlePush(m.timer)
  <2> DEFINE t == m.timer
  <2>1. timers' = timers /\ Timer' = Timer
    BY <1>4 DEF handlePush, Timer
  <2>2. t \in Timer
    BY <1>1, <1>4, <2>1, TailOK
  <2>3. /\ heap' = heap \cup {t}
        /\ top' = IF top = None \/ due(t) < due(top) THEN t ELSE top
        /\ updateSoonestTime(top)
    BY <1>4 DEF handlePush, push, outRanks
  <2>4. \A s \in Timer : due(s) \in Nat /\ s # None /\ timers'[s].due = due(s)
    BY <1>1, <2>1, TimerTyped DEF due, Instant
  <2> HIDE DEF t
  <2>5. TopOK'
    <3>1. TopOK' <=> IF heap' = {} THEN top' = None
                     ELSE top' \in heap' /\ \A s \in heap' : ~(timers'[s].due < timers'[top'].due)
      BY DEF TopOK, Soonest, outRanks, due
    <3>2. top # None => top \in heap /\ \A s \in heap : ~(due(s) < due(top))
      BY <1>3 DEF TopOK, Soonest, outRanks
    <3>3. top = None => heap = {}
      BY <1>1, <1>3, <2>4 DEF TopOK, Soonest, HeapOK
    <3>4. heap \subseteq Timer
      BY <1>1 DEF HeapOK
    <3>5. CASE top = None
      BY <2>2, <2>3, <2>4, <3>1, <3>3, <3>5
    <3>6. CASE top # None
      <4>1. top \in Timer
        BY <3>2, <3>4, <3>6
      <4>2. ASSUME NEW s \in heap' PROVE ~(due(s) < due(top'))
        <5>1. s \in Timer /\ (s \in heap \/ s = t)
          BY <2>2, <2>3, <3>4, <4>2
        <5>2. due(s) \in Nat /\ due(t) \in Nat /\ due(top) \in Nat
          BY <2>2, <2>4, <4>1, <5>1
        <5>3. s \in heap => ~(due(s) < due(top))
          BY <3>2, <3>6
        <5>4. CASE due(t) < due(top)
          <6>1. top' = t
            BY <2>3, <5>4
          <6> QED
            BY <5>1, <5>2, <5>3, <5>4, <6>1
        <5>5. CASE ~(due(t) < due(top))
          <6>1. top' = top
            BY <2>3, <3>6, <5>5
          <6> QED
            BY <5>1, <5>2, <5>3, <5>5, <6>1
        <5> QED
          BY <5>4, <5>5
      <4>3. top' \in heap' /\ heap' \subseteq Timer
        BY <2>2, <2>3, <3>2, <3>4, <3>6
      <4> QED
        BY <2>4, <3>1, <4>2, <4>3
    <3> QED
      BY <3>5, <3>6
  <2>6. CallsOK' /\ (mustUpdate(top) => PendingIsArmed')
    BY <1>1, <2>1, <2>3, <2>4, <2>5, UpdateWake DEF due
  <2>7. ~mustUpdate(top) => top' = top /\ top # None
    BY <2>2, <2>3, <2>4 DEF mustUpdate, outRanks
  <2>8. ASSUME ~mustUpdate(top) PROVE PendingIsArmed'
    <3>1. heap # {} /\ top \in Timer
      BY <1>1, <1>3, <2>7, <2>8 DEF TopOK, HeapOK
    <3>2. timers'[top'].due = due(top)
      BY <2>4, <2>7, <2>8, <3>1
    <3> QED
      BY <1>1, <1>2, <1>3, <1>4, <3>1, <3>2, PendingAlternatives
  <2> QED
    BY <2>5, <2>6, <2>8
<1>5. CASE m.kind = "remove" /\ handleRemove(m.timer)
  <2> DEFINE t == m.timer
             r == [timers[t] EXCEPT !.deleted = TRUE]
  <2>1. t \in Timer
    BY <1>1, <1>5, TailOK DEF QueueOK, HandleMessage, IInv
  <2>2. timers[t] \in TimerRec /\ t # None
    BY <1>1, <2>1, TimerTyped
  <2>3. r \in TimerRec /\ r.due = timers[t].due
    BY <2>2 DEF TimerRec
  <2>4. timers' = [timers EXCEPT ![t] = r] /\ now' = now
    BY <1>5 DEF handleRemove, HandleMessage
  <2>5. Timer' = Timer /\ \A s \in Timer : timers'[s].due = timers[s].due
    <3> HIDE DEF r, t
    <3> QED
      BY <1>1, <2>1, <2>3, <2>4, RewriteOne
  <2>6. remove(t) /\ IF top = removed(t) THEN updateSoonestTime(None) ELSE task' = Idle
    BY <1>5 DEF handleRemove
  <2> HIDE DEF r, t
  <2>7. CASE t = top
    <3>1. heap' = heap \ {t} /\ top' \in newTop(heap')
      BY <2>6, <2>7 DEF remove
    <3>2. heap' \subseteq Timer
      BY <1>1, <3>1 DEF HeapOK
    <3>3. TopOK'
      BY <1>1, <2>5, <3>1, <3>2, NewTopOK
    <3>4. t \in heap
      BY <1>1, <2>2, <2>7 DEF HeapOK
    <3>5. updateSoonestTime(None)
      BY <2>6, <2>7, <3>4 DEF removed
    <3> QED
      BY <1>1, <2>5, <3>3, <3>5, UpdateWake
  <2>8. CASE t # top
    <3>1. heap' = heap \ {t} /\ top' = top
      BY <2>6, <2>8 DEF remove
    <3>2. TopOK'
      <4>1. TopOK' <=> IF heap' = {} THEN top' = None
                 ELSE top' \in heap' /\ \A s \in heap' : ~(timers'[s].due < timers'[top'].due)
        BY DEF TopOK, Soonest, outRanks, due
      <4>2. IF heap = {} THEN top = None
            ELSE top \in heap /\ \A s \in heap : ~(timers[s].due < timers[top].due)
        BY <1>3 DEF TopOK, Soonest, outRanks, due
      <4>3. heap \subseteq Timer
        BY <1>1 DEF HeapOK
      <4> QED
        BY <2>5, <2>8, <3>1, <4>1, <4>2, <4>3
    <3>3. CASE top = removed(t)
      BY <1>1, <2>5, <2>6, <3>2, <3>3, UpdateWake
    <3>4. CASE top # removed(t)
      <4>1. task' = Idle
        BY <2>6, <3>4
      <4>2. CallsOK'
        BY <4>1 DEF CallsOK, Idle
      <4>3. PendingIsArmed'
        <5>1. heap' # {} => heap # {} /\ top \in Timer /\ timers'[top'].due = due(top)
          BY <1>1, <1>3, <2>5, <3>1 DEF TopOK, Soonest, HeapOK, due
        <5> QED
          BY <1>1, <1>2, <1>3, <1>5, <5>1, PendingAlternatives
      <4> QED
        BY <3>2, <4>2, <4>3
    <3> QED
      BY <3>3, <3>4
  <2> QED
    BY <2>7, <2>8
<1>6. CASE m.kind = "expire" /\ handleExpire
  <2>1. timers' = timers /\ Timer' = Timer
    BY <1>6 DEF handleExpire, Timer
  <2>2. CASE top = None
    <3>1. task' = Idle /\ heap' = heap /\ top' = top
      BY <1>6, <2>2 DEF handleExpire, heapVars
    <3>2. heap = {}
      BY <1>1, <1>3, <2>2 DEF TopOK, Soonest, HeapOK, Timer, None
    <3>3. TopOK'
      BY <2>2, <3>1, <3>2 DEF TopOK
    <3>4. CallsOK'
      BY <3>1 DEF CallsOK, Idle
    <3> QED
      BY <3>1, <3>2, <3>3, <3>4, PendingAlternatives
  <2>3. CASE top # None
    <3>1. /\ heap' = heap \ {top} /\ top' \in newTop(heap')
          /\ task'.pc \in {"next", "stop"}
      BY <1>6, <2>3 DEF handleExpire, pop, expireTimer
    <3>2. TopOK'
      BY <1>1, <2>1, <3>1, NewTopOK DEF HeapOK
    <3>3. CallsOK' /\ PendingIsArmed'
      BY <3>1, PendingAlternatives DEF CallsOK
    <3> QED
      BY <3>2, <3>3
  <2> QED
    BY <2>2, <2>3
<1> QED
  BY <1>4, <1>5, <1>6 DEF HandleMessage

(* After the last expired delegate the timerfd is set for the next one. *)
LEMMA PopWake ==
    ASSUME IInv, IInv', WakeOK, popIfOutRanks
    PROVE  TopOK' /\ CallsOK' /\ PendingIsArmed'
<1>1. /\ timers' = timers /\ Timer' = Timer /\ TimersOK /\ HeapOK /\ HeapOK' /\ TopOK
      /\ \A t \in Timer : timers'[t].due = timers[t].due
  BY DEF IInv, WakeOK, popIfOutRanks, Timer
<1>2. CASE top # None /\ due(top) <= task.time
  <2>1. /\ heap' = heap \ {top} /\ top' \in newTop(heap')
        /\ task'.pc \in {"next", "stop"}
    BY <1>2 DEF popIfOutRanks, pop, expireTimer
  <2>2. TopOK'
    BY <1>1, <2>1, NewTopOK DEF HeapOK
  <2> QED
    BY <2>1, <2>2, PendingAlternatives DEF CallsOK
<1>3. CASE ~(top # None /\ due(top) <= task.time)
  <2>1. heap' = heap /\ top' = top /\ updateSoonestTime(None)
    BY <1>3 DEF popIfOutRanks, heapVars
  <2>2. TopOK'
    BY <1>1, <2>1, SameTop
  <2> QED
    BY <1>1, <2>1, <2>2, UpdateWake
<1> QED
  BY <1>2, <1>3

(* The MsgTask on its way to popIfOutRanks: nothing is owed yet. *)
LEMMA ExpiryWake ==
    ASSUME IInv, IInv', WakeOK, StopExpired \/ timeOutCallback
    PROVE  TopOK' /\ CallsOK' /\ PendingIsArmed'
<1>1. heap' = heap /\ top' = top
  BY DEF StopExpired, timeOutCallback
<1>2. task'.pc \in {"callback", "next"}
  BY DEF StopExpired, timeOutCallback, IInv, TaskOK, TaskRec
<1>3. \A t \in Timer : timers'[t].due = timers[t].due
  <2>1. CASE StopExpired
    <3>1. task.client \in Client /\ now' = now
      BY <2>1 DEF IInv, TaskOK, StopExpired
    <3>2. CASE mTimer[task.client] # None
      <4>1. stopTimer(task.client, "expired")
        BY <2>1, <3>2 DEF StopExpired
      <4> QED
        BY <3>1, <3>2, <4>1, StopStep
    <3>3. CASE mTimer[task.client] = None
      BY <2>1, <3>3 DEF StopExpired
    <3> QED
      BY <3>2, <3>3
  <2>2. CASE timeOutCallback
    <3> DEFINE t == task.timer
               r == [timers[t] EXCEPT !.calls = Append(@, now)]
    <3>1. t \in Timer /\ timers[t] \in TimerRec
      BY <2>2, TimerTyped DEF IInv, TaskOK, timeOutCallback
    <3>2. timers' = [timers EXCEPT ![t] = r] /\ r.due = timers[t].due
      BY <2>2, <3>1 DEF timeOutCallback, TimerRec
    <3>3. timers \in [1..Len(timers) -> TimerRec]
      BY LenProperties DEF IInv, TimersOK
    <3> HIDE DEF r
    <3> QED
      BY <3>1, <3>2, <3>3 DEF Timer
  <2> QED
    BY <2>1, <2>2
<1>4. TopOK'
  BY <1>1, <1>3, SameTop DEF WakeOK
<1> QED
  BY <1>2, <1>4, PendingAlternatives DEF CallsOK

(* The two system calls of the MsgTask, between those of the poll thread. *)
LEMMA SystemCallWake ==
    ASSUME IInv, IInv', WakeOK, SetPoll \/ SetTime
    PROVE  TopOK' /\ CallsOK' /\ PendingIsArmed'
<1>1. /\ heap' = heap /\ top' = top /\ timers' = timers /\ poll' = poll /\ msgQ' = msgQ
      /\ task \in TaskRec /\ (ExpireQueued' <=> ExpireQueued)
  BY DEF SetPoll, SetTime, IInv, TaskOK, ExpireQueued
<1>2. TopOK' /\ (top # None => timers'[top].due = due(top))
  BY <1>1, SameTop DEF WakeOK
<1>3. CASE SetPoll
  <2>1. task'.pc = "settime" /\ task'.time = task.time /\ polled' = (task.time # None)
    BY <1>1, <1>3 DEF SetPoll, TaskRec
  <2>2. CallsOK'
    BY <1>1, <1>2, <1>3, <2>1 DEF WakeOK, CallsOK, SetPoll, due
  <2> QED
    BY <1>2, <2>1, <2>2, PendingAlternatives
<1>4. CASE SetTime
  <2>1. task' = Idle /\ armed' = task.time /\ polled' = polled /\ task.pc = "settime"
    BY <1>4 DEF SetTime
  <2>2. CallsOK'
    BY <2>1 DEF CallsOK, Idle
  <2>3. PendingIsArmed'
    <3>1. heap # {} => top # None /\ due(top) # None
      <4>1. heap # {} => top \in Timer
        BY DEF WakeOK, TopOK, Soonest, IInv, HeapOK
      <4> QED
        BY <4>1, TimerTyped DEF IInv, Instant, None
    <3>2. task.time = IF top = None THEN None ELSE due(top)
      BY <2>1 DEF WakeOK, CallsOK
    <3>3. poll # "waiting" \/ ExpireQueued \/ (polled <=> task.time # None)
      BY <2>1 DEF WakeOK, CallsOK
    <3> QED
      BY <1>1, <1>2, <2>1, <3>1, <3>2, <3>3, PendingAlternatives
  <2> QED
    BY <1>2, <2>2, <2>3
<1> QED
  BY <1>3, <1>4

(* The poll thread, once it has woken up, ends with an expire message; time *)
(* passes for all.                                                          *)
LEMMA PollWake ==
    ASSUME IInv, IInv', WakeOK, PollTask \/ Tick \/ UNCHANGED vars
    PROVE  TopOK' /\ CallsOK' /\ PendingIsArmed'
<1>1. heap' = heap /\ top' = top /\ timers' = timers /\ task' = task
  BY DEF PollTask, EpollWait, Disarm, Leave, Tell, Tick, vars
<1>2. TopOK' /\ (top # None => timers'[top].due = due(top))
  BY <1>1, SameTop DEF WakeOK
<1>3. CASE poll' # "waiting"
  BY <1>1, <1>2, <1>3, PendingAlternatives DEF WakeOK, CallsOK, due
<1>4. CASE Tell
  <2>1. ExpireQueued'
    BY <1>4, ExpireStays DEF Tell, None
  <2> QED
    BY <1>1, <1>2, <2>1, PendingAlternatives DEF WakeOK, CallsOK, due
<1>5. CASE Tick \/ UNCHANGED vars
  <2>1. UNCHANGED <<heap, top, task, poll, polled, armed>> /\ (ExpireQueued => ExpireQueued')
    BY <1>5 DEF Tick, vars, ExpireQueued
  <2> QED
    BY <1>1, <2>1, ClientWake
<1> QED
  BY <1>3, <1>4, <1>5 DEF PollTask, EpollWait, Disarm, Leave

(* The steps that neither end nor delete a delegate, nor queue messages of it. *)
LEMMA OtherRemovals ==
    ASSUME IInv, RemovalsOK,
           timeOutCallback \/ popIfOutRanks \/ SetPoll \/ SetTime \/ PollTask \/ Tick
             \/ UNCHANGED vars
    PROVE  RemovalsOK'
<1> SUFFICES /\ Timer' = Timer /\ heap' \subseteq heap
             /\ \A t \in Timer : /\ timers'[t].end = timers[t].end
                                 /\ timers'[t].deleted = timers[t].deleted
             /\ \A t \in Timer : /\ places(msgQ', "push", t) = places(msgQ, "push", t)
                                 /\ places(msgQ', "remove", t) = places(msgQ, "remove", t)
  BY SameRemovals
<1>1. heap' \subseteq heap
  BY DEF timeOutCallback, popIfOutRanks, pop, heapVars, SetPoll, SetTime, PollTask, EpollWait,
         Disarm, Leave, Tell, Tick, vars
<1>2. CASE timeOutCallback
  <2> DEFINE t == task.timer
             r == [timers[t] EXCEPT !.calls = Append(@, now)]
  <2>1. t \in Timer /\ timers[t] \in TimerRec
    BY <1>2, TimerTyped DEF IInv, TaskOK, timeOutCallback
  <2>2. timers' = [timers EXCEPT ![t] = r] /\ r.end = timers[t].end /\ r.deleted = timers[t].deleted
    BY <1>2, <2>1 DEF timeOutCallback, TimerRec
  <2>3. timers \in [1..Len(timers) -> TimerRec] /\ Len(timers) \in Nat
    BY LenProperties DEF IInv, TimersOK
  <2>4. Timer' = Timer
    <3>1. now \in Instant /\ timers[t].calls \in Seq(Instant) /\ timers \in Seq(TimerRec)
      BY <2>1 DEF IInv, TimersOK, TimerRec
    <3>2. Append(timers[t].calls, now) \in Seq(Instant)
      BY <3>1, AppendProperties
    <3>3. r \in TimerRec
      BY <2>1, <3>2 DEF TimerRec
    <3> HIDE DEF r, t
    <3> QED
      BY <2>1, <2>2, <3>1, <3>3, ExceptSeq DEF Timer
  <2>5. msgQ' = msgQ
    BY <1>2 DEF timeOutCallback
  <2> HIDE DEF r, t
  <2> QED
    BY <1>1, <2>1, <2>2, <2>3, <2>4, <2>5 DEF Timer
<1>3. CASE popIfOutRanks \/ SetPoll \/ SetTime \/ EpollWait \/ Disarm \/ Leave \/ Tick
             \/ UNCHANGED vars
  <2>1. timers' = timers /\ msgQ' = msgQ /\ Timer' = Timer
    BY <1>3 DEF popIfOutRanks, SetPoll, SetTime, EpollWait, Disarm, Leave, Tick, vars, Timer
  <2> QED
    BY <1>1, <2>1
<1>4. CASE Tell
  <2>1. timers' = timers /\ Timer' = Timer /\ msgQ' = Append(msgQ, Message("expire", None))
    BY <1>4 DEF Tell, Timer
  <2>2. ASSUME NEW t, NEW k \in {"push", "remove"}
        PROVE  places(msgQ', k, t) = places(msgQ, k, t)
    <3>1. places(msgQ', k, t) = places(msgQ, k, t) \cup
              (IF Message("expire", None) = Message(k, t) THEN {Len(msgQ) + 1} ELSE {})
      BY <2>1, QueuedAppend DEF IInv, None
    <3>2. Message("expire", None) # Message(k, t)
      BY MessageEqual
    <3> QED
      BY <3>1, <3>2
  <2> QED
    BY <1>1, <2>1, <2>2
<1> QED
  BY <1>2, <1>3, <1>4 DEF PollTask

(* stop() by a client or by the MsgTask. *)
LEMMA StopsRemovals ==
    ASSUME IInv, RemovalsOK, StopExpired \/ \E c \in Client : stop(c)
    PROVE  RemovalsOK'
<1>1. CASE StopExpired
  <2>1. task.client \in Client /\ now' = now /\ heap' = heap
    BY <1>1 DEF IInv, TaskOK, StopExpired
  <2>2. CASE mTimer[task.client] # None
    BY <1>1, <2>1, <2>2, StopRemovals DEF StopExpired
  <2>3. CASE mTimer[task.client] = None
    <3>1. timers' = timers /\ msgQ' = msgQ /\ Timer' = Timer
      BY <1>1, <2>3 DEF StopExpired, Timer
    <3> QED
      BY <2>1, <3>1, SameRemovals
  <2> QED
    BY <2>2, <2>3
<1>2. ASSUME NEW c \in Client, stop(c) PROVE RemovalsOK'
  BY <1>2, StopRemovals DEF stop
<1> QED
  BY <1>1, <1>2

(* A client's start() and stop(): a message more, no expire message less. *)
LEMMA ClientStepWake ==
    ASSUME IInv, IInv', WakeOK, Clients
    PROVE  TopOK' /\ CallsOK' /\ PendingIsArmed'
<1>1. ASSUME NEW c \in Client, stop(c)
      PROVE  TopOK' /\ CallsOK' /\ PendingIsArmed'
  <2>1. mTimer[c] # None /\ stopTimer(c, "stopped") /\ now' = now
    BY <1>1 DEF stop
  <2>2. \A t \in Timer : timers'[t].due = timers[t].due
    BY <2>1, StopStep
  <2>3. msgQ' = Append(msgQ, Message("remove", mTimer[c])) /\ mTimer[c] \in Nat
    BY <2>1 DEF stopTimer, IInv, RunningOK
  <2>4. ExpireQueued => ExpireQueued'
    BY <2>3, ExpireStays
  <2> QED
    BY <1>1, <2>2, <2>4, ClientWake DEF stop
<1>2. ASSUME NEW c \in Client, NEW d \in Delay, start(c, d)
      PROVE  TopOK' /\ CallsOK' /\ PendingIsArmed'
  <2> DEFINE r == [client |-> c, due |-> now + d, end |-> "running",
                   deleted |-> FALSE, calls |-> <<>>]
  <2>1. <<>> \in Seq(Instant) /\ now + d \in Instant
    BY <1>2, EmptySeq DEF IInv, TimersOK, Instant, start
  <2>2. r \in TimerRec
    BY <2>1 DEF TimerRec
  <2>3. timers' = Append(timers, r) /\ timers \in Seq(TimerRec)
    BY <1>2 DEF start, IInv, TimersOK
  <2>4. msgQ' = Append(msgQ, Message("push", Len(timers')))
    BY <1>2 DEF start
  <2> HIDE DEF r
  <2>5. Len(timers') \in Nat /\ \A t \in Timer : timers'[t] = timers[t]
    BY <2>2, <2>3, AppendProperties, LenProperties DEF Timer
  <2>6. ExpireQueued => ExpireQueued'
    BY <2>4, <2>5, ExpireStays
  <2> QED
    BY <1>2, <2>5, <2>6, ClientWake DEF start
<1> QED
  BY <1>1, <1>2 DEF Clients

(* Counting: a delegate that has ended has one removal, queued or handled. *)
LEMMA CountedOnce ==
    ASSUME QueueOK, RemovalsOK
    PROVE  DeletedOnce
<1> SUFFICES ASSUME NEW t \in Timer
             PROVE  Cardinality(queued("remove", t)) + (IF timers[t].deleted THEN 1 ELSE 0)
                        = IF timers[t].end = "running" THEN 0 ELSE 1
  BY DEF DeletedOnce
<1>1. queued("remove", t) = places(msgQ, "remove", t)
  BY DEF queued, places
<1>2. CASE places(msgQ, "remove", t) = {}
  <2>1. Cardinality(queued("remove", t)) = 0
    BY <1>1, <1>2, FS_EmptySet
  <2> QED
    BY <1>2, <2>1 DEF RemovalsOK, EndedIsRemoved
<1>3. ASSUME NEW i \in places(msgQ, "remove", t)
      PROVE  Cardinality(queued("remove", t)) + (IF timers[t].deleted THEN 1 ELSE 0)
                        = IF timers[t].end = "running" THEN 0 ELSE 1
  <2>1. queued("remove", t) = {i}
    BY <1>1, <1>3 DEF RemovalsOK, RemoveIsLast
  <2>2. Cardinality(queued("remove", t)) = 1
    BY <2>1, FS_Singleton
  <2> QED
    BY <1>3, <2>2 DEF RemovalsOK, EndedIsRemoved
<1> QED
  BY <1>2, <1>3

(* TypeOK says in one formula what the parts of IInv say. *)
LEMMA Typed ==
    ASSUME IInv, FdOK
    PROVE  TypeOK
<1>1. now \in 1..MaxTime /\ heap \subseteq Timer
  BY DEF IInv, TimersOK, Instant, HeapOK
<1>2. timers \in Seq([client : Client, due : 1..MaxTime,
                      end : {"running", "stopped", "expired"}, deleted : BOOLEAN,
                      calls : Seq(1..MaxTime)])
  BY DEF IInv, TimersOK, TimerRec, Instant
<1>3. mTimer \in [Client -> Timer \cup {None}]
  BY DEF IInv, RunningOK
<1>4. \A t \in Timer : timers[t].end = "running" <=> mTimer[timers[t].client] = t
  <2>1. \A t \in Timer : timers[t].client \in Client /\ t # None
    BY TimerTyped DEF IInv
  <2> QED
    BY <2>1 DEF IInv, RunningOK
<1>5. msgQ \in Seq([kind : {"push", "remove"}, timer : Timer]
                   \cup [kind : {"expire"}, timer : {None}])
  <2> DEFINE M == [kind : {"push", "remove"}, timer : Timer] \cup [kind : {"expire"}, timer : {None}]
  <2>1. msgQ \in [1..Len(msgQ) -> MessageRec] /\ Len(msgQ) \in Nat
    BY LenProperties DEF IInv, QueueOK
  <2>2. ASSUME NEW i \in 1..Len(msgQ) PROVE msgQ[i] \in M
    <3>1. msgQ[i] \in MessageRec
      BY <2>1
    <3>2. IF msgQ[i].kind = "expire" THEN msgQ[i].timer = None ELSE msgQ[i].timer \in Timer
      BY DEF IInv, QueueOK
    <3> QED
      BY <3>1, <3>2 DEF MessageRec
  <2> HIDE DEF M
  <2>3. msgQ \in [1..Len(msgQ) -> M]
    BY <2>1, <2>2
  <2>4. msgQ \in Seq(M)
    BY <2>1, <2>3, SeqDef
  <2> QED
    BY <2>4 DEF M
<1>6. /\ task.pc \in {"idle", "next", "stop", "callback", "poll", "settime"}
      /\ task.timer \in Timer \cup {None}
      /\ task.client \in Client \cup {NoClient}
      /\ task.time \in 0..MaxTime
  BY DEF IInv, TaskOK, TaskRec
<1>7. /\ poll \in {"waiting", "disarming", "leaving", "telling"}
      /\ polled \in BOOLEAN
      /\ armed \in 0..MaxTime
  BY DEF FdOK
<1> QED
  BY <1>1, <1>2, <1>3, <1>4, <1>5, <1>6, <1>7 DEF TypeOK

(***************************************************************************)
(* The heap holds live delegates only and has a soonest on top, "all timers*)
(* are deleted here, and only here" (LocTimer.cpp:352) and once, and no    *)
(* wake-up is lost between the system calls of the two threads.            *)
(***************************************************************************)
THEOREM LocTimerTimersAreKept == Spec => []TimersAreKept
<1> DEFINE Kept == IInv /\ RemovalsOK /\ WakeOK
<1>1. Init => Kept
  <2> SUFFICES ASSUME Init PROVE Kept
    OBVIOUS
  <2>1. RemovalsOK
    BY DEF Init, RemovalsOK, RemoveIsLast, EndedIsRemoved, DeletedIsOut, Timer
  <2>2. FdOK /\ TopOK
    <3>1. armed = 0 /\ MaxTime \in Nat
      BY DEF Init, None
    <3>2. armed \in 0..MaxTime
      BY <3>1
    <3> QED
      BY <3>2 DEF Init, FdOK, TopOK
  <2>3. CallsOK
    BY DEF Init, CallsOK, Idle
  <2>4. PendingIsArmed
    BY DEF Init, PendingIsArmed
  <2> QED
    BY <2>1, <2>2, <2>3, <2>4, InitInv DEF WakeOK
<1>2. Kept /\ [Next]_vars => Kept'
  <2> SUFFICES ASSUME IInv, RemovalsOK, WakeOK, [Next]_vars
               PROVE  IInv' /\ RemovalsOK' /\ WakeOK'
    OBVIOUS
  <2>1. FdOK'
    BY FdStep DEF WakeOK
  <2>2. CASE Clients
    <3>1. IInv'
      BY <2>2, StartStep, ClientStopStep DEF Clients
    <3>2. RemovalsOK'
      BY <2>2, <3>1, StartRemovals, StopsRemovals DEF Clients
    <3> QED
      BY <2>1, <2>2, <3>1, <3>2, ClientStepWake DEF WakeOK
  <2>3. CASE MsgTask
    <3>1. IInv'
      BY <2>3, MessageStep, StopExpiredStep, CallbackStep, PopStep, OtherSteps DEF MsgTask
    <3>2. RemovalsOK'
      BY <2>3, MessageRemovals, StopsRemovals, OtherRemovals DEF MsgTask
    <3>3. TopOK' /\ CallsOK' /\ PendingIsArmed'
      BY <2>3, <3>1, MessageWake, ExpiryWake, PopWake, SystemCallWake DEF MsgTask
    <3> QED
      BY <2>1, <3>1, <3>2, <3>3 DEF WakeOK
  <2>4. CASE PollTask \/ Tick \/ UNCHANGED vars
    <3>1. IInv'
      BY <2>4, OtherSteps
    <3>2. RemovalsOK'
      BY <2>4, OtherRemovals
    <3>3. TopOK' /\ CallsOK' /\ PendingIsArmed'
      BY <2>4, <3>1, PollWake
    <3> QED
      BY <2>1, <3>1, <3>2, <3>3 DEF WakeOK
  <2> QED
    BY <2>2, <2>3, <2>4 DEF Next
<1>3. Kept => TimersAreKept
  <2> SUFFICES ASSUME IInv, RemovalsOK, WakeOK PROVE TimersAreKept
    OBVIOUS
  <2>1. TypeOK
    BY Typed DEF WakeOK
  <2>2. DeletedOnce
    BY CountedOnce DEF IInv
  <2>3. HeapIsLive
    <3>1. \A t \in Timer : queued("push", t) = places(msgQ, "push", t)
      BY DEF queued, places
    <3> QED
      BY <3>1 DEF WakeOK, TopOK, RemovalsOK, DeletedIsOut, HeapIsLive
  <2> QED
    BY <2>1, <2>2, <2>3 DEF WakeOK, TimersAreKept
<1> HIDE DEF Kept
<1> QED
  BY <1>1, <1>2, <1>3, PTL DEF Spec
=============================================================================
