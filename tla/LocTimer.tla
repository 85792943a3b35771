------------------------------ MODULE LocTimer ------------------------------
(***************************************************************************)
(* The timer service (gps/utils/LocTimer.cpp) over the heap of LocHeap.cpp.*)
(*                                                                         *)
(* Three kinds of threads share it.  Clients start and stop their LocTimer,*)
(* under its mLock; a start makes a LocTimerDelegate (a number here), which*)
(* a message takes to the heap.  The MsgTask thread alone touches the heap;*)
(* it arms the timerfd for the soonest timer.  The poll thread waits for   *)
(* the timerfd and tells the MsgTask to expire timers.  The timerfd and the*)
(* epoll set are written by both threads, one system call at a time, so    *)
(* each call is a step.                                                    *)
(*                                                                         *)
(* Abstracted: time is a counter; the heap is its set of timers with the   *)
(* one on top, any of the soonest when several are; one of the two         *)
(* containers (they share the threads, not the heap or the timerfd); a     *)
(* client lives as long as the process, as those in this repository do.    *)
(***************************************************************************)
EXTENDS Naturals, Sequences, FiniteSets

CONSTANTS
    Client,       \* the LocTimer objects
    Delay,        \* what start() is called with
    MaxStarts,    \* bound: starts in all
    MaxTime,      \* bound: the last instant
    NoClient      \* NULL

ASSUME LocTimerAssumption ==
    /\ Delay \subseteq Nat
    /\ MaxStarts \in Nat
    /\ MaxTime \in Nat \ {0}
    /\ NoClient \notin Client

None == 0        \* no timer; as a time: the timerfd is disarmed

VARIABLES
    now,
    timers,      \* the delegates in order of creation
    mTimer,      \* client -> its running delegate, or None
    heap, top,   \* the delegates in the heap, and the one peek() returns
    msgQ,        \* of the MsgTask
    task,        \* where the MsgTask is in the message it handles
    poll,        \* where the poll thread is
    polled,      \* the timerfd is in the epoll set
    armed        \* the time the timerfd is set to, or None

heapVars == <<heap, top>>
fd == <<polled, armed>>
vars == <<now, timers, mTimer, heap, top, msgQ, task, poll, polled, armed>>

Timer == 1..Len(timers)
due(t) == timers[t].due

\* destroyLocked() clears mClient, whoever called stop().
mClient(t) == IF timers[t].end = "running" THEN timers[t].client ELSE NoClient

Idle == [pc |-> "idle", timer |-> None, client |-> NoClient, time |-> None]

Init ==
    /\ now = 1
    /\ timers = <<>> /\ msgQ = <<>>
    /\ mTimer = [c \in Client |-> None]
    /\ heap = {} /\ top = None
    /\ task = Idle /\ poll = "waiting"
    /\ polled = FALSE /\ armed = None

Message(kind, t) == [kind |-> kind, timer |-> t]

-----------------------------------------------------------------------------
(***************************************************************************)
(* LocTimer: a client's thread, or the MsgTask when the timer expires.     *)
(***************************************************************************)

start(c, d) ==
    /\ Len(timers) < MaxStarts /\ now + d <= MaxTime
    /\ mTimer[c] = None
    /\ timers' = Append(timers, [client |-> c, due |-> now + d, end |-> "running",
                                 deleted |-> FALSE, calls |-> <<>>])
    /\ mTimer' = [mTimer EXCEPT ![c] = Len(timers')]
    /\ msgQ' = Append(msgQ, Message("push", Len(timers')))
    /\ UNCHANGED <<now, heap, top, task, poll, polled, armed>>

\* Mutant: the delegate stays the client's.
StopKeepsTimer(c, end) ==
    /\ timers' = [timers EXCEPT ![mTimer[c]].end = end]
    /\ msgQ' = Append(msgQ, Message("remove", mTimer[c]))
    /\ UNCHANGED mTimer

\* LocTimer::stop() of a running timer; end says who stopped it.
stopTimer(c, end) ==
    /\ timers' = [timers EXCEPT ![mTimer[c]].end = end]
    /\ mTimer' = [mTimer EXCEPT ![c] = None]
    /\ msgQ' = Append(msgQ, Message("remove", mTimer[c]))

stop(c) ==
    /\ mTimer[c] # None
    /\ stopTimer(c, "stopped")
    /\ UNCHANGED <<now, heap, top, task, poll, polled, armed>>

-----------------------------------------------------------------------------
(***************************************************************************)
(* LocHeap: what its operations do to the set of timers and the top.       *)
(***************************************************************************)
outRanks(s, t) == due(s) < due(t)
Soonest(S) == {s \in S : \A t \in S : ~outRanks(t, s)}

newTop(S) == IF S = {} THEN {None} ELSE Soonest(S)

push(t) ==
    /\ heap' = heap \cup {t}
    /\ top' = IF top = None \/ outRanks(t, top) THEN t ELSE top

pop ==
    /\ heap' = heap \ {top}
    /\ top' \in newTop(heap')

\* Mutant: only the top is ever found.
RemoveTop(t) == IF t = top THEN pop ELSE UNCHANGED heapVars

remove(t) ==
    /\ heap' = heap \ {t}
    /\ IF t = top THEN top' \in newTop(heap') ELSE UNCHANGED top

-----------------------------------------------------------------------------
(***************************************************************************)
(* LocTimerContainer: the messages, handled by the MsgTask thread.         *)
(***************************************************************************)

\* Mutant: a sooner timer does not move the timerfd forward.
UpdateFirstOnly(priorTop) == top' # priorTop /\ None \in {top', priorTop}

\* The top has changed in a way the timerfd has to follow.
mustUpdate(priorTop) ==
    /\ top' # priorTop
    /\ \/ None \in {top', priorTop}
       \/ outRanks(top', priorTop)

\* The two system calls are SetPoll and SetTime, below.
updateSoonestTime(priorTop) ==
    task' = IF mustUpdate(priorTop)
            THEN [Idle EXCEPT !.pc = "poll", !.time = IF top' = None THEN None ELSE due(top')]
            ELSE Idle

handlePush(t) ==
    /\ push(t)
    /\ updateSoonestTime(top)
    /\ UNCHANGED <<timers, mTimer>>

\* What LocHeap::remove() returns: NULL if the timer has left the heap before.
removed(t) == IF t \in heap THEN t ELSE None

handleRemove(t) ==
    /\ remove(t)
    /\ IF top = removed(t) THEN updateSoonestTime(None) ELSE task' = Idle
    /\ timers' = [timers EXCEPT ![t].deleted = TRUE]
    /\ UNCHANGED mTimer

\* LocTimerDelegate::expire() of a timer just popped reads mClient, unlocked.
expireTimer(t, time) ==
    task' = [timer |-> t, client |-> mClient(t), time |-> time,
             pc |-> IF mClient(t) = NoClient THEN "next" ELSE "stop"]

\* The first pop takes the top whatever its time.
handleExpire ==
    /\ IF top = None
       THEN task' = Idle /\ UNCHANGED heapVars
       ELSE pop /\ expireTimer(top, now)
    /\ UNCHANGED <<timers, mTimer>>

HandleMessage ==
    /\ task.pc = "idle" /\ msgQ # <<>>
    /\ LET m == Head(msgQ) IN
       \/ m.kind = "push" /\ handlePush(m.timer)
       \/ m.kind = "remove" /\ handleRemove(m.timer)
       \/ m.kind = "expire" /\ handleExpire
    /\ msgQ' = Tail(msgQ)
    /\ UNCHANGED <<now, poll, polled, armed>>

\* Mutant: the callback whatever stop() returned.
CallbackAnyway ==
    /\ task.pc = "stop"
    /\ task' = [task EXCEPT !.pc = "callback"]
    /\ IF mTimer[task.client] # None
       THEN stopTimer(task.client, "expired")
       ELSE UNCHANGED <<timers, mTimer, msgQ>>
    /\ UNCHANGED <<now, heap, top, poll, polled, armed>>

\* client->stop(), then the callback only if it was this stop that stopped it.
StopExpired ==
    /\ task.pc = "stop"
    /\ IF mTimer[task.client] # None
       THEN /\ stopTimer(task.client, "expired")
            /\ task' = [task EXCEPT !.pc = "callback", !.timer = mTimer[task.client]]
       ELSE /\ task' = [task EXCEPT !.pc = "next"]
            /\ UNCHANGED <<timers, mTimer, msgQ>>
    /\ UNCHANGED <<now, heap, top, poll, polled, armed>>

timeOutCallback ==
    /\ task.pc = "callback"
    /\ timers' = [timers EXCEPT ![task.timer].calls = Append(@, now)]
    /\ task' = [task EXCEPT !.pc = "next"]
    /\ UNCHANGED <<now, mTimer, heap, top, msgQ, poll, polled, armed>>

\* Mutant: after the last expired timer the timerfd is left alone.
ExpireForgets ==
    /\ task.pc = "next"
    /\ IF top # None /\ due(top) <= task.time
       THEN pop /\ expireTimer(top, task.time)
       ELSE UNCHANGED heapVars /\ task' = Idle
    /\ UNCHANGED <<now, timers, mTimer, msgQ, poll, polled, armed>>

popIfOutRanks ==
    /\ task.pc = "next"
    /\ IF top # None /\ due(top) <= task.time
       THEN pop /\ expireTimer(top, task.time)
       ELSE UNCHANGED heapVars /\ updateSoonestTime(None)
    /\ UNCHANGED <<now, timers, mTimer, msgQ, poll, polled, armed>>

\* addPoll() or removePoll(): epoll_ctl, which fails on a fd already there.
SetPoll ==
    /\ task.pc = "poll"
    /\ polled' = (task.time # None)
    /\ task' = [task EXCEPT !.pc = "settime"]
    /\ UNCHANGED <<now, timers, mTimer, heap, top, msgQ, poll, armed>>

SetTime ==
    /\ task.pc = "settime"
    /\ armed' = task.time
    /\ task' = Idle
    /\ UNCHANGED <<now, timers, mTimer, heap, top, msgQ, poll, polled>>

MsgTask == HandleMessage \/ StopExpired \/ timeOutCallback \/ popIfOutRanks
           \/ SetPoll \/ SetTime

-----------------------------------------------------------------------------
(***************************************************************************)
(* LocTimerPollTask: the poll thread.                                      *)
(***************************************************************************)

\* Nothing reads the timerfd: it stays readable until it is set again.
readable == armed # None /\ armed <= now

EpollWait ==
    /\ poll = "waiting" /\ polled /\ readable
    /\ poll' = "disarming"
    /\ UNCHANGED <<now, timers, mTimer, heap, top, msgQ, task, polled, armed>>

\* LocTimerContainer::expire(): disarm, leave the epoll set, tell the MsgTask.
Disarm ==
    /\ poll = "disarming"
    /\ poll' = "leaving"
    /\ armed' = None
    /\ UNCHANGED <<now, timers, mTimer, heap, top, msgQ, task, polled>>

Leave ==
    /\ poll = "leaving"
    /\ poll' = "telling"
    /\ polled' = FALSE
    /\ UNCHANGED <<now, timers, mTimer, heap, top, msgQ, task, armed>>

Tell ==
    /\ poll = "telling"
    /\ poll' = "waiting"
    /\ msgQ' = Append(msgQ, Message("expire", None))
    /\ UNCHANGED <<now, timers, mTimer, heap, top, task, polled, armed>>

PollTask == EpollWait \/ Disarm \/ Leave \/ Tell

Tick ==
    /\ now < MaxTime
    /\ now' = now + 1
    /\ UNCHANGED <<timers, mTimer, heap, top, msgQ, task, poll, polled, armed>>

Clients == \E c \in Client : stop(c) \/ \E d \in Delay : start(c, d)

Next == Clients \/ MsgTask \/ PollTask \/ Tick

Spec == Init /\ [][Next]_vars

\* Both threads are scheduled and time passes; clients owe nothing.
FairSpec == Spec /\ WF_vars(MsgTask) /\ WF_vars(PollTask) /\ WF_vars(Tick)
-----------------------------------------------------------------------------
(***************************************************************************)
(* Properties.                                                             *)
(***************************************************************************)

\* The type invariant; a client's mTimer is its only running delegate.
TypeOK ==
    /\ now \in 1..MaxTime
    /\ timers \in Seq([client : Client, due : 1..MaxTime,
                       end : {"running", "stopped", "expired"}, deleted : BOOLEAN,
                       calls : Seq(1..MaxTime)])
    /\ mTimer \in [Client -> Timer \cup {None}]
    /\ \A t \in Timer : timers[t].end = "running" <=> mTimer[timers[t].client] = t
    /\ heap \subseteq Timer
    /\ msgQ \in Seq([kind : {"push", "remove"}, timer : Timer]
                    \cup [kind : {"expire"}, timer : {None}])
    /\ task.pc \in {"idle", "next", "stop", "callback", "poll", "settime"}
    /\ task.timer \in Timer \cup {None}
    /\ task.client \in Client \cup {NoClient}
    /\ task.time \in 0..MaxTime
    /\ poll \in {"waiting", "disarming", "leaving", "telling"}
    /\ polled \in BOOLEAN
    /\ armed \in 0..MaxTime

queued(kind, t) == {i \in 1..Len(msgQ) : msgQ[i] = Message(kind, t)}

\* The heap never holds, and no message adds to it, a delegate that
\* MsgTimerRemove has deleted, and its top is a soonest one (LocHeap.h: a parent
\* always ranks higher than its children).
HeapIsLive ==
    /\ IF heap = {} THEN top = None ELSE top \in Soonest(heap)
    /\ \A t \in Timer : timers[t].deleted => t \notin heap /\ queued("push", t) = {}

\* "All timers are deleted here, and only here": a delegate that was stopped has
\* exactly one MsgTimerRemove, queued or handled, and a running one has none.
DeletedOnce ==
    \A t \in Timer :
        Cardinality(queued("remove", t)) + (IF timers[t].deleted THEN 1 ELSE 0)
            = IF timers[t].end = "running" THEN 0 ELSE 1

\* A start is called back at most once, and only if no client stopped it: of
\* stop() and expire() one wins, under mLock.
StopOrCallback ==
    \A t \in Timer :
        timers[t].calls # <<>> => timers[t].end = "expired" /\ Len(timers[t].calls) = 1

\* No wake-up is lost: while timers wait in the heap, the timerfd is in the epoll
\* set and set to the soonest, or a thread is about to see to it.
PendingIsArmed ==
    \/ heap = {}
    \/ polled /\ armed = due(top)
    \/ poll # "waiting"
    \/ task.pc # "idle"
    \/ queued("expire", None) # {}

\* The heap holds live timers only, each is deleted once, and no wake-up is lost
\* (LocTimerContainer and LocTimerPollTask).
TimersAreKept == TypeOK /\ HeapIsLive /\ DeletedOnce /\ PendingIsArmed

\* Every timer started is stopped or called back, and its delegate deleted.
EveryTimerEnds ==
    \A t \in 1..MaxStarts :
        t \in Timer ~> /\ t \in Timer /\ timers[t].deleted
                       /\ timers[t].end = "stopped" \/ timers[t].calls # <<>>

\* expire() pops timers "until the top node's timeout is in the future"
\* (LocTimer.cpp:357): no start is called back before its time.
NeverEarly ==
    \A t \in Timer : \A i \in 1..Len(timers[t].calls) : timers[t].calls[i] >= due(t)
=============================================================================
