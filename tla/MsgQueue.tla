------------------------------ MODULE MsgQueue ------------------------------
(***************************************************************************)
(* A message task: the doubly linked list (gps/utils/linked_list.c), the   *)
(* blocking queue kept in it (msg_q.c), the task whose thread handles the  *)
(* messages (MsgTask.cpp) and the thread's delegate, shared by the thread  *)
(* and its owner (LocThread.cpp).                                          *)
(*                                                                         *)
(* Every msg_q operation holds the queue's mutex, so it is one step; a     *)
(* wait for the condition is a step of its own.  The task ends when        *)
(* destroy is called: by the handler of a message ("kill", as LocKillMsg   *)
(* does through ~LocApiBase) or, with OwnerDestroys, by another thread.    *)
(***************************************************************************)
EXTENDS Integers, Sequences, FiniteSets, Functions, SequencesExt

CONSTANTS
    Sender,
    MaxSent,        \* messages a sender sends
    Joinable,       \* the thread is joined, not detached
    OwnerDestroys

ASSUME MsgQueueAssumption == MaxSent \in Nat /\ {Joinable, OwnerDestroys} \subseteq BOOLEAN

Null == 0
Kill == [from |-> "kill", n |-> 1]
Message == [from : Sender, n : 1 .. MaxSent] \cup {Kill}

VARIABLES
    list,           \* [head, tail, elems], elems: address -> [next, prev, data]
    unblocked,
    task,           \* the MsgTask and its queue: "alive" or "deleted"
    mThread,        \* MsgTask::mThread is not NULL
    delegate,       \* [runnable, joinable, refs, alive]
    worker,         \* where the thread is
    message,        \* the message it handles
    asleep,         \* it waits for the condition
    owner,          \* where destroy is
    sent,           \* what each sender has sent; "kill" sends one
    handled,        \* messages handled, in order
    flushed,        \* messages thrown away
    refused,        \* messages that nobody takes or deletes
    stray           \* objects used after they have been deleted

vars == <<list, unblocked, task, mThread, delegate, worker, message, asleep, owner, sent,
          handled, flushed, refused, stray>>

Init ==
    /\ list = [head |-> Null, tail |-> Null, elems |-> <<>>]
    /\ unblocked = FALSE /\ task = "alive" /\ mThread = TRUE
    /\ delegate = [runnable |-> TRUE, joinable |-> Joinable, refs |-> 2, alive |-> TRUE]
    /\ worker = "loop" /\ message = Kill /\ asleep = FALSE /\ owner = "idle"
    /\ sent = [p \in Sender \cup {"kill"} |-> 0]
    /\ handled = <<>> /\ flushed = {} /\ refused = {} /\ stray = {}

-----------------------------------------------------------------------------
(***************************************************************************)
(* linked_list.c.                                                          *)
(***************************************************************************)
linked_list_empty(l) == l.head = Null

\* The new element becomes the head.
linked_list_add(l, m) ==
    LET a == CHOOSE x \in 1 .. (Cardinality(DOMAIN l.elems) + 1) : x \notin DOMAIN l.elems
        old == l.head
    IN [head |-> a, tail |-> IF old = Null THEN a ELSE l.tail,
        elems |-> [x \in DOMAIN l.elems \cup {a} |->
                      IF x = a THEN [next |-> old, prev |-> Null, data |-> m]
                      ELSE IF x = old THEN [l.elems[x] EXCEPT !.prev = a] ELSE l.elems[x]]]

\* A slip: a search from the head, as linked_list_search does, would take
\* the newest element.
RemoveNewest(l) ==
    LET h == l.head
        n == l.elems[h].next
        rest == Restrict(l.elems, DOMAIN l.elems \ {h})
    IN [head |-> n, tail |-> IF n = Null THEN Null ELSE l.tail,
        elems |-> [x \in DOMAIN rest |->
                      IF x = n THEN [rest[x] EXCEPT !.prev = Null] ELSE rest[x]]]

\* A slip: the new tail still names the element that is freed.
RemoveKeepsNext(l) ==
    LET t == l.tail
        p == l.elems[t].prev
    IN [head |-> l.head, tail |-> p, elems |-> Restrict(l.elems, DOMAIN l.elems \ {t})]

\* The tail is taken.
linked_list_remove(l) ==
    LET t == l.tail
        p == l.elems[t].prev
        rest == Restrict(l.elems, DOMAIN l.elems \ {t})
    IN [head |-> IF p = Null THEN Null ELSE l.head, tail |-> p,
        elems |-> [x \in DOMAIN rest |->
                      IF x = p THEN [rest[x] EXCEPT !.next = Null] ELSE rest[x]]]

Data(l) == {l.elems[a].data : a \in DOMAIN l.elems}

-----------------------------------------------------------------------------
(***************************************************************************)
(* msg_q.c.  A sender's message is put in the queue, or refused and then   *)
(* forgotten: sendMsg does not look at the result.                         *)
(***************************************************************************)
\* A slip: the receiver is not signalled.
NeverWakes == UNCHANGED asleep
wakes == asleep' = FALSE

msg_q_snd(m) ==
    IF unblocked
    THEN refused' = refused \cup {m} /\ UNCHANGED <<list, asleep>>
    ELSE list' = linked_list_add(list, m) /\ wakes /\ UNCHANGED refused

sendMsg(p) ==
    /\ task = "alive"
    /\ sent[p] < (IF p = "kill" THEN 1 ELSE MaxSent)
    /\ p = "kill" => ~OwnerDestroys
    /\ sent' = [sent EXCEPT ![p] = @ + 1]
    /\ msg_q_snd([from |-> p, n |-> sent[p] + 1])
    /\ UNCHANGED <<unblocked, task, mThread, delegate, worker, message, owner, handled,
                   flushed, stray>>

\* The loop of threadMain: mRunnable is read before each run.
Loop ==
    /\ worker = "loop"
    /\ worker' = IF delegate.runnable THEN "receive" ELSE "end"
    /\ UNCHANGED <<list, unblocked, task, mThread, delegate, message, asleep, owner, sent,
                   handled, flushed, refused, stray>>

\* msg_q_rcv; an unblocked queue ends the loop, whatever is in it.
Refuses == unblocked
msg_q_rcv ==
    /\ worker = "receive" /\ ~asleep
    /\ IF Refuses THEN worker' = "end" /\ UNCHANGED <<list, message, asleep>>
       ELSE IF linked_list_empty(list)
       THEN asleep' = TRUE /\ worker' = "waiting" /\ UNCHANGED <<list, message>>
       ELSE /\ message' = list.elems[list.tail].data
            /\ list' = linked_list_remove(list)
            /\ worker' = "proc"
            /\ UNCHANGED asleep
    /\ UNCHANGED <<unblocked, task, mThread, delegate, owner, sent, handled, flushed, refused,
                   stray>>

\* After the wait the list decides, not the flag.
Awake ==
    /\ worker = "waiting" /\ ~asleep
    /\ IF linked_list_empty(list)
       THEN /\ IF unblocked THEN worker' = "end" /\ UNCHANGED asleep
               ELSE asleep' = TRUE /\ UNCHANGED worker
            /\ UNCHANGED <<list, message>>
       ELSE /\ message' = list.elems[list.tail].data
            /\ list' = linked_list_remove(list)
            /\ worker' = "proc"
            /\ UNCHANGED asleep
    /\ UNCHANGED <<unblocked, task, mThread, delegate, owner, sent, handled, flushed, refused,
                   stray>>

\* A message is handled; "kill" destroys the task from its own thread.
Proc ==
    /\ worker = "proc"
    /\ handled' = Append(handled, message)
    /\ IF message = Kill THEN owner' = "unblock" /\ worker' = "destroys"
       ELSE worker' = "loop" /\ UNCHANGED owner
    /\ UNCHANGED <<list, unblocked, task, mThread, delegate, message, asleep, sent, flushed,
                   refused, stray>>

-----------------------------------------------------------------------------
(***************************************************************************)
(* MsgTask::destroy and LocThreadDelegate.  Uses of a deleted object are   *)
(* noted in stray.                                                         *)
(***************************************************************************)
Uses(what, alive) == stray' = IF alive THEN stray ELSE stray \cup {what}

Destroy ==
    /\ OwnerDestroys /\ owner = "idle"
    /\ owner' = "unblock"
    /\ UNCHANGED <<list, unblocked, task, mThread, delegate, worker, message, asleep, sent,
                   handled, flushed, refused, stray>>

msg_q_unblock ==
    /\ owner = "unblock"
    /\ unblocked' = TRUE /\ asleep' = FALSE
    /\ owner' = "forget"
    /\ UNCHANGED <<list, task, mThread, delegate, worker, message, sent, handled, flushed,
                   refused, stray>>

\* mThread = NULL, in an object that the thread may have deleted by now.
ForgetThread ==
    /\ owner = "forget"
    /\ Uses("task", task = "alive")
    /\ mThread' = FALSE
    /\ owner' = IF delegate.joinable THEN "stop" ELSE "release"
    /\ UNCHANGED <<list, unblocked, task, delegate, worker, message, asleep, sent, handled,
                   flushed, refused>>

\* stop; a thread that joins itself is refused and goes on.
Stop ==
    /\ owner = "stop"
    /\ Uses("delegate", delegate.alive)
    /\ delegate' = [delegate EXCEPT !.runnable = FALSE, !.joinable = FALSE]
    /\ owner' = "join"
    /\ UNCHANGED <<list, unblocked, task, mThread, worker, message, asleep, sent, handled,
                   flushed, refused>>

Join ==
    /\ owner = "join"
    /\ worker \in {"ended", "destroys"}
    /\ owner' = "release"
    /\ UNCHANGED <<list, unblocked, task, mThread, delegate, worker, message, asleep, sent,
                   handled, flushed, refused, stray>>

\* A slip: whoever comes first deletes it.
ReleaseAtOnce(d) == [d EXCEPT !.refs = @ - 1, !.alive = FALSE]

\* LocThreadDelegate::destroy: the last of the two deletes it.
Release(d) == [d EXCEPT !.refs = @ - 1, !.alive = @ /\ d.refs # 1]

OwnerReleases ==
    /\ owner = "release"
    /\ Uses("delegate", delegate.alive)
    /\ delegate' = Release(delegate)
    /\ owner' = "done"
    /\ worker' = IF worker = "destroys" THEN "loop" ELSE worker
    /\ UNCHANGED <<list, unblocked, task, mThread, message, asleep, sent, handled, flushed,
                   refused>>

\* The thread's way out: NULL mRunnable, delete the task with its queue and
\* what is in it, release the delegate.
EndOfThread ==
    /\ worker = "end"
    /\ Uses("delegate", delegate.alive)
    /\ delegate' = [delegate EXCEPT !.runnable = FALSE]
    /\ task' = "deleted"
    /\ flushed' = flushed \cup Data(list)
    /\ list' = [head |-> Null, tail |-> Null, elems |-> <<>>]
    /\ worker' = "release"
    /\ UNCHANGED <<unblocked, mThread, message, asleep, owner, sent, handled, refused>>

WorkerReleases ==
    /\ worker = "release"
    /\ Uses("delegate", delegate.alive)
    /\ delegate' = Release(delegate)
    /\ worker' = "ended"
    /\ UNCHANGED <<list, unblocked, task, mThread, message, asleep, owner, sent, handled,
                   flushed, refused>>

Step ==
    \/ Loop \/ msg_q_rcv \/ Awake \/ Proc \/ EndOfThread \/ WorkerReleases
    \/ msg_q_unblock \/ ForgetThread \/ Stop \/ Join \/ OwnerReleases

Next == Step \/ Destroy \/ \E p \in Sender \cup {"kill"} : sendMsg(p)

(***************************************************************************)
(* The threads are scheduled; nobody has to send or to destroy.            *)
(***************************************************************************)
Spec == Init /\ [][Next]_vars /\ WF_vars(Step)

-----------------------------------------------------------------------------
TypeOK ==
    /\ task \in {"alive", "deleted"} /\ delegate.refs \in 0 .. 2
    /\ ToSet(handled) \cup flushed \cup refused \subseteq Message
    /\ \A a \in DOMAIN list.elems : list.elems[a].data \in Message

\* The addresses on the way through the list: by prev from the tail, as
\* linked_list_remove goes, or by next from the head, as linked_list_flush does.
link(l, a, back) == IF back THEN l.elems[a].prev ELSE l.elems[a].next
stepFrom(l, w, back) ==
    IF w = <<>> THEN IF back THEN l.tail ELSE l.head ELSE link(l, w[Len(w)], back)
further(l, back) ==
    [w \in Seq(Nat) |-> IF stepFrom(l, w, back) \in DOMAIN l.elems
                        THEN Append(w, stepFrom(l, w, back)) ELSE w]
way(l, back) ==
    LET walk[n \in Nat] == IF n = 0 THEN <<>> ELSE further(l, back)[walk[n - 1]]
    IN walk[Cardinality(DOMAIN l.elems) + 1]
messagesOn(l) == LET w == way(l, TRUE) IN [k \in 1 .. Len(w) |-> l.elems[w[k]].data]

(***************************************************************************)
(* The queue is what its users take it for: first in, first out, each      *)
(* message once, closed by unblock.  Its contents are found by following   *)
(* prev from the tail, as linked_list_remove does.                         *)
(***************************************************************************)
fromTail == messagesOn(list)

Queue == INSTANCE Fifo WITH contents <- fromTail, closed <- unblocked
IsFifo == Queue!Spec

(***************************************************************************)
(* The list can be walked both ways and nothing is lost from it, so that a *)
(* flush, which walks from the head, frees what a receiver would have got. *)
(***************************************************************************)
ListIsWhole ==
    LET fromHead == way(list, FALSE)
    IN /\ fromHead = Reverse(way(list, TRUE))
       /\ Len(fromHead) = Cardinality(DOMAIN list.elems)

(***************************************************************************)
(* "this obj will be deleted once thread is deleted" (MsgTask.h, destroy): *)
(* neither the task nor the delegate is used after it has been deleted,    *)
(* whichever of the thread and its owner is done first.                    *)
(***************************************************************************)
NoStrayUse == stray = {}

(***************************************************************************)
(* Once destroy has been called, or the message sent that calls it, the    *)
(* thread ends and deletes the task, and the delegate is deleted: no       *)
(* wake-up is lost and nobody waits for ever (msg_q_snd, msg_q_unblock).   *)
(***************************************************************************)
DestroyEnds ==
    (owner # "idle" \/ sent["kill"] = 1) ~> (worker = "ended" /\ task = "deleted" /\ ~delegate.alive)
=============================================================================
