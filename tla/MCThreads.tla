---------------------------- MODULE MCThreads -----------------------------
(***************************************************************************)
(* For TLC, what rests on threads and timers of its own, one part at a     *)
(* time: the parts share no state, so `part` says which of them runs and   *)
(* the others stay as they begin.  They are the timer heap; the message    *)
(* task, its thread joined or detached and ended by a message, or joined   *)
(* and ended by another thread; the ODCPI requests; the sessions of the    *)
(* network-initiated requests, one an emergency's and one the control      *)
(* plane's ("consent"), or the latter's alone with a modem that restarts   *)
(* ("restart"); the AGPS data connections, with a handle whose subscriber  *)
(* waits for close complete; and the socket to another process.            *)
(***************************************************************************)
EXTENDS MsgQueue

CONSTANTS Part,                          \* the parts that run
          Item, Rank,                    \* LocHeap
          Period, MaxTime, MaxRestarts,  \* Odcpi
          emergency, ordinary, none, h1, h2  \* model values
VARIABLES part,
          tree, answer,                                          \* LocHeap
          now, mOdcpiRequestCb, mOdcpiRequestActive, mOdcpiRequest, mActive,
          expiry, msgQ, wanted, asked, askedAt, hasty, restarted, restarts, \* Odcpi
          rawRequest, reqID, respTimeLeft, respRecvd, resp, reqIDCounter, pc,
          fullTime, result, niClient, todo, niQ, notified, shown, user, told,
          disposals, ignored, stale, modemRestarted,                        \* Ni
          created, mState, mSubscriberList, mIsInactive, agpsQ, fwCmd, fwServing,
          fwOpen, atl,                                                      \* Agps
          socket, bound, sending, listener, mRunnable, msg, stopping, posted,
          received, misused                                                 \* LocIpc

Ranks == <<1, 1, 2, 3, 2, 4>>

Heap == INSTANCE LocHeap WITH NoItem <- 0
\* The message task: module MsgQueue itself is the one that another thread destroys.
Detached == INSTANCE MsgQueue WITH
    Joinable <- FALSE, OwnerDestroys <- FALSE
Joined == INSTANCE MsgQueue WITH
    Joinable <- TRUE, OwnerDestroys <- FALSE
Requests == INSTANCE Odcpi WITH
    Alone <- TRUE, UpFirst <- TRUE
Consent == INSTANCE Ni WITH
    Request <- {emergency, ordinary},
    TypeOf <- [r \in {emergency, ordinary} |-> IF r = emergency THEN "ES" ELSE "CP"],
    NoRequest <- none, SuplEsNo <- FALSE, CpMtlrEs <- TRUE, ClientsChange <- TRUE,
    AllowRestart <- TRUE, msgQ <- niQ, restarted <- modemRestarted
Connections == INSTANCE Agps WITH
    Handle <- {h1, h2}, WaitForClose <- {h1}, BadApn <- FALSE, AllowRestart <- FALSE,
    MaxInFlight <- 3, msgQ <- agpsQ
Ipc == INSTANCE LocIpc WITH
    Length <- {2, 3, 4}, mMaxTxSize <- 2, HeadSize <- 1, AbortSize <- 1, Room <- 3,
    Alone <- TRUE, Begun <- TRUE, RecvFails <- FALSE,
    worker <- listener, owner <- stopping, sent <- posted, stray <- misused

treeVars == <<tree, answer>>
odcpiVars == <<now, mOdcpiRequestCb, mOdcpiRequestActive, mOdcpiRequest, mActive, expiry,
               msgQ, wanted, asked, askedAt, hasty, restarted, restarts>>
niVars == <<rawRequest, reqID, respTimeLeft, respRecvd, resp, reqIDCounter, pc, fullTime,
            result, niClient, todo, niQ, notified, shown, user, told, disposals, ignored,
            stale, modemRestarted>>
agpsVars == <<created, mState, mSubscriberList, mIsInactive, agpsQ, fwCmd, fwServing, fwOpen,
              atl>>
ipcVars == <<socket, bound, sending, listener, mRunnable, msg, stopping, posted, received,
             misused>>
allVars == <<part, treeVars, vars, odcpiVars, niVars, agpsVars, ipcVars>>

ThreadsInit ==
    /\ part \in Part
    /\ Heap!Init /\ Requests!Init
    /\ Consent!Init /\ (part \notin {"consent", "restart"} => niClient)
    /\ Connections!Init /\ Ipc!Init
    /\ IF part = "detached" THEN Detached!Init ELSE Joined!Init

TheRest == UNCHANGED <<part, treeVars, odcpiVars, niVars, agpsVars, ipcVars>>

ThreadsNext ==
    \/ /\ part = "heap" /\ Heap!Next
       /\ UNCHANGED <<part, vars, odcpiVars, niVars, agpsVars, ipcVars>>
    \/ part = "detached" /\ Detached!Next /\ TheRest
    \/ part = "joined" /\ Joined!Next /\ TheRest
    \/ part = "owned" /\ Next /\ TheRest
    \/ /\ part = "odcpi" /\ Requests!Next
       /\ UNCHANGED <<part, treeVars, vars, niVars, agpsVars, ipcVars>>
    \/ /\ \/ part = "consent" /\ Consent!Next /\ ~modemRestarted'
          \/ part = "restart" /\ Consent!Next /\ emergency \notin notified'
       /\ UNCHANGED <<part, treeVars, vars, odcpiVars, agpsVars, ipcVars>>
    \/ /\ part = "agps" /\ Connections!Next
       /\ UNCHANGED <<part, treeVars, vars, odcpiVars, niVars, ipcVars>>
    \/ /\ part = "ipc" /\ Ipc!Next
       /\ UNCHANGED <<part, treeVars, vars, odcpiVars, niVars, agpsVars>>

\* Threads are scheduled, as MsgQueue, LocIpc, Ni and Agps say.
ThreadsSpec ==
    /\ ThreadsInit /\ [][ThreadsNext]_allVars
    /\ WF_vars(part = "detached" /\ Detached!Step)
    /\ WF_vars(part = "joined" /\ Joined!Step)
    /\ WF_vars(part = "owned" /\ Step)
    /\ WF_ipcVars(part = "ipc" /\ Ipc!Step)
    /\ WF_niVars(part \in {"consent", "restart"} /\ Consent!HandleMessage)
    /\ WF_niVars(part \in {"consent", "restart"} /\ Consent!WriteAnswer)
    /\ \A r \in {emergency, ordinary} : WF_niVars(part \in {"consent", "restart"} /\ Consent!Thread(r))
    /\ WF_agpsVars(part = "agps" /\ Connections!HandleMessage)
    /\ \A n \in Connections!Nif :
         /\ WF_agpsVars(part = "agps" /\ Connections!FrameworkTake(n))
         /\ WF_agpsVars(part = "agps" /\ Connections!FrameworkAnswer(n))

-----------------------------------------------------------------------------
\* The timer heap gives what ranks highest and loses nothing (LocHeap.cpp).
IsPriorityQueue == Heap!IsPriorityQueue

\* The heap's tree is in order with right sizes (LocHeap.cpp), the queue's list is
\* the same both ways (linked_list.c), and a socket's listener gets each message
\* whole, once and in order (Sock::sendto, recvfrom).
ContainersAreWhole ==
    /\ part = "heap" => Heap!TreeIsInOrder
    /\ part \in {"detached", "joined", "owned"} => TypeOK /\ ListIsWhole
    /\ part = "ipc" => Ipc!TypeOK /\ Ipc!ReceivedAsSent

\* Unless another thread calls destroy, neither the task nor its thread's
\* delegate is used after it was deleted (MsgTask.cpp, LocThread.cpp); nor is the
\* runnable that listens (LocIpc.cpp), nor an NI request's raw data (niThreadProc).
NothingStrays ==
    /\ part \in {"detached", "joined"} => NoStrayUse
    /\ part = "ipc" => Ipc!NoStrayUse
    /\ part \in {"consent", "restart"} => Consent!DisposedOnce

\* A message task that is to end does end (MsgTask.cpp, LocThread.cpp), and
\* whoever stops a listener does not wait for ever (LocIpc.cpp).
ThreadsEnd == DestroyEnds /\ Ipc!StopEnds

\* Every request shown comes to an end (niThreadProc).
ShownIsDisposed == Consent!ShownIsDisposed

\* What the modem asks the host for is being got, and no oftener than it may:
\* positions are asked for while it wants them and within the timer's period
\* (requestOdcpi, odcpiTimerExpire), and a handle it waits for has its request
\* queued or a machine that waits for what it asked for (Agps.cpp).
RequestsAreServed ==
    /\ Requests!WantedIsAsked /\ Requests!NotSpammed
    /\ Connections!WaitingIsServed /\ Connections!PendingHasAnswerComing

\* Each request and release of a connection is answered (Agps.cpp).
EveryRequestAnswered == Connections!EveryRequestAnswered /\ Connections!EveryReleaseAnswered
=============================================================================
