-------------------------------- MODULE Agps --------------------------------
(***************************************************************************)
(* AgpsManager and its two AgpsStateMachine objects (gps/gnss/Agps.cpp),   *)
(* with the GnssAdapter commands that feed them (gps/gnss/GnssAdapter.cpp).*)
(*                                                                         *)
(* The modem asks for a data connection (ATL) for a connection handle; the *)
(* manager subscribes the handle to the state machine of its network       *)
(* interface (NIF), which asks the framework for the connection once and   *)
(* shares it between all subscribers.  Modem and framework calls become    *)
(* messages of the adapter's one queue, msgQ, and are handled one at a     *)
(* time, with one exception: dataConnOpenCommand handles an open report    *)
(* with an invalid APN on the caller's thread, ahead of the queue.         *)
(*                                                                         *)
(* Abstracted: the list order (only the order of callbacks of one event    *)
(* depends on it), APN, bearer, APN mask, and the SUPL / SUPL_ES type of   *)
(* the AGNSS interface, both of which getAgpsStateMachine sends to it.     *)
(***************************************************************************)
EXTENDS Naturals, Sequences, FiniteSets

CONSTANTS
    Handle,         \* connection handles of the modem
    WaitForClose,   \* handles subscribed with mWaitForCloseComplete; requestATL
                    \* itself passes false for every one: {} is the program
    BadApn,         \* TRUE: the framework may report an open with a bad APN
    AllowRestart,   \* TRUE: the modem may restart (SSR)
    MaxInFlight     \* bound on messages and framework commands in flight

ASSUME AgpsAssumption ==
    /\ WaitForClose \subseteq Handle
    /\ BadApn \in BOOLEAN
    /\ AllowRestart \in BOOLEAN
    /\ MaxInFlight \in Nat

AGNSS == "mAgnssNif"
INTERNET == "mInternetNif"
Nif == {AGNSS, INTERNET}
AgpsState == {"RELEASED", "PENDING", "ACQUIRED", "RELEASING"}

Command == {"REQUEST", "RELEASE"}
Message ==
    [kind : {"init"}, nifs : SUBSET Nif] \cup
    [kind : {"engineUp"}] \cup
    [kind : {"requestATL"}, h : Handle, n : Nif] \cup
    [kind : {"releaseATL"}, h : Handle] \cup
    [kind : {"opened", "failed", "closed"}, n : Nif]

VARIABLES
    created,          \* the NIFs whose state machine exists
    mState,           \* NIF -> AgpsState
    mSubscriberList,  \* NIF -> handles in the list
    mIsInactive,      \* NIF -> handles in the list with mIsInactive set
    msgQ,             \* the adapter's message queue
    fwCmd,            \* NIF -> data connection commands the framework has yet to serve
    fwServing,        \* NIF -> the command the framework is serving, or "none"
    fwOpen,           \* NIFs whose data connection the framework holds open
    atl               \* handle -> what the modem knows of it

smVars == <<mState, mSubscriberList, mIsInactive>>
vars == <<created, mState, mSubscriberList, mIsInactive, msgQ, fwCmd, fwServing, fwOpen,
          atl>>

(* Flags belong to subscribers in the list (one AgpsSubscriber object holds   *)
(* both), and every message, command and state is one the code has.         *)
TypeOK ==
    /\ created \in SUBSET Nif
    /\ mState \in [Nif -> AgpsState]
    /\ mSubscriberList \in [Nif -> SUBSET Handle]
    /\ mIsInactive \in [Nif -> SUBSET Handle]
    /\ \A n \in Nif : mIsInactive[n] \subseteq mSubscriberList[n]
    /\ msgQ \in Seq(Message)
    /\ fwCmd \in [Nif -> Seq(Command)]
    /\ fwServing \in [Nif -> Command \cup {"none"}]
    /\ fwOpen \in SUBSET Nif
    /\ atl \in [Handle -> {"idle", "waiting", "open", "closing"}]

Init ==
    /\ created = {}
    /\ mState = [n \in Nif |-> "RELEASED"]
    /\ mSubscriberList = [n \in Nif |-> {}]
    /\ mIsInactive = [n \in Nif |-> {}]
    /\ msgQ = <<>>
    /\ fwCmd = [n \in Nif |-> <<>>]
    /\ fwServing = [n \in Nif |-> "none"]
    /\ fwOpen = {}
    /\ atl = [h \in Handle |-> "idle"]

-----------------------------------------------------------------------------
(***************************************************************************)
(* The state machine's helpers, each the effect on one variable.           *)
(***************************************************************************)
transitionState(n, s) == mState' = [mState EXCEPT ![n] = s]

\* The request reaches the framework through mFrameworkStatusV4Cb.
requestOrReleaseDataConn(n, c) == fwCmd' = [fwCmd EXCEPT ![n] = Append(@, c)]

\* A handle already in the list is not added again and keeps its flags.
addSubscriber(n, h) ==
    /\ mSubscriberList' = [mSubscriberList EXCEPT ![n] = @ \cup {h}]
    /\ UNCHANGED mIsInactive

\* Mutant: the flag outlives the subscriber.
DeleteKeepsFlag(n, hs) ==
    /\ mSubscriberList' = [mSubscriberList EXCEPT ![n] = @ \ hs]
    /\ UNCHANGED mIsInactive

deleteSubscribers(n, hs) ==
    /\ mSubscriberList' = [mSubscriberList EXCEPT ![n] = @ \ hs]
    /\ mIsInactive' = [mIsInactive EXCEPT ![n] = @ \ hs]

active(n) == mSubscriberList[n] \ mIsInactive[n]

\* mAtlOpenStatusCb and mAtlCloseStatusCb, to the modem, for the handles hs.
\* A handle the modem is already closing stays so when the open crosses it.
atlOpenStatus(hs) ==
    atl' = [h \in Handle |-> IF h \in hs /\ atl[h] = "waiting" THEN "open" ELSE atl[h]]
atlOpenFailed(hs) ==
    atl' = [h \in Handle |-> IF h \in hs THEN "idle" ELSE atl[h]]
atlCloseStatus(hs) ==
    atl' = [h \in Handle |-> IF h \in hs THEN "idle" ELSE atl[h]]

(***************************************************************************)
(* The five events of a state machine.                                     *)
(***************************************************************************)
\* Mutant: in PENDING the subscriber is not added.
SubscribeUnlessPending(n, h) ==
    \/ /\ mState[n] = "PENDING"
       /\ UNCHANGED <<smVars, fwCmd, atl>>
    \/ /\ mState[n] = "RELEASED"
       /\ addSubscriber(n, h)
       /\ requestOrReleaseDataConn(n, "REQUEST")
       /\ transitionState(n, "PENDING")
       /\ UNCHANGED atl
    \/ /\ mState[n] = "RELEASING"
       /\ addSubscriber(n, h)
       /\ UNCHANGED <<fwCmd, mState, atl>>
    \/ /\ mState[n] = "ACQUIRED"
       /\ addSubscriber(n, h)
       /\ atlOpenStatus({h})
       /\ UNCHANGED <<fwCmd, mState>>

processAgpsEventSubscribe(n, h) ==
    /\ addSubscriber(n, h)
    /\ \/ /\ mState[n] = "RELEASED"
          /\ requestOrReleaseDataConn(n, "REQUEST")
          /\ transitionState(n, "PENDING")
          /\ UNCHANGED atl
       \/ /\ mState[n] \in {"PENDING", "RELEASING"}
          /\ UNCHANGED <<fwCmd, mState, atl>>
       \/ /\ mState[n] = "ACQUIRED"
          /\ atlOpenStatus({h})
          /\ UNCHANGED <<fwCmd, mState>>

\* Mutant: notified but not deleted.
LeaveKeeps(n, h) == atlCloseStatus({h}) /\ UNCHANGED <<mSubscriberList, mIsInactive>>

\* Shared by PENDING, ACQUIRED and RELEASING: deactivate, or notify and delete.
leave(n, h) ==
    IF h \in WaitForClose
    THEN /\ mIsInactive' = [mIsInactive EXCEPT ![n] = @ \cup {h}]
         /\ UNCHANGED <<mSubscriberList, atl>>
    ELSE /\ deleteSubscribers(n, {h})
         /\ atlCloseStatus({h})

processAgpsEventUnsubscribe(n, h) ==
    \/ /\ mState[n] = "RELEASED"
       /\ atlCloseStatus({h})
       /\ UNCHANGED <<smVars, fwCmd>>
    \/ /\ mState[n] \in {"PENDING", "ACQUIRED"}
       /\ leave(n, h)
       /\ IF mSubscriberList'[n] = {}
          THEN transitionState(n, "RELEASED") /\ requestOrReleaseDataConn(n, "RELEASE")
          ELSE IF active(n)' = {}
          THEN transitionState(n, "RELEASING") /\ requestOrReleaseDataConn(n, "RELEASE")
          ELSE UNCHANGED <<mState, fwCmd>>
    \/ /\ mState[n] = "RELEASING"
       /\ leave(n, h)
       /\ IF mSubscriberList'[n] = {} THEN transitionState(n, "RELEASED") ELSE UNCHANGED mState
       /\ UNCHANGED fwCmd

processAgpsEventGranted(n) ==
    /\ IF mState[n] = "PENDING"
       THEN transitionState(n, "ACQUIRED") /\ atlOpenStatus(active(n))
       ELSE UNCHANGED <<mState, atl>>
    /\ UNCHANGED <<mSubscriberList, mIsInactive, fwCmd>>

\* Mutants: waiting subscribers are forgotten; PENDING without a request.
ReleaseForgetsActive(n) ==
    /\ deleteSubscribers(n, mIsInactive[n])
    /\ atlCloseStatus(mIsInactive[n])
    /\ transitionState(n, "RELEASED")
    /\ UNCHANGED fwCmd
ReleaseAsksNothing(n) ==
    /\ deleteSubscribers(n, mIsInactive[n])
    /\ atlCloseStatus(mIsInactive[n])
    /\ transitionState(n, IF active(n) # {} THEN "PENDING" ELSE "RELEASED")
    /\ UNCHANGED fwCmd

\* The connection being released is gone: RELEASED and DENIED treat it alike.
releaseComplete(n) ==
    /\ deleteSubscribers(n, mIsInactive[n])
    /\ atlCloseStatus(mIsInactive[n])
    /\ IF active(n) # {}
       THEN transitionState(n, "PENDING") /\ requestOrReleaseDataConn(n, "REQUEST")
       ELSE transitionState(n, "RELEASED") /\ UNCHANGED fwCmd

\* Mutants: the subscribers are not deleted; they are not notified.
ReleasedKeeps(n) ==
    \/ mState[n] \in {"RELEASED", "PENDING"} /\ UNCHANGED <<smVars, fwCmd, atl>>
    \/ /\ mState[n] = "ACQUIRED"
       /\ transitionState(n, "RELEASED")
       /\ atlCloseStatus(mSubscriberList[n])
       /\ UNCHANGED <<mSubscriberList, mIsInactive, fwCmd>>
    \/ mState[n] = "RELEASING" /\ releaseComplete(n)
ReleasedSilently(n) ==
    \/ mState[n] \in {"RELEASED", "PENDING"} /\ UNCHANGED <<smVars, fwCmd, atl>>
    \/ /\ mState[n] = "ACQUIRED"
       /\ transitionState(n, "RELEASED")
       /\ deleteSubscribers(n, mSubscriberList[n])
       /\ UNCHANGED <<fwCmd, atl>>
    \/ mState[n] = "RELEASING" /\ releaseComplete(n)

processAgpsEventReleased(n) ==
    \/ mState[n] \in {"RELEASED", "PENDING"} /\ UNCHANGED <<smVars, fwCmd, atl>>
    \/ /\ mState[n] = "ACQUIRED"
       /\ transitionState(n, "RELEASED")
       /\ atlCloseStatus(mSubscriberList[n])
       /\ deleteSubscribers(n, mSubscriberList[n])
       /\ UNCHANGED fwCmd
    \/ mState[n] = "RELEASING" /\ releaseComplete(n)

processAgpsEventDenied(n) ==
    \/ mState[n] \in {"RELEASED", "ACQUIRED"} /\ UNCHANGED <<smVars, fwCmd, atl>>
    \/ mState[n] = "RELEASING" /\ releaseComplete(n)
    \/ /\ mState[n] = "PENDING"
       /\ transitionState(n, "RELEASED")
       /\ atlOpenFailed(mSubscriberList[n])
       /\ deleteSubscribers(n, mSubscriberList[n])
       /\ UNCHANGED fwCmd

-----------------------------------------------------------------------------
(***************************************************************************)
(* The manager's operations, run by the adapter's message thread.          *)
(***************************************************************************)
createAgpsStateMachines(nifs) ==
    /\ created' = created \cup nifs
    /\ UNCHANGED <<smVars, fwCmd, atl>>

requestATL(h, n) ==
    /\ IF n \in created
       THEN processAgpsEventSubscribe(n, h)
       ELSE atlOpenFailed({h}) /\ UNCHANGED <<smVars, fwCmd>>
    /\ UNCHANGED created

\* Mutant: only the AGNSS interface is searched.
ReleaseOnAgnss(h) ==
    /\ IF h \in mSubscriberList[AGNSS] THEN processAgpsEventUnsubscribe(AGNSS, h)
       ELSE UNCHANGED <<smVars, fwCmd, atl>>
    /\ UNCHANGED created

\* The AGNSS interface is searched first; an unknown handle is only logged.
releaseATL(h) ==
    /\ \/ h \in mSubscriberList[AGNSS] /\ processAgpsEventUnsubscribe(AGNSS, h)
       \/ /\ h \in mSubscriberList[INTERNET] \ mSubscriberList[AGNSS]
          /\ processAgpsEventUnsubscribe(INTERNET, h)
       \/ /\ h \notin mSubscriberList[AGNSS] \cup mSubscriberList[INTERNET]
          /\ UNCHANGED <<smVars, fwCmd, atl>>
    /\ UNCHANGED created

reportAtlOpenSuccess(n) == processAgpsEventGranted(n) /\ UNCHANGED created
reportAtlOpenFailed(n) == processAgpsEventDenied(n) /\ UNCHANGED created
reportAtlClosed(n) == processAgpsEventReleased(n) /\ UNCHANGED created

\* What the adapter does when the modem is back up: sessions are restarted and
\* capabilities broadcast, but nothing of AgpsManager is called.
\* handleModemSSR, which would drop the subscribers, has no caller.
handleEngineUpEvent == UNCHANGED <<created, smVars, fwCmd, atl>>

Handler(m) ==
    \/ m.kind = "init" /\ createAgpsStateMachines(m.nifs)
    \/ m.kind = "engineUp" /\ handleEngineUpEvent
    \/ m.kind = "requestATL" /\ requestATL(m.h, m.n)
    \/ m.kind = "releaseATL" /\ releaseATL(m.h)
    \/ m.kind = "opened" /\ reportAtlOpenSuccess(m.n)
    \/ m.kind = "failed" /\ reportAtlOpenFailed(m.n)
    \/ m.kind = "closed" /\ reportAtlClosed(m.n)

\* The adapter's MsgTask takes the oldest message and runs its proc().
HandleMessage ==
    /\ msgQ # <<>>
    /\ \E m \in {Head(msgQ)} : Handler(m)
    /\ msgQ' = Tail(msgQ)
    /\ UNCHANGED <<fwServing, fwOpen>>

-----------------------------------------------------------------------------
(***************************************************************************)
(* Callers: setCallback and the vendor network library, the modem, the     *)
(* framework.  Each only posts a message.                                  *)
(***************************************************************************)
sendMsg(m) == msgQ' = Append(msgQ, m)
InFlight == Len(msgQ) + Len(fwCmd[AGNSS]) + Len(fwCmd[INTERNET])
            + Cardinality({n \in Nif : fwServing[n] # "none"})

\* AGnss::setCallback asks for SUPL and SUPL_ES, the network library for WWAN.
initAgpsCommand(n) ==
    /\ InFlight < MaxInFlight
    /\ n \notin created
    /\ sendMsg([kind |-> "init", nifs |-> {n}])
    /\ UNCHANGED <<created, smVars, fwCmd, fwServing, fwOpen, atl>>

\* The modem's server requests are enabled by the first initAgps.
ModemRequest(h, n) ==
    /\ InFlight < MaxInFlight
    /\ created # {}
    /\ atl[h] = "idle"
    /\ atl' = [atl EXCEPT ![h] = "waiting"]
    /\ sendMsg([kind |-> "requestATL", h |-> h, n |-> n])
    /\ UNCHANGED <<created, smVars, fwCmd, fwServing, fwOpen>>

ModemRelease(h) ==
    /\ InFlight < MaxInFlight
    /\ atl[h] \in {"waiting", "open"}
    /\ atl' = [atl EXCEPT ![h] = "closing"]
    /\ sendMsg([kind |-> "releaseATL", h |-> h])
    /\ UNCHANGED <<created, smVars, fwCmd, fwServing, fwOpen>>

\* The modem restarts and forgets its handles; LocApiBase tells the adapter.
ModemRestart ==
    /\ AllowRestart
    /\ InFlight < MaxInFlight
    /\ atl' = [h \in Handle |-> "idle"]
    /\ sendMsg([kind |-> "engineUp"])
    /\ UNCHANGED <<created, smVars, fwCmd, fwServing, fwOpen>>

\* The framework takes its commands in order and answers each.
FrameworkTake(n) ==
    /\ fwCmd[n] # <<>>
    /\ fwServing[n] = "none"
    /\ fwServing' = [fwServing EXCEPT ![n] = Head(fwCmd[n])]
    /\ fwCmd' = [fwCmd EXCEPT ![n] = Tail(@)]
    /\ UNCHANGED <<created, smVars, msgQ, fwOpen, atl>>

Answer(n, c) ==
    /\ fwServing[n] = c
    /\ fwServing' = [fwServing EXCEPT ![n] = "none"]

dataConnOpenCommand(n) ==
    /\ Answer(n, "REQUEST")
    /\ fwOpen' = fwOpen \cup {n}
    /\ sendMsg([kind |-> "opened", n |-> n])
    /\ UNCHANGED <<created, smVars, fwCmd, atl>>

\* The APN fails the length checks: reportAtlClosed runs on this thread.
dataConnOpenBadApn(n) ==
    /\ BadApn
    /\ Answer(n, "REQUEST")
    /\ fwOpen' = fwOpen \cup {n}
    /\ reportAtlClosed(n)
    /\ UNCHANGED msgQ

dataConnFailedCommand(n) ==
    /\ Answer(n, "REQUEST")
    /\ sendMsg([kind |-> "failed", n |-> n])
    /\ UNCHANGED <<created, smVars, fwCmd, fwOpen, atl>>

\* The answer to a release, and the loss of an open connection.
dataConnClosedCommand(n) ==
    /\ \/ Answer(n, "RELEASE")
       \/ n \in fwOpen /\ InFlight < MaxInFlight /\ UNCHANGED fwServing
    /\ fwOpen' = fwOpen \ {n}
    /\ sendMsg([kind |-> "closed", n |-> n])
    /\ UNCHANGED <<created, smVars, fwCmd, atl>>

Framework(n) ==
    \/ FrameworkTake(n)
    \/ dataConnOpenCommand(n) \/ dataConnOpenBadApn(n)
    \/ dataConnFailedCommand(n) \/ dataConnClosedCommand(n)

Next ==
    \/ HandleMessage
    \/ \E n \in Nif : initAgpsCommand(n) \/ Framework(n)
    \/ \E h \in Handle : ModemRelease(h) \/ \E n \in Nif : ModemRequest(h, n)
    \/ ModemRestart

Spec == Init /\ [][Next]_vars

(***************************************************************************)
(* The message thread never stops taking messages, and the framework takes *)
(* and answers every data connection command.  Nothing is assumed of the   *)
(* modem: it need not ask, release or restart.                             *)
(***************************************************************************)
FrameworkAnswer(n) == Framework(n) /\ fwServing[n] # "none" /\ fwServing'[n] = "none"
FairSpec ==
    /\ Spec
    /\ WF_vars(HandleMessage)
    /\ \A n \in Nif : WF_vars(FrameworkTake(n)) /\ WF_vars(FrameworkAnswer(n))

-----------------------------------------------------------------------------
QueuedMessages == {msgQ[i] : i \in 1 .. Len(msgQ)}
Subscribed(h) == \E n \in Nif : h \in mSubscriberList[n]
CommandWith(n, c) ==
    fwServing[n] = c \/ \E i \in 1 .. Len(fwCmd[n]) : fwCmd[n][i] = c
AnswerQueued(n, kinds) == \E m \in QueuedMessages : m.kind \in kinds /\ m.n = n

(***************************************************************************)
(* "Subscriber list should be empty if we are in released state"           *)
(* (processAgpsEventReleased): no event leaves a subscriber behind in a    *)
(* machine that has no connection and has asked for none.                  *)
(***************************************************************************)
ReleasedIsEmpty == \A n \in Nif : mState[n] = "RELEASED" => mSubscriberList[n] = {}

(***************************************************************************)
(* No request is forgotten: a handle whose open status the modem awaits    *)
(* has its request queued, or is an active subscriber of a machine that    *)
(* still owes a notification, whatever answers to earlier requests arrive. *)
(***************************************************************************)
WaitingIsServed ==
    \A h \in Handle : atl[h] = "waiting" =>
        \/ \E n \in Nif : [kind |-> "requestATL", h |-> h, n |-> n] \in QueuedMessages
        \/ \E n \in Nif : h \in active(n) /\ mState[n] \in {"PENDING", "RELEASING"}

(***************************************************************************)
(* A machine waits only for what was asked for: in PENDING an open request *)
(* is with the framework or its answer is queued, in RELEASING a release   *)
(* is.  Commands and answers of earlier connections may be under way too.  *)
(***************************************************************************)
PendingHasAnswerComing ==
    \A n \in Nif :
        /\ mState[n] = "PENDING" =>
               CommandWith(n, "REQUEST") \/ AnswerQueued(n, {"opened", "failed"})
        /\ mState[n] = "RELEASING" =>
               CommandWith(n, "RELEASE") \/ AnswerQueued(n, {"closed"})

(***************************************************************************)
(* The modem uses a connection only while a machine holds it for that      *)
(* handle: an open handle is an active subscriber of an ACQUIRED machine,  *)
(* so a forced release or the last unsubscribe cannot leave it open.       *)
(***************************************************************************)
OpenIsAcquired ==
    \A h \in Handle : atl[h] = "open" =>
        \E n \in Nif : h \in active(n) /\ mState[n] = "ACQUIRED"

(***************************************************************************)
(* releaseATL searches the AGNSS machine first and releases only the first *)
(* match, which is right only if a handle is never subscribed to both.     *)
(***************************************************************************)
OneNifPerHandle == mSubscriberList[AGNSS] \cap mSubscriberList[INTERNET] = {}

(***************************************************************************)
(* The machines hold no connection for a handle the modem does not know:   *)
(* once the adapter has handled a modem restart ("Drop all subscribers, in *)
(* case of Modem SSR", Agps.h), every subscriber is a handle in use.       *)
(***************************************************************************)
SubscriberIsKnown ==
    [kind |-> "engineUp"] \notin QueuedMessages =>
        \A h \in Handle : Subscribed(h) => atl[h] # "idle"

(***************************************************************************)
(* Every requestATL is answered by an open or a failure status, whatever   *)
(* releases and losses of the connection come between.                     *)
(***************************************************************************)
EveryRequestAnswered == \A h \in Handle : atl[h] = "waiting" ~> atl[h] # "waiting"

(***************************************************************************)
(* Every releaseATL is answered by a close status, or by the denial of the *)
(* request it crossed.  A subscriber that waits for close complete is told *)
(* when the connection closes, which the others may keep open.             *)
(***************************************************************************)
EveryReleaseAnswered ==
    \A h \in Handle \ WaitForClose : atl[h] = "closing" ~> atl[h] # "closing"

=============================================================================
