----------------------------- MODULE AgpsProofs -----------------------------
(***************************************************************************)
(* Proofs about Agps, for any set of handles and any bound: the types and  *)
(* ReleasedIsEmpty; OpenIsAcquired, for the program as it is; then, in     *)
(* that program or while the modem does not restart, that handles take     *)
(* turns and whoever waits is served; and that a machine that waits has    *)
(* an answer coming.                                                       *)
(***************************************************************************)
EXTENDS Agps, SequenceTheorems, TLAPS

USE AgpsAssumption

(* The two interfaces releaseATL searches. *)
LEMMA NifFacts == AGNSS \in Nif /\ INTERNET \in Nif
BY DEF Nif

(***************************************************************************)
(* The part of TypeOK that the five events of a state machine touch.       *)
(***************************************************************************)
MachineOK ==
    /\ mState \in [Nif -> AgpsState]
    /\ mSubscriberList \in [Nif -> SUBSET Handle]
    /\ mIsInactive \in [Nif -> SUBSET Handle]
    /\ \A n \in Nif : mIsInactive[n] \subseteq mSubscriberList[n]
    /\ fwCmd \in [Nif -> Seq(Command)]
    /\ atl \in [Handle -> {"idle", "waiting", "open", "closing"}]

(***************************************************************************)
(* Asking the framework keeps the command queues well typed.               *)
(***************************************************************************)
LEMMA CommandType ==
    ASSUME MachineOK, NEW n \in Nif, NEW c \in Command, requestOrReleaseDataConn(n, c)
    PROVE  fwCmd' \in [Nif -> Seq(Command)]
<1>1. Append(fwCmd[n], c) \in Seq(Command)
  BY AppendProperties DEF MachineOK
<1> QED
  BY <1>1 DEF MachineOK, requestOrReleaseDataConn

(***************************************************************************)
(* The events preserve the types and ReleasedIsEmpty: a subscriber is      *)
(* added only with a move out of RELEASED, and every move into RELEASED    *)
(* comes with an emptied list.                                             *)
(***************************************************************************)
LEMMA SubscribeStep ==
    ASSUME MachineOK, ReleasedIsEmpty, NEW n \in Nif, NEW h \in Handle,
           processAgpsEventSubscribe(n, h)
    PROVE  MachineOK' /\ ReleasedIsEmpty'
<1>1. fwCmd' \in [Nif -> Seq(Command)]
  BY CommandType DEF MachineOK, processAgpsEventSubscribe, Command
<1>2. atl' \in [Handle -> {"idle", "waiting", "open", "closing"}]
  BY DEF MachineOK, processAgpsEventSubscribe, atlOpenStatus
<1>3. /\ mSubscriberList' = [mSubscriberList EXCEPT ![n] = @ \cup {h}]
      /\ mIsInactive' = mIsInactive
  BY DEF processAgpsEventSubscribe, addSubscriber
<1>4. /\ mState' \in [Nif -> AgpsState]
      /\ mState'[n] # "RELEASED"
      /\ \A k \in Nif \ {n} : mState'[k] = mState[k]
  BY DEF MachineOK, processAgpsEventSubscribe, transitionState, AgpsState
<1> QED
  BY <1>1, <1>2, <1>3, <1>4 DEF MachineOK, ReleasedIsEmpty

(* leave deletes or deactivates one subscriber of one machine. *)
LEMMA LeaveType ==
    ASSUME MachineOK, NEW n \in Nif, NEW h \in Handle, leave(n, h)
    PROVE  /\ mSubscriberList' \in [Nif -> SUBSET Handle]
           /\ mIsInactive' \in [Nif -> SUBSET Handle]
           /\ h \in mSubscriberList[n] =>
                \A k \in Nif : mIsInactive'[k] \subseteq mSubscriberList'[k]
           /\ \A k \in Nif \ {n} : mSubscriberList'[k] = mSubscriberList[k]
           /\ atl' \in [Handle -> {"idle", "waiting", "open", "closing"}]
<1>1. CASE h \in WaitForClose
  <2>1. /\ mIsInactive' = [mIsInactive EXCEPT ![n] = @ \cup {h}]
        /\ mSubscriberList' = mSubscriberList
        /\ atl' = atl
    BY <1>1 DEF leave
  <2>2. mIsInactive[n] \cup {h} \in SUBSET Handle
    BY DEF MachineOK
  <2> QED
    BY <2>1, <2>2 DEF MachineOK
<1>2. CASE h \notin WaitForClose
  <2>1. /\ mSubscriberList' = [mSubscriberList EXCEPT ![n] = @ \ {h}]
        /\ mIsInactive' = [mIsInactive EXCEPT ![n] = @ \ {h}]
    BY <1>2 DEF leave, deleteSubscribers
  <2>2. atl' \in [Handle -> {"idle", "waiting", "open", "closing"}]
    BY <1>2 DEF MachineOK, leave, atlCloseStatus
  <2> QED
    BY <2>1, <2>2 DEF MachineOK
<1> QED
  BY <1>1, <1>2

(* processAgpsEventUnsubscribe releases a machine only when its list is empty. *)
LEMMA UnsubscribeStep ==
    ASSUME MachineOK, ReleasedIsEmpty, NEW n \in Nif, NEW h \in mSubscriberList[n],
           processAgpsEventUnsubscribe(n, h)
    PROVE  MachineOK' /\ ReleasedIsEmpty'
<1>h. h \in Handle
  BY DEF MachineOK
<1>1. CASE mState[n] = "RELEASED"
  BY <1>1, <1>h DEF MachineOK, ReleasedIsEmpty, processAgpsEventUnsubscribe, atlCloseStatus, smVars
<1>2. CASE mState[n] \in {"PENDING", "ACQUIRED"}
  <2>1. leave(n, h)
    BY <1>2 DEF processAgpsEventUnsubscribe
  <2>2. /\ mState' \in [Nif -> AgpsState]
        /\ mState'[n] = "RELEASED" => mSubscriberList'[n] = {}
        /\ \A k \in Nif \ {n} : mState'[k] = mState[k]
        /\ fwCmd' = fwCmd \/ requestOrReleaseDataConn(n, "RELEASE")
    BY <1>2 DEF MachineOK, processAgpsEventUnsubscribe, transitionState, AgpsState
  <2>3. fwCmd' \in [Nif -> Seq(Command)]
    BY <2>2, CommandType DEF MachineOK, Command
  <2> QED
    BY <1>h, <2>1, <2>2, <2>3, LeaveType DEF MachineOK, ReleasedIsEmpty
<1>3. CASE mState[n] = "RELEASING"
  <2>1. leave(n, h)
    BY <1>3 DEF processAgpsEventUnsubscribe
  <2>2. /\ mState' \in [Nif -> AgpsState]
        /\ mState'[n] = "RELEASED" => mSubscriberList'[n] = {}
        /\ \A k \in Nif \ {n} : mState'[k] = mState[k]
        /\ fwCmd' = fwCmd
    BY <1>3 DEF MachineOK, processAgpsEventUnsubscribe, transitionState, AgpsState
  <2> QED
    BY <1>h, <2>1, <2>2, LeaveType DEF MachineOK, ReleasedIsEmpty
<1> QED
  BY <1>1, <1>2, <1>3 DEF MachineOK, AgpsState

(* processAgpsEventGranted leaves RELEASED machines and the lists alone. *)
LEMMA GrantedStep ==
    ASSUME MachineOK, ReleasedIsEmpty, NEW n \in Nif, processAgpsEventGranted(n)
    PROVE  MachineOK' /\ ReleasedIsEmpty'
<1>1. atl' \in [Handle -> {"idle", "waiting", "open", "closing"}]
  BY DEF MachineOK, processAgpsEventGranted, atlOpenStatus
<1>2. /\ mState' \in [Nif -> AgpsState]
      /\ \A k \in Nif : mState'[k] = "RELEASED" => mState[k] = "RELEASED"
  BY DEF MachineOK, processAgpsEventGranted, transitionState, AgpsState
<1> QED
  BY <1>1, <1>2 DEF MachineOK, ReleasedIsEmpty, processAgpsEventGranted

(* releaseComplete: with no active subscriber left, deleting the inactive ones
   empties the list, so that the move to RELEASED is right. *)
LEMMA ReleaseCompleteStep ==
    ASSUME MachineOK, ReleasedIsEmpty, NEW n \in Nif, releaseComplete(n)
    PROVE  MachineOK' /\ ReleasedIsEmpty'
<1>1. fwCmd' \in [Nif -> Seq(Command)]
  BY CommandType DEF MachineOK, releaseComplete, Command
<1>2. atl' \in [Handle -> {"idle", "waiting", "open", "closing"}]
  BY DEF MachineOK, releaseComplete, atlCloseStatus
<1>3. /\ mSubscriberList' = [mSubscriberList EXCEPT ![n] = @ \ mIsInactive[n]]
      /\ mIsInactive' = [mIsInactive EXCEPT ![n] = @ \ mIsInactive[n]]
  BY DEF releaseComplete, deleteSubscribers
<1>4. /\ mState' \in [Nif -> AgpsState]
      /\ mState'[n] = "RELEASED" => mSubscriberList[n] \ mIsInactive[n] = {}
      /\ \A k \in Nif \ {n} : mState'[k] = mState[k]
  BY DEF MachineOK, releaseComplete, transitionState, AgpsState, active
<1> QED
  BY <1>1, <1>2, <1>3, <1>4 DEF MachineOK, ReleasedIsEmpty

(***************************************************************************)
(* Forced release and denial empty the list of the machine they release.   *)
(***************************************************************************)
LEMMA DropAllStep ==
    ASSUME MachineOK, ReleasedIsEmpty, NEW n \in Nif,
           transitionState(n, "RELEASED"),
           deleteSubscribers(n, mSubscriberList[n]),
           atlCloseStatus(mSubscriberList[n]) \/ atlOpenFailed(mSubscriberList[n]),
           UNCHANGED fwCmd
    PROVE  MachineOK' /\ ReleasedIsEmpty'
BY DEF MachineOK, ReleasedIsEmpty, transitionState, deleteSubscribers, atlCloseStatus,
       atlOpenFailed, AgpsState

(* processAgpsEventReleased preserves the types and ReleasedIsEmpty. *)
LEMMA ReleasedStep ==
    ASSUME MachineOK, ReleasedIsEmpty, NEW n \in Nif, processAgpsEventReleased(n)
    PROVE  MachineOK' /\ ReleasedIsEmpty'
<1>1. CASE UNCHANGED <<smVars, fwCmd, atl>>
  BY <1>1 DEF MachineOK, ReleasedIsEmpty, smVars
<1>2. CASE mState[n] = "ACQUIRED"
  BY <1>2, DropAllStep DEF processAgpsEventReleased
<1>3. CASE releaseComplete(n)
  BY <1>3, ReleaseCompleteStep
<1> QED
  BY <1>1, <1>2, <1>3 DEF processAgpsEventReleased

(* processAgpsEventDenied preserves the types and ReleasedIsEmpty. *)
LEMMA DeniedStep ==
    ASSUME MachineOK, ReleasedIsEmpty, NEW n \in Nif, processAgpsEventDenied(n)
    PROVE  MachineOK' /\ ReleasedIsEmpty'
<1>1. CASE UNCHANGED <<smVars, fwCmd, atl>>
  BY <1>1 DEF MachineOK, ReleasedIsEmpty, smVars
<1>2. CASE mState[n] = "PENDING"
  BY <1>2, DropAllStep DEF processAgpsEventDenied
<1>3. CASE releaseComplete(n)
  BY <1>3, ReleaseCompleteStep
<1> QED
  BY <1>1, <1>2, <1>3 DEF processAgpsEventDenied

-----------------------------------------------------------------------------
(***************************************************************************)
(* The inductive invariant of the machines under every message.            *)
(***************************************************************************)
IInv == TypeOK /\ ReleasedIsEmpty

(* Whatever message the adapter handles. *)
LEMMA HandlerStep ==
    ASSUME IInv, NEW m \in Message, Handler(m)
    PROVE  MachineOK' /\ ReleasedIsEmpty' /\ created' \in SUBSET Nif
<1>0. MachineOK /\ ReleasedIsEmpty /\ created \in SUBSET Nif
  BY DEF IInv, TypeOK, MachineOK
<1>1. CASE m.kind = "init" /\ createAgpsStateMachines(m.nifs)
  <2>1. m.nifs \in SUBSET Nif
    BY <1>1 DEF Message
  <2> QED
    BY <1>0, <1>1, <2>1 DEF createAgpsStateMachines, MachineOK, ReleasedIsEmpty, smVars
<1>2. CASE m.kind = "engineUp" /\ handleEngineUpEvent
  BY <1>0, <1>2 DEF handleEngineUpEvent, MachineOK, ReleasedIsEmpty, smVars
<1>3. CASE m.kind = "requestATL" /\ requestATL(m.h, m.n)
  <2>1. m.h \in Handle /\ m.n \in Nif
    BY <1>3 DEF Message
  <2>2. CASE processAgpsEventSubscribe(m.n, m.h) /\ UNCHANGED created
    BY <1>0, <2>1, <2>2, SubscribeStep
  <2>3. CASE atlOpenFailed({m.h}) /\ UNCHANGED <<smVars, fwCmd, created>>
    BY <1>0, <2>3 DEF atlOpenFailed, MachineOK, ReleasedIsEmpty, smVars
  <2> QED
    BY <1>3, <2>2, <2>3 DEF requestATL
<1>4. CASE m.kind = "releaseATL" /\ releaseATL(m.h)
  <2>0. UNCHANGED created
    BY <1>4 DEF releaseATL
  <2>1. CASE UNCHANGED <<smVars, fwCmd, atl>>
    BY <1>0, <2>0, <2>1 DEF MachineOK, ReleasedIsEmpty, smVars
  <2>2. CASE \E n \in Nif : m.h \in mSubscriberList[n] /\ processAgpsEventUnsubscribe(n, m.h)
    BY <1>0, <2>0, <2>2, UnsubscribeStep
  <2> QED
    BY <1>4, <2>1, <2>2, NifFacts DEF releaseATL
<1>5. CASE m.kind = "opened" /\ reportAtlOpenSuccess(m.n)
  BY <1>0, <1>5, GrantedStep DEF reportAtlOpenSuccess, Message
<1>6. CASE m.kind = "failed" /\ reportAtlOpenFailed(m.n)
  BY <1>0, <1>6, DeniedStep DEF reportAtlOpenFailed, Message
<1>7. CASE m.kind = "closed" /\ reportAtlClosed(m.n)
  BY <1>0, <1>7, ReleasedStep DEF reportAtlClosed, Message
<1> QED
  BY <1>1, <1>2, <1>3, <1>4, <1>5, <1>6, <1>7 DEF Handler

(* Posting a message keeps the queue well typed. *)
LEMMA SendType ==
    ASSUME msgQ \in Seq(Message), NEW m \in Message, sendMsg(m)
    PROVE  msgQ' \in Seq(Message)
BY AppendProperties DEF sendMsg

(* IInv is preserved by every step of the system. *)
LEMMA IInvStep ==
    ASSUME IInv, [Next]_vars
    PROVE  IInv'
<1>1. CASE HandleMessage
  <2>1. Head(msgQ) \in Message /\ Tail(msgQ) \in Seq(Message)
    BY <1>1, HeadTailProperties DEF HandleMessage, IInv, TypeOK
  <2>2. MachineOK' /\ ReleasedIsEmpty' /\ created' \in SUBSET Nif
    <3>1. PICK m \in Message : Handler(m)
      BY <1>1, <2>1 DEF HandleMessage
    <3> QED
      BY <3>1, HandlerStep
  <2> QED
    BY <1>1, <2>1, <2>2 DEF HandleMessage, IInv, TypeOK, MachineOK
<1>2. ASSUME NEW n \in Nif, initAgpsCommand(n)
      PROVE  IInv'
  <2>1. [kind |-> "init", nifs |-> {n}] \in Message
    BY DEF Message
  <2> QED
    BY <1>2, <2>1, SendType DEF initAgpsCommand, IInv, TypeOK, ReleasedIsEmpty, smVars
<1>3. ASSUME NEW h \in Handle, NEW n \in Nif, ModemRequest(h, n)
      PROVE  IInv'
  <2>1. [kind |-> "requestATL", h |-> h, n |-> n] \in Message
    BY DEF Message
  <2> QED
    BY <1>3, <2>1, SendType DEF ModemRequest, IInv, TypeOK, ReleasedIsEmpty, smVars
<1>4. ASSUME NEW h \in Handle, ModemRelease(h)
      PROVE  IInv'
  <2>1. [kind |-> "releaseATL", h |-> h] \in Message
    BY DEF Message
  <2> QED
    BY <1>4, <2>1, SendType DEF ModemRelease, IInv, TypeOK, ReleasedIsEmpty, smVars
<1>5. CASE ModemRestart
  <2>1. [kind |-> "engineUp"] \in Message
    BY DEF Message
  <2> QED
    BY <1>5, <2>1, SendType DEF ModemRestart, IInv, TypeOK, ReleasedIsEmpty, smVars
<1>6. ASSUME NEW n \in Nif, FrameworkTake(n)
      PROVE  IInv'
  <2>1. Head(fwCmd[n]) \in Command /\ Tail(fwCmd[n]) \in Seq(Command)
    BY <1>6, HeadTailProperties DEF FrameworkTake, IInv, TypeOK
  <2> QED
    BY <1>6, <2>1 DEF FrameworkTake, IInv, TypeOK, ReleasedIsEmpty, smVars
<1>7. ASSUME NEW n \in Nif, NEW k \in {"opened", "failed", "closed"},
             sendMsg([kind |-> k, n |-> n]),
             fwServing' \in [Nif -> Command \cup {"none"}], fwOpen' \in SUBSET Nif,
             UNCHANGED <<created, smVars, fwCmd, atl>>
      PROVE  IInv'
  <2>1. [kind |-> k, n |-> n] \in Message
    BY DEF Message
  <2> QED
    BY <1>7, <2>1, SendType DEF IInv, TypeOK, ReleasedIsEmpty, smVars
<1>8. ASSUME NEW n \in Nif, NEW c \in Command, Answer(n, c)
      PROVE  fwServing' \in [Nif -> Command \cup {"none"}]
  BY <1>8 DEF Answer, IInv, TypeOK
<1>9. ASSUME NEW n \in Nif, dataConnOpenCommand(n)
      PROVE  IInv'
  BY <1>7, <1>8, <1>9 DEF dataConnOpenCommand, Command, IInv, TypeOK
<1>10. ASSUME NEW n \in Nif, dataConnFailedCommand(n)
      PROVE  IInv'
  BY <1>7, <1>8, <1>10 DEF dataConnFailedCommand, Command, IInv, TypeOK
<1>11. ASSUME NEW n \in Nif, dataConnClosedCommand(n)
      PROVE  IInv'
  BY <1>7, <1>8, <1>11 DEF dataConnClosedCommand, Command, IInv, TypeOK
<1>12. ASSUME NEW n \in Nif, dataConnOpenBadApn(n)
      PROVE  IInv'
  <2>1. MachineOK' /\ ReleasedIsEmpty'
    BY <1>12, ReleasedStep DEF dataConnOpenBadApn, reportAtlClosed, IInv, TypeOK, MachineOK
  <2>2. fwServing' \in [Nif -> Command \cup {"none"}]
    BY <1>8, <1>12 DEF dataConnOpenBadApn, Command
  <2> QED
    BY <1>12, <2>1, <2>2 DEF dataConnOpenBadApn, reportAtlClosed, IInv, TypeOK, MachineOK
<1>13. CASE UNCHANGED vars
  BY <1>13 DEF vars, IInv, TypeOK, ReleasedIsEmpty
<1> QED
  BY <1>1, <1>2, <1>3, <1>4, <1>5, <1>6, <1>9, <1>10, <1>11, <1>12, <1>13
  DEF Next, Framework

(***************************************************************************)
(* Every reachable state of the manager is well typed, and a RELEASED      *)
(* machine has no subscriber, for any modem and framework, bad APNs, modem *)
(* restarts and waiting subscribers included.                              *)
(***************************************************************************)
THEOREM AgpsInvariant == Spec => [](TypeOK /\ ReleasedIsEmpty)
<1>1. Init => IInv
  BY DEF Init, IInv, TypeOK, ReleasedIsEmpty, AgpsState, Command
<1>2. IInv /\ [Next]_vars => IInv'
  BY IInvStep
<1> QED
  BY <1>1, <1>2, PTL DEF Spec, IInv

-----------------------------------------------------------------------------
(***************************************************************************)
(* With the subscribers requestATL makes, none of which waits for close,   *)
(* no subscriber is ever inactive and no machine ever reaches RELEASING.   *)
(* OpenIsAcquired is not inductive without it: a subscriber that is        *)
(* inactive and subscribes again would be told of a connection it is not   *)
(* counted for.                                                            *)
(***************************************************************************)
NeverReleasing == \A n \in Nif : mState[n] # "RELEASING" /\ mIsInactive[n] = {}

OInv == MachineOK /\ NeverReleasing /\ OpenIsAcquired

(* A subscription tells only its own handle, of an ACQUIRED machine. *)
LEMMA OpenSubscribe ==
    ASSUME OInv, NEW n \in Nif, NEW h \in Handle, processAgpsEventSubscribe(n, h)
    PROVE  NeverReleasing' /\ OpenIsAcquired'
<1>1. /\ mSubscriberList' = [mSubscriberList EXCEPT ![n] = @ \cup {h}]
      /\ mIsInactive' = mIsInactive
  BY DEF processAgpsEventSubscribe, addSubscriber
<1>2. CASE mState[n] = "ACQUIRED"
  <2>1. mState' = mState /\ atlOpenStatus({h})
    BY <1>2 DEF processAgpsEventSubscribe
  <2>2. \A g \in Handle : g # h => atl'[g] = atl[g]
    BY <2>1 DEF atlOpenStatus, OInv, MachineOK
  <2>3. h \in active(n)'
    BY <1>1 DEF active, OInv, MachineOK, NeverReleasing
  <2> QED
    BY <1>1, <1>2, <2>1, <2>2, <2>3 DEF OInv, MachineOK, NeverReleasing, OpenIsAcquired, active
<1>3. CASE mState[n] # "ACQUIRED"
  <2>1. /\ atl' = atl
        /\ mState' = mState \/ mState' = [mState EXCEPT ![n] = "PENDING"]
    BY <1>3 DEF processAgpsEventSubscribe, transitionState
  <2> QED
    BY <1>1, <1>3, <2>1 DEF OInv, MachineOK, NeverReleasing, OpenIsAcquired, active
<1> QED
  BY <1>2, <1>3

(* A handle that leaves is told; the others keep their machine, which is
   released only when none is left. *)
LEMMA OpenUnsubscribe ==
    ASSUME OInv, WaitForClose = {}, NEW n \in Nif, NEW h \in mSubscriberList[n],
           processAgpsEventUnsubscribe(n, h)
    PROVE  NeverReleasing' /\ OpenIsAcquired'
<1>1. CASE mState[n] = "RELEASED"
  <2>1. atlCloseStatus({h}) /\ UNCHANGED smVars
    BY <1>1 DEF processAgpsEventUnsubscribe
  <2> QED
    BY <2>1 DEF OInv, MachineOK, NeverReleasing, OpenIsAcquired, active, atlCloseStatus, smVars
<1>2. CASE mState[n] # "RELEASED"
  <2>1. deleteSubscribers(n, {h}) /\ atlCloseStatus({h})
    BY <1>2 DEF processAgpsEventUnsubscribe, leave
  <2>2. /\ mSubscriberList' = [mSubscriberList EXCEPT ![n] = @ \ {h}]
        /\ mIsInactive' = mIsInactive
    BY <2>1 DEF deleteSubscribers, OInv, MachineOK, NeverReleasing
  <2>3. /\ atl'[h] = "idle"
        /\ \A g \in Handle : g # h => atl'[g] = atl[g]
    BY <2>1 DEF atlCloseStatus, OInv, MachineOK
  <2>4. active(n)' = mSubscriberList'[n]
    BY <2>2 DEF active, OInv, MachineOK, NeverReleasing
  <2>5. \/ mState' = mState
        \/ mSubscriberList'[n] = {} /\ mState' = [mState EXCEPT ![n] = "RELEASED"]
    BY <1>2, <2>4 DEF processAgpsEventUnsubscribe, transitionState, OInv, NeverReleasing
  <2>6. NeverReleasing'
    BY <2>2, <2>5 DEF OInv, MachineOK, NeverReleasing
  <2>7. ASSUME NEW g \in Handle, atl'[g] = "open"
        PROVE  \E k \in Nif : g \in active(k)' /\ mState'[k] = "ACQUIRED"
    <3>1. g # h /\ atl[g] = "open"
      BY <2>3, <2>7
    <3>2. PICK k \in Nif : g \in mSubscriberList[k] /\ mState[k] = "ACQUIRED"
      BY <3>1 DEF OInv, OpenIsAcquired, active
    <3>3. g \in mSubscriberList'[k] /\ mIsInactive'[k] = {}
      BY <2>2, <3>1, <3>2 DEF OInv, MachineOK, NeverReleasing
    <3>4. mState'[k] = "ACQUIRED"
      BY <2>5, <3>2, <3>3 DEF OInv, MachineOK
    <3> QED
      BY <3>3, <3>4 DEF active
  <2> QED
    BY <2>6, <2>7 DEF OpenIsAcquired
<1> QED
  BY <1>1, <1>2

(* A grant tells the active subscribers of the machine it makes ACQUIRED. *)
LEMMA OpenGranted ==
    ASSUME OInv, NEW n \in Nif, processAgpsEventGranted(n)
    PROVE  NeverReleasing' /\ OpenIsAcquired'
<1>1. CASE mState[n] = "PENDING"
  <2>1. /\ mState' = [mState EXCEPT ![n] = "ACQUIRED"]
        /\ mSubscriberList' = mSubscriberList /\ mIsInactive' = mIsInactive
        /\ atlOpenStatus(active(n))
    BY <1>1 DEF processAgpsEventGranted, transitionState
  <2>2. \A g \in Handle : atl'[g] = "open" => g \in active(n) \/ atl[g] = "open"
    BY <2>1 DEF atlOpenStatus
  <2> QED
    BY <2>1, <2>2 DEF OInv, MachineOK, NeverReleasing, OpenIsAcquired, active
<1>2. CASE mState[n] # "PENDING"
  BY <1>2 DEF processAgpsEventGranted, OInv, NeverReleasing, OpenIsAcquired, active
<1> QED
  BY <1>1, <1>2

(* A forced release or a denial tells every subscriber it drops. *)
LEMMA OpenDropAll ==
    ASSUME OInv, NEW n \in Nif,
           transitionState(n, "RELEASED"),
           deleteSubscribers(n, mSubscriberList[n]),
           atlCloseStatus(mSubscriberList[n]) \/ atlOpenFailed(mSubscriberList[n])
    PROVE  NeverReleasing' /\ OpenIsAcquired'
<1>1. /\ mState' = [mState EXCEPT ![n] = "RELEASED"]
      /\ mSubscriberList' = [mSubscriberList EXCEPT ![n] = {}]
      /\ mIsInactive' = mIsInactive
  BY DEF transitionState, deleteSubscribers, OInv, MachineOK, NeverReleasing
<1>2. \A g \in Handle : atl'[g] = "open" => g \notin mSubscriberList[n] /\ atl[g] = "open"
  BY DEF atlCloseStatus, atlOpenFailed
<1> QED
  BY <1>1, <1>2 DEF OInv, MachineOK, NeverReleasing, OpenIsAcquired, active

(* processAgpsEventReleased leaves no handle open on a machine it releases. *)
LEMMA OpenReleased ==
    ASSUME OInv, NEW n \in Nif, processAgpsEventReleased(n)
    PROVE  NeverReleasing' /\ OpenIsAcquired'
<1>1. CASE UNCHANGED <<smVars, fwCmd, atl>>
  BY <1>1 DEF OInv, NeverReleasing, OpenIsAcquired, active, smVars
<1>2. CASE mState[n] = "ACQUIRED"
  BY <1>2, OpenDropAll DEF processAgpsEventReleased
<1> QED
  BY <1>1, <1>2 DEF processAgpsEventReleased, OInv, NeverReleasing

(* processAgpsEventDenied leaves no handle open on a machine it releases. *)
LEMMA OpenDenied ==
    ASSUME OInv, NEW n \in Nif, processAgpsEventDenied(n)
    PROVE  NeverReleasing' /\ OpenIsAcquired'
<1>1. CASE UNCHANGED <<smVars, fwCmd, atl>>
  BY <1>1 DEF OInv, NeverReleasing, OpenIsAcquired, active, smVars
<1>2. CASE mState[n] = "PENDING"
  BY <1>2, OpenDropAll DEF processAgpsEventDenied
<1> QED
  BY <1>1, <1>2 DEF processAgpsEventDenied, OInv, NeverReleasing

(* Whatever message the adapter handles, open handles stay acquired. *)
LEMMA OpenHandler ==
    ASSUME OInv, WaitForClose = {}, NEW m \in Message, Handler(m)
    PROVE  NeverReleasing' /\ OpenIsAcquired'
<1>1. CASE UNCHANGED <<smVars, atl>>
  BY <1>1 DEF OInv, NeverReleasing, OpenIsAcquired, active, smVars
<1>2. CASE m.kind = "requestATL" /\ requestATL(m.h, m.n)
  <2>1. m.h \in Handle /\ m.n \in Nif
    BY <1>2 DEF Message
  <2>2. CASE atlOpenFailed({m.h}) /\ UNCHANGED smVars
    BY <2>2 DEF atlOpenFailed, OInv, NeverReleasing, OpenIsAcquired, active, smVars
  <2> QED
    BY <1>2, <2>1, <2>2, OpenSubscribe DEF requestATL
<1>3. CASE m.kind = "releaseATL" /\ releaseATL(m.h)
  BY <1>1, <1>3, OpenUnsubscribe, NifFacts DEF releaseATL
<1>4. CASE m.kind = "opened" /\ reportAtlOpenSuccess(m.n)
  BY <1>4, OpenGranted DEF reportAtlOpenSuccess, Message
<1>5. CASE m.kind = "failed" /\ reportAtlOpenFailed(m.n)
  BY <1>5, OpenDenied DEF reportAtlOpenFailed, Message
<1>6. CASE m.kind = "closed" /\ reportAtlClosed(m.n)
  BY <1>6, OpenReleased DEF reportAtlClosed, Message
<1> QED
  BY <1>1, <1>2, <1>3, <1>4, <1>5, <1>6
  DEF Handler, createAgpsStateMachines, handleEngineUpEvent

(* NeverReleasing and OpenIsAcquired are preserved by every step. *)
LEMMA OpenStep ==
    ASSUME TypeOK, NeverReleasing, OpenIsAcquired, WaitForClose = {}, [Next]_vars
    PROVE  NeverReleasing' /\ OpenIsAcquired'
<1>0. OInv
  BY DEF OInv, TypeOK, MachineOK
<1>1. CASE HandleMessage
  <2>1. PICK m \in Message : Handler(m)
    BY <1>1, HeadTailProperties DEF HandleMessage, TypeOK
  <2> QED
    BY <1>0, <2>1, OpenHandler
<1>2. ASSUME NEW n \in Nif, dataConnOpenBadApn(n)
      PROVE  NeverReleasing' /\ OpenIsAcquired'
  BY <1>0, <1>2, OpenReleased DEF dataConnOpenBadApn, reportAtlClosed
<1>3. CASE /\ UNCHANGED smVars
           /\ \A g \in Handle : atl'[g] = "open" => atl[g] = "open"
  BY <1>3 DEF NeverReleasing, OpenIsAcquired, active, smVars
<1>4. ASSUME NEW h \in Handle, NEW n \in Nif, ModemRequest(h, n)
      PROVE  NeverReleasing' /\ OpenIsAcquired'
  BY <1>3, <1>4 DEF ModemRequest, TypeOK
<1>5. ASSUME NEW h \in Handle, ModemRelease(h)
      PROVE  NeverReleasing' /\ OpenIsAcquired'
  BY <1>3, <1>5 DEF ModemRelease, TypeOK
<1>6. CASE ModemRestart
  BY <1>3, <1>6 DEF ModemRestart
<1>7. CASE UNCHANGED <<smVars, atl>>
  BY <1>3, <1>7
<1>8. ASSUME NEW n \in Nif,
             \/ initAgpsCommand(n) \/ FrameworkTake(n) \/ dataConnOpenCommand(n)
             \/ dataConnFailedCommand(n) \/ dataConnClosedCommand(n)
      PROVE  NeverReleasing' /\ OpenIsAcquired'
  BY <1>7, <1>8 DEF initAgpsCommand, FrameworkTake, dataConnOpenCommand,
     dataConnFailedCommand, dataConnClosedCommand
<1>9. CASE UNCHANGED vars
  BY <1>7, <1>9 DEF vars, smVars
<1> QED
  BY <1>1, <1>2, <1>4, <1>5, <1>6, <1>8, <1>9 DEF Next, Framework

(***************************************************************************)
(* In the program as it calls the machines, a connection the modem holds   *)
(* open is held for it by an ACQUIRED machine, for any number of handles,  *)
(* any order of answers, bad APNs and modem restarts included; and the     *)
(* RELEASING state is never entered.                                       *)
(***************************************************************************)
THEOREM AgpsOpenIsAcquired ==
    ASSUME WaitForClose = {}
    PROVE  Spec => [](OpenIsAcquired /\ NeverReleasing)
<1>1. Init => OpenIsAcquired /\ NeverReleasing
  BY DEF Init, OpenIsAcquired, NeverReleasing
<1>2. TypeOK /\ OpenIsAcquired /\ NeverReleasing /\ [Next]_vars
          => (OpenIsAcquired /\ NeverReleasing)'
  BY OpenStep
<1>3. Spec => []TypeOK
  BY AgpsInvariant, PTL
<1> QED
  BY <1>1, <1>2, <1>3, PTL DEF Spec

-----------------------------------------------------------------------------
(***************************************************************************)
(* What becomes of one handle's request, when the modem does not restart.  *)
(* A handle takes turns: it asks once, and asks again when it has been     *)
(* told that it is idle; then it is in no list, and a release that is      *)
(* still in the queue is for a subscriber that is gone, and comes before   *)
(* the new request.  Without this a late release would make inactive a     *)
(* subscriber that waits.                                                  *)
(***************************************************************************)
none(q, S) == \A k \in 1..Len(q) : q[k] \notin S

\* No message of B comes after one of A.
NoneAfter(q, A, B) ==
    \A j, k \in 1..Len(q) : j < k /\ q[j] \in A => q[k] \notin B

asking(h) == {[kind |-> "requestATL", h |-> h, n |-> n] : n \in Nif}
giving(h) == {[kind |-> "releaseATL", h |-> h]}

TurnsOf(h) ==
    /\ atl[h] = "idle" => ~Subscribed(h) /\ none(msgQ, asking(h))
    /\ Subscribed(h) => none(msgQ, asking(h))
    /\ NoneAfter(msgQ, asking(h), asking(h))
    /\ atl[h] = "waiting" => /\ NoneAfter(msgQ, asking(h), giving(h))
                             /\ Subscribed(h) => none(msgQ, giving(h))
TakesTurns == OneNifPerHandle /\ \A h \in Handle : TurnsOf(h)

LEMMA QueueAppend ==
    ASSUME NEW q \in Seq(Message), NEW m, NEW A, NEW B
    PROVE  /\ none(Append(q, m), A) <=> none(q, A) /\ m \notin A
           /\ NoneAfter(Append(q, m), A, B) <=> NoneAfter(q, A, B) /\ (m \in B => none(q, A))
<1> DEFINE n == Len(q)
           r == Append(q, m)
<1>1. n \in Nat /\ Len(r) = n + 1 /\ r[n + 1] = m /\ \A k \in 1..n : r[k] = q[k]
  BY AppendProperties, LenProperties
<1>2. Len(q) = n
  OBVIOUS
<1> HIDE DEF n, r
<1>3. none(r, A) <=> none(q, A) /\ m \notin A
  BY <1>1, <1>2 DEF none
<1>4. ASSUME NoneAfter(r, A, B)
      PROVE  NoneAfter(q, A, B) /\ (m \in B => none(q, A))
  <2>1. \A j, k \in 1..(n + 1) : j < k /\ r[j] \in A => r[k] \notin B
    BY <1>1, <1>4 DEF NoneAfter
  <2>2. NoneAfter(q, A, B)
    <3> SUFFICES ASSUME NEW j \in 1..n, NEW k \in 1..n, j < k, q[j] \in A PROVE q[k] \notin B
      BY <1>2 DEF NoneAfter
    <3>1. j \in 1..(n + 1) /\ k \in 1..(n + 1) /\ r[j] = q[j] /\ r[k] = q[k]
      BY <1>1
    <3> QED BY <2>1, <3>1
  <2>3. ASSUME m \in B, NEW j \in 1..n PROVE q[j] \notin A
    <3>1. j \in 1..(n + 1) /\ n + 1 \in 1..(n + 1) /\ j < n + 1 /\ r[j] = q[j] /\ r[n + 1] = m
      BY <1>1
    <3> QED BY <2>1, <2>3, <3>1
  <2> QED BY <1>2, <2>2, <2>3 DEF none
<1>5. ASSUME NoneAfter(q, A, B), m \in B => none(q, A)
      PROVE  NoneAfter(r, A, B)
  <2> SUFFICES ASSUME NEW j \in 1..(n + 1), NEW k \in 1..(n + 1), j < k, r[j] \in A PROVE r[k] \notin B
    BY <1>1 DEF NoneAfter
  <2>1. j \in 1..n /\ q[j] \in A
    BY <1>1
  <2>2. CASE k \in 1..n
    BY <1>1, <1>2, <1>5, <2>1, <2>2 DEF NoneAfter
  <2>3. CASE k = n + 1
    BY <1>1, <1>2, <1>5, <2>1, <2>3 DEF none
  <2> QED BY <1>1, <2>2, <2>3
<1> QED BY <1>3, <1>4, <1>5 DEF r

LEMMA QueueTail ==
    ASSUME NEW q \in Seq(Message), q # <<>>, NEW A, NEW B
    PROVE  /\ none(q, A) => none(Tail(q), A) /\ Head(q) \notin A
           /\ NoneAfter(q, A, B) => NoneAfter(Tail(q), A, B) /\ (Head(q) \in A => none(Tail(q), B))
<1> DEFINE n == Len(q)
           t == Tail(q)
           h == Head(q)
<1>1. /\ n \in Nat \ {0} /\ Len(t) = n - 1 /\ q[1] = h
      /\ \A k \in 1..(n - 1) : t[k] = q[k + 1] /\ k + 1 \in 1..n
  BY HeadTailProperties, LenProperties, EmptySeq
<1>2. Len(q) = n
  OBVIOUS
<1> HIDE DEF n, t, h
<1>3. none(q, A) => none(t, A) /\ h \notin A
  BY <1>1, <1>2 DEF none
<1>4. ASSUME NoneAfter(q, A, B)
      PROVE  NoneAfter(t, A, B) /\ (h \in A => none(t, B))
  <2>1. \A j, k \in 1..n : j < k /\ q[j] \in A => q[k] \notin B
    BY <1>2, <1>4 DEF NoneAfter
  <2>2. ASSUME NEW j \in 1..(n - 1), NEW k \in 1..(n - 1), j < k, t[j] \in A
        PROVE  t[k] \notin B
    <3>1. j + 1 \in 1..n /\ k + 1 \in 1..n /\ j + 1 < k + 1 /\ t[j] = q[j + 1] /\ t[k] = q[k + 1]
      BY <1>1, <2>2
    <3> QED BY <2>1, <2>2, <3>1
  <2>3. ASSUME h \in A, NEW k \in 1..(n - 1) PROVE t[k] \notin B
    <3>1. 1 \in 1..n /\ k + 1 \in 1..n /\ 1 < k + 1 /\ q[1] = h /\ t[k] = q[k + 1]
      BY <1>1
    <3> QED BY <2>1, <2>3, <3>1
  <2> QED BY <1>1, <2>2, <2>3 DEF NoneAfter, none
<1> QED BY <1>3, <1>4 DEF t, h

\* The queued messages after posting one, and after taking the first.
LEMMA QueuedAppend ==
    ASSUME msgQ \in Seq(Message), NEW m, msgQ' = Append(msgQ, m)
    PROVE  QueuedMessages' = QueuedMessages \cup {m}
<1>1. /\ Len(msgQ) \in Nat /\ Len(msgQ') = Len(msgQ) + 1 /\ msgQ'[Len(msgQ) + 1] = m
      /\ \A k \in 1..Len(msgQ) : msgQ'[k] = msgQ[k]
  BY AppendProperties, LenProperties
<1>2. ASSUME NEW x \in QueuedMessages' PROVE x \in QueuedMessages \cup {m}
  <2> PICK k \in 1..Len(msgQ') : x = msgQ'[k]
    BY <1>2 DEF QueuedMessages
  <2> QED BY <1>1 DEF QueuedMessages
<1>3. ASSUME NEW x \in QueuedMessages PROVE x \in QueuedMessages'
  <2> PICK k \in 1..Len(msgQ) : x = msgQ[k]
    BY <1>3 DEF QueuedMessages
  <2>1. k \in 1..Len(msgQ') /\ x = msgQ'[k]
    BY <1>1
  <2> QED BY <2>1 DEF QueuedMessages
<1>4. m \in QueuedMessages'
  <2>1. Len(msgQ) + 1 \in 1..Len(msgQ')
    BY <1>1
  <2> QED BY <1>1, <2>1 DEF QueuedMessages
<1> QED BY <1>2, <1>3, <1>4

LEMMA QueuedTail ==
    ASSUME msgQ \in Seq(Message), msgQ # <<>>, msgQ' = Tail(msgQ)
    PROVE  \A x \in QueuedMessages : x # Head(msgQ) => x \in QueuedMessages'
<1> SUFFICES ASSUME NEW x \in QueuedMessages, x # Head(msgQ) PROVE x \in QueuedMessages'
  OBVIOUS
<1>1. /\ Len(msgQ) \in Nat \ {0} /\ Len(msgQ') = Len(msgQ) - 1 /\ msgQ[1] = Head(msgQ)
      /\ \A k \in 1..(Len(msgQ) - 1) : msgQ'[k] = msgQ[k + 1]
  BY HeadTailProperties, LenProperties, EmptySeq
<1> PICK k \in 1..Len(msgQ) : x = msgQ[k]
  BY DEF QueuedMessages
<1>2. k - 1 \in 1..(Len(msgQ) - 1) /\ msgQ'[k - 1] = msgQ[k - 1 + 1] /\ k - 1 + 1 = k
  BY <1>1
<1>3. k - 1 \in 1..Len(msgQ') /\ x = msgQ'[k - 1]
  BY <1>1, <1>2
<1> QED BY <1>3 DEF QueuedMessages

-----------------------------------------------------------------------------
(***************************************************************************)
(* What an event of machine n tells: a handle becomes idle only when it    *)
(* leaves the list; none enters one.                                       *)
(***************************************************************************)
Tells(n) ==
    /\ \A k \in Nif : mSubscriberList'[k] \subseteq mSubscriberList[k]
    /\ \A g \in Handle :
          \/ atl'[g] = atl[g]
          \/ atl[g] = "waiting" /\ atl'[g] = "open"
          \/ atl'[g] = "idle" /\ g \in mSubscriberList[n] /\ g \notin mSubscriberList'[n]

LEMMA UnsubscribeTells ==
    ASSUME MachineOK, ReleasedIsEmpty, NEW n \in Nif, NEW h \in mSubscriberList[n],
           processAgpsEventUnsubscribe(n, h)
    PROVE  Tells(n)
<1>1. leave(n, h)
  BY DEF processAgpsEventUnsubscribe, ReleasedIsEmpty
<1>2. CASE h \in WaitForClose
  BY <1>1, <1>2 DEF leave, Tells
<1>3. CASE h \notin WaitForClose
  <2>1. /\ mSubscriberList' = [mSubscriberList EXCEPT ![n] = @ \ {h}]
        /\ atl' = [g \in Handle |-> IF g \in {h} THEN "idle" ELSE atl[g]]
    BY <1>1, <1>3 DEF leave, deleteSubscribers, atlCloseStatus
  <2> QED BY <2>1 DEF Tells, MachineOK
<1> QED BY <1>2, <1>3

LEMMA GrantedTells ==
    ASSUME MachineOK, NEW n \in Nif, processAgpsEventGranted(n)
    PROVE  Tells(n)
BY DEF MachineOK, processAgpsEventGranted, Tells, atlOpenStatus

LEMMA ReleaseCompleteTells ==
    ASSUME MachineOK, NEW n \in Nif, releaseComplete(n)
    PROVE  Tells(n)
BY DEF MachineOK, releaseComplete, Tells, deleteSubscribers, atlCloseStatus

LEMMA DropAllTells ==
    ASSUME MachineOK, NEW n \in Nif, deleteSubscribers(n, mSubscriberList[n]),
           atlCloseStatus(mSubscriberList[n]) \/ atlOpenFailed(mSubscriberList[n])
    PROVE  Tells(n)
BY DEF MachineOK, Tells, deleteSubscribers, atlCloseStatus, atlOpenFailed

LEMMA NothingTells ==
    ASSUME NEW n \in Nif, UNCHANGED <<smVars, atl>>
    PROVE  Tells(n)
BY DEF Tells, smVars

LEMMA ReleasedTells ==
    ASSUME MachineOK, NEW n \in Nif, processAgpsEventReleased(n)
    PROVE  Tells(n)
BY ReleaseCompleteTells, DropAllTells, NothingTells DEF processAgpsEventReleased, smVars

LEMMA DeniedTells ==
    ASSUME MachineOK, NEW n \in Nif, processAgpsEventDenied(n)
    PROVE  Tells(n)
BY ReleaseCompleteTells, DropAllTells, NothingTells DEF processAgpsEventDenied, smVars

\* The handler of any message that is no request.
LEMMA HandlerTells ==
    ASSUME MachineOK, ReleasedIsEmpty, NEW m \in Message, Handler(m), m.kind # "requestATL"
    PROVE  \E n \in Nif : Tells(n)
<1>1. CASE m.kind = "releaseATL" /\ releaseATL(m.h)
  <2>1. CASE UNCHANGED <<smVars, fwCmd, atl>>
    BY <2>1, NothingTells, NifFacts
  <2>2. CASE \E n \in Nif : m.h \in mSubscriberList[n] /\ processAgpsEventUnsubscribe(n, m.h)
    BY <2>2, UnsubscribeTells
  <2> QED BY <1>1, <2>1, <2>2, NifFacts DEF releaseATL
<1>2. CASE m.kind = "opened" /\ reportAtlOpenSuccess(m.n)
  BY <1>2, GrantedTells DEF reportAtlOpenSuccess, Message
<1>3. CASE m.kind = "failed" /\ reportAtlOpenFailed(m.n)
  BY <1>3, DeniedTells DEF reportAtlOpenFailed, Message
<1>4. CASE m.kind = "closed" /\ reportAtlClosed(m.n)
  BY <1>4, ReleasedTells DEF reportAtlClosed, Message
<1>5. CASE UNCHANGED <<smVars, fwCmd, atl>>
  BY <1>5, NothingTells, NifFacts
<1> QED BY <1>1, <1>2, <1>3, <1>4, <1>5 DEF Handler, createAgpsStateMachines, handleEngineUpEvent

-----------------------------------------------------------------------------
(***************************************************************************)
(* Handles take turns, if the modem does not restart.                      *)
(***************************************************************************)
\* Messages leave the queue, or come that are neither requests nor releases.
Fewer(h) ==
    /\ none(msgQ, asking(h)) => none(msgQ', asking(h))
    /\ none(msgQ, giving(h)) => none(msgQ', giving(h))
    /\ NoneAfter(msgQ, asking(h), asking(h)) => NoneAfter(msgQ', asking(h), asking(h))
    /\ NoneAfter(msgQ, asking(h), giving(h)) => NoneAfter(msgQ', asking(h), giving(h))

LEMMA TailIsFewer ==
    ASSUME msgQ \in Seq(Message), msgQ # <<>>, msgQ' = Tail(msgQ), NEW h \in Handle
    PROVE  Fewer(h)
BY QueueTail DEF Fewer

LEMMA AppendIsFewer ==
    ASSUME msgQ \in Seq(Message), NEW m \in Message, msgQ' = Append(msgQ, m),
           m.kind \notin {"requestATL", "releaseATL"}, NEW h \in Handle
    PROVE  Fewer(h)
<1>1. m \notin asking(h) /\ m \notin giving(h)
  BY DEF asking, giving
<1>2. /\ none(msgQ', asking(h)) <=> none(msgQ, asking(h))
      /\ none(msgQ', giving(h)) <=> none(msgQ, giving(h))
  BY <1>1, QueueAppend
<1>3. /\ NoneAfter(msgQ', asking(h), asking(h)) <=> NoneAfter(msgQ, asking(h), asking(h))
      /\ NoneAfter(msgQ', asking(h), giving(h)) <=> NoneAfter(msgQ, asking(h), giving(h))
  BY <1>1, QueueAppend
<1> QED BY <1>2, <1>3 DEF Fewer

LEMMA TurnsTold ==
    ASSUME MachineOK, TakesTurns, NEW n \in Nif, Tells(n), \A h \in Handle : Fewer(h)
    PROVE  TakesTurns'
<1>1. OneNifPerHandle'
  BY NifFacts DEF TakesTurns, OneNifPerHandle, Tells
<1>2. ASSUME NEW h \in Handle
      PROVE  TurnsOf(h)'
  <2>1. /\ TurnsOf(h) /\ Fewer(h)
        /\ Subscribed(h)' => Subscribed(h)
    BY DEF TakesTurns, Subscribed, Tells
  <2>2. CASE atl'[h] = "idle" /\ h \in mSubscriberList[n] /\ h \notin mSubscriberList'[n]
    <3>1. \A k \in Nif : h \notin mSubscriberList'[k]
      BY <2>2, NifFacts DEF TakesTurns, OneNifPerHandle, Tells, Nif
    <3>2. none(msgQ, asking(h))
      BY <2>1, <2>2 DEF TurnsOf, Subscribed
    <3> QED BY <2>1, <2>2, <3>1, <3>2 DEF TurnsOf, Fewer, Subscribed
  <2>3. CASE atl'[h] = atl[h] \/ (atl[h] = "waiting" /\ atl'[h] = "open")
    BY <2>1, <2>3 DEF TurnsOf, Fewer
  <2> QED BY <2>1, <2>2, <2>3 DEF Tells
<1> QED BY <1>1, <1>2 DEF TakesTurns

\* A request that is handled is the handle's only one, and no release follows it
\* while the modem waits.
LEMMA TurnsRequest ==
    ASSUME MachineOK, TakesTurns, msgQ \in Seq(Message), msgQ # <<>>, msgQ' = Tail(msgQ),
           Head(msgQ).kind = "requestATL", Head(msgQ) \in Message, Handler(Head(msgQ))
    PROVE  TakesTurns'
<1> DEFINE m == Head(msgQ)
<1>1. m.h \in Handle /\ m.n \in Nif /\ m \in asking(m.h) /\ requestATL(m.h, m.n)
  BY DEF Message, asking, Handler
<1> PICK h \in Handle, n \in Nif : h = m.h /\ n = m.n
  BY <1>1
<1>2. m \in asking(h) /\ TurnsOf(h) /\ requestATL(h, n)
  BY <1>1 DEF TakesTurns
<1>3. ~none(msgQ, asking(h))
  BY <1>2, QueueTail
<1>4. /\ none(msgQ', asking(h)) /\ NoneAfter(msgQ', asking(h), asking(h))
      /\ atl[h] = "waiting" => /\ NoneAfter(msgQ', asking(h), giving(h))
                               /\ none(msgQ', giving(h))
  <2>1. NoneAfter(msgQ, asking(h), asking(h))
    BY <1>2 DEF TurnsOf
  <2>2. none(msgQ', asking(h)) /\ NoneAfter(msgQ', asking(h), asking(h))
    BY <1>2, <2>1, QueueTail
  <2>3. ASSUME atl[h] = "waiting"
        PROVE  NoneAfter(msgQ', asking(h), giving(h)) /\ none(msgQ', giving(h))
    <3>1. NoneAfter(msgQ, asking(h), giving(h))
      BY <1>2, <2>3 DEF TurnsOf
    <3> QED BY <1>2, <3>1, QueueTail
  <2> QED BY <2>2, <2>3
<1>5. ~Subscribed(h) /\ atl[h] # "idle"
  BY <1>2, <1>3 DEF TurnsOf
<1> HIDE DEF m
<1>6. /\ \A k \in Nif : \A g \in mSubscriberList'[k] : g \in mSubscriberList[k] \/ (k = n /\ g = h)
      /\ \A g \in Handle \ {h} : atl'[g] = atl[g]
      /\ \/ n \in created /\ (atl'[h] = atl[h] \/ atl'[h] = "open")
         \/ atl'[h] = "idle" /\ mSubscriberList' = mSubscriberList
  <2>1. CASE processAgpsEventSubscribe(n, h) /\ n \in created
    <3>1. mSubscriberList' = [mSubscriberList EXCEPT ![n] = @ \cup {h}]
      BY <2>1 DEF processAgpsEventSubscribe, addSubscriber
    <3>2. atl' = atl \/ atlOpenStatus({h})
      BY <2>1 DEF processAgpsEventSubscribe
    <3> QED BY <1>2, <2>1, <3>1, <3>2 DEF MachineOK, atlOpenStatus
  <2>2. CASE atlOpenFailed({h}) /\ UNCHANGED smVars
    BY <1>2, <2>2 DEF MachineOK, atlOpenFailed, smVars
  <2> QED BY <1>2, <2>1, <2>2 DEF requestATL
<1>7. OneNifPerHandle'
  <2> SUFFICES ASSUME NEW g, g \in mSubscriberList'[AGNSS], g \in mSubscriberList'[INTERNET]
               PROVE  FALSE
    BY DEF OneNifPerHandle
  <2>2. AGNSS # INTERNET
    BY DEF AGNSS, INTERNET
  <2> QED BY <1>5, <1>6, <2>2, NifFacts DEF TakesTurns, OneNifPerHandle, Subscribed
<1>8. ASSUME NEW g \in Handle
      PROVE  TurnsOf(g)'
  <2>1. CASE g = h
    <3>1. atl'[h] = "idle" => ~Subscribed(h)'
      BY <1>5, <1>6 DEF Subscribed
    <3>2. atl'[h] = "waiting" => atl[h] = "waiting"
      BY <1>6
    <3> QED BY <1>4, <2>1, <3>1, <3>2 DEF TurnsOf
  <2>2. CASE g # h
    <3>1. TurnsOf(g) /\ Fewer(g)
      BY TailIsFewer DEF TakesTurns
    <3>2. atl'[g] = atl[g] /\ (Subscribed(g)' => Subscribed(g))
      BY <1>6, <2>2 DEF Subscribed
    <3> QED BY <3>1, <3>2 DEF TurnsOf, Fewer
  <2> QED BY <2>1, <2>2
<1> QED BY <1>7, <1>8 DEF TakesTurns

\* The modem's calls.
LEMMA TurnsModemRequest ==
    ASSUME MachineOK, TakesTurns, msgQ \in Seq(Message), NEW h \in Handle, NEW n \in Nif,
           ModemRequest(h, n)
    PROVE  TakesTurns'
<1> DEFINE m == [kind |-> "requestATL", h |-> h, n |-> n]
<1>1. m \in Message /\ m.kind = "requestATL" /\ m.h = h
  BY DEF Message
<1>2. msgQ' = Append(msgQ, m) /\ mSubscriberList' = mSubscriberList
  BY DEF ModemRequest, sendMsg, smVars
<1>3. atl[h] = "idle" /\ atl' = [atl EXCEPT ![h] = "waiting"]
  BY DEF ModemRequest
<1> HIDE DEF m
<1>4. OneNifPerHandle'
  BY <1>2 DEF TakesTurns, OneNifPerHandle
<1>5. ASSUME NEW g \in Handle
      PROVE  TurnsOf(g)'
  <2>1. TurnsOf(g) /\ (Subscribed(g)' <=> Subscribed(g)) /\ m \notin giving(g)
    BY <1>1, <1>2 DEF TakesTurns, Subscribed, giving
  <2>2. /\ none(msgQ', giving(g)) <=> none(msgQ, giving(g))
        /\ none(msgQ', asking(g)) <=> none(msgQ, asking(g)) /\ m \notin asking(g)
        /\ NoneAfter(msgQ', asking(g), giving(g)) <=> NoneAfter(msgQ, asking(g), giving(g))
        /\ NoneAfter(msgQ', asking(g), asking(g)) <=>
               NoneAfter(msgQ, asking(g), asking(g)) /\ (m \in asking(g) => none(msgQ, asking(g)))
    BY <1>2, <2>1, QueueAppend
  <2>3. CASE g = h
    <3>1. ~Subscribed(h) /\ none(msgQ, asking(h))
      BY <1>3, <2>1, <2>3 DEF TurnsOf
    <3>2. NoneAfter(msgQ, asking(h), giving(h))
      BY <3>1 DEF none, NoneAfter
    <3>3. atl'[h] = "waiting"
      BY <1>3 DEF MachineOK
    <3> QED BY <2>1, <2>2, <2>3, <3>1, <3>2, <3>3 DEF TurnsOf
  <2>4. CASE g # h
    <3>1. m \notin asking(g) /\ atl'[g] = atl[g]
      BY <1>1, <1>3, <2>4 DEF asking, MachineOK
    <3> QED BY <2>1, <2>2, <3>1 DEF TurnsOf
  <2> QED BY <2>3, <2>4
<1> QED BY <1>4, <1>5 DEF TakesTurns

LEMMA TurnsModemRelease ==
    ASSUME MachineOK, TakesTurns, msgQ \in Seq(Message), NEW h \in Handle, ModemRelease(h)
    PROVE  TakesTurns'
<1> DEFINE m == [kind |-> "releaseATL", h |-> h]
<1>1. m \in Message /\ m.kind = "releaseATL" /\ m.h = h
  BY DEF Message
<1>2. msgQ' = Append(msgQ, m) /\ mSubscriberList' = mSubscriberList
  BY DEF ModemRelease, sendMsg, smVars
<1>3. atl' = [atl EXCEPT ![h] = "closing"]
  BY DEF ModemRelease
<1> HIDE DEF m
<1>4. OneNifPerHandle'
  BY <1>2 DEF TakesTurns, OneNifPerHandle
<1>5. ASSUME NEW g \in Handle
      PROVE  TurnsOf(g)'
  <2>1. TurnsOf(g) /\ (Subscribed(g)' <=> Subscribed(g)) /\ m \notin asking(g)
    BY <1>1, <1>2 DEF TakesTurns, Subscribed, asking
  <2>2. /\ none(msgQ', asking(g)) <=> none(msgQ, asking(g))
        /\ NoneAfter(msgQ', asking(g), asking(g)) <=> NoneAfter(msgQ, asking(g), asking(g))
    BY <1>2, <2>1, QueueAppend
  <2>3. CASE g = h
    <3>1. atl'[h] = "closing"
      BY <1>3 DEF MachineOK
    <3> QED BY <2>1, <2>2, <2>3, <3>1 DEF TurnsOf
  <2>4. CASE g # h
    <3>1. m \notin giving(g) /\ atl'[g] = atl[g]
      BY <1>1, <1>3, <2>4 DEF giving, MachineOK
    <3>2. /\ none(msgQ', giving(g)) <=> none(msgQ, giving(g))
          /\ NoneAfter(msgQ', asking(g), giving(g)) <=> NoneAfter(msgQ, asking(g), giving(g))
      BY <1>2, <3>1, QueueAppend
    <3> QED BY <2>1, <2>2, <3>1, <3>2 DEF TurnsOf
  <2> QED BY <2>3, <2>4
<1> QED BY <1>4, <1>5 DEF TakesTurns

LEMMA TurnsStep ==
    ASSUME IInv, TakesTurns, ~AllowRestart, [Next]_vars
    PROVE  TakesTurns'
<1>0. MachineOK /\ ReleasedIsEmpty /\ msgQ \in Seq(Message)
  BY DEF IInv, TypeOK, MachineOK
<1>1. CASE HandleMessage
  <2>1. msgQ # <<>> /\ msgQ' = Tail(msgQ) /\ Head(msgQ) \in Message /\ Handler(Head(msgQ))
    BY <1>0, <1>1, HeadTailProperties DEF HandleMessage
  <2>2. CASE Head(msgQ).kind = "requestATL"
    BY <1>0, <2>1, <2>2, TurnsRequest
  <2>3. CASE Head(msgQ).kind # "requestATL"
    <3> PICK n \in Nif : Tells(n)
      BY <1>0, <2>1, <2>3, HandlerTells
    <3> QED BY <1>0, <2>1, TailIsFewer, TurnsTold
  <2> QED BY <2>2, <2>3
<1>2. ASSUME NEW m \in Message, m.kind \notin {"requestATL", "releaseATL"}, msgQ' = Append(msgQ, m),
             UNCHANGED <<smVars, atl>>
      PROVE  TakesTurns'
  <2>1. \A h \in Handle : Fewer(h)
    BY <1>0, <1>2, AppendIsFewer
  <2> QED BY <1>0, <1>2, <2>1, TurnsTold, NothingTells, NifFacts
<1>3. CASE UNCHANGED <<smVars, atl, msgQ>>
  <2>1. \A h \in Handle : Fewer(h)
    BY <1>3 DEF Fewer
  <2> QED BY <1>0, <1>3, <2>1, TurnsTold, NothingTells, NifFacts
<1>4. ASSUME NEW n \in Nif, dataConnOpenBadApn(n)
      PROVE  TakesTurns'
  <2>1. \A h \in Handle : Fewer(h)
    BY <1>4 DEF Fewer, dataConnOpenBadApn
  <2>2. Tells(n)
    BY <1>0, <1>4, ReleasedTells DEF dataConnOpenBadApn, reportAtlClosed
  <2> QED BY <1>0, <2>1, <2>2, TurnsTold
<1>5. ASSUME NEW n \in Nif, initAgpsCommand(n) PROVE TakesTurns'
  <2> DEFINE m == [kind |-> "init", nifs |-> {n}]
  <2>1. m \in Message /\ m.kind = "init" /\ msgQ' = Append(msgQ, m) /\ UNCHANGED <<smVars, atl>>
    BY <1>5 DEF Message, initAgpsCommand, sendMsg
  <2> QED BY <1>2, <2>1
<1>6. ASSUME NEW n \in Nif, dataConnOpenCommand(n) \/ dataConnFailedCommand(n) \/ dataConnClosedCommand(n)
      PROVE  TakesTurns'
  <2> PICK kind \in {"opened", "failed", "closed"} : msgQ' = Append(msgQ, [kind |-> kind, n |-> n])
    BY <1>6 DEF dataConnOpenCommand, dataConnFailedCommand, dataConnClosedCommand, sendMsg
  <2> DEFINE m == [kind |-> kind, n |-> n]
  <2>1. m \in Message /\ m.kind \notin {"requestATL", "releaseATL"}
    BY DEF Message
  <2>2. UNCHANGED <<smVars, atl>>
    BY <1>6 DEF dataConnOpenCommand, dataConnFailedCommand, dataConnClosedCommand
  <2> QED BY <1>2, <2>1, <2>2
<1>7. ASSUME NEW n \in Nif, FrameworkTake(n) PROVE TakesTurns'
  BY <1>3, <1>7 DEF FrameworkTake
<1>8. CASE \E h \in Handle : ModemRelease(h) \/ \E n \in Nif : ModemRequest(h, n)
  BY <1>0, <1>8, TurnsModemRelease, TurnsModemRequest
<1>9. CASE UNCHANGED vars
  BY <1>3, <1>9 DEF vars, smVars
<1> QED
  BY <1>1, <1>4, <1>5, <1>6, <1>7, <1>8, <1>9 DEF Next, Framework, ModemRestart

LEMMA TurnsInvariance ==
    ASSUME ~AllowRestart
    PROVE  Spec => [](IInv /\ TakesTurns)
<1>1. Init => IInv /\ TakesTurns
  <2> SUFFICES ASSUME Init PROVE IInv /\ TakesTurns
    OBVIOUS
  <2>1. IInv
    BY DEF Init, IInv, TypeOK, ReleasedIsEmpty, AgpsState, Command
  <2>2. msgQ = <<>> /\ \A n \in Nif : mSubscriberList[n] = {}
    BY DEF Init
  <2>3. TakesTurns
    BY <2>2, NifFacts DEF TakesTurns, TurnsOf, OneNifPerHandle, Subscribed, none, NoneAfter
  <2> QED BY <2>1, <2>3
<1>2. IInv /\ TakesTurns /\ [Next]_vars => (IInv /\ TakesTurns)'
  BY IInvStep, TurnsStep
<1> QED BY <1>1, <1>2, PTL DEF Spec

(***************************************************************************)
(* While the modem does not restart, no handle is ever subscribed to both  *)
(* machines, so releaseATL's search for the first match finds the right    *)
(* one, for any handles, answers, bad APNs and waiting subscribers.        *)
(***************************************************************************)
THEOREM AgpsOneNifPerHandle ==
    ASSUME ~AllowRestart
    PROVE  Spec => []OneNifPerHandle
<1>1. IInv /\ TakesTurns => OneNifPerHandle
  BY DEF TakesTurns
<1> QED BY <1>1, TurnsInvariance, PTL

-----------------------------------------------------------------------------
(***************************************************************************)
(* Whoever waits is served: what the events do for a handle that goes on   *)
(* waiting and is an active subscriber of a machine that is about to tell  *)
(* it.                                                                     *)
(***************************************************************************)
Served(h) == \E n \in Nif : h \in active(n) /\ mState[n] \in {"PENDING", "RELEASING"}

GoesOn ==
    \A g \in Handle : atl'[g] = "waiting" => atl[g] = "waiting" /\ (Served(g) => Served(g)')

LEMMA SubscribeGoesOn ==
    ASSUME MachineOK, NEW n \in Nif, NEW h \in Handle, processAgpsEventSubscribe(n, h)
    PROVE  /\ GoesOn
           /\ atl'[h] = "waiting" /\ h \notin mIsInactive[n] => Served(h)'
<1>1. /\ mSubscriberList' = [mSubscriberList EXCEPT ![n] = @ \cup {h}]
      /\ mIsInactive' = mIsInactive
  BY DEF processAgpsEventSubscribe, addSubscriber
<1>2. /\ mState' \in [Nif -> AgpsState]
      /\ \A k \in Nif : mState[k] \in {"PENDING", "RELEASING"} => mState'[k] = mState[k]
      /\ mState[n] # "ACQUIRED" => mState'[n] \in {"PENDING", "RELEASING"} /\ atl' = atl
      /\ mState[n] = "ACQUIRED" => atlOpenStatus({h})
  BY DEF MachineOK, processAgpsEventSubscribe, transitionState, AgpsState
<1>3. atl'[h] = "waiting" => mState[n] # "ACQUIRED"
  BY <1>2 DEF atlOpenStatus
<1>4. h \in mSubscriberList'[n] /\ \A k \in Nif : mSubscriberList[k] \subseteq mSubscriberList'[k]
  BY <1>1 DEF MachineOK
<1>5. \A g \in Handle : atl'[g] = "waiting" => atl[g] = "waiting"
  BY <1>2 DEF atlOpenStatus
<1>6. ASSUME NEW g \in Handle, Served(g)
      PROVE  Served(g)'
  <2> PICK k \in Nif : g \in active(k) /\ mState[k] \in {"PENDING", "RELEASING"}
    BY <1>6 DEF Served
  <2>1. g \in active(k)' /\ mState'[k] \in {"PENDING", "RELEASING"}
    BY <1>1, <1>2, <1>4 DEF active
  <2> QED BY <2>1 DEF Served
<1>7. ASSUME atl'[h] = "waiting", h \notin mIsInactive[n]
      PROVE  Served(h)'
  <2>1. h \in active(n)' /\ mState'[n] \in {"PENDING", "RELEASING"}
    BY <1>1, <1>2, <1>3, <1>4, <1>7 DEF active
  <2> QED BY <2>1 DEF Served
<1> QED BY <1>5, <1>6, <1>7 DEF GoesOn

\* A subscriber that leaves is told, or waits for close and does not wait to open.
LEMMA UnsubscribeGoesOn ==
    ASSUME MachineOK, ReleasedIsEmpty, NEW n \in Nif, NEW h \in mSubscriberList[n],
           processAgpsEventUnsubscribe(n, h), h \in WaitForClose => atl[h] # "waiting"
    PROVE  GoesOn
<1>1. leave(n, h) /\ mState[n] # "RELEASED"
  BY DEF processAgpsEventUnsubscribe, ReleasedIsEmpty
<1>2. /\ \A g \in Handle \ {h} : atl'[g] = atl[g]
      /\ atl'[h] # "waiting"
  <2>1. h \in Handle
    BY DEF MachineOK
  <2> QED BY <1>1, <2>1 DEF leave, MachineOK, atlCloseStatus
<1>3. /\ \A k \in Nif \ {n} : mState'[k] = mState[k] /\ active(k)' = active(k)
      /\ \A g \in Handle \ {h} : g \in active(n) => g \in active(n)'
  <2>1. \A k \in Nif \ {n} : mState'[k] = mState[k]
    BY <1>1 DEF processAgpsEventUnsubscribe, transitionState, MachineOK
  <2>2. CASE h \in WaitForClose
    BY <1>1, <2>1, <2>2 DEF leave, active, MachineOK
  <2>3. CASE h \notin WaitForClose
    BY <1>1, <2>1, <2>3 DEF leave, active, MachineOK, deleteSubscribers
  <2> QED BY <2>2, <2>3
<1>4. ASSUME NEW g \in Handle \ {h}, g \in active(n), mState[n] \in {"PENDING", "RELEASING"}
      PROVE  mState'[n] = mState[n]
  <2>1. g \in active(n)' /\ g \in mSubscriberList'[n]
    BY <1>3, <1>4 DEF active
  <2> QED BY <1>4, <2>1 DEF processAgpsEventUnsubscribe, transitionState
<1>5. ASSUME NEW g \in Handle, atl'[g] = "waiting", Served(g)
      PROVE  Served(g)'
  <2>1. g # h
    BY <1>2, <1>5
  <2> PICK k \in Nif : g \in active(k) /\ mState[k] \in {"PENDING", "RELEASING"}
    BY <1>5 DEF Served
  <2>2. g \in active(k)' /\ mState'[k] = mState[k]
    BY <1>3, <1>4, <2>1
  <2> QED BY <2>2 DEF Served
<1> QED BY <1>2, <1>5 DEF GoesOn

LEMMA GrantedGoesOn ==
    ASSUME MachineOK, NEW n \in Nif, processAgpsEventGranted(n)
    PROVE  GoesOn
<1>1. CASE mState[n] = "PENDING"
  <2>1. /\ mState' = [mState EXCEPT ![n] = "ACQUIRED"]
        /\ mSubscriberList' = mSubscriberList /\ mIsInactive' = mIsInactive
        /\ atlOpenStatus(active(n))
    BY <1>1 DEF processAgpsEventGranted, transitionState
  <2>2. \A g \in Handle : atl'[g] = "waiting" => atl[g] = "waiting" /\ g \notin active(n)
    BY <2>1 DEF atlOpenStatus
  <2>3. \A k \in Nif : active(k)' = active(k) /\ (k # n => mState'[k] = mState[k])
    BY <2>1 DEF active, MachineOK
  <2> QED BY <2>2, <2>3 DEF GoesOn, Served
<1>2. CASE mState[n] # "PENDING"
  BY <1>2 DEF processAgpsEventGranted, GoesOn, Served, active
<1> QED BY <1>1, <1>2

\* Those that wait for a machine in RELEASING wait on in PENDING.
LEMMA ReleaseCompleteGoesOn ==
    ASSUME MachineOK, NEW n \in Nif, releaseComplete(n)
    PROVE  GoesOn
<1>1. /\ mSubscriberList' = [mSubscriberList EXCEPT ![n] = @ \ mIsInactive[n]]
      /\ mIsInactive' = [mIsInactive EXCEPT ![n] = {}]
  BY DEF releaseComplete, deleteSubscribers, MachineOK
<1>2. \A k \in Nif : active(k)' = active(k)
  BY <1>1 DEF active, MachineOK
<1>3. \A g \in Handle : atl'[g] = "waiting" => atl[g] = "waiting"
  BY DEF releaseComplete, atlCloseStatus
<1>4. /\ active(n) # {} => mState'[n] = "PENDING"
      /\ \A k \in Nif \ {n} : mState'[k] = mState[k]
  BY <1>2 DEF releaseComplete, transitionState, MachineOK
<1> QED BY <1>2, <1>3, <1>4 DEF GoesOn, Served

LEMMA DropAllGoesOn ==
    ASSUME MachineOK, NEW n \in Nif, transitionState(n, "RELEASED"),
           deleteSubscribers(n, mSubscriberList[n]),
           atlCloseStatus(mSubscriberList[n]) \/ atlOpenFailed(mSubscriberList[n])
    PROVE  GoesOn
<1>1. /\ \A k \in Nif \ {n} : mState'[k] = mState[k] /\ active(k)' = active(k)
      /\ \A g \in Handle : atl'[g] = "waiting" => atl[g] = "waiting" /\ g \notin active(n)
  BY DEF transitionState, deleteSubscribers, atlCloseStatus, atlOpenFailed, active, MachineOK
<1> QED BY <1>1 DEF GoesOn, Served

LEMMA NothingGoesOn ==
    ASSUME UNCHANGED <<smVars, atl>>
    PROVE  GoesOn
BY DEF GoesOn, Served, active, smVars

LEMMA ReleasedGoesOn ==
    ASSUME MachineOK, NEW n \in Nif, processAgpsEventReleased(n)
    PROVE  GoesOn
BY ReleaseCompleteGoesOn, DropAllGoesOn, NothingGoesOn DEF processAgpsEventReleased, smVars

LEMMA DeniedGoesOn ==
    ASSUME MachineOK, NEW n \in Nif, processAgpsEventDenied(n)
    PROVE  GoesOn
BY ReleaseCompleteGoesOn, DropAllGoesOn, NothingGoesOn DEF processAgpsEventDenied, smVars

(***************************************************************************)
(* What WaitingIsServed rests on: either no subscriber waits for close, as *)
(* in the program, or the modem does not restart and handles take turns.   *)
(***************************************************************************)
InOrder == (WaitForClose = {} /\ NeverReleasing) \/ TakesTurns

\* A handle whose release is handled does not wait, if it waits for close.
LEMMA ReleaseIsNotWaiting ==
    ASSUME InOrder, msgQ \in Seq(Message), msgQ # <<>>, NEW h \in WaitForClose,
           Head(msgQ) \in giving(h), Subscribed(h)
    PROVE  atl[h] # "waiting"
<1>1. TurnsOf(h)
  BY DEF InOrder, TakesTurns
<1>2. ~none(msgQ, giving(h))
  BY QueueTail
<1> QED BY <1>1, <1>2 DEF TurnsOf

LEMMA RequestIsActive ==
    ASSUME MachineOK, InOrder, msgQ \in Seq(Message), msgQ # <<>>, NEW h \in Handle, NEW n \in Nif,
           Head(msgQ) \in asking(h)
    PROVE  h \notin mIsInactive[n]
<1>1. CASE NeverReleasing
  BY <1>1 DEF NeverReleasing
<1>2. CASE TakesTurns
  <2>1. TurnsOf(h) /\ ~none(msgQ, asking(h))
    BY <1>2, QueueTail DEF TakesTurns
  <2> QED BY <2>1 DEF TurnsOf, Subscribed, MachineOK
<1> QED BY <1>1, <1>2 DEF InOrder

LEMMA WaitingHandler ==
    ASSUME MachineOK, ReleasedIsEmpty, InOrder, msgQ \in Seq(Message), msgQ # <<>>,
           msgQ' = Tail(msgQ), Head(msgQ) \in Message, Handler(Head(msgQ)), WaitingIsServed
    PROVE  WaitingIsServed'
<1> DEFINE m == Head(msgQ)
<1>0. \A x \in QueuedMessages : x # m => x \in QueuedMessages'
  BY QueuedTail
<1>1. CASE GoesOn /\ m.kind # "requestATL"
  <2> SUFFICES ASSUME NEW h \in Handle, atl'[h] = "waiting"
               PROVE  \/ \E n \in Nif : [kind |-> "requestATL", h |-> h, n |-> n] \in QueuedMessages'
                      \/ Served(h)'
    BY DEF WaitingIsServed, Served
  <2>1. atl[h] = "waiting" /\ (Served(h) => Served(h)')
    BY <1>1 DEF GoesOn
  <2>2. CASE Served(h)
    BY <2>1, <2>2
  <2>3. CASE \E n \in Nif : [kind |-> "requestATL", h |-> h, n |-> n] \in QueuedMessages
    <3> PICK n \in Nif : [kind |-> "requestATL", h |-> h, n |-> n] \in QueuedMessages
      BY <2>3
    <3>1. [kind |-> "requestATL", h |-> h, n |-> n] # m
      BY <1>1
    <3> QED BY <1>0, <3>1
  <2> QED BY <2>1, <2>2, <2>3 DEF WaitingIsServed, Served
<1>2. CASE m.kind = "requestATL"
  <2>1. m.h \in Handle /\ m.n \in Nif /\ m = [kind |-> "requestATL", h |-> m.h, n |-> m.n]
    BY <1>2 DEF Message
  <2> PICK h \in Handle, n \in Nif : m = [kind |-> "requestATL", h |-> h, n |-> n]
    BY <2>1
  <2>2. m \in asking(h) /\ m.h = h /\ m.n = n
    BY DEF asking
  <2>3. requestATL(h, n)
    BY <2>2, <1>2 DEF Handler
  <2>4. GoesOn /\ (atl'[h] = "waiting" => Served(h)')
    <3>1. CASE processAgpsEventSubscribe(n, h)
      BY <2>2, <3>1, SubscribeGoesOn, RequestIsActive
    <3>2. CASE atlOpenFailed({h}) /\ UNCHANGED smVars
      BY <3>2 DEF atlOpenFailed, GoesOn, Served, active, smVars
    <3> QED BY <2>3, <3>1, <3>2 DEF requestATL
  <2> SUFFICES ASSUME NEW g \in Handle, atl'[g] = "waiting"
               PROVE  \/ \E k \in Nif : [kind |-> "requestATL", h |-> g, n |-> k] \in QueuedMessages'
                      \/ Served(g)'
    BY DEF WaitingIsServed, Served
  <2>5. CASE g = h
    BY <2>4, <2>5
  <2>6. CASE g # h
    <3>1. atl[g] = "waiting" /\ (Served(g) => Served(g)')
      BY <2>4 DEF GoesOn
    <3>2. ASSUME NEW k \in Nif, [kind |-> "requestATL", h |-> g, n |-> k] \in QueuedMessages
          PROVE  [kind |-> "requestATL", h |-> g, n |-> k] \in QueuedMessages'
      <4>1. [kind |-> "requestATL", h |-> g, n |-> k].h = g /\ m.h = h
        BY <2>2
      <4> QED BY <1>0, <2>6, <3>2, <4>1
    <3> QED BY <3>1, <3>2 DEF WaitingIsServed, Served
  <2> QED BY <2>5, <2>6
<1>3. CASE m.kind = "releaseATL" /\ releaseATL(m.h)
  <2>1. m \in giving(m.h) /\ m.h \in Handle
    BY <1>3 DEF Message, giving
  <2>2. CASE \E n \in Nif : m.h \in mSubscriberList[n] /\ processAgpsEventUnsubscribe(n, m.h)
    <3>1. m.h \in WaitForClose => atl[m.h] # "waiting"
      BY <2>1, <2>2, ReleaseIsNotWaiting DEF Subscribed
    <3>2. GoesOn
      BY <2>2, <3>1, UnsubscribeGoesOn
    <3> QED BY <1>1, <1>3, <3>2
  <2>3. CASE UNCHANGED <<smVars, fwCmd, atl>>
    BY <1>1, <1>3, <2>3, NothingGoesOn
  <2> QED BY <1>3, <2>2, <2>3, NifFacts DEF releaseATL
<1>4. CASE m.kind = "opened" /\ reportAtlOpenSuccess(m.n)
  BY <1>1, <1>4, GrantedGoesOn DEF reportAtlOpenSuccess, Message
<1>5. CASE m.kind = "failed" /\ reportAtlOpenFailed(m.n)
  BY <1>1, <1>5, DeniedGoesOn DEF reportAtlOpenFailed, Message
<1>6. CASE m.kind = "closed" /\ reportAtlClosed(m.n)
  BY <1>1, <1>6, ReleasedGoesOn DEF reportAtlClosed, Message
<1>7. CASE m.kind \in {"init", "engineUp"} /\ UNCHANGED <<smVars, fwCmd, atl>>
  BY <1>1, <1>7, NothingGoesOn
<1> QED BY <1>2, <1>3, <1>4, <1>5, <1>6, <1>7 DEF Handler, createAgpsStateMachines, handleEngineUpEvent

LEMMA WaitingStep ==
    ASSUME IInv, InOrder, WaitingIsServed, [Next]_vars
    PROVE  WaitingIsServed'
<1>0. MachineOK /\ ReleasedIsEmpty /\ msgQ \in Seq(Message)
  BY DEF IInv, TypeOK, MachineOK
<1>1. CASE HandleMessage
  <2>1. msgQ # <<>> /\ msgQ' = Tail(msgQ) /\ Head(msgQ) \in Message /\ Handler(Head(msgQ))
    BY <1>0, <1>1, HeadTailProperties DEF HandleMessage
  <2> QED BY <1>0, <2>1, WaitingHandler
<1>2. CASE GoesOn /\ QueuedMessages \subseteq QueuedMessages'
  <2> SUFFICES ASSUME NEW h \in Handle, atl'[h] = "waiting"
               PROVE  \/ \E n \in Nif : [kind |-> "requestATL", h |-> h, n |-> n] \in QueuedMessages'
                      \/ Served(h)'
    BY DEF WaitingIsServed, Served
  <2> QED BY <1>2 DEF WaitingIsServed, Served, GoesOn
<1>3. CASE UNCHANGED <<smVars, atl>> /\ (UNCHANGED msgQ \/ \E m : msgQ' = Append(msgQ, m))
  <2>1. QueuedMessages \subseteq QueuedMessages'
    <3>1. CASE UNCHANGED msgQ
      BY <3>1 DEF QueuedMessages
    <3>2. CASE \E m : msgQ' = Append(msgQ, m)
      BY <1>0, <3>2, QueuedAppend
    <3> QED BY <1>3, <3>1, <3>2
  <2> QED BY <1>2, <1>3, <2>1, NothingGoesOn
<1>4. ASSUME NEW n \in Nif, dataConnOpenBadApn(n)
      PROVE  WaitingIsServed'
  <2>1. GoesOn
    BY <1>0, <1>4, ReleasedGoesOn DEF dataConnOpenBadApn, reportAtlClosed
  <2>2. QueuedMessages' = QueuedMessages
    BY <1>4 DEF dataConnOpenBadApn, QueuedMessages
  <2> QED BY <1>2, <2>1, <2>2
<1>5. ASSUME NEW n \in Nif, initAgpsCommand(n) \/ FrameworkTake(n) \/ dataConnOpenCommand(n)
                            \/ dataConnFailedCommand(n) \/ dataConnClosedCommand(n)
      PROVE  WaitingIsServed'
  BY <1>3, <1>5 DEF initAgpsCommand, FrameworkTake, dataConnOpenCommand, dataConnFailedCommand,
     dataConnClosedCommand, sendMsg
<1>6. ASSUME NEW h \in Handle, NEW n \in Nif, ModemRequest(h, n)
      PROVE  WaitingIsServed'
  <2> DEFINE m == [kind |-> "requestATL", h |-> h, n |-> n]
  <2>1. msgQ' = Append(msgQ, m) /\ atl' = [atl EXCEPT ![h] = "waiting"] /\ UNCHANGED smVars
    BY <1>6 DEF ModemRequest, sendMsg
  <2>2. QueuedMessages' = QueuedMessages \cup {m}
    BY <1>0, <2>1, QueuedAppend
  <2>3. \A g \in Handle \ {h} : atl'[g] = atl[g]
    BY <1>0, <2>1 DEF MachineOK
  <2> QED BY <2>1, <2>2, <2>3 DEF WaitingIsServed, active, smVars
<1>7. ASSUME UNCHANGED smVars, NEW m, msgQ' = Append(msgQ, m),
             \A g \in Handle : atl'[g] = "waiting" => atl[g] = "waiting"
      PROVE  WaitingIsServed'
  <2>1. QueuedMessages \subseteq QueuedMessages'
    BY <1>0, <1>7, QueuedAppend
  <2>2. GoesOn
    BY <1>7 DEF GoesOn, Served, active, smVars
  <2> QED BY <1>2, <2>1, <2>2
<1>8. ASSUME NEW h \in Handle, ModemRelease(h)
      PROVE  WaitingIsServed'
  <2>1. msgQ' = Append(msgQ, [kind |-> "releaseATL", h |-> h]) /\ UNCHANGED smVars
    BY <1>8 DEF ModemRelease, sendMsg
  <2>2. \A g \in Handle : atl'[g] = "waiting" => atl[g] = "waiting"
    BY <1>0, <1>8 DEF ModemRelease, MachineOK
  <2> QED BY <1>7, <2>1, <2>2
<1>9. CASE ModemRestart
  <2>1. msgQ' = Append(msgQ, [kind |-> "engineUp"]) /\ UNCHANGED smVars
    BY <1>9 DEF ModemRestart, sendMsg
  <2>2. \A g \in Handle : atl'[g] = "waiting" => atl[g] = "waiting"
    BY <1>9 DEF ModemRestart
  <2> QED BY <1>7, <2>1, <2>2
<1>10. CASE UNCHANGED vars
  BY <1>3, <1>10 DEF vars, smVars
<1> QED
  BY <1>1, <1>4, <1>5, <1>6, <1>8, <1>9, <1>10 DEF Next, Framework

(***************************************************************************)
(* No request of the modem is forgotten, for any handles, answers and bad  *)
(* APNs: in the program as it calls the machines, modem restarts included; *)
(* and with subscribers that wait for close complete, if there are none.   *)
(***************************************************************************)
THEOREM AgpsWaitingIsServed ==
    ASSUME WaitForClose = {} \/ ~AllowRestart
    PROVE  Spec => []WaitingIsServed
<1>1. Spec => []IInv
  BY AgpsInvariant, PTL DEF IInv
<1>2. Spec => []InOrder
  <2>1. CASE WaitForClose = {}
    <3>1. OpenIsAcquired /\ NeverReleasing => InOrder
      BY <2>1 DEF InOrder
    <3>2. Spec => [](OpenIsAcquired /\ NeverReleasing)
      BY <2>1, AgpsOpenIsAcquired
    <3> QED BY <3>1, <3>2, PTL
  <2>2. CASE ~AllowRestart
    <3>1. IInv /\ TakesTurns => InOrder
      BY DEF InOrder
    <3>2. Spec => [](IInv /\ TakesTurns)
      BY <2>2, TurnsInvariance
    <3> QED BY <3>1, <3>2, PTL
  <2> QED BY <2>1, <2>2
<1>3. Init => WaitingIsServed
  BY DEF Init, WaitingIsServed
<1>4. IInv /\ InOrder /\ WaitingIsServed /\ [Next]_vars => WaitingIsServed'
  BY WaitingStep
<1> QED BY <1>1, <1>2, <1>3, <1>4, PTL DEF Spec

-----------------------------------------------------------------------------
(***************************************************************************)
(* A machine that waits has an answer coming: the state in which it waits  *)
(* for the answer to each command, and the reports that are the answer.    *)
(***************************************************************************)
Waits(c) == IF c = "REQUEST" THEN "PENDING" ELSE "RELEASING"
AnswersTo(c) == IF c = "REQUEST" THEN {"opened", "failed"} ELSE {"closed"}
Coming(n, c) == CommandWith(n, c) \/ AnswerQueued(n, AnswersTo(c))
AnswersCome == \A n \in Nif, c \in Command : mState[n] = Waits(c) => Coming(n, c)

LEMMA AnswersComeIsAll == AnswersCome <=> PendingHasAnswerComing
BY DEF AnswersCome, PendingHasAnswerComing, Coming, Waits, AnswersTo, Command

\* An event of machine n: it begins to wait only by sending the command.
Asks(n) ==
    /\ \A k \in Nif \ {n} : mState'[k] = mState[k] /\ fwCmd'[k] = fwCmd[k]
    /\ \/ fwCmd'[n] = fwCmd[n]
       \/ \E c \in Command : fwCmd'[n] = Append(fwCmd[n], c)
    /\ \A c \in Command :
          mState'[n] = Waits(c) => mState[n] = Waits(c) \/ fwCmd'[n] = Append(fwCmd[n], c)

LEMMA NothingAsks ==
    ASSUME NEW n \in Nif, UNCHANGED <<smVars, fwCmd>>
    PROVE  Asks(n)
BY DEF Asks, smVars

LEMMA SubscribeAsks ==
    ASSUME MachineOK, NEW n \in Nif, NEW h \in Handle, processAgpsEventSubscribe(n, h)
    PROVE  Asks(n)
BY DEF MachineOK, processAgpsEventSubscribe, transitionState, requestOrReleaseDataConn, Asks, Waits, Command

LEMMA UnsubscribeAsks ==
    ASSUME MachineOK, NEW n \in Nif, NEW h \in Handle, processAgpsEventUnsubscribe(n, h)
    PROVE  Asks(n)
<1>1. CASE UNCHANGED <<mState, fwCmd>>
  BY <1>1 DEF Asks
<1>2. CASE transitionState(n, "RELEASED") /\ UNCHANGED fwCmd
  BY <1>2 DEF MachineOK, transitionState, Asks, Waits
<1>3. CASE /\ transitionState(n, "RELEASED") \/ transitionState(n, "RELEASING")
           /\ requestOrReleaseDataConn(n, "RELEASE")
  <2>1. /\ mState'[n] \in {"RELEASED", "RELEASING"}
        /\ \A k \in Nif \ {n} : mState'[k] = mState[k]
    BY <1>3 DEF MachineOK, transitionState
  <2>2. /\ fwCmd'[n] = Append(fwCmd[n], "RELEASE")
        /\ \A k \in Nif \ {n} : fwCmd'[k] = fwCmd[k]
    BY <1>3 DEF MachineOK, requestOrReleaseDataConn
  <2> QED BY <2>1, <2>2 DEF Asks, Waits, Command
<1> QED BY <1>1, <1>2, <1>3 DEF processAgpsEventUnsubscribe, smVars

LEMMA GrantedAsks ==
    ASSUME MachineOK, NEW n \in Nif, processAgpsEventGranted(n)
    PROVE  Asks(n) /\ mState'[n] # "PENDING"
BY DEF MachineOK, processAgpsEventGranted, transitionState, Asks, Waits

\* A release that completes ends the wait for it, and asks anew for those that wait.
LEMMA ReleaseCompleteAsks ==
    ASSUME MachineOK, NEW n \in Nif, releaseComplete(n), mState[n] = "RELEASING"
    PROVE  Asks(n) /\ mState'[n] # "RELEASING"
<1>1. CASE transitionState(n, "PENDING") /\ requestOrReleaseDataConn(n, "REQUEST")
  <2>1. /\ mState'[n] = "PENDING"
        /\ \A k \in Nif \ {n} : mState'[k] = mState[k]
    BY <1>1 DEF MachineOK, transitionState
  <2>2. /\ fwCmd'[n] = Append(fwCmd[n], "REQUEST")
        /\ \A k \in Nif \ {n} : fwCmd'[k] = fwCmd[k]
    BY <1>1 DEF MachineOK, requestOrReleaseDataConn
  <2> QED BY <2>1, <2>2 DEF Asks, Waits, Command
<1>2. CASE transitionState(n, "RELEASED") /\ UNCHANGED fwCmd
  BY <1>2 DEF MachineOK, transitionState, Asks, Waits
<1> QED BY <1>1, <1>2 DEF releaseComplete

LEMMA ReleasedAsks ==
    ASSUME MachineOK, NEW n \in Nif, processAgpsEventReleased(n)
    PROVE  Asks(n) /\ mState'[n] # "RELEASING"
<1>1. CASE mState[n] \in {"RELEASED", "PENDING"} /\ UNCHANGED <<smVars, fwCmd, atl>>
  BY <1>1, NothingAsks DEF smVars
<1>2. CASE mState[n] = "ACQUIRED" /\ transitionState(n, "RELEASED") /\ UNCHANGED fwCmd
  BY <1>2 DEF MachineOK, transitionState, Asks, Waits
<1>3. CASE mState[n] = "RELEASING" /\ releaseComplete(n)
  BY <1>3, ReleaseCompleteAsks
<1> QED BY <1>1, <1>2, <1>3 DEF processAgpsEventReleased

LEMMA DeniedAsks ==
    ASSUME MachineOK, NEW n \in Nif, processAgpsEventDenied(n)
    PROVE  /\ Asks(n) /\ mState'[n] # "RELEASING"
           /\ mState'[n] = "PENDING" => fwCmd'[n] = Append(fwCmd[n], "REQUEST")
<1>1. CASE mState[n] \in {"RELEASED", "ACQUIRED"} /\ UNCHANGED <<smVars, fwCmd, atl>>
  BY <1>1, NothingAsks DEF smVars
<1>2. CASE mState[n] = "PENDING" /\ transitionState(n, "RELEASED") /\ UNCHANGED fwCmd
  BY <1>2 DEF MachineOK, transitionState, Asks, Waits
<1>3. CASE mState[n] = "RELEASING" /\ releaseComplete(n)
  BY <1>3, ReleaseCompleteAsks DEF Asks, Waits, Command
<1> QED BY <1>1, <1>2, <1>3 DEF processAgpsEventDenied

\* Handled, a report is the answer to whatever the machine waited for.
LEMMA HandlerAsks ==
    ASSUME MachineOK, NEW m \in Message, Handler(m)
    PROVE  \E n \in Nif :
              /\ Asks(n)
              /\ \A k \in Nif, c \in Command :
                    m.kind \in AnswersTo(c) /\ m.n = k /\ mState'[k] = Waits(c) =>
                        fwCmd'[k] = Append(fwCmd[k], c)
<1>1. CASE m.kind \in {"init", "engineUp"} /\ UNCHANGED <<smVars, fwCmd>>
  BY <1>1, NothingAsks, NifFacts DEF AnswersTo
<1>2. CASE m.kind = "requestATL" /\ requestATL(m.h, m.n)
  <2>1. m.h \in Handle /\ m.n \in Nif
    BY <1>2 DEF Message
  <2> QED BY <1>2, <2>1, SubscribeAsks, NothingAsks DEF requestATL, AnswersTo
<1>3. CASE m.kind = "releaseATL" /\ releaseATL(m.h)
  <2>1. m.h \in Handle
    BY <1>3 DEF Message
  <2> QED BY <1>3, <2>1, UnsubscribeAsks, NothingAsks, NifFacts DEF releaseATL, AnswersTo
<1>4. CASE m.kind = "opened" /\ reportAtlOpenSuccess(m.n)
  <2>1. m.n \in Nif /\ Asks(m.n) /\ mState'[m.n] # "PENDING"
    BY <1>4, GrantedAsks DEF reportAtlOpenSuccess, Message
  <2> QED BY <1>4, <2>1 DEF AnswersTo, Waits, Command
<1>5. CASE m.kind = "failed" /\ reportAtlOpenFailed(m.n)
  <2>1. /\ m.n \in Nif /\ Asks(m.n)
        /\ mState'[m.n] = "PENDING" => fwCmd'[m.n] = Append(fwCmd[m.n], "REQUEST")
    BY <1>5, DeniedAsks DEF reportAtlOpenFailed, Message
  <2> QED BY <1>5, <2>1 DEF AnswersTo, Waits, Command
<1>6. CASE m.kind = "closed" /\ reportAtlClosed(m.n)
  <2>1. m.n \in Nif /\ Asks(m.n) /\ mState'[m.n] # "RELEASING"
    BY <1>6, ReleasedAsks DEF reportAtlClosed, Message
  <2> QED BY <1>6, <2>1 DEF AnswersTo, Waits, Command
<1> QED BY <1>1, <1>2, <1>3, <1>4, <1>5, <1>6
        DEF Handler, createAgpsStateMachines, handleEngineUpEvent

\* Commands with the framework.
LEMMA CommandSent ==
    ASSUME MachineOK, NEW n \in Nif, NEW c \in Command, NEW d \in Command,
           fwCmd'[n] = Append(fwCmd[n], d), fwServing' = fwServing,
           d = c \/ CommandWith(n, c)
    PROVE  CommandWith(n, c)'
<1>1. /\ Len(fwCmd[n]) \in Nat /\ Len(fwCmd'[n]) = Len(fwCmd[n]) + 1
      /\ fwCmd'[n][Len(fwCmd[n]) + 1] = d
      /\ \A k \in 1..Len(fwCmd[n]) : fwCmd'[n][k] = fwCmd[n][k]
  BY AppendProperties, LenProperties DEF MachineOK
<1>2. CASE d = c
  <2>1. Len(fwCmd[n]) + 1 \in 1..Len(fwCmd'[n])
    BY <1>1
  <2> QED BY <1>1, <1>2, <2>1 DEF CommandWith
<1>3. CASE fwServing[n] = c
  BY <1>3 DEF CommandWith
<1>4. CASE \E i \in 1 .. Len(fwCmd[n]) : fwCmd[n][i] = c
  <2> PICK i \in 1..Len(fwCmd[n]) : fwCmd[n][i] = c
    BY <1>4
  <2>1. i \in 1..Len(fwCmd'[n]) /\ fwCmd'[n][i] = c
    BY <1>1
  <2> QED BY <2>1 DEF CommandWith
<1> QED BY <1>2, <1>3, <1>4 DEF CommandWith

LEMMA CommandTaken ==
    ASSUME IInv, NEW n \in Nif, FrameworkTake(n), NEW k \in Nif, NEW c \in Command, CommandWith(k, c)
    PROVE  CommandWith(k, c)'
<1>1. CASE k # n
  BY <1>1 DEF FrameworkTake, CommandWith, IInv, TypeOK
<1>2. CASE k = n
  <2>1. /\ fwServing'[n] = Head(fwCmd[n]) /\ fwCmd'[n] = Tail(fwCmd[n]) /\ fwServing[n] = "none"
        /\ fwCmd[n] \in Seq(Command) /\ fwCmd[n] # <<>>
    BY DEF FrameworkTake, IInv, TypeOK
  <2>2. /\ Len(fwCmd[n]) \in Nat \ {0} /\ Len(fwCmd'[n]) = Len(fwCmd[n]) - 1
        /\ fwCmd[n][1] = fwServing'[n]
        /\ \A i \in 1..(Len(fwCmd[n]) - 1) : fwCmd'[n][i] = fwCmd[n][i + 1]
    BY <2>1, HeadTailProperties, LenProperties, EmptySeq
  <2>3. c # "none"
    BY DEF Command
  <2> PICK i \in 1..Len(fwCmd[n]) : fwCmd[n][i] = c
    BY <1>2, <2>1, <2>3 DEF CommandWith
  <2>4. CASE i = 1
    BY <1>2, <2>2, <2>4 DEF CommandWith
  <2>5. CASE i # 1
    <3>1. i - 1 \in 1..(Len(fwCmd[n]) - 1) /\ (i - 1) + 1 = i
      BY <2>2, <2>5
    <3>2. fwCmd'[n][i - 1] = c /\ i - 1 \in 1..Len(fwCmd'[n])
      BY <2>2, <3>1
    <3> QED BY <1>2, <3>2 DEF CommandWith
  <2> QED BY <2>4, <2>5
<1> QED BY <1>1, <1>2

\* A sequence tells what was appended to it last.
LEMMA LastAppended ==
    ASSUME NEW q \in Seq(Message), NEW x, NEW y, Append(q, x) = Append(q, y)
    PROVE  x = y
<1>1. Append(q, x)[Len(q) + 1] = x /\ Append(q, y)[Len(q) + 1] = y
  BY AppendProperties
<1> QED BY <1>1

\* The framework's answers, but for an open with a bad APN, are reports.
LEMMA AnswerReported ==
    ASSUME IInv, NEW n \in Nif,
           dataConnOpenCommand(n) \/ dataConnFailedCommand(n) \/ dataConnClosedCommand(n),
           NEW k \in Nif, NEW c \in Command, Coming(k, c)
    PROVE  Coming(k, c)'
<1> PICK kind \in {"opened", "failed", "closed"} : msgQ' = Append(msgQ, [kind |-> kind, n |-> n])
  BY DEF dataConnOpenCommand, dataConnFailedCommand, dataConnClosedCommand, sendMsg
<1>1. QueuedMessages' = QueuedMessages \cup {[kind |-> kind, n |-> n]}
  BY QueuedAppend DEF IInv, TypeOK
<1>2. fwCmd' = fwCmd /\ \A j \in Nif \ {n} : fwServing'[j] = fwServing[j]
  BY DEF dataConnOpenCommand, dataConnFailedCommand, dataConnClosedCommand, Answer, IInv, TypeOK
<1>3. CASE AnswerQueued(k, AnswersTo(c))
  BY <1>1, <1>3 DEF Coming, AnswerQueued
<1>4. CASE \E i \in 1 .. Len(fwCmd[k]) : fwCmd[k][i] = c
  BY <1>2, <1>4 DEF Coming, CommandWith
<1>5. CASE fwServing[k] = c
  <2>1. CASE fwServing'[k] = c
    BY <2>1 DEF Coming, CommandWith
  <2>2. CASE fwServing'[k] # c
    <3>1. k = n /\ kind \in AnswersTo(c)
      <4>1. k = n
        BY <1>2, <1>5, <2>2
      <4>2. CASE dataConnOpenCommand(n) \/ dataConnFailedCommand(n)
        <5>1. c = "REQUEST" /\ msgQ' \in {Append(msgQ, [kind |-> "opened", n |-> n]),
                                          Append(msgQ, [kind |-> "failed", n |-> n])}
          BY <1>5, <4>1, <4>2 DEF dataConnOpenCommand, dataConnFailedCommand, Answer, sendMsg
        <5>2. [kind |-> kind, n |-> n] \in {[kind |-> "opened", n |-> n], [kind |-> "failed", n |-> n]}
          BY <5>1, LastAppended DEF IInv, TypeOK
        <5>3. [kind |-> kind, n |-> n].kind = kind
          OBVIOUS
        <5> QED BY <4>1, <5>1, <5>2, <5>3 DEF AnswersTo
      <4>3. CASE dataConnClosedCommand(n)
        <5>1. c = "RELEASE" /\ msgQ' = Append(msgQ, [kind |-> "closed", n |-> n])
          BY <1>5, <2>2, <4>1, <4>3 DEF dataConnClosedCommand, Answer, sendMsg
        <5>2. [kind |-> kind, n |-> n] = [kind |-> "closed", n |-> n]
          BY <5>1, LastAppended DEF IInv, TypeOK
        <5>3. [kind |-> kind, n |-> n].kind = kind
          OBVIOUS
        <5> QED BY <4>1, <5>1, <5>2, <5>3 DEF AnswersTo
      <4> QED BY <4>1, <4>2, <4>3
    <3>2. [kind |-> kind, n |-> n] \in QueuedMessages'
      BY <1>1
    <3>3. [kind |-> kind, n |-> n].kind = kind /\ [kind |-> kind, n |-> n].n = n
      OBVIOUS
    <3> QED BY <3>1, <3>2, <3>3 DEF Coming, AnswerQueued
  <2> QED BY <2>1, <2>2
<1> QED BY <1>3, <1>4, <1>5 DEF Coming, CommandWith

LEMMA AnswersStep ==
    ASSUME IInv, ~BadApn, AnswersCome, [Next]_vars
    PROVE  AnswersCome'
<1>0. MachineOK /\ msgQ \in Seq(Message)
  BY DEF IInv, TypeOK, MachineOK
<1>1. CASE HandleMessage
  <2>1. /\ msgQ # <<>> /\ msgQ' = Tail(msgQ) /\ Head(msgQ) \in Message /\ Handler(Head(msgQ))
        /\ fwServing' = fwServing
    BY <1>0, <1>1, HeadTailProperties DEF HandleMessage
  <2> DEFINE m == Head(msgQ)
  <2>2. \A x \in QueuedMessages : x # m => x \in QueuedMessages'
    BY <1>0, <2>1, QueuedTail
  <2> PICK n \in Nif :
        /\ Asks(n)
        /\ \A k \in Nif, c \in Command :
              m.kind \in AnswersTo(c) /\ m.n = k /\ mState'[k] = Waits(c) =>
                  fwCmd'[k] = Append(fwCmd[k], c)
    BY <1>0, <2>1, HandlerAsks
  <2> HIDE DEF m
  <2> SUFFICES ASSUME NEW k \in Nif, NEW c \in Command, mState'[k] = Waits(c)
               PROVE  Coming(k, c)'
    BY DEF AnswersCome
  <2>3. CASE fwCmd'[k] = Append(fwCmd[k], c)
    BY <1>0, <2>1, <2>3, CommandSent DEF Coming
  <2>4. CASE fwCmd'[k] # Append(fwCmd[k], c)
    <3>1. mState[k] = Waits(c)
      BY <2>4 DEF Asks
    <3>2. CASE CommandWith(k, c)
      <4>1. fwCmd'[k] = fwCmd[k] \/ \E d \in Command : fwCmd'[k] = Append(fwCmd[k], d)
        BY DEF Asks
      <4>2. CASE fwCmd'[k] = fwCmd[k]
        BY <2>1, <3>2, <4>2 DEF Coming, CommandWith
      <4>3. CASE \E d \in Command : fwCmd'[k] = Append(fwCmd[k], d)
        BY <1>0, <2>1, <3>2, <4>3, CommandSent DEF Coming
      <4> QED BY <4>1, <4>2, <4>3
    <3>3. CASE AnswerQueued(k, AnswersTo(c))
      <4> PICK x \in QueuedMessages : x.kind \in AnswersTo(c) /\ x.n = k
        BY <3>3 DEF AnswerQueued
      <4>1. x # m
        BY <2>4
      <4>2. x \in QueuedMessages'
        BY <2>2, <4>1
      <4> QED BY <4>2 DEF Coming, AnswerQueued
    <3> QED BY <3>1, <3>2, <3>3 DEF AnswersCome, Coming
  <2> QED BY <2>3, <2>4
<1>2. CASE /\ mState' = mState
           /\ \A k \in Nif, c \in Command : Coming(k, c) => Coming(k, c)'
  BY <1>2 DEF AnswersCome
<1>3. CASE UNCHANGED <<mState, fwCmd, fwServing>> /\ (UNCHANGED msgQ \/ \E m : msgQ' = Append(msgQ, m))
  <2>1. QueuedMessages \subseteq QueuedMessages'
    <3>1. CASE UNCHANGED msgQ
      BY <3>1 DEF QueuedMessages
    <3>2. CASE \E m : msgQ' = Append(msgQ, m)
      BY <1>0, <3>2, QueuedAppend
    <3> QED BY <1>3, <3>1, <3>2
  <2> QED BY <1>2, <1>3, <2>1 DEF Coming, CommandWith, AnswerQueued
<1>4. ASSUME NEW n \in Nif, FrameworkTake(n)
      PROVE  AnswersCome'
  <2>1. mState' = mState /\ QueuedMessages' = QueuedMessages
    BY <1>4 DEF FrameworkTake, smVars, QueuedMessages
  <2>2. ASSUME NEW k \in Nif, NEW c \in Command, Coming(k, c)
        PROVE  Coming(k, c)'
    BY <1>4, <2>1, <2>2, CommandTaken DEF Coming, AnswerQueued
  <2> QED BY <1>2, <2>1, <2>2
<1>5. ASSUME NEW n \in Nif,
             dataConnOpenCommand(n) \/ dataConnFailedCommand(n) \/ dataConnClosedCommand(n)
      PROVE  AnswersCome'
  <2>1. mState' = mState
    BY <1>5 DEF dataConnOpenCommand, dataConnFailedCommand, dataConnClosedCommand, smVars
  <2> QED BY <1>2, <1>5, <2>1, AnswerReported
<1>6. ASSUME NEW n \in Nif, initAgpsCommand(n)
      PROVE  AnswersCome'
  BY <1>3, <1>6 DEF initAgpsCommand, sendMsg, smVars
<1>7. CASE \E h \in Handle : ModemRelease(h) \/ \E n \in Nif : ModemRequest(h, n)
  BY <1>3, <1>7 DEF ModemRelease, ModemRequest, sendMsg, smVars
<1>8. CASE ModemRestart
  BY <1>3, <1>8 DEF ModemRestart, sendMsg, smVars
<1>9. CASE UNCHANGED vars
  BY <1>3, <1>9 DEF vars
<1> QED
  BY <1>1, <1>4, <1>5, <1>6, <1>7, <1>8, <1>9 DEF Next, Framework, dataConnOpenBadApn

(***************************************************************************)
(* Unless an open is reported with a bad APN, a machine waits only for     *)
(* what the framework is still to answer, for any handles, waiting         *)
(* subscribers and modem restarts.                                         *)
(***************************************************************************)
THEOREM AgpsPendingHasAnswerComing ==
    ASSUME ~BadApn
    PROVE  Spec => []PendingHasAnswerComing
<1>1. Spec => []IInv
  BY AgpsInvariant, PTL DEF IInv
<1>2. Init => AnswersCome
  BY DEF Init, AnswersCome, Waits
<1>3. IInv /\ AnswersCome /\ [Next]_vars => AnswersCome'
  BY AnswersStep
<1>4. AnswersCome => PendingHasAnswerComing
  BY AnswersComeIsAll
<1> QED BY <1>1, <1>2, <1>3, <1>4, PTL DEF Spec

=============================================================================
