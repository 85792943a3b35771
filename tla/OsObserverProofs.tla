-------------------------- MODULE OsObserverProofs --------------------------
(***************************************************************************)
(* MapsAgree, SubscribedIfWanted, SubscriberIsCurrent and NothingForNobody *)
(* of module OsObserver, for any clients, items and bounds.  The first two *)
(* are inductive over TypeOK, the second with NoObjectNoSubscription:      *)
(* until the subscription object is there nothing is subscribed, so an     *)
(* entry may come and go unannounced.  The others speak of an empty queue; *)
(* CurrentInv says what a queue on its way leads to.                       *)
(***************************************************************************)
EXTENDS OsObserver, TLAPS

NoObjectNoSubscription == mSubscriptionObj \/ fwSubscribed = {}

IInv == TypeOK /\ MapsAgree /\ SubscribedIfWanted /\ NoObjectNoSubscription

-----------------------------------------------------------------------------
(***************************************************************************)
(* What the messages in the queue are, and what sending one preserves.     *)
(***************************************************************************)
LEMMA HeadIsMessage ==
    ASSUME TypeOK, msgQ # <<>>
    PROVE  Head(msgQ) \in MessageType /\ Tail(msgQ) \in Seq(MessageType)
BY DEF TypeOK

LEMMA SendKeepsQueueType ==
    ASSUME TypeOK, NEW m \in MessageType, send(m)
    PROVE  /\ msgQ' \in Seq(MessageType)
           /\ UNCHANGED <<maps, mSubscriptionObj, mDataItemCache>>
BY DEF TypeOK, send

\* given() only takes values from the cache.
LEMMA GivenType ==
    ASSUME TypeOK, NEW c, NEW S
    PROVE  given(c, S, mDataItemCache) \in [Client -> [Item -> Value \cup {NoValue}]]
<1> DEFINE told == [i \in Item |-> IF i \in S \cap wants[c] /\ mDataItemCache[i] # NoValue
                                   THEN mDataItemCache[i] ELSE seen[c][i]]
<1>1. CASE c \in Client
  <2>1. told \in [Item -> Value \cup {NoValue}]
    BY <1>1 DEF TypeOK
  <2>2. given(c, S, mDataItemCache) = [seen EXCEPT ![c] = told]
    BY DEF given
  <2> QED BY <2>1, <2>2 DEF TypeOK
<1>2. CASE c \notin Client
  BY <1>2 DEF TypeOK, given
<1> QED BY <1>1, <1>2

LEMMA AskType ==
    ASSUME TypeOK, NEW S \in SUBSET Item, NEW U, NEW R \in SUBSET Item, ask(S, U, R)
    PROVE  fwSubscribed' \subseteq Item /\ fwDue' \subseteq Item
BY DEF TypeOK, ask
\* The message kinds, one by one.
LEMMA MessageKinds ==
    ASSUME NEW m \in MessageType
    PROVE  /\ m.kind = "notify" => m.item \in Item /\ m.value \in Value
           /\ m.kind \in {"subscribe", "requestData"} =>
                 m.client \in Client /\ m.items \subseteq Item
           /\ m.kind = "requestData" => m.items \subseteq RequestItems
           /\ m.kind = "update" => m.client \in Updaters /\ m.items \subseteq Item
           /\ m.kind = "unsubscribe" => m.client \in Client /\ m.items \subseteq Item
BY OsObserverAssumption DEF MessageType, SetSubsObj

-----------------------------------------------------------------------------
(***************************************************************************)
(* Each handler of a message preserves the types.                          *)
(***************************************************************************)
HandledType ==
    /\ mClientToDataItems' \in [Client -> SUBSET Item]
    /\ mDataItemToClients' \in [Item -> SUBSET Client]
    /\ fwSubscribed' \subseteq Item /\ fwDue' \subseteq Item
    /\ seen' \in [Client -> [Item -> Value \cup {NoValue}]]

LEMMA SubscribeType ==
    ASSUME TypeOK, NEW c \in Client, NEW S \in SUBSET Item, NEW request \in BOOLEAN,
           HandleSubscribeReq(c, S, request)
    PROVE  HandledType
<1>1. newKeys(mDataItemToClients, S) \in SUBSET Item
  BY DEF newKeys
<1>2. fwSubscribed' \subseteq Item /\ fwDue' \subseteq Item
  BY <1>1, AskType DEF HandleSubscribeReq
<1>3. mDataItemToClients' \in [Item -> SUBSET Client]
  BY DEF TypeOK, HandleSubscribeReq, withClient
<1>4. mClientToDataItems' \in [Client -> SUBSET Item]
  BY DEF TypeOK, HandleSubscribeReq
<1> QED BY <1>2, <1>3, <1>4, GivenType DEF HandledType, HandleSubscribeReq

LEMMA UpdateType ==
    ASSUME TypeOK, NEW c \in Client, NEW S \in SUBSET Item,
           HandleUpdateSubscriptionReq(c, S)
    PROVE  HandledType
<1> DEFINE common == S \cap mClientToDataItems[c]
           added == S \ common
           trimmed == withoutClient(mDataItemToClients, c, common)
<1>1. trimmed \in [Item -> SUBSET Client]
  BY DEF TypeOK, withoutClient
<1>2. mDataItemToClients' \in [Item -> SUBSET Client]
  BY <1>1 DEF HandleUpdateSubscriptionReq, withClient
<1>3. newKeys(trimmed, added) \in SUBSET Item
  BY DEF newKeys
<1>4. ask(newKeys(trimmed, added), goneKeys(mDataItemToClients, c, common), {})
  BY DEF HandleUpdateSubscriptionReq
<1>5. fwSubscribed' \subseteq Item /\ fwDue' \subseteq Item
  BY <1>3, <1>4, AskType
<1>6. mClientToDataItems' \in [Client -> SUBSET Item]
  BY DEF TypeOK, HandleUpdateSubscriptionReq
<1> QED BY <1>2, <1>5, <1>6, GivenType DEF HandledType, HandleUpdateSubscriptionReq

LEMMA UnsubscribeType ==
    ASSUME TypeOK, NEW c \in Client, NEW S \in SUBSET Item, HandleUnsubscribeReq(c, S)
    PROVE  HandledType
<1>1. fwSubscribed' \subseteq Item /\ fwDue' \subseteq Item
  BY AskType DEF HandleUnsubscribeReq
<1>2. mDataItemToClients' \in [Item -> SUBSET Client]
  BY DEF TypeOK, HandleUnsubscribeReq, withoutClient
<1>3. mClientToDataItems' \in [Client -> SUBSET Item]
  BY DEF TypeOK, HandleUnsubscribeReq
<1> QED BY <1>1, <1>2, <1>3 DEF HandledType, HandleUnsubscribeReq, TypeOK

LEMMA SetSubsObjType ==
    ASSUME TypeOK, HandleSetSubsObj
    PROVE  HandledType
BY DEF TypeOK, HandledType, HandleSetSubsObj, maps

LEMMA NotifyType ==
    ASSUME TypeOK, NEW i \in Item, NEW v \in Value, HandleNotify(i, v)
    PROVE  HandledType
BY DEF TypeOK, HandledType, HandleNotify, maps

LEMMA HandleMessageType ==
    ASSUME TypeOK, HandleMessage
    PROVE  TypeOK'
<1> DEFINE m == Head(msgQ)
<1>1. m \in MessageType /\ msgQ' \in Seq(MessageType)
  BY HeadIsMessage DEF HandleMessage
<1>2. fwValue' \in [Item -> Value] /\ wants' \in [Client -> SUBSET Item]
  BY DEF TypeOK, HandleMessage
<1>3. HandledType /\ mSubscriptionObj' \in BOOLEAN
        /\ mDataItemCache' \in [Item -> Value \cup {NoValue}]
  <2>1. CASE m.kind = "notify" /\ HandleNotify(m.item, m.value)
    <3>1. m.item \in Item /\ m.value \in Value
      BY <1>1, <2>1, MessageKinds
    <3> QED BY <2>1, <3>1, NotifyType DEF HandleNotify, TypeOK
  <2>2. CASE HandleSetSubsObj
    BY <2>2, SetSubsObjType DEF HandleSetSubsObj, TypeOK
  <2>3. CASE /\ m.kind \in {"subscribe", "requestData"}
             /\ HandleSubscribeReq(m.client, m.items, m.kind = "requestData")
             /\ UNCHANGED <<mSubscriptionObj, mDataItemCache>>
    <3>1. m.client \in Client /\ m.items \in SUBSET Item
      BY <1>1, <2>3, MessageKinds
    <3> QED BY <2>3, <3>1, SubscribeType DEF TypeOK
  <2>4. CASE /\ m.kind = "update"
             /\ HandleUpdateSubscriptionReq(m.client, m.items)
             /\ UNCHANGED <<mSubscriptionObj, mDataItemCache>>
    <3>1. m.client \in Client /\ m.items \in SUBSET Item
      BY <1>1, <2>4, MessageKinds, OsObserverAssumption
    <3> QED BY <2>4, <3>1, UpdateType DEF TypeOK
  <2>5. CASE /\ m.kind = "unsubscribe"
             /\ HandleUnsubscribeReq(m.client, m.items)
             /\ UNCHANGED <<mSubscriptionObj, mDataItemCache>>
    <3>1. m.client \in Client /\ m.items \in SUBSET Item
      BY <1>1, <2>5, MessageKinds
    <3> QED BY <2>5, <3>1, UnsubscribeType DEF TypeOK
  <2> QED BY <2>1, <2>2, <2>3, <2>4, <2>5 DEF HandleMessage
<1> QED BY <1>1, <1>2, <1>3 DEF TypeOK, HandledType

\* wantsNow() with a set of items keeps the types of what it writes.
LEMMA WantsType ==
    ASSUME TypeOK, NEW c \in Client, NEW S \in SUBSET Item, wantsNow(c, S)
    PROVE  /\ wants' \in [Client -> SUBSET Item]
           /\ seen' \in [Client -> [Item -> Value \cup {NoValue}]]
           /\ UNCHANGED framework
<1> DEFINE kept == [i \in Item |-> IF i \in S THEN seen[c][i] ELSE NoValue]
<1>1. kept \in [Item -> Value \cup {NoValue}]
  BY DEF TypeOK
<1>2. seen' = [seen EXCEPT ![c] = kept]
  BY DEF wantsNow
<1> QED BY <1>1, <1>2 DEF TypeOK, wantsNow

\* What a call leaves alone, and that it posts a message of its kind.
LEMMA CallType ==
    ASSUME TypeOK, NEW c \in Client, ClientCalls(c)
    PROVE  /\ TypeOK'
           /\ UNCHANGED <<maps, mSubscriptionObj, framework>>
<1>1. CASE \E S \in SUBSET Item : subscribe(c, S)
  <2> PICK S \in SUBSET Item : subscribe(c, S)
    BY <1>1
  <2>1. Message("subscribe", c, S) \in MessageType
    BY DEF Message, MessageType
  <2>2. wants[c] \cup S \in SUBSET Item
    BY DEF TypeOK
  <2> QED BY <2>1, <2>2, SendKeepsQueueType, WantsType DEF subscribe, TypeOK, maps, framework
<1>2. CASE \E S \in SUBSET Item : requestData(c, S)
  <2> PICK S \in SUBSET Item : requestData(c, S)
    BY <1>2
  <2>1. Message("requestData", c, S) \in MessageType
    BY DEF Message, MessageType, requestData
  <2> QED BY <2>1, SendKeepsQueueType DEF requestData, TypeOK, maps, framework
<1>3. CASE \E S \in SUBSET Item : updateSubscription(c, S)
  <2> PICK S \in SUBSET Item : updateSubscription(c, S)
    BY <1>3
  <2>1. Message("update", c, S) \in MessageType
    BY DEF Message, MessageType, updateSubscription
  <2> QED BY <2>1, SendKeepsQueueType, WantsType DEF updateSubscription, TypeOK, maps, framework
<1>4. CASE \E S \in SUBSET Item : unsubscribe(c, S)
  <2> PICK S \in SUBSET Item : unsubscribe(c, S)
    BY <1>4
  <2>1. Message("unsubscribe", c, S) \in MessageType
    BY DEF Message, MessageType
  <2>2. wants[c] \ S \in SUBSET Item
    BY DEF TypeOK
  <2> QED BY <2>1, <2>2, SendKeepsQueueType, WantsType DEF unsubscribe, TypeOK, maps, framework
<1>5. CASE unsubscribeAll(c)
  <2>1. Message("unsubscribe", c, Item) \in MessageType
    BY DEF Message, MessageType
  <2> QED BY <1>5, <2>1, SendKeepsQueueType, WantsType DEF unsubscribeAll, TypeOK, maps, framework
<1> QED BY <1>1, <1>2, <1>3, <1>4, <1>5 DEF ClientCalls

LEMMA SetSubscriptionObjType ==
    ASSUME TypeOK, setSubscriptionObj
    PROVE  TypeOK' /\ UNCHANGED <<maps, mSubscriptionObj, framework>>
<1>1. SetSubsObj \in MessageType
  BY DEF MessageType
<1> QED BY <1>1, SendKeepsQueueType DEF setSubscriptionObj, TypeOK, maps, framework

LEMMA FrameworkType ==
    ASSUME TypeOK, NEW i \in Item, NEW v \in Value, notify(i) \/ FrameworkChanges(i, v)
    PROVE  TypeOK' /\ UNCHANGED <<maps, mSubscriptionObj, fwSubscribed>>
<1>1. CASE notify(i)
  <2>1. Report(i, fwValue[i]) \in MessageType
    BY DEF TypeOK, Report, MessageType
  <2> QED BY <1>1, <2>1, SendKeepsQueueType DEF notify, TypeOK, maps
<1>2. CASE FrameworkChanges(i, v)
  BY <1>2 DEF FrameworkChanges, TypeOK, maps
<1> QED BY <1>1, <1>2

LEMMA TypeInvariant ==
    ASSUME TypeOK, [Next]_vars
    PROVE  TypeOK'
<1>1. CASE UNCHANGED vars
  BY <1>1 DEF TypeOK, vars, maps, framework
<1>2. CASE \E i \in Item : notify(i)
  <2> PICK i \in Item : notify(i)
    BY <1>2
  <2>1. fwValue[i] \in Value
    BY DEF TypeOK
  <2> QED BY <2>1, FrameworkType
<1> QED BY <1>1, <1>2, HandleMessageType, CallType, SetSubscriptionObjType, FrameworkType DEF Next

-----------------------------------------------------------------------------
(***************************************************************************)
(* What the handlers do to the maps and to the subscription.  Only they    *)
(* write either.                                                           *)
(***************************************************************************)
Inductive == MapsAgree /\ SubscribedIfWanted /\ NoObjectNoSubscription

LEMMA SubscribeKeeps ==
    ASSUME TypeOK, Inductive, NEW c \in Client, NEW S \in SUBSET Item,
           NEW request \in BOOLEAN, request => S \subseteq RequestItems,
           HandleSubscribeReq(c, S, request), UNCHANGED mSubscriptionObj
    PROVE  Inductive'
<1>1. MapsAgree'
  BY DEF TypeOK, Inductive, MapsAgree, HandleSubscribeReq, withClient
<1>2. \A i \in Item : mDataItemToClients'[i] # {} <=> mDataItemToClients[i] # {} \/ i \in S
  BY DEF TypeOK, HandleSubscribeReq, withClient
<1>3. SubscribedIfWanted' /\ NoObjectNoSubscription'
  <2>1. CASE ~mSubscriptionObj
    BY <2>1 DEF Inductive, NoObjectNoSubscription, SubscribedIfWanted, HandleSubscribeReq, ask
  <2>2. CASE mSubscriptionObj
    BY <1>2, <2>2 DEF TypeOK, Inductive, NoObjectNoSubscription, SubscribedIfWanted,
                      HandleSubscribeReq, ask, newKeys
  <2> QED BY <2>1, <2>2
<1> QED BY <1>1, <1>3 DEF Inductive

LEMMA UnsubscribeKeeps ==
    ASSUME TypeOK, Inductive, NEW c \in Client, NEW S \in SUBSET Item,
           HandleUnsubscribeReq(c, S), UNCHANGED mSubscriptionObj
    PROVE  Inductive'
<1> DEFINE unused == S \cap mClientToDataItems[c]
<1>1. MapsAgree'
  BY DEF TypeOK, Inductive, MapsAgree, HandleUnsubscribeReq, withoutClient
<1>2. \A i \in Item : mDataItemToClients'[i] # {} <=>
          mDataItemToClients[i] # {} /\ i \notin goneKeys(mDataItemToClients, c, unused)
  BY DEF TypeOK, HandleUnsubscribeReq, withoutClient, goneKeys
<1>3. ask({}, goneKeys(mDataItemToClients, c, unused), {})
  BY DEF HandleUnsubscribeReq
<1>4. SubscribedIfWanted' /\ NoObjectNoSubscription'
  BY <1>2, <1>3 DEF TypeOK, Inductive, NoObjectNoSubscription, SubscribedIfWanted, ask
<1> QED BY <1>1, <1>4 DEF Inductive

\* An updater's maps may part, but each item's entry and subscription do not.
LEMMA UpdateKeeps ==
    ASSUME TypeOK, Inductive, NEW c \in Updaters, NEW S \in SUBSET Item,
           HandleUpdateSubscriptionReq(c, S), UNCHANGED mSubscriptionObj
    PROVE  Inductive'
<1> DEFINE common == S \cap mClientToDataItems[c]
           added == S \ common
           trimmed == withoutClient(mDataItemToClients, c, common)
           gone == goneKeys(mDataItemToClients, c, common)
<1>1. MapsAgree'
  BY OsObserverAssumption
  DEF TypeOK, Inductive, MapsAgree, HandleUpdateSubscriptionReq, withClient, withoutClient
<1>2. /\ \A i \in Item : mDataItemToClients'[i] # {} <=> trimmed[i] # {} \/ i \in added
      /\ \A i \in Item : trimmed[i] # {} <=> mDataItemToClients[i] # {} /\ i \notin gone
  BY DEF TypeOK, HandleUpdateSubscriptionReq, withClient, withoutClient, goneKeys
<1>3. ask(newKeys(trimmed, added), gone, {})
  BY DEF HandleUpdateSubscriptionReq
<1>4. added \cap gone = {}
  BY DEF goneKeys
<1>5. SubscribedIfWanted' /\ NoObjectNoSubscription'
  BY <1>2, <1>3, <1>4
  DEF TypeOK, Inductive, NoObjectNoSubscription, SubscribedIfWanted, ask, newKeys
<1> QED BY <1>1, <1>5 DEF Inductive

LEMMA SetSubsObjKeeps ==
    ASSUME TypeOK, Inductive, HandleSetSubsObj
    PROVE  Inductive'
BY DEF TypeOK, Inductive, MapsAgree, NoObjectNoSubscription, SubscribedIfWanted,
       HandleSetSubsObj, maps

LEMMA NothingKeeps ==
    ASSUME Inductive, UNCHANGED <<maps, mSubscriptionObj, fwSubscribed>>
    PROVE  Inductive'
BY DEF Inductive, MapsAgree, NoObjectNoSubscription, SubscribedIfWanted, maps

LEMMA HandleMessageKeeps ==
    ASSUME TypeOK, Inductive, HandleMessage
    PROVE  Inductive'
<1> DEFINE m == Head(msgQ)
<1>1. m \in MessageType
  BY HeadIsMessage DEF HandleMessage
<1>2. CASE m.kind = "notify" /\ HandleNotify(m.item, m.value)
  BY <1>2, NothingKeeps DEF HandleNotify
<1>3. CASE HandleSetSubsObj
  BY <1>3, SetSubsObjKeeps
<1>4. CASE /\ m.kind \in {"subscribe", "requestData"}
           /\ HandleSubscribeReq(m.client, m.items, m.kind = "requestData")
           /\ UNCHANGED <<mSubscriptionObj, mDataItemCache>>
  <2>1. /\ m.client \in Client /\ m.items \in SUBSET Item
        /\ (m.kind = "requestData") => m.items \subseteq RequestItems
    BY <1>1, <1>4, MessageKinds
  <2> QED BY <1>4, <2>1, SubscribeKeeps
<1>5. CASE /\ m.kind = "update"
           /\ HandleUpdateSubscriptionReq(m.client, m.items)
           /\ UNCHANGED <<mSubscriptionObj, mDataItemCache>>
  <2>1. m.client \in Updaters /\ m.items \in SUBSET Item
    BY <1>1, <1>5, MessageKinds
  <2> QED BY <1>5, <2>1, UpdateKeeps
<1>6. CASE /\ m.kind = "unsubscribe"
           /\ HandleUnsubscribeReq(m.client, m.items)
           /\ UNCHANGED <<mSubscriptionObj, mDataItemCache>>
  <2>1. m.client \in Client /\ m.items \in SUBSET Item
    BY <1>1, <1>6, MessageKinds
  <2> QED BY <1>6, <2>1, UnsubscribeKeeps
<1> QED BY <1>2, <1>3, <1>4, <1>5, <1>6 DEF HandleMessage

LEMMA Inductiveness ==
    ASSUME IInv, [Next]_vars
    PROVE  IInv'
<1> USE DEF IInv
<1>1. TypeOK'
  BY TypeInvariant
<1>2. Inductive
  BY DEF Inductive
<1>3. CASE HandleMessage
  BY <1>1, <1>2, <1>3, HandleMessageKeeps DEF Inductive
<1>4. CASE ~HandleMessage
  <2>1. UNCHANGED <<maps, mSubscriptionObj, fwSubscribed>>
    <3>1. CASE UNCHANGED vars
      BY <3>1 DEF vars, framework
    <3>2. CASE \E c \in Client : ClientCalls(c)
      BY <3>2, CallType DEF framework
    <3>3. CASE setSubscriptionObj
      BY <3>3, SetSubscriptionObjType DEF framework
    <3>4. CASE \E i \in Item : notify(i) \/ (\E v \in Value : FrameworkChanges(i, v))
      <4> PICK i \in Item : notify(i) \/ (\E v \in Value : FrameworkChanges(i, v))
        BY <3>4
      <4>1. fwValue[i] \in Value
        BY DEF TypeOK
      <4> QED BY <4>1, FrameworkType
    <3> QED BY <1>4, <3>1, <3>2, <3>3, <3>4 DEF Next
  <2> QED BY <1>1, <1>2, <2>1, NothingKeeps DEF Inductive
<1> QED BY <1>3, <1>4

-----------------------------------------------------------------------------
LEMMA Initially == Init => IInv
<1> SUFFICES ASSUME Init PROVE IInv
  OBVIOUS
<1>1. TypeOK
  <2>1. seen \in [Client -> [Item -> Value \cup {NoValue}]]
    BY DEF Init
  <2>2. msgQ \in Seq(MessageType)
    BY DEF Init
  <2> QED BY <2>1, <2>2 DEF Init, TypeOK
<1>2. MapsAgree /\ SubscribedIfWanted /\ NoObjectNoSubscription
  BY OsObserverAssumption DEF Init, MapsAgree, SubscribedIfWanted, NoObjectNoSubscription
<1> QED BY <1>1, <1>2 DEF IInv

LEMMA Invariance == Spec => []IInv
<1>1. IInv /\ [Next]_vars => IInv'
  BY Inductiveness
<1> QED BY <1>1, Initially, PTL DEF Spec

(***************************************************************************)
(* For any clients and items, the maps of HandleSubscribeReq,              *)
(* HandleUnsubscribeReq and the others stay each other's inverse for the   *)
(* clients that do not call updateSubscription().                          *)
(***************************************************************************)
THEOREM OsObserverMapsAgree == Spec => []MapsAgree
<1>1. IInv => MapsAgree
  BY DEF IInv
<1> QED BY <1>1, Invariance, PTL

(***************************************************************************)
(* For any clients and items, once the subscription object is set the      *)
(* framework is asked for the items that have clients and for no other,    *)
(* through updateSubscription() too; requestData()'s items excepted.       *)
(***************************************************************************)
THEOREM OsObserverSubscribed == Spec => []SubscribedIfWanted
<1>1. IInv => SubscribedIfWanted
  BY DEF IInv
<1> QED BY <1>1, Invariance, PTL
-----------------------------------------------------------------------------
(***************************************************************************)
(* What a queue leads to.  A message of In makes something so, one of Out  *)
(* undoes it, others leave it as it is; now says whether it is so before   *)
(* the queue is handled.                                                   *)
(***************************************************************************)
EndsIn(q, In, Out, now) ==
    \/ \E k \in 1..Len(q) : q[k] \in In /\ \A j \in (k+1)..Len(q) : q[j] \notin Out
    \/ now /\ \A k \in 1..Len(q) : q[k] \notin Out

none(q, In) == \A k \in 1..Len(q) : q[k] \notin In

\* The messages that make c a client of i, and that end it.
calls(kind, c, i) ==
    {m \in [kind : {kind}, client : Client, items : SUBSET Item] : m.client = c /\ i \in m.items}
joining(c, i) == calls("subscribe", c, i)
leaving(c, i) == calls("unsubscribe", c, i)

\* The reports that i has the value v, and that it has another.
telling(i, v) == {Report(i, v)}
denying(i, v) == {Report(i, w) : w \in Value \ {v}}

\* What the client asked for last is what its messages will have made of its entry.
WantedComes ==
    \A c \in Client \ Updaters, i \in Item \ RequestItems :
        i \in wants[c] <=>
            EndsIn(msgQ, joining(c, i), leaving(c, i), i \in mClientToDataItems[c])

\* A client has the cached value, unless its subscription is still in the queue.
SeenIsCached ==
    /\ \A c \in Client \ Updaters, i \in Item \ RequestItems :
           i \in wants[c] /\ none(msgQ, joining(c, i)) => seen[c][i] = mDataItemCache[i]
    /\ \A c \in Client, i \in Item : mDataItemCache[i] = NoValue => seen[c][i] = NoValue

\* The cache will have the framework's value, unless a report is still due.
CacheCatchesUp ==
    \A i \in fwSubscribed \ fwDue :
        EndsIn(msgQ, telling(i, fwValue[i]), denying(i, fwValue[i]), mDataItemCache[i] = fwValue[i])

CurrentInv == WantedComes /\ SeenIsCached /\ CacheCatchesUp

LEMMA EndsInAppend ==
    ASSUME NEW M, NEW q \in Seq(M), NEW m, NEW In, NEW Out, NEW now \in BOOLEAN
    PROVE  EndsIn(Append(q, m), In, Out, now) <=> m \in In \/ (EndsIn(q, In, Out, now) /\ m \notin Out)
<1> DEFINE n == Len(q)
           r == Append(q, m)
<1>1. n \in Nat /\ Len(r) = n + 1 /\ r[n + 1] = m /\ \A k \in 1..n : r[k] = q[k]
  OBVIOUS
<1> HIDE DEF n, r
<1>2. Len(q) = n
  BY DEF n
<1>3. ASSUME EndsIn(r, In, Out, now), m \notin In
      PROVE  EndsIn(q, In, Out, now) /\ m \notin Out
  <2>1. CASE now /\ \A k \in 1..Len(r) : r[k] \notin Out
    BY <1>1, <1>2, <2>1 DEF EndsIn
  <2>2. CASE \E k \in 1..Len(r) : r[k] \in In /\ \A j \in (k+1)..Len(r) : r[j] \notin Out
    <3> PICK k \in 1..Len(r) : r[k] \in In /\ \A j \in (k+1)..Len(r) : r[j] \notin Out
      BY <2>2
    <3>1. k \in 1..n
      BY <1>1, <1>3
    <3>2. q[k] \in In /\ m \notin Out
      BY <1>1, <3>1
    <3>3. \A j \in (k+1)..n : q[j] \notin Out
      BY <1>1, <3>1
    <3> QED BY <1>2, <3>1, <3>2, <3>3 DEF EndsIn
  <2> QED BY <1>3, <2>1, <2>2 DEF EndsIn
<1>4. ASSUME m \in In
      PROVE  EndsIn(r, In, Out, now)
  <2>1. n + 1 \in 1..Len(r) /\ r[n + 1] \in In /\ \A j \in (n + 1 + 1)..Len(r) : r[j] \notin Out
    BY <1>1, <1>4
  <2> QED BY <2>1 DEF EndsIn
<1>5. ASSUME EndsIn(q, In, Out, now), m \notin Out
      PROVE  EndsIn(r, In, Out, now)
  <2>1. CASE now /\ \A k \in 1..n : q[k] \notin Out
    BY <1>1, <1>5, <2>1 DEF EndsIn
  <2>2. CASE \E k \in 1..n : q[k] \in In /\ \A j \in (k+1)..n : q[j] \notin Out
    <3> PICK k \in 1..n : q[k] \in In /\ \A j \in (k+1)..n : q[j] \notin Out
      BY <2>2
    <3>1. k \in 1..Len(r) /\ r[k] \in In
      BY <1>1
    <3>2. \A j \in (k+1)..Len(r) : r[j] \notin Out
      BY <1>1, <1>5
    <3> QED BY <3>1, <3>2 DEF EndsIn
  <2> QED BY <1>2, <1>5, <2>1, <2>2 DEF EndsIn
<1> QED BY <1>3, <1>4, <1>5 DEF r

LEMMA EndsInTail ==
    ASSUME NEW M, NEW q \in Seq(M), q # <<>>, NEW In, NEW Out, NEW now \in BOOLEAN
    PROVE  EndsIn(q, In, Out, now) <=>
               EndsIn(Tail(q), In, Out, Head(q) \in In \/ (now /\ Head(q) \notin Out))
<1> DEFINE n == Len(q)
           t == Tail(q)
           h == Head(q)
           next == h \in In \/ (now /\ h \notin Out)
<1>1. /\ n \in Nat \ {0} /\ Len(t) = n - 1 /\ q[1] = h
      /\ \A k \in 2..n : q[k] = t[k - 1]
      /\ \A k \in 1..(n - 1) : t[k] = q[k + 1]
  OBVIOUS
<1>2. Len(q) = n
  OBVIOUS
<1> HIDE DEF n, t, h
<1>3. ASSUME EndsIn(q, In, Out, now)
      PROVE  EndsIn(t, In, Out, next)
  <2>1. CASE now /\ \A k \in 1..n : q[k] \notin Out
    <3>1. h \notin Out
      <4>1. 1 \in 1..n
        BY <1>1
      <4> QED BY <1>1, <2>1, <4>1
    <3>2. ASSUME NEW k \in 1..(n - 1) PROVE t[k] \notin Out
      <4>1. k + 1 \in 1..n /\ t[k] = q[k + 1]
        BY <1>1
      <4> QED BY <2>1, <4>1
    <3> QED BY <1>1, <2>1, <3>1, <3>2 DEF EndsIn
  <2>2. CASE \E k \in 1..n : q[k] \in In /\ \A j \in (k+1)..n : q[j] \notin Out
    <3> PICK k \in 1..n : q[k] \in In /\ \A j \in (k+1)..n : q[j] \notin Out
      BY <2>2
    <3>1. CASE k = 1
      <4>1. h \in In
        BY <1>1, <3>1
      <4>2. ASSUME NEW j \in 1..(n - 1) PROVE t[j] \notin Out
        <5>1. j + 1 \in (k + 1)..n /\ t[j] = q[j + 1]
          BY <1>1, <3>1
        <5> QED BY <5>1
      <4> QED BY <1>1, <4>1, <4>2 DEF EndsIn
    <3>2. CASE k # 1
      <4>1. k - 1 \in 1..(n - 1) /\ t[k - 1] \in In
        BY <1>1, <3>2
      <4>2. ASSUME NEW j \in (k - 1 + 1)..(n - 1) PROVE t[j] \notin Out
        <5>1. j + 1 \in (k + 1)..n /\ t[j] = q[j + 1]
          BY <1>1, <3>2
        <5> QED BY <5>1
      <4> QED BY <1>1, <4>1, <4>2 DEF EndsIn
    <3> QED BY <3>1, <3>2
  <2> QED BY <1>2, <1>3, <2>1, <2>2 DEF EndsIn
<1>4. ASSUME EndsIn(t, In, Out, next)
      PROVE  EndsIn(q, In, Out, now)
  <2>1. CASE \E k \in 1..(n - 1) : t[k] \in In /\ \A j \in (k+1)..(n - 1) : t[j] \notin Out
    <3> PICK k \in 1..(n - 1) : t[k] \in In /\ \A j \in (k+1)..(n - 1) : t[j] \notin Out
      BY <2>1
    <3>1. k + 1 \in 1..n /\ q[k + 1] \in In
      BY <1>1
    <3>2. ASSUME NEW j \in (k + 1 + 1)..n PROVE q[j] \notin Out
      <4>1. j - 1 \in (k + 1)..(n - 1) /\ q[j] = t[j - 1]
        BY <1>1
      <4> QED BY <4>1
    <3> QED BY <1>2, <3>1, <3>2 DEF EndsIn
  <2>2. CASE next /\ \A k \in 1..(n - 1) : t[k] \notin Out
    <3>1. ASSUME NEW j \in 2..n PROVE q[j] \notin Out
      <4>1. j - 1 \in 1..(n - 1) /\ q[j] = t[j - 1]
        BY <1>1
      <4> QED BY <2>2, <4>1
    <3>2. CASE h \in In
      <4>1. 1 \in 1..n /\ q[1] \in In /\ \A j \in (1 + 1)..n : q[j] \notin Out
        BY <1>1, <3>1, <3>2
      <4> QED BY <1>2, <4>1 DEF EndsIn
    <3>3. CASE now /\ h \notin Out
      <4>1. \A j \in 1..n : q[j] \notin Out
        BY <1>1, <3>1, <3>3
      <4> QED BY <1>2, <3>3, <4>1 DEF EndsIn
    <3> QED BY <2>2, <3>2, <3>3
  <2> QED BY <1>1, <1>4, <2>1, <2>2 DEF EndsIn
<1> QED BY <1>3, <1>4 DEF t, h

LEMMA NoneAppend ==
    ASSUME NEW M, NEW q \in Seq(M), NEW m, NEW In
    PROVE  none(Append(q, m), In) <=> none(q, In) /\ m \notin In
<1>1. /\ Len(q) \in Nat /\ Len(Append(q, m)) = Len(q) + 1 /\ Append(q, m)[Len(q) + 1] = m
      /\ \A k \in 1..Len(q) : Append(q, m)[k] = q[k]
  OBVIOUS
<1> QED BY <1>1 DEF none

LEMMA NoneTail ==
    ASSUME NEW M, NEW q \in Seq(M), q # <<>>, NEW In
    PROVE  none(q, In) <=> none(Tail(q), In) /\ Head(q) \notin In
<1> DEFINE n == Len(q)
           t == Tail(q)
           h == Head(q)
<1>1. /\ n \in Nat \ {0} /\ Len(t) = n - 1 /\ q[1] = h
      /\ \A k \in 2..n : q[k] = t[k - 1]
      /\ \A k \in 1..(n - 1) : t[k] = q[k + 1] /\ k + 1 \in 1..n
  OBVIOUS
<1>2. Len(q) = n
  OBVIOUS
<1> HIDE DEF n, t, h
<1>3. none(q, In) => none(t, In) /\ h \notin In
  BY <1>1, <1>2 DEF none
<1>4. none(t, In) /\ h \notin In => none(q, In)
  <2> SUFFICES ASSUME none(t, In), h \notin In, NEW k \in 1..n PROVE q[k] \notin In
    BY <1>2 DEF none
  <2>1. k = 1 \/ (k \in 2..n /\ k - 1 \in 1..(n - 1))
    BY <1>1
  <2> QED BY <1>1, <2>1 DEF none
<1> QED BY <1>3, <1>4 DEF t, h

LEMMA EndsInEmpty ==
    ASSUME NEW In, NEW Out, NEW now \in BOOLEAN
    PROVE  EndsIn(<<>>, In, Out, now) <=> now
BY DEF EndsIn

\* Which messages those sets have.
LEMMA CallsApart ==
    ASSUME NEW m \in MessageType, NEW c \in Client, NEW i \in Item
    PROVE  /\ m \in joining(c, i) <=> m.kind = "subscribe" /\ m.client = c /\ i \in m.items
           /\ m \in leaving(c, i) <=> m.kind = "unsubscribe" /\ m.client = c /\ i \in m.items
<1>1. m \in joining(c, i) <=> m.kind = "subscribe" /\ m.client = c /\ i \in m.items
  BY DEF joining, calls, MessageType, SetSubsObj
<1>2. m \in leaving(c, i) <=> m.kind = "unsubscribe" /\ m.client = c /\ i \in m.items
  BY DEF leaving, calls, MessageType, SetSubsObj
<1> QED BY <1>1, <1>2

LEMMA ReportsApart ==
    ASSUME NEW m \in MessageType, NEW i \in Item, NEW v \in Value
    PROVE  /\ m \in telling(i, v) <=> m.kind = "notify" /\ m.item = i /\ m.value = v
           /\ m \in denying(i, v) <=> m.kind = "notify" /\ m.item = i /\ m.value # v
<1>1. m \in telling(i, v) <=> m.kind = "notify" /\ m.item = i /\ m.value = v
  BY DEF telling, Report, MessageType, SetSubsObj
<1>2. m \in denying(i, v) <=> m.kind = "notify" /\ m.item = i /\ m.value # v
  BY DEF denying, Report, MessageType, SetSubsObj
<1> QED BY <1>1, <1>2

-----------------------------------------------------------------------------
(***************************************************************************)
(* What the handling of the first message does.                            *)
(***************************************************************************)
LEMMA EntryFollows ==
    ASSUME TypeOK, HandleMessage, NEW c \in Client \ Updaters, NEW i \in Item \ RequestItems
    PROVE  i \in mClientToDataItems'[c] <=>
               \/ Head(msgQ) \in joining(c, i)
               \/ i \in mClientToDataItems[c] /\ Head(msgQ) \notin leaving(c, i)
<1> DEFINE m == Head(msgQ)
<1>1. m \in MessageType
  BY HeadIsMessage DEF HandleMessage
<1>2. /\ m \in joining(c, i) <=> m.kind = "subscribe" /\ m.client = c /\ i \in m.items
      /\ m \in leaving(c, i) <=> m.kind = "unsubscribe" /\ m.client = c /\ i \in m.items
  BY <1>1, CallsApart
<1>3. CASE m.kind = "notify" /\ HandleNotify(m.item, m.value)
  BY <1>2, <1>3 DEF HandleNotify, maps
<1>4. CASE m.kind = "setSubscriptionObj" /\ HandleSetSubsObj
  BY <1>2, <1>4 DEF HandleSetSubsObj, maps
<1>5. CASE /\ m.kind \in {"subscribe", "requestData"}
           /\ HandleSubscribeReq(m.client, m.items, m.kind = "requestData")
  <2>1. m.client \in Client /\ (m.kind = "requestData" => i \notin m.items)
    BY <1>1, <1>5, MessageKinds
  <2> QED BY <1>2, <1>5, <2>1 DEF HandleSubscribeReq, TypeOK
<1>6. CASE m.kind = "update" /\ HandleUpdateSubscriptionReq(m.client, m.items)
  <2>1. m.client \in Client /\ m.client # c
    BY <1>1, <1>6, MessageKinds, OsObserverAssumption
  <2> QED BY <1>2, <1>6, <2>1 DEF HandleUpdateSubscriptionReq, TypeOK
<1>7. CASE m.kind = "unsubscribe" /\ HandleUnsubscribeReq(m.client, m.items)
  <2>1. m.client \in Client
    BY <1>1, <1>7, MessageKinds
  <2> QED BY <1>2, <1>7, <2>1 DEF HandleUnsubscribeReq, TypeOK
<1> QED BY <1>3, <1>4, <1>5, <1>6, <1>7 DEF HandleMessage

\* An item that is subscribed for and not due was so before.
LEMMA DueFollows ==
    ASSUME TypeOK, HandleMessage
    PROVE  fwSubscribed' \ fwDue' \subseteq fwSubscribed \ fwDue
<1> DEFINE m == Head(msgQ)
<1>1. CASE HandleNotify(m.item, m.value)
  BY <1>1 DEF HandleNotify
<1>2. CASE HandleSetSubsObj
  BY <1>2 DEF HandleSetSubsObj
<1>3. CASE HandleSubscribeReq(m.client, m.items, m.kind = "requestData")
  BY <1>3 DEF HandleSubscribeReq, ask
<1>4. CASE HandleUpdateSubscriptionReq(m.client, m.items)
  BY <1>4 DEF HandleUpdateSubscriptionReq, ask
<1>5. CASE HandleUnsubscribeReq(m.client, m.items)
  BY <1>5 DEF HandleUnsubscribeReq, ask
<1> QED BY <1>1, <1>2, <1>3, <1>4, <1>5 DEF HandleMessage

LEMMA CacheFollows ==
    ASSUME TypeOK, HandleMessage, NEW i \in Item
    PROVE  \/ /\ Head(msgQ).kind = "notify" /\ Head(msgQ).item = i
              /\ mDataItemCache'[i] = Head(msgQ).value
           \/ /\ ~(Head(msgQ).kind = "notify" /\ Head(msgQ).item = i)
              /\ mDataItemCache'[i] = mDataItemCache[i]
<1> DEFINE m == Head(msgQ)
<1>1. m \in MessageType
  BY HeadIsMessage DEF HandleMessage
<1>2. CASE m.kind = "notify" /\ HandleNotify(m.item, m.value)
  BY <1>1, <1>2, MessageKinds DEF HandleNotify, TypeOK
<1>3. CASE m.kind = "setSubscriptionObj" /\ HandleSetSubsObj
  BY <1>3 DEF HandleSetSubsObj
<1>4. CASE m.kind \in {"subscribe", "requestData", "update", "unsubscribe"} /\ UNCHANGED mDataItemCache
  BY <1>4
<1> QED BY <1>2, <1>3, <1>4 DEF HandleMessage

\* What a client is given: the cached value of what it wants, when there is one.
LEMMA GivenIs ==
    ASSUME TypeOK, NEW c \in Client, NEW d, NEW S, NEW i \in Item
    PROVE  given(d, S, mDataItemCache)[c][i] =
               IF c = d /\ i \in S /\ i \in wants[c] /\ mDataItemCache[i] # NoValue
               THEN mDataItemCache[i] ELSE seen[c][i]
<1>1. CASE c = d
  BY <1>1 DEF given, TypeOK
<1>2. CASE c # d
  BY <1>2 DEF given, TypeOK
<1> QED BY <1>1, <1>2

LEMMA SeenFollows ==
    ASSUME TypeOK, HandleMessage, NEW c \in Client, NEW i \in Item, SeenIsCached
    PROVE  \/ seen'[c][i] = seen[c][i]
           \/ mDataItemCache[i] # NoValue /\ UNCHANGED mDataItemCache /\ seen'[c][i] = mDataItemCache[i]
           \/ mDataItemCache'[i] \in Value /\ seen'[c][i] = mDataItemCache'[i]
<1> DEFINE m == Head(msgQ)
<1>1. m \in MessageType
  BY HeadIsMessage DEF HandleMessage
<1>2. CASE m.kind = "notify" /\ HandleNotify(m.item, m.value)
  <2>1. m.item \in Item /\ m.value \in Value
    BY <1>1, <1>2, MessageKinds
  <2>2. mDataItemCache' = [mDataItemCache EXCEPT ![m.item] = m.value]
    BY <1>2 DEF HandleNotify
  <2>3. CASE i = m.item
    BY <1>2, <2>1, <2>2, <2>3 DEF HandleNotify, TypeOK
  <2>4. CASE i # m.item
    BY <1>2, <2>4 DEF HandleNotify, TypeOK
  <2> QED BY <2>3, <2>4
<1>3. CASE HandleSetSubsObj
  BY <1>3 DEF HandleSetSubsObj
<1>4. CASE /\ HandleSubscribeReq(m.client, m.items, m.kind = "requestData")
           /\ UNCHANGED mDataItemCache
  <2>1. seen' = given(m.client, m.items, mDataItemCache)
    BY <1>4 DEF HandleSubscribeReq
  <2> QED BY <1>4, <2>1, GivenIs
<1>5. CASE HandleUpdateSubscriptionReq(m.client, m.items) /\ UNCHANGED mDataItemCache
  <2>1. seen' = given(m.client, m.items \ (m.items \cap mClientToDataItems[m.client]), mDataItemCache)
    BY <1>5 DEF HandleUpdateSubscriptionReq
  <2> QED BY <1>5, <2>1, GivenIs
<1>6. CASE HandleUnsubscribeReq(m.client, m.items)
  BY <1>6 DEF HandleUnsubscribeReq
<1> QED BY <1>2, <1>3, <1>4, <1>5, <1>6 DEF HandleMessage

\* A subscription that is handled gives its client what is cached; a report of
\* something new reaches the clients that the maps have for it.
LEMMA SeenFollowsCache ==
    ASSUME TypeOK, MapsAgree, WantedComes, SeenIsCached, HandleMessage,
           NEW c \in Client \ Updaters, NEW i \in Item \ RequestItems,
           i \in wants[c], none(Tail(msgQ), joining(c, i))
    PROVE  seen'[c][i] = mDataItemCache'[i]
<1> DEFINE m == Head(msgQ)
<1>1. m \in MessageType /\ msgQ \in Seq(MessageType) /\ msgQ # <<>> /\ c \in Client /\ i \in Item
  BY HeadIsMessage DEF HandleMessage, TypeOK
<1>2. m \in joining(c, i) <=> m.kind = "subscribe" /\ m.client = c /\ i \in m.items
  BY <1>1, CallsApart
<1>3. CASE m \in joining(c, i)
  <2>1. m.kind = "subscribe" /\ m.client = c /\ i \in m.items
    BY <1>2, <1>3
  <2>2. seen' = given(c, m.items, mDataItemCache) /\ mDataItemCache' = mDataItemCache
    BY <2>1 DEF HandleMessage, HandleSubscribeReq
  <2>3. mDataItemCache[i] = NoValue => seen[c][i] = NoValue
    BY DEF SeenIsCached
  <2> QED BY <2>1, <2>2, <2>3, GivenIs
<1>4. CASE m \notin joining(c, i)
  <2>1. none(msgQ, joining(c, i))
    BY <1>1, <1>4, NoneTail
  <2>2. seen[c][i] = mDataItemCache[i]
    BY <2>1 DEF SeenIsCached
  <2>3. i \in mClientToDataItems[c] /\ c \in mDataItemToClients[i]
    <3>1. EndsIn(msgQ, joining(c, i), leaving(c, i), i \in mClientToDataItems[c])
      BY DEF WantedComes
    <3>2. i \in mClientToDataItems[c]
      BY <2>1, <3>1 DEF EndsIn, none
    <3> QED BY <3>2 DEF MapsAgree
  <2>4. CASE m.kind = "notify" /\ HandleNotify(m.item, m.value)
    <3>1. m.item \in Item /\ m.value \in Value
      BY <1>1, <2>4, MessageKinds
    <3>2. CASE m.item = i
      BY <2>2, <2>3, <2>4, <3>1, <3>2 DEF HandleNotify, TypeOK
    <3>3. CASE m.item # i
      BY <2>2, <2>4, <3>1, <3>3 DEF HandleNotify, TypeOK
    <3> QED BY <3>2, <3>3
  <2>5. CASE m.kind # "notify"
    <3>1. mDataItemCache'[i] = mDataItemCache[i]
      BY <2>5, CacheFollows
    <3>2. CASE seen'[c][i] = seen[c][i]
      BY <2>2, <3>1, <3>2
    <3>3. CASE seen'[c][i] = mDataItemCache[i] \/ seen'[c][i] = mDataItemCache'[i]
      BY <3>1, <3>3
    <3> QED BY <3>2, <3>3, SeenFollows
  <2> QED BY <2>4, <2>5 DEF HandleMessage
<1> QED BY <1>3, <1>4

LEMMA HandleMessageCurrent ==
    ASSUME TypeOK, MapsAgree, CurrentInv, HandleMessage
    PROVE  CurrentInv'
<1> USE DEF CurrentInv
<1> DEFINE m == Head(msgQ)
<1>1. /\ msgQ \in Seq(MessageType) /\ msgQ # <<>> /\ m \in MessageType /\ msgQ' = Tail(msgQ)
      /\ wants' = wants /\ fwValue' = fwValue
  BY HeadIsMessage DEF HandleMessage, TypeOK
<1>2. WantedComes'
  <2> SUFFICES ASSUME NEW c \in Client \ Updaters, NEW i \in Item \ RequestItems
               PROVE  i \in wants[c] <=> EndsIn(Tail(msgQ), joining(c, i), leaving(c, i),
                                                i \in mClientToDataItems'[c])
    BY <1>1 DEF WantedComes
  <2> DEFINE had == i \in mClientToDataItems[c]
             has == i \in mClientToDataItems'[c]
  <2>1. i \in wants[c] <=> EndsIn(msgQ, joining(c, i), leaving(c, i), had)
    BY DEF WantedComes
  <2>2. has <=> m \in joining(c, i) \/ (had /\ m \notin leaving(c, i))
    BY EntryFollows
  <2>3. had \in BOOLEAN /\ has = (m \in joining(c, i) \/ (had /\ m \notin leaving(c, i)))
    BY <2>2
  <2> DEFINE J == joining(c, i)
             L == leaving(c, i)
  <2>4. EndsIn(msgQ, J, L, had) <=>
            EndsIn(Tail(msgQ), J, L, Head(msgQ) \in J \/ (had /\ Head(msgQ) \notin L))
    <3>1. msgQ \in Seq(MessageType) /\ msgQ # <<>> /\ had \in BOOLEAN
      BY <1>1, <2>3
    <3> HIDE DEF had, J, L
    <3> QED BY <3>1, EndsInTail
  <2> QED BY <2>1, <2>3, <2>4
<1>3. SeenIsCached'
  <2>1. ASSUME NEW c \in Client \ Updaters, NEW i \in Item \ RequestItems,
               i \in wants[c], none(Tail(msgQ), joining(c, i))
        PROVE  seen'[c][i] = mDataItemCache'[i]
    BY <2>1, SeenFollowsCache
  <2>2. ASSUME NEW c \in Client, NEW i \in Item, mDataItemCache'[i] = NoValue
        PROVE  seen'[c][i] = NoValue
    <3>1. NoValue \notin Value
      BY OsObserverAssumption
    <3>2. mDataItemCache[i] = NoValue
      <4>1. m.kind = "notify" => m.value \in Value
        BY <1>1, MessageKinds
      <4> QED BY <2>2, <3>1, <4>1, CacheFollows
    <3>3. seen[c][i] = NoValue
      BY <3>2 DEF SeenIsCached
    <3> QED BY <2>2, <3>1, <3>2, <3>3, SeenFollows
  <2> QED BY <1>1, <2>1, <2>2 DEF SeenIsCached
<1>4. CacheCatchesUp'
  <2> SUFFICES ASSUME NEW i \in fwSubscribed' \ fwDue'
               PROVE  EndsIn(Tail(msgQ), telling(i, fwValue[i]), denying(i, fwValue[i]),
                             mDataItemCache'[i] = fwValue[i])
    BY <1>1 DEF CacheCatchesUp
  <2> DEFINE v == fwValue[i]
             had == mDataItemCache[i] = v
             has == mDataItemCache'[i] = v
  <2>1. i \in fwSubscribed \ fwDue /\ i \in Item /\ v \in Value
    BY DueFollows DEF TypeOK
  <2>2. EndsIn(msgQ, telling(i, v), denying(i, v), had)
    BY <2>1 DEF CacheCatchesUp
  <2>3. /\ m \in telling(i, v) <=> m.kind = "notify" /\ m.item = i /\ m.value = v
        /\ m \in denying(i, v) <=> m.kind = "notify" /\ m.item = i /\ m.value # v
    BY <1>1, <2>1, ReportsApart
  <2>4. had \in BOOLEAN /\ has = (m \in telling(i, v) \/ (had /\ m \notin denying(i, v)))
    BY <2>1, <2>3, CacheFollows
  <2>5. EndsIn(msgQ, telling(i, v), denying(i, v), had) <=>
            EndsIn(Tail(msgQ), telling(i, v), denying(i, v), m \in telling(i, v) \/ (had /\ m \notin denying(i, v)))
    BY <1>1, <2>4, EndsInTail
  <2> QED BY <2>2, <2>4, <2>5
<1> QED BY <1>2, <1>3, <1>4

-----------------------------------------------------------------------------
(***************************************************************************)
(* What the calls do: they post a message and change what is wanted as it  *)
(* will change the client's entry; what is not wanted is not seen.         *)
(***************************************************************************)
Posted(d, m) ==
    /\ m \in MessageType /\ m.kind # "notify" /\ m.client = d
    /\ msgQ' = Append(msgQ, m)
    /\ UNCHANGED <<maps, mSubscriptionObj, mDataItemCache, framework>>
    /\ \A c \in Client \ Updaters, i \in Item \ RequestItems :
           i \in wants'[c] <=> m \in joining(c, i) \/ (i \in wants[c] /\ m \notin leaving(c, i))
    /\ \A c \in Client, i \in Item :
           seen'[c][i] = seen[c][i] \/ (seen'[c][i] = NoValue /\ i \notin wants'[c])

LEMMA WantsNowIs ==
    ASSUME TypeOK, NEW d \in Client, NEW S \in SUBSET Item, wantsNow(d, S), NEW c \in Client, NEW i \in Item
    PROVE  /\ i \in wants'[c] <=> IF c = d THEN i \in S ELSE i \in wants[c]
           /\ seen'[c][i] = seen[c][i] \/ (seen'[c][i] = NoValue /\ i \notin wants'[c])
<1>1. CASE c = d
  BY <1>1 DEF wantsNow, TypeOK
<1>2. CASE c # d
  BY <1>2 DEF wantsNow, TypeOK
<1> QED BY <1>1, <1>2

LEMMA CallsPost ==
    ASSUME TypeOK, NEW d \in Client, ClientCalls(d)
    PROVE  \E m : Posted(d, m)
<1>1. CASE \E S \in SUBSET Item : subscribe(d, S)
  <2> PICK S \in SUBSET Item : subscribe(d, S)
    BY <1>1
  <2> DEFINE m == Message("subscribe", d, S)
  <2>1. m \in MessageType /\ m.kind = "subscribe" /\ m.client = d /\ m.items = S
    BY DEF Message, MessageType
  <2>2. wants[d] \cup S \in SUBSET Item /\ wantsNow(d, wants[d] \cup S)
    BY DEF TypeOK, subscribe
  <2>3. msgQ' = Append(msgQ, m) /\ UNCHANGED <<maps, mSubscriptionObj, mDataItemCache, framework>>
    BY DEF subscribe, send, wantsNow
  <2> HIDE DEF m
  <2>4. ASSUME NEW c \in Client \ Updaters, NEW i \in Item \ RequestItems
        PROVE  i \in wants'[c] <=> m \in joining(c, i) \/ (i \in wants[c] /\ m \notin leaving(c, i))
    BY <2>1, <2>2, CallsApart, WantsNowIs
  <2> QED BY <2>1, <2>2, <2>3, <2>4, WantsNowIs DEF Posted
<1>2. CASE \E S \in SUBSET Item : requestData(d, S)
  <2> PICK S \in SUBSET Item : requestData(d, S)
    BY <1>2
  <2> DEFINE m == Message("requestData", d, S)
  <2>1. m \in MessageType /\ m.kind = "requestData" /\ m.client = d
    BY DEF Message, MessageType, requestData
  <2>2. /\ msgQ' = Append(msgQ, m) /\ wants' = wants /\ seen' = seen
        /\ UNCHANGED <<maps, mSubscriptionObj, mDataItemCache, framework>>
    BY DEF requestData, send
  <2> HIDE DEF m
  <2>3. ASSUME NEW c \in Client \ Updaters, NEW i \in Item \ RequestItems
        PROVE  m \notin joining(c, i) /\ m \notin leaving(c, i)
    BY <2>1, CallsApart
  <2> QED BY <2>1, <2>2, <2>3 DEF Posted
<1>3. CASE \E S \in SUBSET Item : updateSubscription(d, S)
  <2> PICK S \in SUBSET Item : updateSubscription(d, S)
    BY <1>3
  <2> DEFINE m == Message("update", d, S)
  <2>1. m \in MessageType /\ m.kind = "update" /\ m.client = d
    BY DEF Message, MessageType, updateSubscription
  <2>2. wantsNow(d, S) /\ d \in Updaters
    BY DEF updateSubscription
  <2>3. msgQ' = Append(msgQ, m) /\ UNCHANGED <<maps, mSubscriptionObj, mDataItemCache, framework>>
    BY DEF updateSubscription, send, wantsNow
  <2> HIDE DEF m
  <2>4. ASSUME NEW c \in Client \ Updaters, NEW i \in Item \ RequestItems
        PROVE  i \in wants'[c] <=> m \in joining(c, i) \/ (i \in wants[c] /\ m \notin leaving(c, i))
    BY <2>1, <2>2, CallsApart, WantsNowIs
  <2> QED BY <2>1, <2>2, <2>3, <2>4, WantsNowIs DEF Posted
<1>4. ASSUME NEW S \in SUBSET Item, NEW R \in SUBSET Item, R = wants[d] \ S,
             send(Message("unsubscribe", d, S)), wantsNow(d, R)
      PROVE  \E m : Posted(d, m)
  <2> DEFINE m == Message("unsubscribe", d, S)
  <2>1. m \in MessageType /\ m.kind = "unsubscribe" /\ m.client = d /\ m.items = S
    BY DEF Message, MessageType
  <2>2. msgQ' = Append(msgQ, m) /\ UNCHANGED <<maps, mSubscriptionObj, mDataItemCache, framework>>
    BY <1>4 DEF send, wantsNow
  <2> HIDE DEF m
  <2>3. ASSUME NEW c \in Client \ Updaters, NEW i \in Item \ RequestItems
        PROVE  i \in wants'[c] <=> m \in joining(c, i) \/ (i \in wants[c] /\ m \notin leaving(c, i))
    BY <1>4, <2>1, CallsApart, WantsNowIs
  <2> QED BY <1>4, <2>1, <2>2, <2>3, WantsNowIs DEF Posted
<1>5. CASE \E S \in SUBSET Item : unsubscribe(d, S)
  <2> PICK S \in SUBSET Item : unsubscribe(d, S)
    BY <1>5
  <2>1. wants[d] \ S \in SUBSET Item
    BY DEF TypeOK
  <2> QED BY <1>4, <2>1 DEF unsubscribe
<1>6. CASE unsubscribeAll(d)
  <2>1. {} = wants[d] \ Item /\ {} \in SUBSET Item /\ Item \in SUBSET Item
    BY DEF TypeOK
  <2> QED BY <1>4, <1>6, <2>1 DEF unsubscribeAll
<1> QED BY <1>1, <1>2, <1>3, <1>5, <1>6 DEF ClientCalls

LEMMA PostedCurrent ==
    ASSUME TypeOK, CurrentInv, NEW d, NEW m, Posted(d, m)
    PROVE  CurrentInv'
<1> USE DEF CurrentInv
<1>1. /\ m \in MessageType /\ m.kind # "notify" /\ msgQ \in Seq(MessageType)
      /\ msgQ' = Append(msgQ, m)
      /\ mClientToDataItems' = mClientToDataItems /\ mDataItemCache' = mDataItemCache
      /\ fwSubscribed' = fwSubscribed /\ fwDue' = fwDue /\ fwValue' = fwValue
  BY DEF Posted, maps, framework, TypeOK
<1>2. WantedComes'
  <2> SUFFICES ASSUME NEW c \in Client \ Updaters, NEW i \in Item \ RequestItems
               PROVE  i \in wants'[c] <=> EndsIn(Append(msgQ, m), joining(c, i), leaving(c, i),
                                                 i \in mClientToDataItems[c])
    BY <1>1 DEF WantedComes
  <2> DEFINE had == i \in mClientToDataItems[c]
  <2>1. had \in BOOLEAN
    OBVIOUS
  <2>2. i \in wants[c] <=> EndsIn(msgQ, joining(c, i), leaving(c, i), had)
    BY DEF WantedComes
  <2> HIDE DEF had
  <2>3. EndsIn(Append(msgQ, m), joining(c, i), leaving(c, i), had) <=>
            m \in joining(c, i) \/ (EndsIn(msgQ, joining(c, i), leaving(c, i), had) /\ m \notin leaving(c, i))
    BY <1>1, <2>1, EndsInAppend
  <2>4. i \in wants'[c] <=> m \in joining(c, i) \/ (i \in wants[c] /\ m \notin leaving(c, i))
    BY DEF Posted
  <2> QED BY <2>2, <2>3, <2>4 DEF had
<1>3. SeenIsCached'
  <2>1. ASSUME NEW c \in Client \ Updaters, NEW i \in Item \ RequestItems,
               i \in wants'[c], none(Append(msgQ, m), joining(c, i))
        PROVE  seen'[c][i] = mDataItemCache[i]
    <3>1. none(msgQ, joining(c, i)) /\ m \notin joining(c, i)
      BY <1>1, <2>1, NoneAppend
    <3>2. i \in wants[c]
      BY <2>1, <3>1 DEF Posted
    <3>3. seen[c][i] = mDataItemCache[i]
      BY <3>1, <3>2 DEF SeenIsCached
    <3> QED BY <2>1, <3>3 DEF Posted
  <2>2. ASSUME NEW c \in Client, NEW i \in Item, mDataItemCache[i] = NoValue
        PROVE  seen'[c][i] = NoValue
    BY <2>2 DEF SeenIsCached, Posted
  <2> QED BY <1>1, <2>1, <2>2 DEF SeenIsCached
<1>4. CacheCatchesUp'
  <2> SUFFICES ASSUME NEW i \in fwSubscribed \ fwDue
               PROVE  EndsIn(Append(msgQ, m), telling(i, fwValue[i]), denying(i, fwValue[i]),
                             mDataItemCache[i] = fwValue[i])
    BY <1>1 DEF CacheCatchesUp
  <2> DEFINE v == fwValue[i]
             had == mDataItemCache[i] = v
  <2>1. i \in Item /\ v \in Value /\ had \in BOOLEAN
    BY DEF TypeOK
  <2>2. EndsIn(msgQ, telling(i, v), denying(i, v), had)
    BY DEF CacheCatchesUp
  <2>3. m \notin telling(i, v) /\ m \notin denying(i, v)
    BY <1>1, <2>1, ReportsApart
  <2> HIDE DEF had
  <2>4. EndsIn(Append(msgQ, m), telling(i, v), denying(i, v), had)
    BY <1>1, <2>1, <2>2, <2>3, EndsInAppend
  <2> QED BY <2>4 DEF had
<1> QED BY <1>2, <1>3, <1>4

\* notify() and setSubscriptionObj() post a message that is no client's.
LEMMA OthersPostCurrent ==
    ASSUME TypeOK, CurrentInv, NEW m \in MessageType, m.kind \in {"notify", "setSubscriptionObj"},
           msgQ' = Append(msgQ, m),
           UNCHANGED <<maps, mDataItemCache, fwSubscribed, fwValue, wants, seen>>,
           m.kind = "notify" => m.value = fwValue[m.item] /\ fwDue' = fwDue \ {m.item},
           m.kind # "notify" => UNCHANGED fwDue
    PROVE  CurrentInv'
<1> USE DEF CurrentInv
<1>1. /\ msgQ \in Seq(MessageType)
      /\ mClientToDataItems' = mClientToDataItems
  BY DEF maps, TypeOK
<1>2. WantedComes'
  <2> SUFFICES ASSUME NEW c \in Client \ Updaters, NEW i \in Item \ RequestItems
               PROVE  i \in wants[c] <=> EndsIn(Append(msgQ, m), joining(c, i), leaving(c, i),
                                                i \in mClientToDataItems[c])
    BY <1>1 DEF WantedComes
  <2> DEFINE had == i \in mClientToDataItems[c]
  <2>1. had \in BOOLEAN
    OBVIOUS
  <2>2. i \in wants[c] <=> EndsIn(msgQ, joining(c, i), leaving(c, i), had)
    BY DEF WantedComes
  <2>3. m \notin joining(c, i) /\ m \notin leaving(c, i)
    BY CallsApart
  <2> HIDE DEF had
  <2>4. EndsIn(Append(msgQ, m), joining(c, i), leaving(c, i), had) <=>
            EndsIn(msgQ, joining(c, i), leaving(c, i), had)
    BY <1>1, <2>1, <2>3, EndsInAppend
  <2> QED BY <2>2, <2>4 DEF had
<1>3. SeenIsCached'
  <2>1. ASSUME NEW c \in Client \ Updaters, NEW i \in Item \ RequestItems,
               i \in wants[c], none(Append(msgQ, m), joining(c, i))
        PROVE  seen[c][i] = mDataItemCache[i]
    <3>1. none(msgQ, joining(c, i))
      BY <1>1, <2>1, NoneAppend
    <3> QED BY <2>1, <3>1 DEF SeenIsCached
  <2> QED BY <1>1, <2>1 DEF SeenIsCached
<1>4. CacheCatchesUp'
  <2> SUFFICES ASSUME NEW i \in fwSubscribed \ fwDue'
               PROVE  EndsIn(Append(msgQ, m), telling(i, fwValue[i]), denying(i, fwValue[i]),
                             mDataItemCache[i] = fwValue[i])
    BY <1>1 DEF CacheCatchesUp
  <2> DEFINE v == fwValue[i]
             had == mDataItemCache[i] = v
  <2>1. i \in Item /\ v \in Value /\ had \in BOOLEAN
    BY DEF TypeOK
  <2>2. /\ m \in telling(i, v) <=> m.kind = "notify" /\ m.item = i /\ m.value = v
        /\ m \in denying(i, v) <=> m.kind = "notify" /\ m.item = i /\ m.value # v
    BY <2>1, ReportsApart
  <2> HIDE DEF had
  <2>3. EndsIn(Append(msgQ, m), telling(i, v), denying(i, v), had) <=>
            m \in telling(i, v) \/ (EndsIn(msgQ, telling(i, v), denying(i, v), had) /\ m \notin denying(i, v))
    BY <1>1, <2>1, EndsInAppend
  <2>4. CASE m.kind = "notify" /\ m.item = i
    BY <2>2, <2>3, <2>4 DEF had
  <2>5. CASE ~(m.kind = "notify" /\ m.item = i)
    <3>1. i \in fwSubscribed \ fwDue
      BY <2>5
    <3>2. EndsIn(msgQ, telling(i, v), denying(i, v), had)
      BY <3>1 DEF CacheCatchesUp, had
    <3> QED BY <2>2, <2>3, <2>5, <3>2 DEF had
  <2> QED BY <2>4, <2>5
<1> QED BY <1>2, <1>3, <1>4

\* A change of something subscribed makes a report due.
LEMMA ChangesCurrent ==
    ASSUME TypeOK, CurrentInv, NEW i \in Item, NEW v \in Value, FrameworkChanges(i, v)
    PROVE  CurrentInv'
<1> USE DEF CurrentInv, FrameworkChanges
<1>1. WantedComes' /\ SeenIsCached'
  BY DEF WantedComes, SeenIsCached, maps
<1>2. CacheCatchesUp'
  <2> SUFFICES ASSUME NEW j \in fwSubscribed \ fwDue'
               PROVE  EndsIn(msgQ, telling(j, fwValue'[j]), denying(j, fwValue'[j]),
                             mDataItemCache[j] = fwValue'[j])
    BY DEF CacheCatchesUp
  <2>1. j # i /\ j \in fwSubscribed \ fwDue
    OBVIOUS
  <2>2. fwValue'[j] = fwValue[j]
    BY <2>1 DEF TypeOK
  <2> QED BY <2>1, <2>2 DEF CacheCatchesUp
<1> QED BY <1>1, <1>2

LEMMA CurrentStep ==
    ASSUME IInv, CurrentInv, [Next]_vars
    PROVE  CurrentInv'
<1> USE DEF IInv
<1>1. CASE UNCHANGED vars
  BY <1>1 DEF vars, maps, framework, CurrentInv, WantedComes, SeenIsCached, CacheCatchesUp
<1>2. CASE HandleMessage
  BY <1>2, HandleMessageCurrent
<1>3. CASE \E c \in Client : ClientCalls(c)
  <2> PICK c \in Client : ClientCalls(c)
    BY <1>3
  <2> PICK m : Posted(c, m)
    BY CallsPost
  <2> QED BY PostedCurrent
<1>4. CASE setSubscriptionObj
  <2>1. SetSubsObj \in MessageType /\ SetSubsObj.kind = "setSubscriptionObj"
    BY DEF MessageType, SetSubsObj
  <2> QED BY <1>4, <2>1, OthersPostCurrent DEF setSubscriptionObj, send, framework
<1>5. CASE \E i \in Item : notify(i)
  <2> PICK i \in Item : notify(i)
    BY <1>5
  <2> DEFINE m == Report(i, fwValue[i])
  <2>1. m \in MessageType /\ m.kind = "notify" /\ m.item = i /\ m.value = fwValue[i]
    BY DEF MessageType, Report, TypeOK
  <2> QED BY <2>1, OthersPostCurrent DEF notify, send
<1>6. CASE \E i \in Item : \E v \in Value : FrameworkChanges(i, v)
  BY <1>6, ChangesCurrent
<1> QED BY <1>1, <1>2, <1>3, <1>4, <1>5, <1>6 DEF Next

LEMMA CurrentAtFirst ==
    ASSUME Init
    PROVE  CurrentInv
<1>1. WantedComes /\ SeenIsCached
  BY DEF Init, WantedComes, SeenIsCached, EndsIn, none
<1>2. CacheCatchesUp
  BY DEF Init, CacheCatchesUp
<1> QED BY <1>1, <1>2 DEF CurrentInv

LEMMA CurrentInvariance == Spec => [](IInv /\ CurrentInv)
<1>1. IInv /\ CurrentInv /\ [Next]_vars => (IInv /\ CurrentInv)'
  BY Inductiveness, CurrentStep
<1>2. Init => IInv /\ CurrentInv
  BY Initially, CurrentAtFirst
<1> QED BY <1>1, <1>2, PTL DEF Spec

(***************************************************************************)
(* For any clients, items and calls, once the queue is empty and nothing   *)
(* is due every client that subscribe() and unsubscribe() made has the     *)
(* framework's value of what it wants; requestData()'s items excepted.     *)
(***************************************************************************)
THEOREM OsObserverSubscriberIsCurrent == Spec => []SubscriberIsCurrent
<1>1. IInv /\ CurrentInv => SubscriberIsCurrent
  <2> SUFFICES ASSUME IInv, CurrentInv, Quiet,
                      NEW c \in Client \ Updaters, NEW i \in Item \ RequestItems, i \in wants[c]
               PROVE  seen[c][i] = fwValue[i]
    BY DEF SubscriberIsCurrent, current
  <2>1. i \in mClientToDataItems[c] /\ c \in mDataItemToClients[i]
    <3>1. EndsIn(<<>>, joining(c, i), leaving(c, i), i \in mClientToDataItems[c])
      BY DEF CurrentInv, WantedComes, Quiet
    <3>2. i \in mClientToDataItems[c]
      BY <3>1 DEF EndsIn
    <3> QED BY <3>2 DEF IInv, MapsAgree
  <2>2. i \in fwSubscribed \ fwDue
    BY <2>1 DEF IInv, SubscribedIfWanted, Quiet
  <2>3. mDataItemCache[i] = fwValue[i]
    BY <2>2, EndsInEmpty DEF CurrentInv, CacheCatchesUp, Quiet
  <2>4. none(msgQ, joining(c, i))
    BY DEF Quiet, none
  <2> QED BY <2>3, <2>4 DEF CurrentInv, SeenIsCached
<1> QED BY <1>1, CurrentInvariance, PTL

(***************************************************************************)
(* For any clients, items and calls, when the queue is empty an item that  *)
(* the framework is asked for is wanted or has been requested by a client, *)
(* or lists an updater: unsubscribe() and unsubscribeAll() leave nothing.  *)
(***************************************************************************)
THEOREM OsObserverNothingForNobody == Spec => []NothingForNobody
<1>1. IInv /\ CurrentInv => NothingForNobody
  <2> SUFFICES ASSUME IInv, CurrentInv, msgQ = <<>>, NEW i \in fwSubscribed \ RequestItems
               PROVE  \E c \in Client : i \in wants[c] \/ c \in Updaters \cap mDataItemToClients[i]
    BY DEF NothingForNobody
  <2>1. i \in Item /\ mDataItemToClients[i] # {} /\ mDataItemToClients[i] \subseteq Client
    BY DEF IInv, TypeOK, SubscribedIfWanted
  <2> PICK c \in Client : c \in mDataItemToClients[i]
    BY <2>1
  <2>2. CASE c \notin Updaters
    <3>1. i \in mClientToDataItems[c]
      BY <2>1, <2>2 DEF IInv, MapsAgree
    <3>2. i \in wants[c]
      BY <2>1, <2>2, <3>1, EndsInEmpty DEF CurrentInv, WantedComes
    <3> QED BY <3>2
  <2> QED BY <2>2
<1> QED BY <1>1, CurrentInvariance, PTL

=============================================================================
