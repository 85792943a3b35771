----------------------------- MODULE OsObserver -----------------------------
(***************************************************************************)
(* SystemStatusOsObserver (gps/core): clients subscribe for data items of  *)
(* the framework (network, power, cell...); the observer keeps who wants   *)
(* what in two LocUnorderedSetMaps, subscribes in the framework for the    *)
(* items somebody wants, caches what the framework reports and passes it   *)
(* on.  Every call posts a message; the MsgTask handles one at a time.     *)
(*                                                                         *)
(* Abstracted: the values of an item are told apart by equality; a list    *)
(* given to notify() has one item; every item is one that SystemStatus     *)
(* handles.  An absent entry of a map is an empty set (the maps hold no    *)
(* empty one).  LocUnorderedSetMap reads an iterator it has just erased:   *)
(* here the read gives what the freed node held, as it does when the       *)
(* allocator leaves a block alone until the thread allocates again.        *)
(***************************************************************************)
EXTENDS Naturals, Sequences

CONSTANTS
    Client,       \* the IDataItemObservers
    Item, Value,
    NoValue,      \* not in the cache; not seen yet
    Updaters,     \* the clients that call updateSubscription()
    RequestItems, \* the items some client asks for with requestData()
    Pushed,       \* the items reported whether subscribed or not (GnssRil, power)
    MaxInFlight   \* bound: messages in the queue

ASSUME OsObserverAssumption ==
    /\ Updaters \subseteq Client
    /\ RequestItems \subseteq Item
    /\ Pushed \subseteq Item
    /\ NoValue \notin Value
    /\ MaxInFlight \in Nat

VARIABLES
    mClientToDataItems, mDataItemToClients,
    mSubscriptionObj,    \* it has been set
    mDataItemCache,
    msgQ,                \* of the MsgTask
    fwSubscribed,        \* framework: the items the observer is subscribed to
    fwValue,             \* framework: item -> its value
    fwDue,               \* framework: the items it is about to report
    wants,               \* client -> what it has subscribed for, by its own calls
    seen                 \* client -> item -> the value it was last given

maps == <<mClientToDataItems, mDataItemToClients>>
framework == <<fwSubscribed, fwValue, fwDue>>
vars == <<maps, mSubscriptionObj, mDataItemCache, msgQ, framework, wants, seen>>

Message(kind, c, S) == [kind |-> kind, client |-> c, items |-> S]
Report(i, v) == [kind |-> "notify", item |-> i, value |-> v]
SetSubsObj == [kind |-> "setSubscriptionObj"]

Init ==
    /\ mClientToDataItems = [c \in Client |-> {}]
    /\ mDataItemToClients = [i \in Item |-> {}]
    /\ mSubscriptionObj = FALSE
    /\ mDataItemCache = [i \in Item |-> NoValue]
    /\ msgQ = <<>>
    /\ fwSubscribed = {} /\ fwDue = {}
    /\ fwValue \in [Item -> Value]
    /\ wants = [c \in Client |-> {}]
    /\ seen = [c \in Client |-> [i \in Item |-> NoValue]]

-----------------------------------------------------------------------------
(***************************************************************************)
(* LocUnorderedSetMap, on the map of the clients of each item.             *)
(***************************************************************************)

\* Mutant: key and value are swapped.
WithItems(map, c, S) == [i \in Item |-> IF i \in S THEN map[i] \cup S ELSE map[i]]

\* add(): clients of S gain c; the keys that were not in the map are new.
withClient(map, c, S) == [i \in Item |-> IF i \in S THEN map[i] \cup {c} ELSE map[i]]
newKeys(map, S) == {i \in S : map[i] = {}}

\* trimOrRemove(): clients of S lose c; an entry left empty is gone.
withoutClient(map, c, S) == [i \in Item |-> IF i \in S THEN map[i] \ {c} ELSE map[i]]
goneKeys(map, c, S) == {i \in S : map[i] # {} /\ map[i] \ {c} = {}}

\* sendCachedDataItems(): c keeps what it wants of it.
given(c, S, cache) ==
    [seen EXCEPT ![c] = [i \in Item |->
        IF i \in S \cap wants[c] /\ cache[i] # NoValue THEN cache[i] ELSE @[i]]]

\* The IDataItemSubscription object, when there is one: it reports the items
\* subscribed for or requested, and whatever of the subscribed ones changes.
ask(subscribed, unsubscribed, requested) ==
    IF mSubscriptionObj
    THEN /\ fwSubscribed' = (fwSubscribed \cup subscribed) \ unsubscribed
         /\ fwDue' = fwDue \cup subscribed \cup requested
    ELSE UNCHANGED <<fwSubscribed, fwDue>>

-----------------------------------------------------------------------------
(***************************************************************************)
(* What the messages do.                                                   *)
(***************************************************************************)

\* Mutant: the cached values are not sent.
SubscribeUncached(c, S, toRequestData) ==
    /\ mDataItemToClients' = withClient(mDataItemToClients, c, S)
    /\ mClientToDataItems' = [mClientToDataItems EXCEPT ![c] = @ \cup S]
    /\ UNCHANGED seen
    /\ IF toRequestData
       THEN ask({}, {}, S)
       ELSE ask(newKeys(mDataItemToClients, S), {}, {})

HandleSubscribeReq(c, S, toRequestData) ==
    /\ mDataItemToClients' = withClient(mDataItemToClients, c, S)
    /\ mClientToDataItems' = [mClientToDataItems EXCEPT ![c] = @ \cup S]
    /\ seen' = given(c, S, mDataItemCache)
    /\ IF toRequestData
       THEN ask({}, {}, S)
       ELSE ask(newKeys(mDataItemToClients, S), {}, {})

\* update() returns the items c had already, not those it no longer wants,
\* and takes them out of S: they are the ones c is removed from.
HandleUpdateSubscriptionReq(c, S) ==
    LET common == S \cap mClientToDataItems[c]
        added == S \ common
        trimmed == withoutClient(mDataItemToClients, c, common) IN
    /\ mClientToDataItems' = [mClientToDataItems EXCEPT ![c] = S]
    /\ mDataItemToClients' = withClient(trimmed, c, added)
    /\ seen' = given(c, added, mDataItemCache)
    /\ ask(newKeys(trimmed, added), goneKeys(mDataItemToClients, c, common), {})

\* Mutant: the item leaves the client's entry only.
UnsubscribeOneMap(c, S) ==
    LET unused == S \cap mClientToDataItems[c] IN
    /\ mClientToDataItems' = [mClientToDataItems EXCEPT ![c] = @ \ S]
    /\ ask({}, goneKeys(mDataItemToClients, c, unused), {})
    /\ UNCHANGED <<mDataItemToClients, seen>>

\* Mutant: every item the client gives up is unsubscribed, others' too.
UnsubscribeForAll(c, S) ==
    LET unused == S \cap mClientToDataItems[c] IN
    /\ mClientToDataItems' = [mClientToDataItems EXCEPT ![c] = @ \ S]
    /\ mDataItemToClients' = withoutClient(mDataItemToClients, c, unused)
    /\ ask({}, unused, {})
    /\ UNCHANGED seen

\* Mutant: the framework is not told of the entries that are gone.
UnsubscribeQuietly(c, S) ==
    LET unused == S \cap mClientToDataItems[c] IN
    /\ mClientToDataItems' = [mClientToDataItems EXCEPT ![c] = @ \ S]
    /\ mDataItemToClients' = withoutClient(mDataItemToClients, c, unused)
    /\ UNCHANGED <<fwSubscribed, fwDue, seen>>

\* unsubscribeAll() is unsubscribe() of all that the client has.
HandleUnsubscribeReq(c, S) ==
    LET unused == S \cap mClientToDataItems[c] IN
    /\ mClientToDataItems' = [mClientToDataItems EXCEPT ![c] = @ \ S]
    /\ mDataItemToClients' = withoutClient(mDataItemToClients, c, unused)
    /\ ask({}, goneKeys(mDataItemToClients, c, unused), {})
    /\ UNCHANGED seen

HandleSetSubsObj ==
    LET keys == {i \in Item : mDataItemToClients[i] # {}} IN
    /\ mSubscriptionObj' = TRUE
    /\ fwSubscribed' = fwSubscribed \cup keys
    /\ fwDue' = fwDue \cup keys
    /\ UNCHANGED <<maps, mDataItemCache, seen>>

\* The clients of i that have i, when updateCache() finds the value new.
HandleNotify(i, v) ==
    LET clientSet == {c \in mDataItemToClients[i] : i \in mClientToDataItems[c] \cap wants[c]} IN
    /\ mDataItemCache' = [mDataItemCache EXCEPT ![i] = v]
    /\ seen' = IF mDataItemCache[i] = v THEN seen
               ELSE [c \in Client |->
                        IF c \in clientSet THEN [seen[c] EXCEPT ![i] = v] ELSE seen[c]]
    /\ UNCHANGED <<maps, mSubscriptionObj, fwSubscribed, fwDue>>

\* MsgTask::run().
HandleMessage ==
    /\ msgQ # <<>>
    /\ msgQ' = Tail(msgQ)
    /\ UNCHANGED <<fwValue, wants>>
    /\ LET m == Head(msgQ) IN
       \/ /\ m.kind = "notify"
          /\ HandleNotify(m.item, m.value)
       \/ /\ m.kind = "setSubscriptionObj"
          /\ HandleSetSubsObj
       \/ /\ m.kind \in {"subscribe", "requestData"}
          /\ HandleSubscribeReq(m.client, m.items, m.kind = "requestData")
          /\ UNCHANGED <<mSubscriptionObj, mDataItemCache>>
       \/ /\ m.kind = "update"
          /\ HandleUpdateSubscriptionReq(m.client, m.items)
          /\ UNCHANGED <<mSubscriptionObj, mDataItemCache>>
       \/ /\ m.kind = "unsubscribe"
          /\ HandleUnsubscribeReq(m.client, m.items)
          /\ UNCHANGED <<mSubscriptionObj, mDataItemCache>>

-----------------------------------------------------------------------------
(***************************************************************************)
(* The calls, of clients and of the framework: each posts a message.       *)
(***************************************************************************)
send(m) ==
    /\ Len(msgQ) < MaxInFlight
    /\ msgQ' = Append(msgQ, m)
    /\ UNCHANGED <<maps, mSubscriptionObj, mDataItemCache>>

\* From now on c wants S, and has seen nothing of what it did not want.
wantsNow(c, S) ==
    /\ wants' = [wants EXCEPT ![c] = S]
    /\ seen' = [seen EXCEPT ![c] = [i \in Item |-> IF i \in S THEN @[i] ELSE NoValue]]
    /\ UNCHANGED framework

subscribe(c, S) ==
    /\ S # {}
    /\ send(Message("subscribe", c, S))
    /\ wantsNow(c, wants[c] \cup S)

requestData(c, S) ==
    /\ S # {} /\ S \subseteq RequestItems
    /\ send(Message("requestData", c, S))
    /\ UNCHANGED <<framework, wants, seen>>

updateSubscription(c, S) ==
    /\ S # {} /\ c \in Updaters
    /\ send(Message("update", c, S))
    /\ wantsNow(c, S)

unsubscribe(c, S) ==
    /\ S # {}
    /\ send(Message("unsubscribe", c, S))
    /\ wantsNow(c, wants[c] \ S)

unsubscribeAll(c) ==
    /\ send(Message("unsubscribe", c, Item))
    /\ wantsNow(c, {})

setSubscriptionObj ==
    /\ ~mSubscriptionObj /\ SetSubsObj \notin {msgQ[k] : k \in 1..Len(msgQ)}
    /\ send(SetSubsObj)
    /\ UNCHANGED <<framework, wants, seen>>

FrameworkChanges(i, v) ==
    /\ v # fwValue[i]
    /\ fwValue' = [fwValue EXCEPT ![i] = v]
    /\ fwDue' = IF i \in fwSubscribed \cup Pushed THEN fwDue \cup {i} ELSE fwDue
    /\ UNCHANGED <<maps, mSubscriptionObj, mDataItemCache, msgQ, fwSubscribed, wants, seen>>

\* The framework calls notify().
notify(i) ==
    /\ i \in fwDue
    /\ send(Report(i, fwValue[i]))
    /\ fwDue' = fwDue \ {i}
    /\ UNCHANGED <<fwSubscribed, fwValue, wants, seen>>

ClientCalls(c) ==
    \/ \E S \in SUBSET Item : subscribe(c, S) \/ requestData(c, S)
                              \/ updateSubscription(c, S) \/ unsubscribe(c, S)
    \/ unsubscribeAll(c)

Next ==
    \/ HandleMessage
    \/ \E c \in Client : ClientCalls(c)
    \/ setSubscriptionObj
    \/ \E i \in Item : notify(i) \/ (\E v \in Value : FrameworkChanges(i, v))

Spec == Init /\ [][Next]_vars

-----------------------------------------------------------------------------
MessageType ==
    [kind : {"subscribe", "unsubscribe"}, client : Client, items : SUBSET Item]
        \cup [kind : {"requestData"}, client : Client, items : SUBSET RequestItems]
        \cup [kind : {"update"}, client : Updaters, items : SUBSET Item]
        \cup [kind : {"notify"}, item : Item, value : Value]
        \cup {SetSubsObj}

\* The type invariant; of the messages, also who may send them and of what.
TypeOK ==
    /\ mClientToDataItems \in [Client -> SUBSET Item]
    /\ mDataItemToClients \in [Item -> SUBSET Client]
    /\ mSubscriptionObj \in BOOLEAN
    /\ mDataItemCache \in [Item -> Value \cup {NoValue}]
    /\ msgQ \in Seq(MessageType)
    /\ fwSubscribed \subseteq Item /\ fwDue \subseteq Item
    /\ fwValue \in [Item -> Value]
    /\ wants \in [Client -> SUBSET Item]
    /\ seen \in [Client -> [Item -> Value \cup {NoValue}]]

(***************************************************************************)
(* The two maps are each other's inverse, but for the clients that call    *)
(* updateSubscription(): a client is among an item's clients exactly when  *)
(* the item is among the client's.  HandleNotify reads both.               *)
(***************************************************************************)
MapsAgree ==
    \A c \in Client \ Updaters, i \in Item :
        c \in mDataItemToClients[i] <=> i \in mClientToDataItems[c]

(***************************************************************************)
(* The observer is subscribed in the framework to the items with clients,  *)
(* no fewer and no more, whatever came before the subscription object and  *)
(* whoever shares an item; but for the items also asked for by             *)
(* requestData(), which makes an entry and does not subscribe.             *)
(***************************************************************************)
SubscribedIfWanted ==
    /\ fwSubscribed \subseteq {i \in Item : mDataItemToClients[i] # {}}
    /\ mSubscriptionObj =>
           \A i \in Item \ RequestItems : mDataItemToClients[i] # {} => i \in fwSubscribed

Quiet == mSubscriptionObj /\ msgQ = <<>> /\ fwDue = {}

current(c, i) == i \in wants[c] => seen[c][i] = fwValue[i]

(***************************************************************************)
(* A subscriber ends up with the framework's value of every item it wants, *)
(* from the cache or from a report, however its calls, other clients' and  *)
(* the changes interleaved; with the exceptions of the two above.          *)
(***************************************************************************)
SubscriberIsCurrent ==
    Quiet => \A c \in Client \ Updaters, i \in Item \ RequestItems : current(c, i)

(***************************************************************************)
(* The same without the exception for requestData(): "Clients wanting to   *)
(* get data from OS/Framework would need to subscribe ... to receive data  *)
(* when it becomes available" (SystemStatusOsObserver.h).                  *)
(***************************************************************************)
EverySubscriberIsCurrent == Quiet => \A c \in Client \ Updaters, i \in Item : current(c, i)

(***************************************************************************)
(* Nothing stays subscribed for nobody: once all is handled, a subscribed  *)
(* item is one that a client wants or has requested, or that an updater is *)
(* still listed for.                                                       *)
(***************************************************************************)
NothingForNobody ==
    msgQ = <<>> => \A i \in fwSubscribed \ RequestItems :
        \E c \in Client : i \in wants[c] \/ c \in Updaters \cap mDataItemToClients[i]

=============================================================================
