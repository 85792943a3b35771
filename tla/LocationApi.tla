----------------------------- MODULE LocationApi -----------------------------
(***************************************************************************)
(* LocationAPI (gps/location/LocationAPI.cpp): which adapters know a       *)
(* client, from createInstance to the end of destroy.                      *)
(*                                                                         *)
(* All adapters handle their messages on the one thread of the context, so *)
(* msgQ is one queue.  destroy(callback) removes the client from each      *)
(* adapter its callbacks are for; the last adapter's answer calls the      *)
(* callback and deletes the object.  Without a callback the object is      *)
(* never deleted.                                                          *)
(***************************************************************************)
EXTENDS Integers, Sequences, FiniteSets, Functions, SequencesExt

CONSTANTS
    Client,
    Type,           \* the adapters, and the bits of LocationAdapterTypeMask
    Missing,        \* sets of adapters whose library cannot be loaded
    KeepsTypes,     \* TRUE: a client's new callbacks are for all the adapters
                    \* the old ones were for
    MaxCalls

VARIABLES
    clientData,         \* gData.clientData: client -> the types it is for
    destroyClientData,  \* client -> waitAdapterMask
    loaded,             \* adapters whose interface is loaded
    loadFailed,         \* gGnssLoadFailed, ...
    missing,            \* what cannot be loaded
    mClientData,        \* the adapters' clients
    msgQ,
    gone,               \* clients told that they are destroyed, and deleted
    destroyed,          \* clients that have called destroy
    unanswered,         \* requests, by number, without an answer
    calls

vars == <<clientData, destroyClientData, loaded, loadFailed, missing, mClientData, msgQ, gone,
          destroyed, unanswered, calls>>

Init ==
    /\ clientData = <<>> /\ destroyClientData = <<>>
    /\ loaded = {} /\ loadFailed = {} /\ missing \in Missing
    /\ mClientData = [t \in Type |-> {}]
    /\ msgQ = <<>> /\ gone = {} /\ destroyed = {}
    /\ unanswered = {} /\ calls = 0

-----------------------------------------------------------------------------
Put(f, x, y) == [z \in DOMAIN f \cup {x} |-> IF z = x THEN y ELSE f[z]]
Without(f, x) == Restrict(f, DOMAIN f \ {x})
Message(kind, c, t) == [kind |-> kind, c |-> c, type |-> t, n |-> calls]
Messages(kind, c, T) == SetToSeq({Message(kind, c, t) : t \in T})

Calling == calls < MaxCalls /\ calls' = calls + 1

\* An interface is loaded when first wanted; a failure is for good.
Load(T) ==
    /\ loaded' = loaded \cup (T \ (missing \cup loadFailed))
    /\ loadFailed' = loadFailed \cup (T \cap missing)

\* A slip: a client is added only where the interface is newly loaded.
AddedToNew(T) == (T \cap loaded') \ loaded
addedTo(T) == T \cap loaded'

setCallbacks(c, T) ==
    /\ Load(T)
    /\ msgQ' = msgQ \o Messages("add", c, addedTo(T))
    /\ clientData' = Put(clientData, c, T)
    /\ UNCHANGED <<destroyClientData, missing, mClientData, gone, destroyed, unanswered>>

createInstance(c, T) ==
    /\ Calling
    /\ c \notin DOMAIN clientData \cup destroyed
    /\ setCallbacks(c, T)

\* Nothing is removed from an adapter the new callbacks are not for.
updateCallbacks(c, T) ==
    /\ Calling
    /\ c \in DOMAIN clientData
    /\ KeepsTypes => clientData[c] \subseteq T
    /\ setCallbacks(c, T)

\* The adapters to remove the client from.
removeFrom(c) == clientData[c] \cap loaded

\* A slip: the mask is of the adapters that know the client by now.
KnownNow(c) == {t \in clientData[c] : c \in mClientData[t]}
waitAdapterMask(c) == removeFrom(c)

destroy(c, callback) ==
    /\ Calling
    /\ c \in DOMAIN clientData
    /\ destroyClientData' = IF callback /\ waitAdapterMask(c) # {}
                            THEN Put(destroyClientData, c, waitAdapterMask(c))
                            ELSE destroyClientData
    /\ gone' = IF callback /\ waitAdapterMask(c) = {} THEN gone \cup {c} ELSE gone
    /\ msgQ' = msgQ \o Messages("remove", c, removeFrom(c))
    /\ clientData' = Without(clientData, c)
    /\ destroyed' = destroyed \cup {c}
    /\ UNCHANGED <<loaded, loadFailed, missing, mClientData, unanswered>>

(***************************************************************************)
(* The calls of a client that are passed on.  Only the interface is looked *)
(* at: whether the client has a callback is found by the adapter.          *)
(***************************************************************************)
Request(c, t) ==
    /\ Calling
    /\ c \in DOMAIN clientData
    /\ t \in loaded
    /\ msgQ' = Append(msgQ, Message("request", c, t))
    /\ unanswered' = IF t \in clientData[c] THEN unanswered \cup {calls} ELSE unanswered
    /\ UNCHANGED <<clientData, destroyClientData, loaded, loadFailed, missing, mClientData,
                   gone, destroyed>>

gnssRequest(c) == Request(c, "gnss")
batchingRequest(c) == Request(c, "batching")
geofenceRequest(c) == Request(c, "geofence")

\* A slip: the mask is left as it was.
KeepBit(t, c) == destroyClientData[c]
clearBit(t, c) == destroyClientData[c] \ {t}

onRemoveClientCompleteCb(t, c) ==
    IF c \notin DOMAIN destroyClientData THEN UNCHANGED <<destroyClientData, gone>>
    ELSE IF clearBit(t, c) = {}
    THEN /\ destroyClientData' = Without(destroyClientData, c)
         /\ gone' = gone \cup {c}
    ELSE /\ destroyClientData' = [destroyClientData EXCEPT ![c] = clearBit(t, c)]
         /\ UNCHANGED gone

\* addClientCommand, removeClientCommand, and reportResponse, which does
\* nothing when it does not know the client.
HandleMessage ==
    /\ msgQ # <<>>
    /\ LET m == Head(msgQ)
       IN /\ mClientData' =
                [mClientData EXCEPT ![m.type] =
                    CASE m.kind = "add" -> @ \cup {m.c}
                      [] m.kind = "remove" -> @ \ {m.c}
                      [] OTHER -> @]
          /\ IF m.kind = "remove" THEN onRemoveClientCompleteCb(m.type, m.c)
             ELSE UNCHANGED <<destroyClientData, gone>>
          /\ unanswered' = IF m.kind = "request" /\ m.c \in mClientData[m.type]
                           THEN unanswered \ {m.n} ELSE unanswered
    /\ msgQ' = Tail(msgQ)
    /\ UNCHANGED <<clientData, loaded, loadFailed, missing, destroyed, calls>>

Next ==
    \/ \E c \in Client :
         \/ \E T \in SUBSET Type : createInstance(c, T) \/ updateCallbacks(c, T)
         \/ \E callback \in BOOLEAN : destroy(c, callback)
         \/ gnssRequest(c) \/ batchingRequest(c) \/ geofenceRequest(c)
    \/ HandleMessage

Spec == Init /\ [][Next]_vars

-----------------------------------------------------------------------------
TypeOK ==
    /\ \A c \in DOMAIN clientData : clientData[c] \subseteq Type
    /\ \A c \in DOMAIN destroyClientData : destroyClientData[c] \in SUBSET Type \ {{}}
    /\ \A t \in Type : mClientData[t] \subseteq Client

(***************************************************************************)
(* "the caller must ensure that the memory still remains valid until       *)
(* destroyCompleteCb is invoked" (LocationAPI.h): once it is, no adapter   *)
(* knows the client, or is about to.                                       *)
(***************************************************************************)
GoneIsForgotten ==
    \A c \in gone, t \in Type :
        /\ c \notin mClientData[t]
        /\ \A i \in DOMAIN msgQ : msgQ[i].c = c => msgQ[i].kind # "add" \/ msgQ[i].type # t

(***************************************************************************)
(* A client that gave a callback to destroy is called: when all messages   *)
(* have been handled nobody waits for an adapter, loaded or not            *)
(* (onRemoveClientCompleteCb).                                             *)
(***************************************************************************)
DestroyCompletes == msgQ = <<>> => destroyClientData = <<>>

(***************************************************************************)
(* A request about something the client has callbacks for is answered,     *)
(* though the client may have called destroy since: the adapter has been   *)
(* told of the client before, and forgets it after (setCallbacks,          *)
(* destroy).                                                               *)
(***************************************************************************)
RequestIsAnswered == msgQ = <<>> => unanswered = {}
=============================================================================
