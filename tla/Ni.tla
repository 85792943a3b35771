--------------------------------- MODULE Ni ---------------------------------
(***************************************************************************)
(* Network-initiated (NI) location requests (gps/gnss/GnssAdapter.cpp).    *)
(*                                                                         *)
(* The network, through the modem, asks for the device's position; the     *)
(* adapter shows the request to a client and a thread of its own waits for *)
(* the user's answer or a timeout.  There are two sessions, one for        *)
(* emergency SUPL requests and one for all others.  A session is shared by *)
(* the adapter's thread and the NI thread; resp and respRecvd are written  *)
(* under its mutex tLock, but rawRequest, reqID and respTimeLeft are also  *)
(* read or written without it.  The critical sections are single steps     *)
(* here, what happens outside them are steps of their own.                 *)
(*                                                                         *)
(* Abstracted: time (a timeout may come at any moment of the wait), texts  *)
(* and encodings of a notification, the address of a request's raw data    *)
(* (the request itself stands for it).                                     *)
(***************************************************************************)
EXTENDS Naturals, Sequences, FiniteSets

CONSTANTS
    Request,         \* requests of the network, each made at most once
    TypeOf,          \* their type: "ES" (emergency SUPL), "CP" or "SUPL"
    NoRequest,       \* NULL
    SuplEsNo,        \* SUPL_ES is GNSS_CONFIG_SUPL_EMERGENCY_SERVICES_NO
    CpMtlrEs,        \* CP_MTLR_ES is 1
    ClientsChange,   \* TRUE: clients with a gnssNiCb come and go
    AllowRestart     \* TRUE: the modem may restart, once

ASSUME NiAssumption ==
    /\ TypeOf \in [Request -> {"ES", "CP", "SUPL"}]
    /\ NoRequest \notin Request
    /\ {SuplEsNo, CpMtlrEs, ClientsChange, AllowRestart} \subseteq BOOLEAN

ES == "sessionEs"
NI == "session"
Session == {ES, NI}
UserResponse == {"ACCEPT", "DENY"}
Response == UserResponse \cup {"NO_RESPONSE", "IGNORE"}
sessionOf(r) == IF TypeOf[r] = "ES" THEN ES ELSE NI

NoResult == [r |-> NoRequest, x |-> "none"]

VARIABLES
    rawRequest,   \* session -> the request it serves, or NoRequest
    reqID,        \* session -> the id the user's answer must carry
    respTimeLeft, \* session -> TRUE: the full time, FALSE: 0
    respRecvd, resp,
    reqIDCounter,
    pc,           \* request -> where its NI thread is
    fullTime,     \* request -> its thread waits for the full time
    result,       \* request -> the response its thread sends, and for which request
    niClient,     \* a client with a gnssNiCb is in mClientData
    todo,         \* what the message being handled has yet to write to sessions
    msgQ,         \* the adapter's message queue
    notified,     \* requests the network has made
    shown,        \* request -> the id the client was given, 0 before
    user,         \* request -> the user's answer, or "none"
    told,         \* <<request, answer>> reported to the client as successful
    disposals,    \* request -> what became of its raw data: responses, "freed"
    ignored,      \* requests told to be ignored by an accepted emergency
    stale,        \* requests in a session when the modem was back up
    restarted

session == <<rawRequest, reqID, respTimeLeft, reqIDCounter>>
answer == <<respRecvd, resp>>
thread == <<pc, fullTime, result>>
history == <<told, disposals, ignored, stale>>
world == <<notified, user, restarted>>
vars == <<rawRequest, reqID, respTimeLeft, reqIDCounter, respRecvd, resp, pc, fullTime, result,
          niClient, todo, msgQ, notified, shown, user, told, disposals, ignored, stale,
          restarted>>

Init ==
    /\ rawRequest = [k \in Session |-> NoRequest]
    /\ reqID = [k \in Session |-> 0]
    /\ respTimeLeft = [k \in Session |-> FALSE]
    /\ respRecvd = [k \in Session |-> FALSE]
    /\ resp = [k \in Session |-> "NO_RESPONSE"]
    /\ reqIDCounter = 0
    /\ pc = [r \in Request |-> "none"]
    /\ fullTime = [r \in Request |-> FALSE]
    /\ result = [r \in Request |-> NoResult]
    /\ niClient \in BOOLEAN
    /\ todo = <<>> /\ msgQ = <<>>
    /\ notified = {} /\ restarted = FALSE
    /\ shown = [r \in Request |-> 0]
    /\ user = [r \in Request |-> "none"]
    /\ told = {} /\ ignored = {} /\ stale = {}
    /\ disposals = [r \in Request |-> <<>>]

-----------------------------------------------------------------------------
(***************************************************************************)
(* The adapter's thread.                                                   *)
(***************************************************************************)
dispose(r, d) == disposals' = [disposals EXCEPT ![r] = Append(@, d)]
informNiResponse(r, x) == dispose(r, x)
free(r) == dispose(r, "freed")

\* An answer to be written to a session under its lock; id 0 is not a client's.
write(k, x, id) == [k |-> k, x |-> x, id |-> id]
ignoreNi == IF rawRequest[NI] = NoRequest THEN <<>> ELSE <<write(NI, "IGNORE", 0)>>

\* The session takes the request, its thread is created, the client is told.
openSession(k, r) ==
    /\ rawRequest' = [rawRequest EXCEPT ![k] = r]
    /\ reqIDCounter' = reqIDCounter + 1
    /\ reqID' = [reqID EXCEPT ![k] = reqIDCounter']
    /\ respTimeLeft' = [respTimeLeft EXCEPT ![k] = TRUE]
    /\ pc' = [pc EXCEPT ![r] = "created"]
    /\ shown' = [shown EXCEPT ![r] = reqIDCounter']

closed == UNCHANGED <<session, pc, shown>>

\* Mutants: a request may join an emergency in progress; any request is taken.
BusyAlone(k) == rawRequest[k] # NoRequest
BusyNever(k) == FALSE

\* Sessions in progress that keep a new request of session k out.
busy(k) ==
    IF k = ES THEN rawRequest[ES] # NoRequest
    ELSE rawRequest[NI] # NoRequest \/ rawRequest[ES] # NoRequest

requestNiNotify(r) ==
    \/ /\ ~niClient /\ TypeOf[r] = "ES"
       /\ informNiResponse(r, "ACCEPT")
       /\ todo' = ignoreNi
       /\ closed
    \/ /\ ~niClient /\ TypeOf[r] # "ES"
       /\ closed /\ UNCHANGED <<disposals, todo>>
    \/ /\ niClient /\ busy(sessionOf(r))
       /\ free(r)
       /\ closed /\ UNCHANGED todo
    \/ /\ niClient /\ ~busy(sessionOf(r))
       /\ openSession(sessionOf(r), r)
       /\ UNCHANGED <<disposals, todo>>

requestNiNotifyEvent(r, isInEmergency) ==
    \/ /\ TypeOf[r] = "ES" /\ (isInEmergency \/ SuplEsNo)
       /\ requestNiNotify(r)
    \/ /\ TypeOf[r] = "ES" /\ ~(isInEmergency \/ SuplEsNo)
       /\ informNiResponse(r, "DENY")
       /\ closed /\ UNCHANGED todo
    \/ /\ TypeOf[r] = "CP" /\ isInEmergency /\ CpMtlrEs
       /\ informNiResponse(r, "ACCEPT")
       /\ closed /\ UNCHANGED todo
    \/ /\ TypeOf[r] # "ES" /\ ~(TypeOf[r] = "CP" /\ isInEmergency /\ CpMtlrEs)
       /\ requestNiNotify(r)

\* Mutant: the id is not compared.
MatchesAny(k, id) == rawRequest[k] # NoRequest

\* The id names the request the session serves; rawRequest is read unlocked.
matches(k, id) == reqID[k] = id /\ rawRequest[k] # NoRequest

\* The user's answer: an emergency that is accepted ignores the other session.
gnssNiResponseCommand(id, x) ==
    todo' = IF ~niClient THEN <<>>
            ELSE IF matches(ES, id)
            THEN (IF x = "ACCEPT" THEN ignoreNi ELSE <<>>) \o <<write(ES, x, id)>>
            ELSE IF matches(NI, id) THEN <<write(NI, x, id)>> ELSE <<>>

\* Sessions are not touched when the modem is back up.
handleEngineUpEvent ==
    stale' = stale \cup {rawRequest[k] : k \in {j \in Session : rawRequest[j] # NoRequest}}

HandleMessage ==
    /\ todo = <<>> /\ msgQ # <<>>
    /\ msgQ' = Tail(msgQ)
    /\ \E m \in {Head(msgQ)} :
         \/ /\ m.kind = "notify"
            /\ requestNiNotifyEvent(m.r, m.isInEmergency)
            /\ UNCHANGED stale
         \/ /\ m.kind = "userResponse"
            /\ gnssNiResponseCommand(m.id, m.x)
            /\ closed /\ UNCHANGED <<disposals, stale>>
         \/ /\ m.kind = "inform"
            /\ informNiResponse(m.r, m.x)
            /\ closed /\ UNCHANGED <<todo, stale>>
         \/ /\ m.kind = "engineUp"
            /\ handleEngineUpEvent
            /\ closed /\ UNCHANGED <<disposals, todo>>
    /\ UNCHANGED <<answer, fullTime, result, niClient, world, told, ignored>>

\* The message goes on: lock, write, signal, unlock; the client is told.
WriteAnswer ==
    /\ todo # <<>>
    /\ LET w == Head(todo)
       IN /\ resp' = [resp EXCEPT ![w.k] = w.x]
          /\ respRecvd' = [respRecvd EXCEPT ![w.k] = TRUE]
          /\ told' = told \cup {<<r, w.x>> : r \in {q \in Request : shown[q] = w.id /\ w.id # 0}}
          /\ ignored' = IF w.x = "IGNORE" THEN ignored \cup ({rawRequest[w.k]} \cap Request)
                        ELSE ignored
    /\ todo' = Tail(todo)
    /\ UNCHANGED <<session, thread, niClient, msgQ, shown, world, disposals, stale>>

-----------------------------------------------------------------------------
(***************************************************************************)
(* niThreadProc, the thread of request r.                                  *)
(***************************************************************************)
goto(r, l) == pc' = [pc EXCEPT ![r] = l]

threadOnly == UNCHANGED <<niClient, todo, shown, world, told, ignored, stale>>

\* Take the lock and compute the time of expiry.
Begin(r) ==
    /\ pc[r] = "created"
    /\ goto(r, "waiting")
    /\ fullTime' = [fullTime EXCEPT ![r] = respTimeLeft[sessionOf(r)]]
    /\ UNCHANGED <<session, answer, result, msgQ, disposals>> /\ threadOnly

\* The wait has timed out; the lock is yet to be taken again.
Expire(r) ==
    /\ pc[r] = "waiting" /\ ~respRecvd[sessionOf(r)]
    /\ goto(r, "expired")
    /\ UNCHANGED <<session, answer, fullTime, result, msgQ, disposals>> /\ threadOnly

\* Mutants: the thread waits for an answer after its time; it sends all answers;
\* the data it sends is freed too.
ReadyWhenAnswered(r) == pc[r] \in {"waiting", "expired"} /\ respRecvd[sessionOf(r)]
SendsAll(x) == TRUE
FreesAll(x) == TRUE

ready(r) == pc[r] = "expired" \/ (pc[r] = "waiting" /\ respRecvd[sessionOf(r)])
sends(x) == x # "IGNORE"
frees(x) == ~sends(x)

\* With the lock: a timeout wins over an answer that came meanwhile.
Take(r) ==
    LET k == sessionOf(r)
        x == IF pc[r] = "expired" THEN "NO_RESPONSE" ELSE resp[k]
    IN /\ ready(r)
       /\ resp' = [resp EXCEPT ![k] = x]
       /\ respRecvd' = [respRecvd EXCEPT ![k] = FALSE]
       /\ rawRequest' = [rawRequest EXCEPT ![k] = NoRequest]
       /\ IF rawRequest[k] # NoRequest /\ sends(x)
          THEN result' = [result EXCEPT ![r] = [r |-> rawRequest[k], x |-> x]]
          ELSE UNCHANGED result
       /\ IF rawRequest[k] # NoRequest /\ frees(x) THEN free(rawRequest[k])
          ELSE UNCHANGED disposals
       /\ goto(r, "unlocked")
       /\ UNCHANGED <<reqID, respTimeLeft, reqIDCounter, fullTime, msgQ>> /\ threadOnly

\* Without the lock: respTimeLeft, then reqID are reset.
ClearTime(r) ==
    /\ pc[r] = "unlocked"
    /\ goto(r, "cleared")
    /\ respTimeLeft' = [respTimeLeft EXCEPT ![sessionOf(r)] = FALSE]
    /\ UNCHANGED <<rawRequest, reqID, reqIDCounter, answer, fullTime, result, msgQ, disposals>>
    /\ threadOnly

Finish(r) ==
    /\ pc[r] = "cleared"
    /\ goto(r, "done")
    /\ reqID' = [reqID EXCEPT ![sessionOf(r)] = 0]
    /\ msgQ' = IF result[r] = NoResult THEN msgQ
               ELSE Append(msgQ, [kind |-> "inform", r |-> result[r].r, x |-> result[r].x])
    /\ UNCHANGED <<rawRequest, respTimeLeft, reqIDCounter, answer, fullTime, result, disposals>>
    /\ threadOnly

Thread(r) == Begin(r) \/ Expire(r) \/ Take(r) \/ ClearTime(r) \/ Finish(r)

-----------------------------------------------------------------------------
(***************************************************************************)
(* The network, the modem, the user, and clients that come and go.         *)
(***************************************************************************)
post(m) ==
    /\ msgQ' = Append(msgQ, m)
    /\ UNCHANGED <<session, answer, thread, niClient, todo, shown, history>>

Notify(r) ==
    /\ r \notin notified
    /\ notified' = notified \cup {r}
    /\ \E e \in BOOLEAN : post([kind |-> "notify", r |-> r, isInEmergency |-> e])
    /\ UNCHANGED <<user, restarted>>

\* The user answers a request shown, or the client for the user, once.
Respond(r, x) ==
    /\ shown[r] # 0 /\ user[r] = "none"
    /\ user' = [user EXCEPT ![r] = x]
    /\ post([kind |-> "userResponse", id |-> shown[r], x |-> x])
    /\ UNCHANGED <<notified, restarted>>

ModemRestart ==
    /\ AllowRestart /\ ~restarted
    /\ restarted' = TRUE
    /\ post([kind |-> "engineUp"])
    /\ UNCHANGED <<notified, user>>

\* saveClient and eraseClient, messages of the adapter's thread too.
ClientChange ==
    /\ ClientsChange /\ todo = <<>>
    /\ niClient' = ~niClient
    /\ UNCHANGED <<session, answer, thread, todo, msgQ, shown, world, history>>

Next ==
    \/ HandleMessage \/ WriteAnswer
    \/ \E r \in Request :
         Thread(r) \/ Notify(r) \/ \E x \in UserResponse : Respond(r, x)
    \/ ModemRestart \/ ClientChange

Spec == Init /\ [][Next]_vars

(* Threads run, and time passes for one that waits.  The user need not      *)
(* answer, nor the network ask.                                            *)
FairSpec ==
    /\ Spec
    /\ WF_vars(HandleMessage) /\ WF_vars(WriteAnswer)
    /\ \A r \in Request : WF_vars(Thread(r))

-----------------------------------------------------------------------------
(* A thread never sends an IGNORE (niThreadProc frees the data instead), and  *)
(* ids come from reqIDCounter.                                              *)
TypeOK ==
    /\ rawRequest \in [Session -> Request \cup {NoRequest}]
    /\ reqIDCounter \in Nat
    /\ reqID \in [Session -> 0 .. reqIDCounter]
    /\ respTimeLeft \in [Session -> BOOLEAN]
    /\ respRecvd \in [Session -> BOOLEAN]
    /\ resp \in [Session -> Response]
    /\ pc \in [Request -> {"none", "created", "waiting", "expired", "unlocked", "cleared", "done"}]
    /\ fullTime \in [Request -> BOOLEAN]
    /\ result \in [Request -> [r : Request, x : Response \ {"IGNORE"}] \cup {NoResult}]
    /\ niClient \in BOOLEAN
    /\ shown \in [Request -> 0 .. reqIDCounter]
    /\ user \in [Request -> UserResponse \cup {"none"}]

(***************************************************************************)
(* The raw data of a request is handed to the modem or freed, once: never  *)
(* freed and then used, nor answered twice, whoever ends the session.      *)
(***************************************************************************)
DisposedOnce == \A r \in Request : Len(disposals[r]) <= 1

(***************************************************************************)
(* A session in progress has its thread, the only one that waits on it, so *)
(* that it ends even when no answer comes ("for robustness, spawn a thread *)
(* at this point to timeout to clear up the notification status").         *)
(***************************************************************************)
SessionHasItsThread ==
    \A k \in Session :
        {r \in Request : sessionOf(r) = k /\ pc[r] \in {"created", "waiting", "expired"}}
            = {rawRequest[k]} \ {NoRequest}

(***************************************************************************)
(* No request joins an emergency in progress ("supl NI in progress, new    *)
(* supl NI ignored"): two sessions are open only if the emergency came     *)
(* second.                                                                 *)
(***************************************************************************)
EmergencyIsNotJoined ==
    (\A k \in Session : rawRequest[k] # NoRequest) => shown[rawRequest[NI]] < shown[rawRequest[ES]]

(***************************************************************************)
(* The device is located with the user's consent: the modem is told ACCEPT *)
(* for a request that was shown only if the user accepted that request.    *)
(***************************************************************************)
AcceptIsTheUsers ==
    \A r \in Request : shown[r] # 0 /\ disposals[r] = <<"ACCEPT">> => user[r] = "ACCEPT"

\* A request of session k was shown, no later than the one with id n, and accepted.
saidYes(q, k) == sessionOf(q) = k /\ shown[q] # 0 /\ user[q] = "ACCEPT"
acceptedBy(k, n) == \E q \in Request : saidYes(q, k) /\ shown[q] <= n

(***************************************************************************)
(* Where a late answer is taken for the next request, it still is a user's *)
(* consent: an ACCEPT for a request shown has behind it the user's, given  *)
(* to a request that the same session showed no later.                     *)
(***************************************************************************)
AcceptIsSomeUsers ==
    \A r \in Request :
        shown[r] # 0 /\ disposals[r] = <<"ACCEPT">> => acceptedBy(sessionOf(r), shown[r])

(* Each session has its one thread, raw data is disposed of once, no request *)
(* joins an emergency and none is accepted for a user who accepted nothing   *)
(* (requestNIStart, niThreadProc).                                           *)
SessionsAreWhole ==
    /\ TypeOK /\ DisposedOnce /\ SessionHasItsThread /\ EmergencyIsNotJoined
    /\ AcceptIsSomeUsers

(***************************************************************************)
(* The client told that its response succeeded (LOCATION_ERROR_SUCCESS)    *)
(* may rely on it: what the modem is told is that response.                *)
(***************************************************************************)
SuccessIsSent ==
    \A r \in Request : \A x \in UserResponse :
        <<r, x>> \in told /\ disposals[r] # <<>> => disposals[r] \in {<<x>>, <<"freed">>}

(***************************************************************************)
(* A request shown can be answered, for the time it was given, until its   *)
(* session ends: no other thread takes away its id or its time.            *)
(***************************************************************************)
ShownIsAnswerable ==
    \A k \in Session : \A r \in {rawRequest[k]} \cap Request :
        /\ reqID[k] = shown[r]
        /\ pc[r] \in {"waiting", "expired"} => fullTime[r]

(***************************************************************************)
(* "ignore any SUPL NI non-Es session if a SUPL NI ES is accepted": the    *)
(* modem is told nothing of a request that is to be ignored.               *)
(***************************************************************************)
IgnoredIsNotAnswered ==
    \A r \in ignored : disposals[r] \in {<<>>, <<"freed">>}

(***************************************************************************)
(* The modem that restarted is not told of requests made before: "this     *)
(* check to support modem restart, in which case, we need the thread to    *)
(* exit without calling sending data" (niThreadProc).                      *)
(***************************************************************************)
RestartIsSilent ==
    \A r \in stale : disposals[r] \in {<<>>, <<"freed">>}

(***************************************************************************)
(* Every request shown comes to an end, and with it its session.           *)
(***************************************************************************)
ShownIsDisposed == \A r \in Request : shown[r] # 0 ~> disposals[r] # <<>>

=============================================================================
