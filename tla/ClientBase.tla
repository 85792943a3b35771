----------------------------- MODULE ClientBase -----------------------------
(***************************************************************************)
(* LocationAPIClientBase (gps/location/LocationAPIClientBase.h and .cpp):  *)
(* what a HAL client keeps of its sessions.                                *)
(*                                                                         *)
(* A call is made under mMutex: it pushes a request into a queue and calls *)
(* the adapter.  The adapter's thread brings an answer that names a        *)
(* session only; the request at the head of the queue found for that       *)
(* session is taken to be the one it answers.  The sessions started by an  *)
(* id of the client's share one queue; the tracking session and the last   *)
(* network-initiated response have one each.                               *)
(*                                                                         *)
(* Abstracted: options, batch contents, and the geofence half of the class *)
(* (ClientFences).                                                         *)
(***************************************************************************)
EXTENDS Integers, Sequences, FiniteSets, Functions, SequencesExt

CONSTANTS
    Id,             \* ids the client gives its sessions
    Mode,           \* modes it uses: among "fix", "batch", "trip"
    NiId,           \* ids of network-initiated requests
    Calls,          \* what it uses: "tracking", "session", "get", "ni"
    StartMayFail,
    InOrder,        \* the adapter answers in the order of the calls
    Waits,          \* a client waits for a call's answer before the next
                    \* call about the same session, and a trip is completed
                    \* when no call about it is under way
    UpdateTwice,    \* an update of a batching session is answered twice
    MaxCalls

VARIABLES
    mSession,       \* mSessionBiDict: id -> [session, mode]
    queue,          \* mRequestQueues[REQUEST_SESSION]
    tracking,       \* mRequestQueues[REQUEST_TRACKING] and its session
    mTracking,
    ni,             \* mRequestQueues[REQUEST_NIRESPONSE] and its session
    next,           \* the next session id
    wire,           \* calls the adapter has not answered
    running,        \* its sessions
    calling,        \* the request whose onResponse is being run
    calls,
    mixedUp         \* calls that got the answer of another one

vars == <<mSession, queue, tracking, mTracking, ni, next, wire, running, calling, calls, mixedUp>>

Nothing == [kind |-> "none"]

Init ==
    /\ mSession = <<>> /\ queue = <<>>
    /\ tracking = [session |-> 0, q |-> <<>>] /\ mTracking = FALSE
    /\ ni = [session |-> 0, q |-> <<>>]
    /\ next = 1 /\ wire = <<>> /\ running = {}
    /\ calling = Nothing /\ calls = 0 /\ mixedUp = {}

-----------------------------------------------------------------------------
Put(f, x, y) == [z \in DOMAIN f \cup {x} |-> IF z = x THEN y ELSE f[z]]

\* The ghost field call numbers the call; the code has none.
Request(kind) == [kind |-> kind, call |-> calls]
Command(op, s) == [op |-> op, s |-> s, call |-> calls]

Quiescent == wire = <<>> /\ calling = Nothing

Free(s) ==
    Waits => /\ \A i \in DOMAIN wire : wire[i].s # s
             /\ calling # Nothing => calling.s # s

hasSession(s) == \E id \in DOMAIN mSession : mSession[id].session = s
rmBySession(s) == Restrict(mSession, {id \in DOMAIN mSession : mSession[id].session # s})

Call(which) == which \in Calls /\ calls < MaxCalls /\ calls' = calls + 1
MayAnswer == UNCHANGED <<running, calling, mixedUp>>

locAPIStartTracking ==
    /\ Call("tracking")
    /\ ~mTracking
    /\ mTracking' = TRUE
    /\ tracking' = [session |-> next, q |-> <<Request("start")>>]
    /\ wire' = Append(wire, Command("start", next))
    /\ next' = next + 1
    /\ MayAnswer /\ UNCHANGED <<mSession, queue, ni>>

\* Mutant: the client still thinks it is tracking.
StopLeavesTracking ==
    /\ Call("tracking")
    /\ tracking.session > 0
    /\ tracking' = [tracking EXCEPT !.q = Append(@, Request("stop"))]
    /\ wire' = Append(wire, Command("stop", tracking.session))
    /\ MayAnswer /\ UNCHANGED <<mSession, queue, mTracking, ni, next>>

locAPIStopTracking ==
    /\ Call("tracking")
    /\ tracking.session > 0
    /\ mTracking' = FALSE
    /\ tracking' = [tracking EXCEPT !.q = Append(@, Request("stop"))]
    /\ wire' = Append(wire, Command("stop", tracking.session))
    /\ MayAnswer /\ UNCHANGED <<mSession, queue, ni, next>>

locAPIUpdateTrackingOptions ==
    /\ Call("tracking")
    /\ tracking.session > 0
    /\ tracking' = [tracking EXCEPT !.q = Append(@, Request("update"))]
    /\ wire' = Append(wire, Command("update", tracking.session))
    /\ MayAnswer /\ UNCHANGED <<mSession, queue, mTracking, ni, next>>

locAPIStartSession(id, mode) ==
    /\ Call("session")
    /\ id \notin DOMAIN mSession
    /\ queue' = Append(queue, Request("start"))
    /\ wire' = Append(wire, Command("start", next))
    /\ mSession' = Put(mSession, id, [session |-> next, mode |-> mode])
    /\ next' = next + 1
    /\ MayAnswer /\ UNCHANGED <<tracking, mTracking, ni>>

locAPIStopSession(id) ==
    /\ Call("session")
    /\ id \in DOMAIN mSession /\ Free(mSession[id].session)
    /\ queue' = Append(queue, Request("stop"))
    /\ wire' = Append(wire, Command("stop", mSession[id].session))
    /\ MayAnswer /\ UNCHANGED <<mSession, tracking, mTracking, ni, next>>

\* From fixes to batches and back one session is stopped, without a
\* request, and another started.
Switches(id, mode) == (mSession[id].mode = "fix") # (mode = "fix")

locAPIUpdateSessionOptions(id, mode) ==
    /\ Call("session")
    /\ id \in DOMAIN mSession /\ Free(mSession[id].session)
    /\ queue' = Append(queue, Request("update"))
    /\ LET old == mSession[id].session
           s == IF Switches(id, mode) THEN next ELSE old
       IN /\ wire' = wire \o (IF Switches(id, mode)
                              THEN <<Command("stop", old), Command("start", s)>>
                              ELSE <<Command(IF mode = "fix" THEN "update" ELSE "updateBatching", s)>>)
          /\ mSession' = Put(mSession, id, [session |-> s, mode |-> mode])
          /\ next' = IF Switches(id, mode) THEN next + 1 ELSE next
    /\ MayAnswer /\ UNCHANGED <<tracking, mTracking, ni>>

locAPIGetBatchedLocations(id) ==
    /\ Call("get")
    /\ id \in DOMAIN mSession /\ Free(mSession[id].session)
    /\ mSession[id].mode # "fix"
    /\ queue' = Append(queue, Request("get"))
    /\ wire' = Append(wire, Command("get", mSession[id].session))
    /\ MayAnswer /\ UNCHANGED <<mSession, tracking, mTracking, ni, next>>

locAPIGnssNiResponse(n) ==
    /\ Call("ni") /\ Free(n)
    /\ ni' = [session |-> n, q |-> <<Request("ni")>>]
    /\ wire' = Append(wire, Command("ni", n))
    /\ MayAnswer /\ UNCHANGED <<mSession, queue, tracking, mTracking, next>>

-----------------------------------------------------------------------------
(***************************************************************************)
(* The adapter's thread: an answer, and the request that gets it.          *)
(***************************************************************************)
\* The request that getRequestBySession pops, and from which queue; the
\* queues with a session are tried first, then the ids'.
Popped(s) ==
    IF tracking.session = s /\ tracking.q # <<>> THEN <<"tracking", Head(tracking.q)>>
    ELSE IF tracking.session # s /\ ni.session = s /\ ni.q # <<>> THEN <<"ni", Head(ni.q)>>
    ELSE IF hasSession(s) /\ queue # <<>> THEN <<"session", Head(queue)>>
    ELSE <<"none", Nothing>>

\* Mutant: the ids' queue is popped for any session.
PoppedForAny(s) ==
    IF tracking.session = s /\ tracking.q # <<>> THEN <<"tracking", Head(tracking.q)>>
    ELSE IF tracking.session # s /\ ni.session = s /\ ni.q # <<>> THEN <<"ni", Head(ni.q)>>
    ELSE IF queue # <<>> THEN <<"session", Head(queue)>>
    ELSE <<"none", Nothing>>
getRequestBySession(s) == Popped(s)

onResponseCb(c, ok) ==
    LET found == getRequestBySession(c.s)
        r == found[2]
    IN /\ tracking' = IF found[1] = "tracking" THEN [tracking EXCEPT !.q = Tail(@)] ELSE tracking
       /\ ni' = IF found[1] = "ni" THEN [ni EXCEPT !.q = Tail(@)] ELSE ni
       /\ queue' = IF found[1] = "session" THEN Tail(queue) ELSE queue
       /\ calling' = IF r = Nothing THEN Nothing
                     ELSE [kind |-> r.kind, call |-> r.call, s |-> c.s, ok |-> ok]
       /\ mixedUp' = IF r # Nothing /\ r.call # c.call THEN mixedUp \cup {r.call} ELSE mixedUp

\* The calls that may be answered now: each session's in order.
Answerable ==
    {i \in DOMAIN wire :
        \A j \in 1 .. (i - 1) : ~InOrder /\ wire[j].s # wire[i].s}

Outcomes(c) ==
    IF c.op = "start" THEN {TRUE} \cup (IF StartMayFail THEN {FALSE} ELSE {})
    ELSE IF c.op = "ni" THEN {TRUE} ELSE {c.s \in running}

Answer ==
    /\ calling = Nothing
    /\ \E i \in Answerable : \E ok \in Outcomes(wire[i]) :
         LET c == wire[i]
         IN /\ wire' = IF UpdateTwice /\ c.op = "updateBatching"
                       THEN [wire EXCEPT ![i].op = "update"] ELSE RemoveAt(wire, i)
            /\ running' = IF c.op = "start" /\ ok THEN running \cup {c.s}
                          ELSE IF c.op = "stop" THEN running \ {c.s} ELSE running
            /\ onResponseCb(c, ok)
    /\ UNCHANGED <<mSession, mTracking, next, calls>>

\* Mutant: the update's request forgets the session, too.
ForgetsAny(c) == IF c.kind = "start" THEN ~c.ok ELSE c.kind \in {"stop", "update"} /\ c.ok

\* onResponse of the request: a start that failed and a stop that did not
\* remove the session that the answer names.
Forgets(c) == IF c.kind = "start" THEN ~c.ok ELSE c.kind = "stop" /\ c.ok

onResponse ==
    /\ calling # Nothing
    /\ mSession' = IF Forgets(calling) THEN rmBySession(calling.s) ELSE mSession
    /\ calling' = Nothing
    /\ UNCHANGED <<queue, tracking, mTracking, ni, next, wire, running, calls, mixedUp>>

\* The trip's session is removed though a call about it may be under way.
beforeBatchingStatusCb(s) ==
    /\ calling = Nothing /\ Free(s)
    /\ s \in running
    /\ \E id \in DOMAIN mSession : mSession[id] = [session |-> s, mode |-> "trip"]
    /\ running' = running \ {s}
    /\ mSession' = rmBySession(s)
    /\ UNCHANGED <<queue, tracking, mTracking, ni, next, wire, calling, calls, mixedUp>>

Next ==
    \/ locAPIStartTracking \/ locAPIStopTracking \/ locAPIUpdateTrackingOptions
    \/ \E id \in Id :
         \/ \E mode \in Mode : locAPIStartSession(id, mode) \/ locAPIUpdateSessionOptions(id, mode)
         \/ locAPIStopSession(id)
         \/ locAPIGetBatchedLocations(id)
    \/ \E n \in NiId : locAPIGnssNiResponse(n)
    \/ Answer \/ onResponse
    \/ \E s \in running : beforeBatchingStatusCb(s)

Spec == Init /\ [][Next]_vars

-----------------------------------------------------------------------------
TypeOK ==
    /\ DOMAIN mSession \subseteq Id
    /\ \A id \in DOMAIN mSession : mSession[id].session \in 1 .. (next - 1)
    /\ running \subseteq 1 .. (next - 1)

(***************************************************************************)
(* "id to be associated to the request" (responseCallback,                 *)
(* LocationDataTypes.h): the request a client is told about is the one     *)
(* that was answered.                                                      *)
(***************************************************************************)
AnswerIsItsOwn == mixedUp = {}

(***************************************************************************)
(* With nothing under way the sessions of the client's ids are those that  *)
(* run: none is left running that no id can stop, and no id is kept for a  *)
(* session that is over, which the client could never start again          *)
(* (LOCATION_ERROR_ALREADY_STARTED).                                       *)
(***************************************************************************)
SessionsAreKnown ==
    Quiescent =>
        {mSession[id].session : id \in DOMAIN mSession} = running \ {tracking.session}

(***************************************************************************)
(* With nothing under way the tracking session runs exactly while the      *)
(* client is tracking, however starts and stops have been interleaved with *)
(* the answers (locAPIStartTracking drops the requests of the session      *)
(* before).                                                                *)
(***************************************************************************)
TrackingAsAsked == Quiescent => (mTracking <=> tracking.session \in running)
=============================================================================
