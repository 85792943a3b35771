------------------------------ MODULE Batching ------------------------------
(***************************************************************************)
(* Batching sessions of the batching adapter                               *)
(* (gps/batching/BatchingAdapter.cpp).                                     *)
(*                                                                         *)
(* Routine sessions go to the engine one by one.  The engine knows one     *)
(* outdoor trip, shared by all trip sessions: it is started for the        *)
(* shortest remaining distance and the smallest interval (TBF), and each   *)
(* trip's own distance is kept by the adapter from the distances the       *)
(* engine accumulates.  As in Tracking, requests to the engine carry the   *)
(* callback that the answer's message runs.                                *)
(*                                                                         *)
(* Abstracted: locations, batch sizes, timeouts and accuracy; distances    *)
(* are small numbers that wrap at Wrap where the code's wrap at 2^32.      *)
(***************************************************************************)
EXTENDS Integers, Sequences, FiniteSets, Functions, SequencesExt

CONSTANTS
    Session,        \* session ids, numbers; each is started at most once
    Client,
    ClientOf,       \* the client of each session
    NoCallback,     \* clients without a batching callback
    Option,         \* what clients ask for, [mode, distance, tbf]
    NoOptions,      \* options of size 0
    Commands,       \* the commands clients may use
    EngineMayFail,
    AnyOrder,       \* FALSE: a client calls only when nothing is under way
    MaxCommands, MaxRestarts, MaxTravel

Wrap == 256
ROUTINE == "routine"
TRIP == "trip"
NO_AUTO_REPORT == "noAutoReport"

VARIABLES
    batching,      \* mBatchingSessions: session -> options
    trips,         \* mTripSessions: session -> TripSessionStatus
    ongoing,       \* mOngoingTripDistance and mOngoingTripTBFInterval
    dropped,       \* mTripWithOngoingTripDistanceDropped, ...TBFDropped
    batchFull,     \* LOC_API_ADAPTER_BIT_BATCH_FULL in the event mask
    capsKnown,     \* mIsEngineCapabilitiesKnown
    removed,       \* clients no longer in mClientData
    pending,       \* mPendingMsgs
    msgQ, apiQ,    \* the adapter's messages; requests not yet answered
    up,            \* the engine is up
    engine,        \* its routine sessions and its outdoor trip
    odometer,      \* the distance travelled
    joined,        \* session -> odometer when its trip was begun
    early,         \* trips reported as completed before their distance
    started, owed, commands, restarts

adapter == <<batching, trips, ongoing, dropped, batchFull, capsKnown, removed, pending, early>>
vars == <<batching, trips, ongoing, dropped, batchFull, capsKnown, removed, pending, msgQ,
          apiQ, up, engine, odometer, joined, early, started, owed, commands, restarts>>

NoTrip == [on |-> FALSE, distance |-> 0, acc |-> 0, tbf |-> 0]
Idle == [distance |-> 0, tbf |-> 0]

Init ==
    /\ batching = <<>> /\ trips = <<>> /\ ongoing = Idle
    /\ dropped = [distance |-> FALSE, tbf |-> FALSE]
    /\ batchFull = FALSE /\ capsKnown = FALSE /\ removed = {} /\ pending = <<>>
    /\ msgQ = <<>> /\ apiQ = <<>> /\ up = FALSE
    /\ engine = [sessions |-> {}, trip |-> NoTrip]
    /\ odometer = 0 /\ joined = [s \in Session |-> 0] /\ early = {}
    /\ started = {} /\ owed = [s \in Session |-> 0] /\ commands = 0 /\ restarts = 0

-----------------------------------------------------------------------------
(***************************************************************************)
(* Handlers are functions on a record of the adapter's state, st, so that  *)
(* one may call another: the state, requests sent and responses reported.  *)
(***************************************************************************)
St == [batching |-> batching, trips |-> trips, ongoing |-> ongoing, dropped |-> dropped,
       batchFull |-> batchFull, apiQ |-> apiQ, owed |-> owed, joined |-> joined,
       early |-> early]

Put(f, s, o) == [t \in DOMAIN f \cup {s} |-> IF t = s THEN o ELSE f[t]]
Without(f, s) == Restrict(f, DOMAIN f \ {s})
Minus(x, y) == (x - y) % Wrap
Plus(x, y) == (x + y) % Wrap

Callback(k, s, o) == [k |-> k, s |-> s, o |-> o]
Silent == Callback("silent", 0, NoOptions)
Send(st, op, s, o, cb) == [st EXCEPT !.apiQ = Append(@, [op |-> op, s |-> s, o |-> o, cb |-> cb])]

saveBatchingSession(st, s, o) == [st EXCEPT !.batching = Put(@, s, o)]
KeepSession(st, s) == st
eraseBatchingSession(st, s) == [st EXCEPT !.batching = Without(@, s)]
updateEvtMask(st, on) == [st EXCEPT !.batchFull = on]
reportResponse(st, s) == IF ClientOf[s] \in removed THEN st ELSE [st EXCEPT !.owed[s] = @ - 1]

\* A trip session that is in both maps counts twice.
autoReportCount(st) ==
    Cardinality({s \in DOMAIN st.batching : st.batching[s].mode # NO_AUTO_REPORT})
    + Cardinality(DOMAIN st.trips)

EnableIfSecond(st) == IF autoReportCount(st) = 1 THEN updateEvtMask(st, TRUE) ELSE st
enableIfFirst(st) == IF autoReportCount(st) = 0 THEN updateEvtMask(st, TRUE) ELSE st
disableIfLast(st) == IF autoReportCount(st) = 0 THEN updateEvtMask(st, FALSE) ELSE st

startBatching(st, s, o) ==
    Send(saveBatchingSession(IF o.mode = NO_AUTO_REPORT THEN st ELSE enableIfFirst(st), s, o),
         "start", s, o, Callback("started", s, o))

FromTheStart(o, acc) ==
    [ongoing |-> 0, thisTrip |-> 0, onRestart |-> 0, distance |-> o.distance, tbf |-> o.tbf]

\* TripSessionStatus of a trip that joins at the distance acc of the batch.
newTrip(o, acc) ==
    [ongoing |-> acc, thisTrip |-> 0, onRestart |-> 0, distance |-> o.distance, tbf |-> o.tbf]

beginTrip(st, s, t) ==
    [st EXCEPT !.trips = Put(@, s, t), !.joined[s] = odometer]

startTripBatchingMultiplex(st, s, o) ==
    IF st.trips = <<>>
    THEN Send(beginTrip(saveBatchingSession(enableIfFirst(st), s, o), s, newTrip(o, 0)),
              "startTrip", s, o, Callback("tripStarted", s, o))
    ELSE Send(st, "query", s, o, Callback("tripJoins", s, o))

startAny(st, s, o) ==
    IF o.mode = TRIP THEN startTripBatchingMultiplex(st, s, o) ELSE startBatching(st, s, o)

\* Erased here, restored by the callback if the engine refuses.
stopBatching(st, s, restart, o) ==
    IF s \in DOMAIN st.batching
    THEN Send(eraseBatchingSession(st, s), "stop", s, NoOptions,
              [k |-> "stopped", s |-> s, o |-> o, restart |-> restart, old |-> st.batching[s]])
    ELSE st

Ordered(S) == SetToSortSeq(S, <)   \* the order of the std::map

\* A trip's distance when the engine's batch has accumulated acc.
soFar(t, acc) == Plus(t.onRestart, Minus(acc, t.ongoing))

\* The shortest distance that is left (0 counts as none) and the smallest
\* interval.
remaining(t) == Minus(t.distance, t.thisTrip)
Smaller(x, y) == IF x = 0 \/ x > y THEN y ELSE x
Shortest(T) ==
    [distance |-> FoldLeft(LAMBDA d, s : Smaller(d, remaining(T[s])), 0, Ordered(DOMAIN T)),
     tbf |-> FoldLeft(LAMBDA i, s : Smaller(i, T[s].tbf), 0, Ordered(DOMAIN T))]

restartTripBatching(st, query, acc) ==
    IF st.trips = <<>>
    THEN disableIfLast([Send(st, "stopTrip", 0, NoOptions, Silent) EXCEPT !.ongoing = Idle])
    ELSE Send(st, "query", 0, NoOptions,
              [k |-> "restartQuery", query |-> query, acc |-> acc, o |-> Shortest(st.trips)])

\* A trip that is the ongoing one's reason is dropped.
dropTrip(st, t) ==
    [st EXCEPT !.dropped = [distance |-> @.distance \/ t.distance = st.ongoing.distance,
                            tbf |-> @.tbf \/ t.tbf = st.ongoing.tbf]]

\* What is read of a trip that is not there, or no longer, may be anything.
dropUnknown(st) ==
    {[st EXCEPT !.dropped = [distance |-> @.distance \/ d, tbf |-> @.tbf \/ i]] :
        d \in BOOLEAN, i \in BOOLEAN}

\* Without restart the session stays in mBatchingSessions.
stopTripBatchingMultiplexCommon(st, s, restart, o) ==
    LET after(d) == LET e == [d EXCEPT !.trips = Without(@, s)]
                    IN IF e.trips = <<>> THEN [e EXCEPT !.ongoing = Idle]
                       ELSE restartTripBatching(e, TRUE, 0)
        again(e) == IF restart THEN startAny(eraseBatchingSession(e, s), s, o) ELSE e
    IN {reportResponse(again(after(d)), s) :
           d \in IF s \in DOMAIN st.trips THEN {dropTrip(st, st.trips[s])} ELSE dropUnknown(st)}

stopTripBatchingMultiplex(st, s, restart, o) ==
    IF Cardinality(DOMAIN st.trips) = 1
    THEN {Send(st, "stopTrip", s, NoOptions,
               [k |-> "tripStopped", s |-> s, o |-> o, restart |-> restart])}
    ELSE stopTripBatchingMultiplexCommon(st, s, restart, o)

-----------------------------------------------------------------------------
(***************************************************************************)
(* The client commands.  Each of them is pended until the capabilities are *)
(* known; an error found by start, update or stop is reported to nobody.   *)
(***************************************************************************)
hasBatchingCallback(c) == c \notin NoCallback \cup removed

\* BatchingOptions(), what a stop passes for want of others.
Default == [mode |-> ROUTINE, distance |-> 0, tbf |-> 0]

startBatchingCommand(m) ==
    IF hasBatchingCallback(ClientOf[m.s]) /\ m.o # NoOptions
    THEN {startAny(St, m.s, m.o)} ELSE {St}

updateBatchingOptionsCommand(m) ==
    IF m.s \notin DOMAIN batching \/ m.o = NoOptions THEN {St}
    ELSE IF m.s \in DOMAIN trips THEN stopTripBatchingMultiplex(St, m.s, TRUE, m.o)
    ELSE {stopBatching(St, m.s, TRUE, m.o)}

stopBatchingCommand(m) ==
    IF m.s \notin DOMAIN batching THEN {St}
    ELSE IF m.s \in DOMAIN trips THEN stopTripBatchingMultiplex(St, m.s, FALSE, Default)
    ELSE {stopBatching(St, m.s, FALSE, Default)}

getBatchedLocationsCommand(m) ==
    IF hasBatchingCallback(ClientOf[m.s]) /\ m.s \in DOMAIN batching
    THEN {Send(St, "get", m.s, NoOptions, Callback("got", m.s, NoOptions))}
    ELSE {reportResponse(St, m.s)}

\* Each session of the client, by its mode; trips by what the map says.
stopClientSession(st, s) ==
    IF batching[s].mode # TRIP THEN {stopBatching(st, s, FALSE, Default)}
    ELSE stopTripBatchingMultiplex(st, s, FALSE, Default)

stopClientSessions(c) ==
    FoldLeft(LAMBDA S, s : UNION {stopClientSession(st, s) : st \in S}, {St},
             Ordered({s \in DOMAIN batching : ClientOf[s] = c}))

-----------------------------------------------------------------------------
(***************************************************************************)
(* The callbacks.  ok is LOCATION_ERROR_SUCCESS, acc the distance that a   *)
(* query returns.                                                          *)
(***************************************************************************)
onStarted(cb, ok) ==
    LET erased == eraseBatchingSession(St, cb.s)
    IN reportResponse(IF ok THEN St
                      ELSE IF cb.o.mode = NO_AUTO_REPORT THEN erased ELSE disableIfLast(erased),
                      cb.s)

\* The response of a session that is restarted is reported here too.
onStopped(cb, ok) ==
    LET disabled == IF cb.old.mode = NO_AUTO_REPORT THEN St ELSE disableIfLast(St)
    IN reportResponse(IF ~ok THEN saveBatchingSession(St, cb.s, cb.o)
                      ELSE IF cb.restart THEN startAny(disabled, cb.s, cb.o) ELSE disabled,
                      cb.s)

onTripStarted(cb, ok) ==
    LET erased == [eraseBatchingSession(St, cb.s) EXCEPT !.trips = Without(@, cb.s)]
    IN reportResponse(IF ok THEN [St EXCEPT !.ongoing = [distance |-> cb.o.distance, tbf |-> cb.o.tbf]]
                      ELSE disableIfLast(erased),
                      cb.s)

NeverOftener(o) == FALSE
joinsOftener(o) == o.tbf < ongoing.tbf

\* A trip that joins is put in mTripSessions, not in mBatchingSessions, and
\* only if the query succeeds.
onTripJoins(cb, ok, acc) ==
    LET left == IF ok THEN Minus(ongoing.distance, acc) ELSE ongoing.distance
        shorter == cb.o.distance < left
        oftener == joinsOftener(cb.o)
        new == [distance |-> IF shorter THEN cb.o.distance
                             ELSE IF ok /\ oftener THEN left ELSE ongoing.distance,
                tbf |-> IF oftener THEN cb.o.tbf ELSE ongoing.tbf]
        st == IF ok THEN beginTrip(St, cb.s, newTrip(cb.o, acc)) ELSE St
        reset == [st EXCEPT !.ongoing = new,
                            !.trips = [s \in DOMAIN @ |->
                                [@[s] EXCEPT !.ongoing = 0, !.onRestart = st.trips[s].thisTrip]]]
    IN IF shorter \/ oftener
       THEN Send(reset, "restartTrip", cb.s, new, Callback("reported", cb.s, NoOptions))
       ELSE reportResponse(st, cb.s)

onTripStopped(cb, ok) ==
    stopTripBatchingMultiplexCommon(
        IF ok /\ autoReportCount(St) = 1 THEN updateEvtMask(St, FALSE) ELSE St,
        cb.s, cb.restart, cb.o)

onRestartQuery(cb, acc) ==
    LET a == IF cb.query THEN acc ELSE cb.acc
        left == Minus(ongoing.distance, a)
        goesOn == ~dropped.distance /\ left # 0
        shorter == IF goesOn THEN cb.o.distance < left ELSE cb.o.distance # 0
        oftener == cb.o.tbf < ongoing.tbf \/ (cb.o.tbf # ongoing.tbf /\ dropped.tbf)
        new == [distance |-> IF shorter THEN cb.o.distance ELSE ongoing.distance,
                tbf |-> IF oftener THEN cb.o.tbf ELSE ongoing.tbf]
    IN IF shorter \/ oftener
       THEN Send(St, "restartTrip", 0, new, [k |-> "restarted", acc |-> a, o |-> new])
       ELSE St

onRestarted(cb, ok) ==
    IF ok
    THEN [St EXCEPT !.ongoing = cb.o,
                    !.trips = [s \in DOMAIN @ |->
                        [@[s] EXCEPT !.thisTrip = soFar(trips[s], cb.acc), !.ongoing = 0,
                                     !.onRestart = soFar(trips[s], cb.acc)]]]
    ELSE St

onResponse(m) ==
    LET cb == m.cb
    IN CASE cb.k = "started" -> {onStarted(cb, m.ok)}
         [] cb.k = "stopped" -> {onStopped(cb, m.ok)}
         [] cb.k \in {"got", "reported"} -> {reportResponse(St, cb.s)}
         [] cb.k = "tripStarted" -> {onTripStarted(cb, m.ok)}
         [] cb.k = "tripJoins" -> {onTripJoins(cb, m.ok, m.acc)}
         [] cb.k = "tripStopped" -> onTripStopped(cb, m.ok)
         [] cb.k = "restartQuery" -> {onRestartQuery(cb, m.acc)}
         [] cb.k = "restarted" -> {onRestarted(cb, m.ok)}
         [] cb.k = "resumed" -> {IF m.ok THEN St ELSE [St EXCEPT !.ongoing = Idle]}

-----------------------------------------------------------------------------
(***************************************************************************)
(* Reports of the engine, and its restart.                                 *)
(***************************************************************************)
\* Completed trips leave mTripSessions only, and are read after the erase.
reportCompletedTrips(m) ==
    LET now == [s \in DOMAIN trips |->
                   [trips[s] EXCEPT !.thisTrip = soFar(trips[s], m.acc)]]
        done == {s \in DOMAIN trips : now[s].distance <= now[s].thisTrip}
        st == [St EXCEPT !.trips = Restrict(now, DOMAIN trips \ done),
                         !.early = @ \cup {s \in done : odometer - joined[s] < trips[s].distance}]
    IN IF done = {} THEN {st} ELSE {restartTripBatching(d, FALSE, m.acc) : d \in dropUnknown(st)}

\* The reset of accumulatedDistanceOngoingBatch is made on a copy and lost.
restartSessions ==
    LET st == IF autoReportCount(St) > 0 THEN updateEvtMask(St, TRUE) ELSE St
        routine == SelectSeq(Ordered(DOMAIN batching), LAMBDA s : batching[s].mode # TRIP)
        restarted == FoldLeft(LAMBDA r, s : Send(r, "start", s, batching[s], Silent), st, routine)
    IN IF trips = <<>> THEN restarted
       ELSE Send([restarted EXCEPT !.ongoing = Shortest(trips)], "startTrip", 0, Shortest(trips),
                 Callback("resumed", 0, NoOptions))

IsCommand(m) == m.kind \in {"start", "update", "stop", "get"}

Handler(m) ==
    CASE IsCommand(m) /\ ~capsKnown -> {St}
      [] m.kind = "start" -> startBatchingCommand(m)
      [] m.kind = "update" -> updateBatchingOptionsCommand(m)
      [] m.kind = "stop" -> stopBatchingCommand(m)
      [] m.kind = "get" -> getBatchedLocationsCommand(m)
      [] m.kind = "remove" -> stopClientSessions(m.c)
      [] m.kind = "response" -> onResponse(m)
      [] m.kind = "completed" -> reportCompletedTrips(m)
      [] m.kind = "engineUp" -> {restartSessions}

HandleMessage ==
    /\ msgQ # <<>>
    /\ \E m \in {Head(msgQ)} :
         /\ \E st \in Handler(m) :
              /\ batching' = st.batching /\ trips' = st.trips /\ ongoing' = st.ongoing
              /\ dropped' = st.dropped /\ batchFull' = st.batchFull /\ apiQ' = st.apiQ
              /\ owed' = st.owed /\ joined' = st.joined /\ early' = st.early
         /\ removed' = IF m.kind = "remove" THEN removed \cup {m.c} ELSE removed
         /\ capsKnown' = (capsKnown \/ m.kind = "engineUp")
         /\ pending' = IF m.kind = "engineUp" THEN <<>>
                       ELSE IF IsCommand(m) /\ ~capsKnown THEN Append(pending, m) ELSE pending
         /\ msgQ' = Tail(msgQ) \o (IF m.kind = "engineUp" THEN pending ELSE <<>>)
    /\ UNCHANGED <<up, engine, odometer, started, commands, restarts>>

-----------------------------------------------------------------------------
(***************************************************************************)
(* Clients.                                                                *)
(***************************************************************************)
Quiescent == up /\ msgQ = <<>> /\ apiQ = <<>> /\ pending = <<>>

attached(c) ==
    c \notin removed /\ \A i \in 1 .. Len(msgQ) : msgQ[i].kind = "remove" => msgQ[i].c # c

Command(m) ==
    /\ m.kind \in Commands
    /\ AnyOrder \/ Quiescent
    /\ commands < MaxCommands
    /\ commands' = commands + 1
    /\ msgQ' = Append(msgQ, m)
    /\ UNCHANGED <<adapter, apiQ, up, engine, odometer, joined, restarts>>

Start(s, o) ==
    /\ s \notin started /\ attached(ClientOf[s])
    /\ started' = started \cup {s}
    /\ owed' = [owed EXCEPT ![s] = @ + 1]
    /\ Command([kind |-> "start", s |-> s, o |-> o])

Call(kind, s, o) ==
    /\ s \in started /\ attached(ClientOf[s])
    /\ owed' = [owed EXCEPT ![s] = @ + 1]
    /\ UNCHANGED started
    /\ Command([kind |-> kind, s |-> s, o |-> o])

removeClientCommand(c) ==
    /\ attached(c)
    /\ UNCHANGED <<started, owed>>
    /\ Command([kind |-> "remove", c |-> c])

(***************************************************************************)
(* The engine: it answers in order, accumulates the distance of its trip   *)
(* and reports it when the trip is complete; a restart forgets everything. *)
(***************************************************************************)
EngineTrip(o) == [on |-> TRUE, distance |-> o.distance, acc |-> 0, tbf |-> o.tbf]

Engine(ok) ==
    /\ apiQ # <<>>
    /\ IF ok THEN up ELSE EngineMayFail
    /\ LET r == Head(apiQ)
       IN /\ engine' =
               [sessions |-> IF ok /\ r.op = "start" THEN engine.sessions \cup {r.s}
                             ELSE IF ok /\ r.op = "stop" THEN engine.sessions \ {r.s}
                             ELSE engine.sessions,
                trip |-> IF ok /\ r.op \in {"startTrip", "restartTrip"} THEN EngineTrip(r.o)
                         ELSE IF ok /\ r.op = "stopTrip" THEN NoTrip ELSE engine.trip]
          /\ msgQ' = IF r.cb = Silent THEN msgQ
                     ELSE Append(msgQ, [kind |-> "response", cb |-> r.cb, ok |-> ok,
                                        acc |-> IF ok THEN engine.trip.acc ELSE 0])
    /\ apiQ' = Tail(apiQ)
    /\ UNCHANGED <<adapter, up, odometer, joined, started, owed, commands, restarts>>

Travel ==
    /\ odometer < MaxTravel
    /\ AnyOrder \/ Quiescent
    /\ odometer' = odometer + 1
    /\ engine' = IF engine.trip.on THEN [engine EXCEPT !.trip.acc = @ + 1] ELSE engine
    /\ msgQ' = IF engine'.trip.on /\ engine'.trip.acc = engine'.trip.distance
               THEN Append(msgQ, [kind |-> "completed", acc |-> engine'.trip.acc]) ELSE msgQ
    /\ UNCHANGED <<adapter, apiQ, up, joined, started, owed, commands, restarts>>

EngineUp ==
    /\ ~up
    /\ up' = TRUE
    /\ msgQ' = Append(msgQ, [kind |-> "engineUp"])
    /\ UNCHANGED <<adapter, apiQ, engine, odometer, joined, started, owed, commands, restarts>>

EngineDown ==
    /\ up
    /\ restarts < MaxRestarts
    /\ restarts' = restarts + 1
    /\ up' = FALSE
    /\ engine' = [sessions |-> {}, trip |-> NoTrip]
    /\ UNCHANGED <<adapter, msgQ, apiQ, odometer, joined, started, owed, commands>>

Next ==
    \/ HandleMessage
    \/ \E s \in Session :
         \/ \E o \in Option \cup {NoOptions} : Start(s, o) \/ Call("update", s, o)
         \/ Call("stop", s, NoOptions)
         \/ Call("get", s, NoOptions)
    \/ \E c \in Client : removeClientCommand(c)
    \/ \E ok \in BOOLEAN : Engine(ok)
    \/ Travel \/ EngineUp \/ EngineDown

Spec == Init /\ [][Next]_vars

-----------------------------------------------------------------------------
TypeOK ==
    /\ DOMAIN batching \subseteq started /\ DOMAIN trips \subseteq started
    /\ engine.sessions \subseteq started
    /\ owed \in [Session -> Int]

(***************************************************************************)
(* "onResponse is called once for each command" (LocationAPI.h, at         *)
(* startBatching, updateBatchingOptions and stopBatching): no session is   *)
(* answered more often than its client has called.                         *)
(***************************************************************************)
AnsweredAtMostOnce == \A s \in Session : owed[s] >= 0

(***************************************************************************)
(* While a session is served that wants its locations unasked (a routine   *)
(* session or a trip) the adapter is registered for the batch-full events, *)
(* through starts, stops, updates between modes and engine restarts        *)
(* (autoReportBatchingSessionsCount).                                      *)
(***************************************************************************)
BatchFullIsRegistered == autoReportCount(St) > 0 => batchFull

(***************************************************************************)
(* With nothing under way the engine runs exactly the sessions of          *)
(* mBatchingSessions that are no trips, whatever was updated, removed with *)
(* its client or lost in a restart.                                        *)
(***************************************************************************)
EngineServesRoutine ==
    Quiescent => engine.sessions = {s \in DOMAIN batching : batching[s].mode # TRIP}

(***************************************************************************)
(* With nothing under way the engine's one trip runs if a trip session is  *)
(* there, and at least as often as each of them asks                       *)
(* (startTripBatchingMultiplex, restartTripBatching).                      *)
(***************************************************************************)
EngineServesTrips ==
    Quiescent =>
        \A s \in DOMAIN trips : engine.trip.on /\ engine.trip.tbf <= trips[s].tbf

(***************************************************************************)
(* No trip is reported completed before its distance has been travelled,   *)
(* though all share one batch that others begin anew (reportCompletedTrips *)
(* computes each one's from accumulatedDistanceOngoingBatch).              *)
(***************************************************************************)
TripsEndInTime == early = {}
=============================================================================
