------------------------------ MODULE Tracking ------------------------------
(***************************************************************************)
(* Tracking sessions of the GNSS adapter (gps/gnss/GnssAdapter.cpp).       *)
(*                                                                         *)
(* The engine supports one time-based session, so the adapter multiplexes  *)
(* all clients' time-based sessions onto it: the smallest interval and     *)
(* the smallest power mode win.  Distance-based sessions go to the engine  *)
(* one by one.  Client calls and engine responses are messages of the      *)
(* adapter's queue, handled one at a time; a request to the engine is      *)
(* answered by a later message that runs the callback it was sent with,    *)
(* and what the callback assumes may have changed by then.                 *)
(*                                                                         *)
(* Abstracted: intervals and power modes are small numbers; the power mode *)
(* is the one left after the M4 fallback on a long TBM; engine hub and     *)
(* power-state notifications are left out.                                 *)
(***************************************************************************)
EXTENDS Integers, Sequences, FiniteSets, Functions, SequencesExt

CONSTANTS
    Session,        \* session ids, numbers; each is started at most once
    Client,
    ClientOf,       \* the client of each session
    NoCallback,     \* clients without a tracking or measurements callback
    Option,         \* the options clients ask for, [interval, power, distance]
    NoOptions,      \* options of size 0, which are invalid
    StartInvalid,   \* TRUE: a client may start a session with NoOptions
    DistanceSupported,
    EngineMayFail,  \* TRUE: the engine may refuse a request; FALSE: it holds
                    \* those that find it down until it is up again
    AllowRemove,    \* TRUE: a client may be removed
    AllowUpdate,    \* TRUE: clients may update options
    MaxCommands,    \* bound on client commands
    MaxRestarts     \* bound on engine restarts

MIN_TRACKING_INTERVAL == 1
GNSS_POWER_MODE_INVALID == 0

ASSUME TrackingAssumption ==
    /\ Session \subseteq Nat
    /\ ClientOf \in [Session -> Client]
    /\ Option \subseteq [interval : Nat, power : Nat, distance : BOOLEAN]
    /\ NoOptions \notin [interval : Nat, power : Nat, distance : BOOLEAN]

VARIABLES
    timeBased,     \* mTimeBasedTrackingSessions: session -> options
    distanceBased, \* mDistanceBasedTrackingSessions
    removed,       \* clients no longer in mClientData
    capsKnown,     \* mIsEngineCapabilitiesKnown
    pending,       \* mPendingMsgs
    msgQ,          \* the adapter's message queue
    apiQ,          \* requests the engine has yet to answer
    up,            \* the engine is up
    engine,        \* its time-based session: "off" or [interval, power]
    engineDistance,\* its distance-based sessions
    started,       \* sessions a client has started
    owed,          \* session -> commands whose response has not been reported
    ended,         \* sessions whose stop has taken effect or been refused
    commands, restarts

adapter == <<timeBased, distanceBased, removed, capsKnown, pending>>
world == <<up, engine, engineDistance>>
client == <<started, commands>>
vars == <<timeBased, distanceBased, removed, capsKnown, pending, msgQ, apiQ, up, engine,
          engineDistance, started, owed, ended, commands, restarts>>

EngineOff == [interval |-> 0, power |-> 0, on |-> FALSE]
EngineOn(o) == [interval |-> o.interval, power |-> o.power, on |-> TRUE]

Init ==
    /\ timeBased = <<>> /\ distanceBased = <<>>
    /\ removed = {} /\ capsKnown = FALSE /\ pending = <<>>
    /\ msgQ = <<>> /\ apiQ = <<>>
    /\ up = FALSE /\ engine = EngineOff /\ engineDistance = {}
    /\ started = {} /\ owed = [s \in Session |-> 0] /\ ended = {}
    /\ commands = 0 /\ restarts = 0

-----------------------------------------------------------------------------
(***************************************************************************)
(* Multiplexing, as pure functions of the session map: each returns the    *)
(* requests to the engine, <<>> when none is needed, in which case the     *)
(* caller reports to the client with no wait.                              *)
(***************************************************************************)
\* LocApiResponse: the callback the response message runs.
Callback(k, s, o) == [k |-> k, s |-> s, o |-> o]
Silent == Callback("silent", 0, NoOptions)
EngineRequest(op, s, o, cb) == [op |-> op, s |-> s, o |-> o, cb |-> cb]

startTimeBasedTracking(s, o) == <<EngineRequest("start", s, o, Callback("started", s, NoOptions))>>
updateTracking(s, o, old) == <<EngineRequest("start", s, o, Callback("updated", s, old))>>
stopTracking(s) == <<EngineRequest("stopFix", s, NoOptions, Callback("stopped", s, NoOptions))>>

\* Sessions in the order of the std::map.
Ordered(S) ==
    CHOOSE q \in [1 .. Cardinality(S) -> S] : \A i, j \in DOMAIN q : i < j => q[i] < q[j]

\* Mutant: no comparison.
FirstSession(T) == T[Head(Ordered(DOMAIN T))]

\* The options of the first session with the smallest interval.
SmallestInterval(T) ==
    T[CHOOSE s \in DOMAIN T : \A t \in DOMAIN T :
         \/ T[s].interval < T[t].interval
         \/ T[s].interval = T[t].interval /\ s <= t]

\* The loop's smallest power mode: an unset (INVALID) one is always replaced.
SmallestPower(T) ==
    FoldLeft(LAMBDA p, s : IF p = GNSS_POWER_MODE_INVALID \/ T[s].power < p THEN T[s].power ELSE p,
             GNSS_POWER_MODE_INVALID, Ordered(DOMAIN T))

Others(T, s) == Restrict(T, DOMAIN T \ {s})

\* o's interval or power mode is smaller than what the sessions T call for.
Smaller(o, T) == o.interval < SmallestInterval(T).interval \/ o.power < SmallestPower(T)

\* The options of SmallestInterval with what is smaller in o.
Merge(o, T) ==
    [SmallestInterval(T) EXCEPT
        !.interval = IF o.interval < @ THEN o.interval ELSE @,
        !.power = IF o.power < SmallestPower(T) THEN o.power ELSE @]

startTimeBasedTrackingMultiplex(T, s, o) ==
    IF T = <<>> THEN startTimeBasedTracking(s, o)
    ELSE IF Smaller(o, T) THEN startTimeBasedTracking(s, Merge(o, T))
    ELSE <<>>

updateTrackingMultiplex(T, s, o) ==
    IF T[s].interval = o.interval /\ T[s].power = o.power THEN <<>>
    ELSE IF DOMAIN T = {s} THEN updateTracking(s, o, T[s])
    ELSE IF Smaller(o, Others(T, s)) THEN updateTracking(s, Merge(o, Others(T, s)), T[s])
    ELSE <<>>

\* Mutant: the sessions are counted after the erase.
StopCountsOthers(T, s) ==
    IF Cardinality(DOMAIN Others(T, s)) = 1 THEN stopTracking(s) ELSE <<>>

stopTimeBasedTrackingMultiplex(T, s) ==
    IF Cardinality(DOMAIN T) = 1 THEN stopTracking(s)
    ELSE IF s \in DOMAIN T /\ Smaller(T[s], Others(T, s))
    THEN startTimeBasedTracking(s, [SmallestInterval(Others(T, s)) EXCEPT
                                       !.power = SmallestPower(Others(T, s))])
    ELSE <<>>

\* Mutant: the power mode of the first session.
FirstPower(T) == FirstSession(T).power

\* restartSessions: the smallest interval with the smallest valid power mode.
HighestPower(T) ==
    FoldLeft(LAMBDA p, s : IF T[s].power # GNSS_POWER_MODE_INVALID /\ T[s].power < p
                           THEN T[s].power ELSE p,
             T[Head(Ordered(DOMAIN T))].power, Ordered(DOMAIN T))

-----------------------------------------------------------------------------
(***************************************************************************)
(* The session maps.                                                       *)
(***************************************************************************)
Put(f, s, o) == [t \in DOMAIN f \cup {s} |-> IF t = s THEN o ELSE f[t]]
isDistance(o) == o.distance /\ DistanceSupported

saveTrackingSession(T, D, s, o) ==
    /\ timeBased' = IF isDistance(o) THEN T ELSE Put(T, s, o)
    /\ distanceBased' = IF isDistance(o) THEN Put(D, s, o) ELSE D

eraseTrackingSession(s) ==
    /\ timeBased' = Others(timeBased, s)
    /\ distanceBased' = IF s \in DOMAIN timeBased THEN distanceBased ELSE Others(distanceBased, s)

unchangedSessions == UNCHANGED <<timeBased, distanceBased>>

\* A response reaches the client only while it is in mClientData.
reportResponse(s) ==
    owed' = IF ClientOf[s] \in removed THEN owed ELSE [owed EXCEPT ![s] = @ - 1]

reportIf(noWait, s) == IF noWait THEN reportResponse(s) ELSE UNCHANGED owed

send(requests) == apiQ' = apiQ \o requests

\* Mutant: no minimum.
Unclamped(o) == o

Clamped(o) ==
    [o EXCEPT !.interval = IF @ < MIN_TRACKING_INTERVAL THEN MIN_TRACKING_INTERVAL ELSE @]

-----------------------------------------------------------------------------
(***************************************************************************)
(* The client commands, as the adapter's thread runs them.                 *)
(***************************************************************************)
\* Distance-based tracking has to know the engine's capabilities first.
mustPend(m) == ~capsKnown /\ m.o # NoOptions /\ m.o.distance

pend(m) ==
    /\ mustPend(m)
    /\ pending' = Append(pending, m)
    /\ unchangedSessions /\ UNCHANGED <<apiQ, owed, ended, capsKnown, removed>>

hasCallback(c) == c \notin NoCallback \cup removed

\* An error found here is set but reported to nobody.
startTracking(m) ==
    /\ ~mustPend(m)
    /\ IF ~hasCallback(ClientOf[m.s]) \/ m.o = NoOptions
       THEN unchangedSessions /\ UNCHANGED <<apiQ, owed>>
       ELSE LET o == Clamped(m.o)
                requests == IF isDistance(o)
                            THEN <<EngineRequest("startDistance", m.s, o, Callback("started", m.s, NoOptions))>>
                            ELSE startTimeBasedTrackingMultiplex(timeBased, m.s, o)
            IN /\ saveTrackingSession(timeBased, distanceBased, m.s, o)
               /\ send(requests)
               /\ reportIf(requests = <<>>, m.s)
    /\ UNCHANGED <<ended, capsKnown, removed, pending>>

\* From time based to distance based: the answer to the stop is the client's.
switchToDistance(s, o) ==
    LET requests == stopTimeBasedTrackingMultiplex(timeBased, s)
    IN /\ saveTrackingSession(Others(timeBased, s), distanceBased, s, o)
       /\ send(requests \o <<EngineRequest("startDistance", s, o, Silent)>>)
       /\ reportIf(requests = <<>>, s)

switchToTime(s, o) ==
    /\ eraseTrackingSession(s)
    /\ send(<<EngineRequest("stopDistance", s, NoOptions, Callback("switched", s, o))>>)
    /\ UNCHANGED owed

\* Mutant: an update that needs no request is not reported.
UpdateSilently(s, o) ==
    /\ saveTrackingSession(timeBased, distanceBased, s, o)
    /\ send(updateTrackingMultiplex(timeBased, s, o))
    /\ UNCHANGED owed

updateTimeBased(s, o) ==
    LET requests == updateTrackingMultiplex(timeBased, s, o)
    IN /\ saveTrackingSession(timeBased, distanceBased, s, o)
       /\ send(requests)
       /\ reportIf(requests = <<>>, s)

\* Mutant: reported now and again by the callback.
RestartReports(s, o) ==
    /\ send(<<EngineRequest("stopDistance", s, NoOptions, Callback("restart", s, o))>>)
    /\ unchangedSessions /\ reportResponse(s)

restartDistance(s, o) ==
    /\ send(<<EngineRequest("stopDistance", s, NoOptions, Callback("restart", s, o))>>)
    /\ unchangedSessions /\ UNCHANGED owed

\* Mutant: an unknown session is started anew.
UpdateStarts(m) ==
    /\ ~mustPend(m)
    /\ IF m.o = NoOptions
       THEN unchangedSessions /\ UNCHANGED apiQ /\ reportResponse(m.s)
       ELSE /\ saveTrackingSession(timeBased, distanceBased, m.s, Clamped(m.o))
            /\ send(startTimeBasedTracking(m.s, Clamped(m.o)))
            /\ UNCHANGED owed
    /\ UNCHANGED <<ended, capsKnown, removed, pending>>

updateTrackingOptions(m) ==
    LET isTimeBased == m.s \in DOMAIN timeBased
        isDistanceBased == m.s \in DOMAIN distanceBased
        o == Clamped(m.o)
    IN /\ ~mustPend(m)
       /\ IF ~(isTimeBased \/ isDistanceBased) \/ m.o = NoOptions
          THEN unchangedSessions /\ UNCHANGED apiQ /\ reportResponse(m.s)
          ELSE \/ isTimeBased /\ o.distance /\ switchToDistance(m.s, o)
               \/ isDistanceBased /\ ~o.distance /\ switchToTime(m.s, o)
               \/ isTimeBased /\ ~o.distance /\ ~isDistanceBased /\ updateTimeBased(m.s, o)
               \/ isDistanceBased /\ o.distance /\ ~isTimeBased /\ restartDistance(m.s, o)
       /\ UNCHANGED <<ended, capsKnown, removed, pending>>

stop(m) ==
    /\ \/ /\ m.s \in DOMAIN timeBased
          /\ LET requests == stopTimeBasedTrackingMultiplex(timeBased, m.s)
             IN send(requests) /\ reportIf(requests = <<>>, m.s)
          /\ eraseTrackingSession(m.s)
          /\ ended' = ended \cup {m.s}
       \/ /\ m.s \in DOMAIN distanceBased \ DOMAIN timeBased
          /\ send(<<EngineRequest("stopDistance", m.s, NoOptions, Callback("stoppedDistance", m.s, NoOptions))>>)
          /\ unchangedSessions /\ UNCHANGED <<owed, ended>>
       \/ /\ m.s \notin DOMAIN timeBased \cup DOMAIN distanceBased
          /\ reportResponse(m.s)
          /\ ended' = ended \cup {m.s}
          /\ unchangedSessions /\ UNCHANGED apiQ
    /\ UNCHANGED <<capsKnown, removed, pending>>

\* stopClientSessions and eraseClient.  A time-based session is stopped as
\* if alone among the sessions, and stays in the map.
removeClient(m) ==
    LET mine(T) == {s \in DOMAIN T : ClientOf[s] = m.c}
        stop1(s) == stopTimeBasedTrackingMultiplex(timeBased, s)
        toStop == Ordered({s \in mine(timeBased) : stop1(s) # <<>>})
        toStopDistance == Ordered(mine(distanceBased))
        stops == [i \in DOMAIN toStop |-> Head(stop1(toStop[i]))]
        stopsDistance == [i \in DOMAIN toStopDistance |->
                     EngineRequest("stopDistance", toStopDistance[i], NoOptions,
                             Callback("stoppedClient", toStopDistance[i], NoOptions))]
    IN /\ send(stops \o stopsDistance)
       /\ removed' = removed \cup {m.c}
       /\ ended' = ended \cup {s \in started : ClientOf[s] = m.c}
       /\ unchangedSessions
       /\ UNCHANGED <<owed, capsKnown, pending>>

-----------------------------------------------------------------------------
(***************************************************************************)
(* The callbacks of engine responses.  ok is LOCATION_ERROR_SUCCESS.       *)
(***************************************************************************)
\* startTimeBasedTracking, and startDistanceBasedTracking of a new session.
onStarted(cb, ok) ==
    /\ IF ok THEN unchangedSessions ELSE eraseTrackingSession(cb.s)
    /\ reportResponse(cb.s)
    /\ UNCHANGED <<apiQ, ended>>

\* updateTracking: a refused update restores the old options.
onUpdated(cb, ok) ==
    /\ IF ok THEN unchangedSessions
       ELSE saveTrackingSession(timeBased, distanceBased, cb.s, cb.o)
    /\ reportResponse(cb.s)
    /\ UNCHANGED <<apiQ, ended>>

onStopped(cb, ok) ==
    reportResponse(cb.s) /\ unchangedSessions /\ UNCHANGED <<apiQ, ended>>

\* Mutants: the session is saved first; no report.
SwitchedSavesFirst(cb, ok) ==
    /\ saveTrackingSession(timeBased, distanceBased, cb.s, cb.o)
    /\ send(startTimeBasedTrackingMultiplex(timeBased', cb.s, cb.o))
    /\ reportResponse(cb.s)
    /\ UNCHANGED ended
SwitchedSilently(cb, ok) ==
    /\ saveTrackingSession(timeBased, distanceBased, cb.s, cb.o)
    /\ send(startTimeBasedTrackingMultiplex(timeBased, cb.s, cb.o))
    /\ UNCHANGED <<owed, ended>>

onSwitched(cb, ok) ==
    LET requests == startTimeBasedTrackingMultiplex(timeBased, cb.s, cb.o)
    IN /\ saveTrackingSession(timeBased, distanceBased, cb.s, cb.o)
       /\ send(requests)
       /\ reportIf(requests = <<>>, cb.s)
       /\ UNCHANGED ended

\* When the stop fails nothing is started and nothing is reported.
onRestart(cb, ok) ==
    /\ IF ok
       THEN send(<<EngineRequest("startDistance", cb.s, cb.o, Callback("restarted", cb.s, cb.o))>>)
       ELSE UNCHANGED apiQ
    /\ unchangedSessions
    /\ UNCHANGED <<owed, ended>>

onRestarted(cb, ok) ==
    /\ IF ok THEN saveTrackingSession(timeBased, distanceBased, cb.s, cb.o)
       ELSE unchangedSessions
    /\ reportResponse(cb.s)
    /\ UNCHANGED <<apiQ, ended>>

onStoppedDistance(cb, ok) ==
    /\ IF ok THEN eraseTrackingSession(cb.s) ELSE unchangedSessions
    /\ ended' = IF ok THEN ended \cup {cb.s} ELSE ended
    /\ IF cb.k = "stoppedDistance" THEN reportResponse(cb.s) ELSE UNCHANGED owed
    /\ UNCHANGED apiQ

onResponse(cb, ok) ==
    /\ \/ cb.k = "silent" /\ unchangedSessions /\ UNCHANGED <<apiQ, owed, ended>>
       \/ cb.k = "started" /\ onStarted(cb, ok)
       \/ cb.k = "updated" /\ onUpdated(cb, ok)
       \/ cb.k = "stopped" /\ onStopped(cb, ok)
       \/ cb.k = "switched" /\ onSwitched(cb, ok)
       \/ cb.k = "restart" /\ onRestart(cb, ok)
       \/ cb.k = "restarted" /\ onRestarted(cb, ok)
       \/ cb.k \in {"stoppedDistance", "stoppedClient"} /\ onStoppedDistance(cb, ok)
    /\ UNCHANGED <<capsKnown, removed, pending>>

\* handleEngineUpEvent: restartSessions, then the pending messages are posted
\* again, behind what the queue holds by then.
restartSessions ==
    send((IF timeBased = <<>> THEN <<>>
          ELSE <<EngineRequest("start", 0,
                         [SmallestInterval(timeBased) EXCEPT !.power = HighestPower(timeBased)],
                         Silent)>>)
         \o [i \in DOMAIN Ordered(DOMAIN distanceBased) |->
               LET s == Ordered(DOMAIN distanceBased)[i]
               IN EngineRequest("startDistance", s, distanceBased[s], Silent)])

\* Mutant: the pended messages are posted and kept.
EngineUpKeeps ==
    /\ capsKnown' = TRUE
    /\ restartSessions
    /\ unchangedSessions
    /\ UNCHANGED <<pending, removed, owed, ended>>

\* Mutant: the capabilities are not marked known.
EngineUpForgets ==
    /\ restartSessions
    /\ pending' = <<>>
    /\ unchangedSessions
    /\ UNCHANGED <<capsKnown, removed, owed, ended>>

engineUpEvent ==
    /\ capsKnown' = TRUE
    /\ restartSessions
    /\ pending' = <<>>
    /\ unchangedSessions
    /\ UNCHANGED <<removed, owed, ended>>

Handler(m) ==
    \/ m.kind \in {"start", "update"} /\ pend(m)
    \/ m.kind = "start" /\ startTracking(m)
    \/ m.kind = "update" /\ updateTrackingOptions(m)
    \/ m.kind = "stop" /\ stop(m)
    \/ m.kind = "remove" /\ removeClient(m)
    \/ m.kind = "response" /\ onResponse(m.cb, m.ok)
    \/ m.kind = "engineUp" /\ engineUpEvent

HandleMessage ==
    /\ msgQ # <<>>
    /\ \E m \in {Head(msgQ)} :
         /\ Handler(m)
         /\ msgQ' = Tail(msgQ) \o (IF m.kind = "engineUp" THEN pending ELSE <<>>)
    /\ UNCHANGED <<world, client, restarts>>

-----------------------------------------------------------------------------
(***************************************************************************)
(* Clients.                                                                *)
(***************************************************************************)
Command(m) ==
    /\ commands < MaxCommands
    /\ commands' = commands + 1
    /\ msgQ' = Append(msgQ, m)
    /\ UNCHANGED <<adapter, apiQ, world, ended, restarts>>

\* The client has not been removed, nor asked to be.
attached(c) ==
    /\ c \notin removed
    /\ \A i \in 1 .. Len(msgQ) : msgQ[i].kind = "remove" => msgQ[i].c # c

expectResponse(s) == owed' = [owed EXCEPT ![s] = @ + 1]

startTrackingCommand(s, o) ==
    /\ s \notin started
    /\ attached(ClientOf[s])
    /\ o = NoOptions => StartInvalid
    /\ started' = started \cup {s}
    /\ expectResponse(s)
    /\ Command([kind |-> "start", s |-> s, o |-> o])

ownSession(s) == s \in started /\ attached(ClientOf[s])

updateTrackingOptionsCommand(s, o) ==
    /\ AllowUpdate
    /\ ownSession(s)
    /\ expectResponse(s)
    /\ UNCHANGED started
    /\ Command([kind |-> "update", s |-> s, o |-> o])

stopTrackingCommand(s) ==
    /\ ownSession(s)
    /\ expectResponse(s)
    /\ UNCHANGED started
    /\ Command([kind |-> "stop", s |-> s])

removeClientCommand(c) ==
    /\ AllowRemove
    /\ attached(c)
    /\ UNCHANGED <<started, owed>>
    /\ Command([kind |-> "remove", c |-> c])

(***************************************************************************)
(* The engine, reached through the vendor's LocApi: it answers requests in *)
(* order, while down only by refusing them, and forgets its sessions when  *)
(* it goes down.                                                           *)
(***************************************************************************)
Engine(ok) ==
    /\ apiQ # <<>>
    /\ IF ok THEN up ELSE EngineMayFail
    /\ LET r == Head(apiQ)
       IN /\ engine' = IF ok /\ r.op = "start" THEN EngineOn(r.o)
                       ELSE IF ok /\ r.op = "stopFix" THEN EngineOff ELSE engine
          /\ engineDistance' = IF ok /\ r.op = "startDistance" THEN engineDistance \cup {r.s}
                               ELSE IF ok /\ r.op = "stopDistance" THEN engineDistance \ {r.s}
                               ELSE engineDistance
          /\ msgQ' = IF r.cb = Silent THEN msgQ
                     ELSE Append(msgQ, [kind |-> "response", cb |-> r.cb, ok |-> ok])
    /\ apiQ' = Tail(apiQ)
    /\ UNCHANGED <<adapter, up, client, owed, ended, restarts>>

EngineUp ==
    /\ ~up
    /\ up' = TRUE
    /\ msgQ' = Append(msgQ, [kind |-> "engineUp"])
    /\ UNCHANGED <<adapter, apiQ, engine, engineDistance, client, owed, ended, restarts>>

EngineDown ==
    /\ up
    /\ restarts < MaxRestarts
    /\ restarts' = restarts + 1
    /\ up' = FALSE
    /\ engine' = EngineOff
    /\ engineDistance' = {}
    /\ UNCHANGED <<adapter, msgQ, apiQ, client, owed, ended>>

Next ==
    \/ HandleMessage
    \/ \E s \in Session :
         \/ \E o \in Option \cup {NoOptions} :
              startTrackingCommand(s, o) \/ updateTrackingOptionsCommand(s, o)
         \/ stopTrackingCommand(s)
    \/ \E c \in Client : removeClientCommand(c)
    \/ \E ok \in BOOLEAN : Engine(ok)
    \/ EngineUp \/ EngineDown

Spec == Init /\ [][Next]_vars

(* The message thread and the engine run on; a client need not do anything. *)
FairSpec ==
    /\ Spec
    /\ WF_vars(HandleMessage)
    /\ WF_vars(\E ok \in BOOLEAN : Engine(ok))
    /\ WF_vars(EngineUp)

-----------------------------------------------------------------------------
(* The session maps hold valid, clamped options of sessions that were         *)
(* started (saveTrackingSession is never called with others).               *)
TypeOK ==
    /\ \A T \in {timeBased, distanceBased} :
         /\ DOMAIN T \subseteq started
         /\ \A s \in DOMAIN T : T[s] # NoOptions /\ T[s].interval >= MIN_TRACKING_INTERVAL
    /\ removed \subseteq Client
    /\ capsKnown \in BOOLEAN /\ up \in BOOLEAN
    /\ engine.on \in BOOLEAN
    /\ engineDistance \subseteq started
    /\ owed \in [Session -> Int]
    /\ ended \subseteq started

(* Nothing is under way: no message, no request, the engine up and known.   *)
Quiescent == up /\ msgQ = <<>> /\ apiQ = <<>> /\ pending = <<>>
live(s) == ClientOf[s] \notin removed

(***************************************************************************)
(* No command is answered twice: responses are counted against commands,   *)
(* whichever of the handlers or callbacks reports them.                    *)
(***************************************************************************)
AnsweredAtMostOnce == \A s \in Session : owed[s] >= 0

(***************************************************************************)
(* Every command is answered: with nothing under way, a client that is     *)
(* still there has had a responseCb for each of its commands.              *)
(***************************************************************************)
EveryCommandAnswered == Quiescent => \A s \in Session : live(s) => owed[s] <= 0

(***************************************************************************)
(* "locations are reported ... periodically according to LocationOptions"  *)
(* (LocationAPI.h): with nothing under way, the engine runs at least as    *)
(* often as every time-based session asks, through joins, updates, stops   *)
(* and engine restarts.                                                    *)
(***************************************************************************)
EngineServesSessions ==
    Quiescent => \A s \in DOMAIN timeBased :
        engine.on /\ engine.interval <= timeBased[s].interval

(***************************************************************************)
(* ... and in the most accurate power mode any session asks for ("find the *)
(* smallest interval and powerMode", startTimeBasedTrackingMultiplex).     *)
(***************************************************************************)
EngineServesPower ==
    Quiescent => \A s \in DOMAIN timeBased :
        timeBased[s].power # GNSS_POWER_MODE_INVALID => engine.power <= timeBased[s].power

(***************************************************************************)
(* The engine does not run for nobody: once the last session is stopped,   *)
(* or the last client that has one is destroyed (destroy "cleans up the    *)
(* instance", LocationAPI.h), it is off, whatever was joined to what.      *)
(***************************************************************************)
EngineOffWhenIdle ==
    Quiescent /\ (\A s \in DOMAIN timeBased : ~live(s)) => ~engine.on

\* What is queued may save session s: its start, ...
starts(x, s) == "kind" \in DOMAIN x /\ x.kind = "start" /\ x.s = s
\* ... or a callback of updateTrackingOptions that saves it or leads to one.
saves(x, s) ==
    "cb" \in DOMAIN x /\ x.cb.s = s /\ x.cb.k \in {"updated", "switched", "restart", "restarted"}

startAhead(s) == \E x \in ToSet(msgQ) \cup ToSet(pending) : starts(x, s)
answerAhead(s) == \E x \in ToSet(msgQ) \cup ToSet(apiQ) : saves(x, s)
inMap(s) == s \in DOMAIN timeBased \cup DOMAIN distanceBased
outForGood(s) == s \in started /\ ~inMap(s) /\ ~startAhead(s) /\ ~answerAhead(s)

(***************************************************************************)
(* A stop is final, whatever the engine refuses, restarts or answers late. *)
(* Once neither a start nor an answer to an update is under way, nothing   *)
(* brings an ended session back: no command, callback, engine restart or   *)
(* message posted again.  And a stop that takes effect (stopTracking's     *)
(* own, or its callback) while no answer to an update is under way leaves  *)
(* none of these, whether the start was handled at once or had waited for  *)
(* the capabilities.  A session in both maps leaves only one of them.      *)
(***************************************************************************)
StopIsFinal ==
    [][\A s \in Session :
         /\ outForGood(s) => outForGood(s)'
         /\ /\ inMap(s) /\ s \notin DOMAIN timeBased \cap DOMAIN distanceBased
            /\ s \in ended' \ ended /\ live(s)'
            /\ ~answerAhead(s)
            => outForGood(s)']_vars

(***************************************************************************)
(* Callbacks that send requests whose callbacks send requests, and pending *)
(* messages that are posted again, come to an end: with finitely many      *)
(* commands and restarts, the adapter and the engine come to rest.         *)
(***************************************************************************)
ComesToRest == <>[]Quiescent

=============================================================================
