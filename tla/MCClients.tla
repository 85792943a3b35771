----------------------------- MODULE MCClients ------------------------------
(***************************************************************************)
(* The client side for TLC, one part at a time: the requests of            *)
(* LocationAPIClientBase, its geofences, the control client, the instances *)
(* of LocationAPI and their destruction, the HIDL service of 2.0 and of    *)
(* 1.1 between the framework's processes and its client, and the store of  *)
(* what the engine says of itself with the debug report of 2.0 and of 1.0. *)
(***************************************************************************)
EXTENDS Integers, TLC

CONSTANTS Part, MaxCalls, MaxHeard,
          none                              \* a model value
VARIABLES part,
          mSession, requests, tracking, mTracking, ni, next, wire, running, calling,
          calls, mixedUp,
          mForwardMap, mBackwardMap, mExtMap, queue, nextFence, fenceWire, fences,
          answering, breached, misnamed, fenceCalls,
          clientData, destroyClientData, loaded, loadFailed, missing, mClientData,
          msgQ, gone, destroyed, unanswered, apiCalls,
          gnss, client, linked, todo, capsDue, reporter, adapter, live, halCalls,
          current, wanted, wantsOn, asked, knows, hasStarted,
          mCache, now, heard,
          gmService, gmClient, gmLinked, gmTracking, gmSession, gmTodo, posted, gmReporter,
          uses, gmLive, gmCalls, gmCurrent, gmPower, gmHeard,
          gbService, gbClient, deleted, gbLinked, gbWire, known, gbRunning, gbReporter,
          gbLive, gbCalls, gbCurrent, gbWanted, stray,
          gfCb, gfLinked, breachTypeMask, gfWire, engine, gfLive, gfCalls, told, gfAsked,
          crossed,
          mEnabled, mConfig, ctrlQueue, nextCtrl, ctrlQ, engineQ, mAfwControlId, has, given,
          ctrlCalls, ctrlMixed

Requests == INSTANCE ClientBase WITH
    Id <- {1, 2}, Mode <- {"fix", "batch", "trip"}, NiId <- {9},
    Calls <- {"tracking", "session", "get", "ni"}, StartMayFail <- FALSE,
    InOrder <- TRUE, Waits <- TRUE, UpdateTwice <- FALSE, queue <- requests
Fences == INSTANCE ClientFences WITH
    Id <- {1, 2}, Mask <- {{"in"}, {"in", "out"}}, Waits <- TRUE, FreshIds <- TRUE,
    KnownIds <- TRUE, MasksKept <- TRUE, AddMayFail <- FALSE,
    next <- nextFence, wire <- fenceWire, calling <- answering, calls <- fenceCalls
Instances == INSTANCE LocationApi WITH
    Client <- {"a", "b"}, Type <- {"gnss", "batching", "geofence"},
    Missing <- {{}, {"geofence"}}, KeepsTypes <- TRUE, calls <- apiCalls
Hal20 == INSTANCE GnssHal WITH
    Version <- "2.0", Interface <- {"1.0", "1.1", "2.0"}, Callback <- {1, 2, 3},
    ProcessOf <- <<1, 1, 2>>, Flag <- {"lock", "lpp"}, Value <- {"v1", "v2"},
    NoticesFirst <- TRUE, calls <- halCalls
Hal11 == INSTANCE GnssHal WITH
    Version <- "1.1", Interface <- {"1.1"}, Callback <- {1, 2, 3},
    ProcessOf <- <<1, 1, 2>>, Flag <- {"lock", "lpp"}, Value <- {"v1", "v2"},
    NoticesFirst <- TRUE, calls <- halCalls

count == [gps |-> 2, glonass |-> 1, qzss |-> 1, beidou |-> 2, galileo |-> 1, navic |-> 1]
sentence(t, n, v) == [talker |-> t, fields |-> n, value |-> v]
m1(valid, tow, ns, gps) ==
    [valid |-> valid, tow |-> tow, leap |-> 18, unc |-> 2, leapUnc |-> 1, uncNs |-> ns,
     freqUnc |-> 3, agc |-> [gps |-> gps, glonass |-> 2, beidou |-> 3, galileo |-> 4],
     jammer |-> [gps |-> 5, glonass |-> 6, beidou |-> gps, galileo |-> 2147483647],
     recovery |-> 0]
masks(gps, bds, qzss) ==
    [gps |-> gps, glonass |-> {}, beidou |-> bds, galileo |-> {0}, qzss |-> qzss]
ages(n) == [gps |-> n, glonass |-> 2, qzss |-> 3, beidou |-> 4, galileo |-> n, navic |-> 0]
table(n, whole) == [i \in 1 .. n |-> [type |-> IF i <= whole THEN "ephemeris" ELSE "almanac",
                                     age |-> i]]
spoken ==
    {sentence("PQWM1", n, m1(TRUE, 5000, 7, 1)) : n \in {12, 31, 32}}
    \cup {sentence("PQWM1", 32, m1(TRUE, 6000, 0, 9)), sentence("PQWM1", 32, m1(FALSE, 9000, 0, 1))}
    \cup {sentence("PQWP1", 9, 1)}
    \cup {sentence("PQWP2", 7, [at |-> a, hepe |-> 3]) : a \in {1, 2}}
    \cup {sentence("PQWP3", 13, [valid |-> masks({0}, {1}, {}), age |-> ages(1)]),
          sentence("PQWP3", 13, [valid |-> masks({}, {0}, {0}), age |-> ages(5)])}
    \cup {sentence("PQWP5", 17, [good |-> masks({0}, {1}, {}), bad |-> masks({1}, {0}, {0})]),
          sentence("PQWP5", 17, [good |-> masks({}, {0}, {0}), bad |-> masks({0}, {}, {})])}
    \cup {sentence("PQWP7", 2 + 3 * n, table(n, 3)) : n \in {7, 8}}
positions == {[at |-> a, accuracy |-> r] : a \in {1, 2}, r \in {4, 30000000}}
Debug20 == INSTANCE SystemStatus WITH
    Num <- count, Talked <- spoken, Located <- positions, Measured <- {3500, 6000, 7500},
    Uninitialised <- {7}, MaxItem <- 2, Version <- "2.0", MaxNow <- MaxHeard
Debug10 == INSTANCE SystemStatus WITH
    Num <- count, Talked <- spoken, Located <- positions, Measured <- {3500, 6000, 7500},
    Uninitialised <- {7}, MaxItem <- 2, Version <- "1.0", MaxNow <- 3

adr10 == {"valid", "reset", "cycle slip"}
adr11 == adr10 \cup {"half cycle resolved"}
state10 ==
    {"code lock", "bit sync", "subframe sync", "tow decoded", "msec ambiguous", "symbol sync",
     "glo string sync", "glo tod decoded", "bds d2 bit sync", "bds d2 subframe sync",
     "gal e1bc code lock", "gal e1c 2nd code lock", "gal e1b page sync", "sbas sync"}
state20 == state10 \cup {"tow known", "glo tod known", "2nd code lock"}
known10 == {"gps", "sbas", "glonass", "qzss", "beidou", "galileo", "unknown"}
words(max, adr, state, constellations) ==
    [max |-> max, adr |-> adr, state |-> state, constellations |-> constellations]
expressible ==
    [v \in {"1.0", "1.1", "2.0"} |->
       CASE v = "1.0" -> words(2, adr10, state10, known10)
         [] v = "1.1" -> words(2, adr11, state10, known10)
         [] OTHER -> words(99, adr11, state20, known10 \cup {"navic"})]
measurement(svid, c, state, adr, code) ==
    [svid |-> svid, flags |-> {"snr", "carrier phase"}, constellation |-> c,
     state |-> state, adr |-> adr, code |-> code]
reports ==
    {[of |-> <<measurement(1, "gps", {"code lock", "tow known"}, {"valid", "half cycle resolved"}, "C"),
               measurement(2, "navic", {"bit sync", "2nd code lock"}, {}, "other"),
               measurement(3, "galileo", {"gal e1b page sync"}, {"cycle slip"}, "Q")>>,
      clock |-> {"bias", "drift"}]}
Measurements == INSTANCE MeasurementHal WITH
    Interface <- {"1.0", "1.1", "2.0"}, OneInterface <- TRUE, Callback <- {1, 2, 3},
    ProcessOf <- <<1, 1, 2>>, Measured <- reports, NoticesFirst <- TRUE, SVS_COUNT <- 2,
    Expressible <- expressible,
    service <- gmService, client <- gmClient, linked <- gmLinked, mTracking <- gmTracking,
    session <- gmSession, todo <- gmTodo, reporter <- gmReporter, live <- gmLive,
    calls <- gmCalls, current <- gmCurrent, power <- gmPower, heard <- gmHeard
Batches == INSTANCE BatchingHal WITH
    Interface <- {"1.0", "2.0"}, Callback <- {1, 2, 3}, ProcessOf <- <<1, 1, 2>>,
    Quiet <- TRUE, Waits <- TRUE, NoticesFirst <- TRUE,
    service <- gbService, client <- gbClient, linked <- gbLinked, wire <- gbWire,
    running <- gbRunning, reporter <- gbReporter, live <- gbLive, calls <- gbCalls,
    current <- gbCurrent, wanted <- gbWanted
Geofences == INSTANCE GeofenceHal WITH
    Id <- {1, 2}, Transition <- {{"entered"}, {"entered", "exited", "uncertain"}},
    Error <- {"general failure"}, RemoveMayFail <- FALSE,
    cb <- gfCb, linked <- gfLinked, wire <- gfWire, live <- gfLive, calls <- gfCalls,
    asked <- gfAsked

Control == INSTANCE ControlClient WITH
    Flag <- {"lock", "lpp"}, Value <- {1, 2},
    queue <- ctrlQueue, next <- nextCtrl, msgQ <- ctrlQ, calls <- ctrlCalls,
    mixedUp <- ctrlMixed

requestVars == <<mSession, requests, tracking, mTracking, ni, next, wire, running, calling,
                 calls, mixedUp>>
fenceVars == <<mForwardMap, mBackwardMap, mExtMap, queue, nextFence, fenceWire, fences,
               answering, breached, misnamed, fenceCalls>>
instanceVars == <<clientData, destroyClientData, loaded, loadFailed, missing, mClientData,
                  msgQ, gone, destroyed, unanswered, apiCalls>>
halVars == <<gnss, client, linked, todo, capsDue, reporter, adapter, live, halCalls,
             current, wanted, wantsOn, asked, knows, hasStarted>>
storeVars == <<mCache, now, heard>>
measurementVars == <<gmService, gmClient, gmLinked, gmTracking, gmSession, gmTodo, posted,
                     gmReporter, uses, gmLive, gmCalls, gmCurrent, gmPower, gmHeard>>
batchVars == <<gbService, gbClient, deleted, gbLinked, gbWire, known, gbRunning, gbReporter,
               gbLive, gbCalls, gbCurrent, gbWanted, stray>>
geofenceVars == <<gfCb, gfLinked, breachTypeMask, gfWire, engine, gfLive, gfCalls, told,
                  gfAsked, crossed>>
controlVars == <<mEnabled, mConfig, ctrlQueue, nextCtrl, ctrlQ, engineQ, mAfwControlId,
                 has, given, ctrlCalls, ctrlMixed>>
clientVars == <<requestVars, fenceVars, instanceVars, storeVars, controlVars>>
serviceVars == <<halVars, measurementVars, batchVars, geofenceVars>>
vars == <<part, clientVars, serviceVars>>

Init ==
    /\ part \in Part
    /\ Requests!Init /\ Fences!Init
    /\ Instances!Init /\ (part # "instances" => missing = {})
    /\ Hal20!Init
    /\ Debug20!Init
    /\ Measurements!Init /\ (part # "measurements" => uses = {"2.0"})
    /\ Batches!Init /\ Geofences!Init /\ Control!Init

Hal == UNCHANGED <<part, clientVars, measurementVars, batchVars, geofenceVars>>
Store == UNCHANGED <<part, requestVars, fenceVars, instanceVars, controlVars, serviceVars>>

Next ==
    \/ /\ part = "requests" /\ Requests!Next
       /\ UNCHANGED <<part, fenceVars, instanceVars, storeVars, controlVars, serviceVars>>
    \/ /\ part = "fences" /\ Fences!Next
       /\ UNCHANGED <<part, requestVars, instanceVars, storeVars, controlVars, serviceVars>>
    \/ /\ part = "instances" /\ Instances!Next
       /\ UNCHANGED <<part, requestVars, fenceVars, storeVars, controlVars, serviceVars>>
    \/ part = "hal 2.0" /\ Hal20!Next /\ Hal
    \/ part = "hal 1.1" /\ Hal11!Next /\ Hal
    \/ part = "debug 2.0" /\ Debug20!Next /\ Store
    \/ part = "debug 1.0" /\ Debug10!Next /\ Store
    \/ /\ part = "measurements" /\ Measurements!Next
       /\ UNCHANGED <<part, clientVars, halVars, batchVars, geofenceVars>>
    \/ /\ part = "batches" /\ Batches!Next
       /\ UNCHANGED <<part, clientVars, halVars, measurementVars, geofenceVars>>
    \/ /\ part = "geofences" /\ Geofences!Next
       /\ UNCHANGED <<part, clientVars, halVars, measurementVars, batchVars>>
    \/ /\ part = "control" /\ Control!Next
       /\ UNCHANGED <<part, requestVars, fenceVars, instanceVars, storeVars, serviceVars>>

Spec == Init /\ [][Next]_vars

-----------------------------------------------------------------------------
\* Each call gets the answer that is its own, and an answer about geofences names
\* those of the call (LocationAPIClientBase.cpp).
AnswersAreTheirOwn ==
    /\ Requests!AnswerIsItsOwn /\ Fences!AnswerNamesItsFences
    /\ Control!AnswerIsItsOwn /\ Control!NobodyWaits

\* The client has an id for each session of the adapter's, and tracks as it was
\* last asked to; the adapter is switched on as the control client thinks and has
\* the configuration it was given (LocationAPIClientBase.cpp).
SessionsAreKnown ==
    /\ Requests!SessionsAreKnown /\ Requests!TrackingAsAsked
    /\ Control!TypeOK /\ Control!SwitchedAsThought /\ Control!ConfigIsAsGiven

\* The client and the adapter have the same geofences and the same masks
\* (LocationAPIClientBase.cpp).
FencesAgree == Fences!FencesAgree

\* An instance that is gone is forgotten by every adapter, one that is to be
\* destroyed is, and no other's request goes unanswered (LocationAPI.cpp).
DestroyIsComplete ==
    Instances!GoneIsForgotten /\ Instances!DestroyCompletes /\ Instances!RequestIsAnswered

\* What is reported goes to the framework's last callback, which is told the
\* capabilities; measurements go to no callback after its close and lose nothing
\* that its version has a word for; of geofences those transitions are told that
\* were asked for (GnssAPIClient.cpp, MeasurementAPIClient.cpp,
\* BatchingAPIClient.cpp, GeofenceAPIClient.cpp).
ReportsReachTheLast ==
    /\ part = "hal 1.1" => Hal11!ReportsReachTheLast /\ Hal11!CapabilitiesReachTheLast
    /\ part = "hal 2.0" => Hal20!ReportsReachTheLast /\ Hal20!CapabilitiesReachTheLast
    /\ part = "measurements" => Measurements!ToldWhileRegistered /\ Measurements!ToldAsMeasured
    /\ part = "batches" => Batches!BatchesReachTheLast
    /\ part = "geofences" => Geofences!CrossedAsAsked

\* The engine serves the framework process that is alive, with the configuration
\* it has given, and 2.0 gives fixes only to a process that has started
\* positioning; sessions for measurements and batches are those of the living
\* process, no deleted client is called, and the process knows from its callbacks
\* which geofences it has (Gnss.cpp, GnssMeasurement.cpp, GnssBatching.cpp,
\* GnssGeofencing.cpp and their clients).
ServesTheLiving ==
    /\ part = "hal 1.1" => Hal11!ServesTheLiving /\ Hal11!PendingIsDelivered
    /\ part = "hal 2.0" =>
         Hal20!ServesTheLiving /\ Hal20!PendingIsDelivered /\ Hal20!FixesAreAskedFor
    /\ part = "measurements" => Measurements!TypeOK /\ Measurements!SessionIsTheLivings
    /\ part = "batches" =>
         Batches!TypeOK /\ Batches!SessionIsTheLivings /\ Batches!NoStrayCall
    /\ part = "geofences" => Geofences!TypeOK /\ Geofences!FrameworkKnowsItsFences

\* The debug report and the gains of measurements tell what the engine said last
\* (SystemStatus.cpp, convertSatelliteInfo and getAgcInformation of GnssAdapter.cpp).
ReportTellsTheLatest ==
    /\ part = "debug 2.0" => Debug20!TypeOK /\ Debug20!TellsTheLatest
    /\ part = "debug 1.0" => Debug10!TypeOK /\ Debug10!TellsTheLatest
=============================================================================
