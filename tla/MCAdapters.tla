----------------------------- MODULE MCAdapters -----------------------------
(***************************************************************************)
(* The adapters other than the GNSS adapter's sessions, and the way from   *)
(* them to the modem, for TLC: one part at a time, the others staying as   *)
(* they begin.  They share no state here; the engine below them is part of *)
(* each.  Batching runs as two parts (routine sessions with updates and a  *)
(* restart; trips that are travelled), the geofences too (every command;   *)
(* breaches among fewer, and a restart), the configuration (the lock; the  *)
(* satellites), the reports to clients (with the engine hub and without    *)
(* it), and the sentences made of them (of satellites; of positions).      *)
(***************************************************************************)
EXTENDS Integers, TLC

CONSTANTS Part,
          none, keep,                          \* model values
          Reported,                            \* positions
          MaxTrips, MaxFences, MaxCalls, MaxLocks, MaxLists, MaxListed
VARIABLES part,
          batching, trips, ongoing, dropped, batchFull, capsKnown, goneClients,
          batchPending, batchQ, batchApiQ, batchUp, batchEngine, odometer, joined,
          early, started, owed, batchCommands, batchRestarts,
          mGeofences, mGeofenceIds, removed, fenceQ, callQ, fenceApiQ, fenceUp,
          fenceEngine, added, freed, touched, paused, breaches, misled, command, fenceRestarts,
          mLocAdapters, mEvtMask, mClientData, mKnown, mPendingMsgs, known, msgQ,
          locQ, up, registered, restarted, asked, told, strays, calls, restarts,
          reports,
          lock, mSupportNfwControl, mAfwControlId, mBlacklistedSvIds,
          mGnssSvIdConfig, mGnssSvTypeConfig, modemKnown, configQ, configPending,
          task, modemQ, filling, modem, wantIds, commands, modemRestarts,
          stage, kind, flags, server, relock, supported, refused, answers,
          svStage, wide, listed, ids, config, reported,
          reportClients, sessions, mPowerOn, avail, mLocSystemInfo, hub, power, infoKnown,
          fix, marked, got,
          svReport, gsv, nmeaFix, said, shown, shownBefore,
          sinceBoot, ahead, posStage, report, fixedAt, location, info, sinceBootRead,
          posShown, wasRight, injected,
          blocks, file, isVendorEnhanced, isXtraDaemonEnabled, present, conf, pos, cfgStage,
          procListLength, childProc, firstTime, mEngHubProxy, loads, features

o(m, d, t) == [mode |-> m, distance |-> d, tbf |-> t]
BatchOptions ==
    {o("trip", 2, 2), o("trip", 3, 1), o("routine", 0, 0), o("noAutoReport", 0, 0)}

Routine == INSTANCE Batching WITH
    Session <- {1, 2}, Client <- {"a"}, ClientOf <- <<"a", "a">>, NoCallback <- {},
    Option <- BatchOptions, NoOptions <- none,
    Commands <- {"start", "update", "stop", "get", "remove"},
    EngineMayFail <- FALSE, AnyOrder <- FALSE,
    MaxCommands <- 3, MaxRestarts <- 1, MaxTravel <- 1,
    removed <- goneClients, pending <- batchPending, msgQ <- batchQ, apiQ <- batchApiQ,
    up <- batchUp, engine <- batchEngine, commands <- batchCommands,
    restarts <- batchRestarts
Trips == INSTANCE Batching WITH
    Session <- {1, 2}, Client <- {"a"}, ClientOf <- <<"a", "a">>, NoCallback <- {},
    Option <- BatchOptions, NoOptions <- none,
    Commands <- {"start", "stop"}, EngineMayFail <- FALSE, AnyOrder <- FALSE,
    MaxCommands <- MaxTrips, MaxRestarts <- 1, MaxTravel <- 4,
    removed <- goneClients, pending <- batchPending, msgQ <- batchQ, apiQ <- batchApiQ,
    up <- batchUp, engine <- batchEngine, commands <- batchCommands,
    restarts <- batchRestarts
Fences == INSTANCE Geofence WITH
    Fence <- {1, 3}, Client <- {"a", "b"}, ClientOf <- (1 :> "a") @@ (3 :> "b"),
    Option <- {"x", "y"}, HwId <- {1, 2},
    Ops <- {"add", "remove", "pause", "resume", "modify", "removeClient"},
    EngineMayFail <- FALSE, SerialCalls <- TRUE, AtRest <- TRUE,
    MaxCommands <- MaxFences, MaxRestarts <- 0, MaxBreaches <- 0,
    msgQ <- fenceQ, apiQ <- fenceApiQ, up <- fenceUp, engine <- fenceEngine,
    restarts <- fenceRestarts
Breaches == INSTANCE Geofence WITH
    Fence <- {1, 3}, Client <- {"a", "b"}, ClientOf <- (1 :> "a") @@ (3 :> "b"),
    Option <- {"x"}, HwId <- {1, 2}, Ops <- {"add", "remove", "pause", "removeClient"},
    EngineMayFail <- FALSE, SerialCalls <- TRUE, AtRest <- TRUE,
    MaxCommands <- MaxFences, MaxRestarts <- 1, MaxBreaches <- 1,
    msgQ <- fenceQ, apiQ <- fenceApiQ, up <- fenceUp, engine <- fenceEngine,
    restarts <- fenceRestarts
Modem == INSTANCE LocApi WITH
    Adapter <- {"gnss", "batching"}, NoAdapter <- "none", Client <- {"c"}, Event <- {"sv"},
    OpenWaits <- TRUE, MaxRestarts <- 1, MaxReports <- 1
Lock == INSTANCE GnssConfig WITH
    Sv <- {"g1", "b1"}, Constellation <- {{"g1", "g2"}, {"b1"}}, Session <- {1, 2},
    Keep <- keep, Commands <- {"control", "lock", "nfw"}, NfwWaits <- TRUE,
    AtRest <- FALSE, Whole <- TRUE, IdsOverTypes <- FALSE,
    MaxCommands <- MaxLocks, MaxRestarts <- 1,
    known <- modemKnown, msgQ <- configQ, pending <- configPending, locQ <- modemQ,
    restarts <- modemRestarts
Satellites == INSTANCE GnssConfig WITH
    Sv <- {"g1", "b1"}, Constellation <- {{"g1", "g2"}, {"b1"}}, Session <- {1, 2},
    Keep <- keep, Commands <- {"ids", "types"}, NfwWaits <- TRUE, AtRest <- TRUE,
    Whole <- TRUE, IdsOverTypes <- FALSE,
    MaxCommands <- MaxLists, MaxRestarts <- 1,
    known <- modemKnown, msgQ <- configQ, pending <- configPending, locQ <- modemQ,
    restarts <- modemRestarts
source(t, n) == [type |-> t, svid |-> n]
Calls == INSTANCE ConfigCalls WITH
    Request <- (SUBSET {"lock", "suplVersion", "lpp", "lppeCp", "aGlonass", "blacklist",
                        "emergency"}) \ {{}},
    ServerType <- {"supl"},
    Source <- {source(t, n) : t \in {"glonass", "galileo", "beidou"}, n \in {0, 1, 24, 31}}
                  \cup {source("qzss", n) : n \in {0, 193, 202}} \cup {source("gps", 1)}
CallbackSets == {{"tracking", "system"}, {"tracking", "engines"},
                 {"info", "sv", "nmea", "engines"}, {"tracking", "info", "sv", "system"}}
p(s, t, u) == [status |-> s, tech |-> t, used |-> u]
Reporting == INSTANCE Reports WITH
    Client <- {"a"}, Registers <- CallbackSets, Hub <- FALSE,
    Position <- {p("success", "satellite", "ids"), p("success", "satellite", "bands"),
                 p("success", "network", "ids"), p("intermediate", "sensors", "none"),
                 p("intermediate", "satellite", "none"), p("failure", "network", "none")},
    ProviderAP <- TRUE,
    AcceptIntermediate <- FALSE, AllowFlpNetworkFixes <- FALSE, MaxHeld <- 1, None <- none,
    mClientData <- reportClients, known <- infoKnown
HubReporting == INSTANCE Reports WITH
    Client <- {"a"}, Registers <- CallbackSets, Hub <- TRUE,
    Position <- {p("success", "satellite", "bands"), p("failure", "network", "none")},
    ProviderAP <- FALSE,
    AcceptIntermediate <- FALSE, AllowFlpNetworkFixes <- TRUE, MaxHeld <- 1, None <- none,
    mClientData <- reportClients, known <- infoKnown

kinds == {<<"gps", "default">>, <<"gps", "first">>, <<"gps", "second">>,
          <<"glonass", "second">>, <<"sbas", "default">>, <<"navic", "first">>}
skies == {[i \in DOMAIN ks |-> [type |-> ks[i][1], signal |-> ks[i][2], id |-> i]] :
            ks \in UNION {[1 .. n -> kinds] : n \in {1, 2, 5}}}
Views == INSTANCE Nmea WITH
    Skies <- skies, Fixes <- {}, Times <- {}, Datum <- "WGS84", LeapKnown <- TRUE,
    fix <- nmeaFix
uses(g, l, q, n) ==
    [c \in {"gps", "glonass", "galileo", "beidou", "qzss", "navic"} |->
        CASE c = "gps" -> g [] c = "glonass" -> l [] c = "qzss" -> q [] c = "navic" -> n
          [] OTHER -> {}]
fixes == {how @@ [used |-> us] :
            us \in {uses({}, {}, {}, {}), uses({1, 2}, {}, {}, {}), uses({1}, {3}, {}, {}),
                    uses(1 .. 9, {}, 1 .. 5, {}), uses({}, {1}, {}, {2}), uses({}, {}, {}, {4})},
            how \in {[latLong |-> TRUE, correction |-> "SBAS", tech |-> {"satellite"}],
                     [latLong |-> TRUE, correction |-> "none", tech |-> {"sensors"}],
                     [latLong |-> FALSE, correction |-> "none", tech |-> {"satellite"}]}}
Sentences == INSTANCE Nmea WITH
    Skies <- {}, Fixes <- fixes,
    Times <- {-1000, -500, 0, 500, 999, 1000, 1500}, Datum <- "PZ90", LeapKnown <- TRUE,
    fix <- nmeaFix

\* The quantities whose bit is the engine's only with all that the bit may stand for.
plain == {"dop", "altitudeMeanSeaLevel", "magneticDeviation", "modeIndicator", "verticalUnc",
          "speedUnc", "bearingUnc", "horReliability", "verReliability", "elipMajor",
          "elipMinor", "elipAzimuth", "svUsed", "navSolution", "posTech", "svSource", "extDop",
          "northStdDev", "eastStdDev", "clockBias", "clockDrift", "leapSeconds", "timeUnc",
          "headingRate", "multiband", "calibrationConfidence", "calibrationStatus",
          "engineType", "engineMask"}
moving == plain \cup {"posDynamics", "gpsTime", "northVel", "eastVel", "upVel", "northVelUnc",
                      "eastVelUnc", "upVelUnc"}
positionOf(g, e) ==
    [gps |-> g, ext |-> e, tech |-> {"satellite"},
     used |-> [c \in {"gps", "glonass", "qzss", "beidou", "galileo"} |->
                 CASE c = "gps" -> {0, 31} [] c = "qzss" -> {4} [] c = "galileo" -> {1, 35}
                   [] OTHER -> {}]]
Together ==
    {positionOf({"latLong"}, {x, y}) : x \in plain, y \in {"extDop", "svUsed"}}
      \cup {positionOf({"latLong"}, {x}) : x \in plain}
      \cup {positionOf({"latLong", "altitude", "accuracy", "spoof"}, moving),
            positionOf({"speed", "bearing", "vertUncertainty"}, {"verticalUnc"})}

\* Any two quantities, whatever else their bits stand for.
Words == INSTANCE LocationInfo WITH
    Report <- {}, Clock <- {}, Utc <- 0, Prompt <- TRUE, MaxTime <- 0, None <- none,
    stage <- posStage, shown <- posShown
AnyTwo ==
    {positionOf({"latLong"}, {Words!EngineFlags[i], Words!EngineFlags[j]}) :
        i, j \in DOMAIN Words!EngineFlags}
Positions == INSTANCE LocationInfo WITH
    Report <- Reported,
    Clock <- {0, 3, 4}, Utc <- 3, Prompt <- TRUE, MaxTime <- 3, None <- none,
    stage <- posStage, shown <- posShown

list(all, names) == [all |-> all, names |-> names]
block(name, state, premium, mask, platforms, baseband, enhanced) ==
    ("PROCESS_NAME" :> name) @@ ("PROCESS_STATE" :> state) @@ ("PREMIUM_FEATURE" :> premium)
    @@ ("IZAT_FEATURE_MASK" :> mask) @@ ("PLATFORMS" :> platforms)
    @@ ("BASEBAND" :> baseband) @@ ("HARDWARE_TYPE" :> list(TRUE, {}))
    @@ ("VENDOR_ENHANCED_PROCESS" :> enhanced)
processBlocks ==
    LET every == list(TRUE, {})
    IN {block("lowi-server", "ENABLED", 0, {"wifi", "waa"}, every, every, 0),
        block("slim_daemon", "ENABLED", 1, {"sapBasic", "sapPremium"}, every, every, 1),
        block("xtwifi-client", "ENABLED", 1, {"wifi"}, list(TRUE, {"other"}), every, 0),
        block("xtra-daemon", "ENABLED", 0, {}, every, list(FALSE, {"msm"}), 0),
        block("engine-service", "DISABLED", 0, {}, every, every, 0),
        block("engine-service", "ENABLED", 0, {}, list(FALSE, {"here", "other"}), every, 1),
        block("engine-service", "ENABLED", 0, {}, list(TRUE, {"here"}), every, 0)}
featureLines ==
    {("GTP_MODE" :> g) @@ ("GTP_WAA" :> "DISABLED") @@ ("SAP" :> s) @@ ("SUPL_WIFI" :> "BASIC") :
       <<g, s>> \in {<<"DISABLED", "MODEM_DEFAULT">>, <<"SDK", "PREMIUM">>}}
Processes == INSTANCE LocCfg WITH
    Features <- featureLines, Block <- processBlocks, MaxBlocks <- 2, Complete <- TRUE,
    Platform <- "here", Baseband <- "msm", Hardware <- "none", Sglte <- FALSE,
    stage <- cfgStage

batchVars == <<batching, trips, ongoing, dropped, batchFull, capsKnown, goneClients,
               batchPending, batchQ, batchApiQ, batchUp, batchEngine, odometer, joined,
               early, started, owed, batchCommands, batchRestarts>>
fenceVars == <<mGeofences, mGeofenceIds, removed, fenceQ, callQ, fenceApiQ, fenceUp,
               fenceEngine, added, freed, touched, paused, breaches, misled, command,
               fenceRestarts>>
modemVars == <<mLocAdapters, mEvtMask, mClientData, mKnown, mPendingMsgs, known, msgQ, locQ,
               up, registered, restarted, asked, told, strays, calls, restarts, reports>>
configVars == <<lock, mSupportNfwControl, mAfwControlId, mBlacklistedSvIds, mGnssSvIdConfig,
                mGnssSvTypeConfig, modemKnown, configQ, configPending, task, modemQ, filling,
                modem, wantIds, commands, modemRestarts>>
answerVars == <<stage, kind, flags, server, relock, supported, refused, answers>>
listVars == <<svStage, wide, listed, ids, config, reported>>
reportVars == <<reportClients, sessions, mPowerOn, avail, mLocSystemInfo, hub, power,
                infoKnown, fix, marked, got>>
nmeaVars == <<svReport, gsv, nmeaFix, said, shown, shownBefore>>
posVars == <<sinceBoot, ahead, posStage, report, fixedAt, location, info, sinceBootRead,
             posShown, wasRight, injected>>
cfgVars == <<blocks, file, isVendorEnhanced, isXtraDaemonEnabled, present, conf, pos, cfgStage,
             procListLength, childProc, firstTime, mEngHubProxy, loads, features>>
textVars == <<nmeaVars, posVars, cfgVars>>
smallVars == <<answerVars, listVars, reportVars, textVars>>
vars == <<part, batchVars, fenceVars, modemVars, configVars, smallVars>>

UnreadFile ==
    /\ blocks = <<>> /\ file = <<>> /\ features = <<>> /\ conf = <<>> /\ pos = 1
    /\ isVendorEnhanced = FALSE /\ isXtraDaemonEnabled = FALSE /\ present = FALSE
    /\ cfgStage = "idle" /\ procListLength = 0 /\ childProc = <<>>
    /\ firstTime = TRUE /\ mEngHubProxy = FALSE /\ loads = 0

Init ==
    /\ part \in Part
    /\ Routine!Init /\ Fences!Init /\ Modem!Init /\ Lock!Init
    /\ Calls!AnswersInit /\ (part # "answers" => relock /\ supported)
    /\ Reporting!Init /\ Views!Init
    /\ Positions!Init /\ (part # "positions" => ahead = 3)
    /\ IF part = "processes" THEN Processes!Init ELSE UnreadFile
    /\ Calls!ListsInit /\ (part # "lists" => wide = "wraps")

Batches == UNCHANGED <<part, fenceVars, modemVars, configVars, smallVars>>
Configures == UNCHANGED <<part, batchVars, fenceVars, modemVars, smallVars>>
Delivers ==
    UNCHANGED <<part, batchVars, fenceVars, modemVars, configVars, answerVars, listVars,
                textVars>>
Says ==
    UNCHANGED <<part, batchVars, fenceVars, modemVars, configVars, answerVars, listVars,
                reportVars>>

Next ==
    \/ part = "routine" /\ Routine!Next /\ Batches
    \/ part = "trips" /\ Trips!Next /\ Batches
    \/ /\ \/ part = "fences" /\ Fences!Next
          \/ part = "breaches" /\ Breaches!Next
       /\ UNCHANGED <<part, batchVars, modemVars, configVars, smallVars>>
    \/ /\ part = "modem" /\ Modem!Next
       /\ UNCHANGED <<part, batchVars, fenceVars, configVars, smallVars>>
    \/ part = "lock" /\ Lock!Next /\ Configures
    \/ part = "satellites" /\ Satellites!Next /\ Configures
    \/ /\ part = "answers" /\ Calls!AnswersNext
       /\ UNCHANGED <<part, batchVars, fenceVars, modemVars, configVars, listVars, reportVars,
                      textVars>>
    \/ /\ part = "lists" /\ Calls!ListsNext
       /\ UNCHANGED <<part, batchVars, fenceVars, modemVars, configVars, answerVars, reportVars,
                      textVars>>
    \/ part = "reports" /\ Reporting!Next /\ Delivers
    \/ part = "hub" /\ HubReporting!Next /\ Delivers
    \/ part = "views" /\ Views!Next /\ Says /\ UNCHANGED <<posVars, cfgVars>>
    \/ part = "sentences" /\ Sentences!Next /\ Says /\ UNCHANGED <<posVars, cfgVars>>
    \/ part = "positions" /\ Positions!Next /\ Says /\ UNCHANGED <<nmeaVars, cfgVars>>
    \/ /\ part = "processes" /\ Processes!Next
       /\ UNCHANGED <<part, batchVars, fenceVars, modemVars, configVars, answerVars, listVars,
                      reportVars, nmeaVars, posVars>>

Spec == Init /\ [][Next]_vars

-----------------------------------------------------------------------------
\* The engine batches what the sessions ask for, the adapter hears of a full
\* batch while a session wants it, and no trip ends before its distance
\* (BatchingAdapter.cpp, across updates, stops and an engine restart).
BatchingIsServed ==
    /\ part = "routine" => Routine!BatchFullIsRegistered /\ Routine!EngineServesRoutine
    /\ part = "trips" => Trips!EngineServesTrips /\ Trips!TripsEndInTime

\* The engine has the geofences the clients have, a paused one stays paused, and
\* the arrays of a command are not used after they were freed, and a breach is told
\* to the geofence's client (GeofenceAdapter.cpp, across removals and an engine
\* restart).
FencesAreServed ==
    /\ Fences!EngineServesFences /\ Fences!PausedStaysPaused /\ Fences!NoUseAfterFree
    /\ Breaches!BreachIsTheirs

\* The engine reports the events some client wants, each adapter hears that the
\* engine is up, and a client that has gone hears nothing (LocApiBase.cpp,
\* LocAdapterBase.cpp).
ModemIsFollowed ==
    Modem!EngineReportsWhatIsWanted /\ Modem!EngineUpReachesAll /\ Modem!RemovedHearsNothing

\* The modem has the lock that the user's switch and the configuration say and the
\* blacklist given, each flag of a request gets its own error, and the satellites
\* reported are those listed (enableCommand, gnssUpdateConfigCommand, setConfig,
\* gnssSvIdConfigUpdate, gnssSvTypeConfigUpdate, convertToGnssSvIdConfig).
ConfigurationHolds ==
    /\ part = "lock" => Lock!LockFollowsTheUser
    /\ part = "satellites" => Satellites!BlacklistIsAsGiven
    /\ Calls!ErrorIsItsOwn /\ Calls!ReportsWhatWasListed

\* The satellites marked as used are those of the last fix passed on, clients and the
\* power listener know what the adapter knows, whenever they came, and a position says
\* what the engine said and when it was true (reportPosition, reportSv,
\* notifyClientOfCachedLocationSystemInfo, reportPowerStateIfChanged,
\* convertLocationInfo, convertGnssLocation).
ReportsAreRight ==
    /\ Reporting!UsedIsOfLastFix /\ Reporting!SystemInfoIsKnown /\ Reporting!PowerIsTold
    /\ part = "reports" => Reporting!CalledAsRegistered
    /\ part = "hub" => HubReporting!CalledAsRegistered
    /\ part = "positions" =>
         /\ Positions!ValidIsTheEngines /\ Positions!NothingIsLost
         /\ Positions!NumberIsOfTheList
         /\ Positions!StampIsOfTheFix /\ Positions!InjectedAsShown

\* What a position calls valid the engine has given (convertLocationInfo).
ValidIsTheEngines == Positions!ValidIsTheEngines

\* The sentences made of a report list its satellites, agree with each other, and
\* show a time that goes on through a leap second (loc_nmea_generate_sv,
\* loc_nmea_generate_pos).
SentencesTellTheReport ==
    /\ part = "views" => Views!GsvTellsTheReport
    /\ part = "sentences" => Sentences!SentencesAgree /\ Sentences!ShownTimeGoesOn

\* A process is enabled by its own block of the file, and the engine hub loaded once
\* and exactly for an engine service that is enabled (loc_read_process_conf,
\* initEngHubProxy).
ProcessesAsConfigured ==
    part = "processes" => Processes!EachByItsOwnBlock /\ Processes!HubAsConfigured
=============================================================================
