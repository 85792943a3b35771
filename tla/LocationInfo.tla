---------------------------- MODULE LocationInfo ----------------------------
(***************************************************************************)
(* A position on its way from the engine to the framework and back.        *)
(* GnssAdapter converts the engine's report into a Location and a          *)
(* GnssLocationInfoNotification (convertLocation, convertLocationInfo),    *)
(* each with a word of flags that says which of its fields are valid; the  *)
(* HIDL service converts the Location (convertGnssLocation) and adds the   *)
(* time since boot at which it was true, which it works out from two       *)
(* clocks it reads one after the other; and the framework may hand a       *)
(* position back to be injected (injectBestLocation).                      *)
(*                                                                         *)
(* A quantity is named once.  Each word of flags has its quantities in the *)
(* order of its bits, so that a bit set in the wrong word is seen as what  *)
(* the reader of that word takes it for.                                   *)
(***************************************************************************)
EXTENDS Naturals, FiniteSets, Sequences, Functions

CONSTANTS
  Report,      \* what the engine may report, [gps, ext, tech : sets of quantities,
               \* used : constellation -> ids of its satellites, from 0]
  Clock,       \* what the time of day may be ahead of the time since boot
  Utc,         \* what it is ahead when it is right
  Prompt,      \* TRUE: no time passes between the reads of the two clocks
  MaxTime,     \* bound: the time since boot
  None

VARIABLES
  sinceBoot, ahead,  \* CLOCK_BOOTTIME, and what CLOCK_REALTIME is ahead of it
  stage,             \* "engine", "reported", "converting", "shown", "injected"
  report,            \* the engine's, and when it was true
  fixedAt,
  location, info,    \* the adapter's
  sinceBootRead,     \* what convertGnssLocation has read of the first clock
  shown,             \* the framework's
  wasRight,          \* the time of day was right when the other was read
  injected           \* what the modem is given back

vars == <<sinceBoot, ahead, stage, report, fixedAt, location, info, sinceBootRead, shown,
          wasRight, injected>>

\* GPS_LOCATION_EXTENDED_HAS_...
EngineFlags ==
  <<"dop", "altitudeMeanSeaLevel", "magneticDeviation", "modeIndicator", "verticalUnc",
    "speedUnc", "bearingUnc", "horReliability", "verReliability", "elipMajor", "elipMinor",
    "elipAzimuth", "svUsed", "navSolution", "posTech", "svSource", "posDynamics", "gpsTime",
    "extDop", "northStdDev", "eastStdDev", "northVel", "eastVel", "upVel", "northVelUnc",
    "eastVelUnc", "upVelUnc", "clockBias", "clockBiasStdDev", "clockDrift",
    "clockDriftStdDev", "leapSeconds", "timeUnc", "headingRate", "multiband",
    "calibrationConfidence", "calibrationStatus", "engineType", "engineMask">>

\* GNSS_LOCATION_INFO_..._BIT
InfoFlags ==
  <<"altitudeMeanSeaLevel", "dop", "magneticDeviation", "horReliability", "verReliability",
    "elipMajor", "elipMinor", "elipAzimuth", "svUsed", "navSolution", "posTech", "svSource",
    "posDynamics", "extDop", "northStdDev", "eastStdDev", "northVel", "eastVel", "upVel",
    "northVelUnc", "eastVelUnc", "upVelUnc", "leapSeconds", "timeUnc", "numSvUsed",
    "calibrationConfidence", "calibrationStatus", "engineType", "engineMask">>

Init ==
  /\ sinceBoot = 0 /\ ahead \in Clock /\ stage = "engine"
  /\ report = None /\ fixedAt = None /\ location = None /\ info = None
  /\ sinceBootRead = None /\ shown = None /\ wasRight = FALSE /\ injected = None

-----------------------------------------------------------------------------
\* The adapter.
convertLocation(r) ==
  [flags |-> (r.gps \cap {"latLong", "altitude", "speed", "bearing", "accuracy", "spoof"})
               \cup (r.ext \cap {"verticalUnc", "speedUnc", "bearingUnc"}),
   tech |-> r.tech \cap {"satellite", "cell", "wifi", "sensors"},
   timestamp |-> sinceBoot + Utc]

\* Satellites of a constellation, from its first id to its last.
Count == [gps |-> 32, glonass |-> 32, qzss |-> 5, beidou |-> 35, galileo |-> 36]
\* Mutant: an id too few.
NumOfLess(ids, n) == Cardinality({i \in ids : i < n - 1})
getNumSvUsed(ids, n) == IF n > 64 THEN 0 ELSE Cardinality({i \in ids : i < n})
numSvUsed(used) ==
  FoldFunction(LAMBDA a, b : a + b, 0,
               [c \in DOMAIN Count |-> getNumSvUsed(used[c], Count[c])])

\* What says its own name in the other word ...
Renamed ==
  {"altitudeMeanSeaLevel", "dop", "magneticDeviation", "horReliability", "verReliability",
   "elipMajor", "elipMinor", "elipAzimuth", "northStdDev", "eastStdDev", "northVel",
   "northVelUnc", "eastVel", "eastVelUnc", "upVel", "upVelUnc", "svUsed", "navSolution",
   "posTech", "extDop"}
RenamedLater ==
  {"leapSeconds", "timeUnc", "calibrationConfidence", "calibrationStatus", "engineType",
   "engineMask"}
\* ... what says two things ...
NothingFollows(ext) == {}
Follows(ext) ==
  (IF "extDop" \in ext THEN {"dop"} ELSE {}) \cup (IF "svUsed" \in ext THEN {"numSvUsed"} ELSE {})
\* ... and what is written with its bit of the engine's word.
ByEnginesBit ==
  {"posDynamics", "gpsTime", "northVel", "eastVel", "upVel", "northVelUnc", "eastVelUnc",
   "upVelUnc"}
Unnamed(ext) ==
  {InfoFlags[i] : i \in {j \in DOMAIN InfoFlags : EngineFlags[j] \in ext \cap ByEnginesBit}}

convertLocationInfo(r) ==
  [flags |-> (r.ext \cap (Renamed \cup RenamedLater)) \cup Follows(r.ext) \cup Unnamed(r.ext),
   svUsed |-> IF "svUsed" \in r.ext THEN [c \in DOMAIN Count |-> r.used[c]]
              ELSE [c \in DOMAIN Count |-> {}],
   numSvUsed |-> IF "svUsed" \in r.ext THEN numSvUsed(r.used) ELSE 0]

\* The engine reports what is true now.
reportPosition(r) ==
  /\ stage = "engine" /\ stage' = "reported"
  /\ report' = r /\ fixedAt' = sinceBoot
  /\ location' = convertLocation(r) /\ info' = convertLocationInfo(r)
  /\ UNCHANGED <<sinceBoot, ahead, sinceBootRead, shown, wasRight, injected>>

-----------------------------------------------------------------------------
\* The HIDL service.
ReadSinceBoot ==
  /\ stage = "reported" /\ stage' = "converting"
  /\ sinceBootRead' = sinceBoot
  /\ UNCHANGED <<sinceBoot, ahead, report, fixedAt, location, info, shown, wasRight, injected>>

flags_1_0(l) == l.flags \ {"spoof"}

\* The time since boot, if the time of day can be right.
\* Mutant: a position from before the boot is not told.
AgeOfAny(t, boot, current) == IF current >= t THEN boot - (current - t) ELSE None
elapsedRealtime(t, boot, current) ==
  IF current >= t /\ current - t <= boot THEN boot - (current - t) ELSE None

convertGnssLocation ==
  /\ stage = "converting" /\ stage' = "shown"
  /\ shown' = [flags |-> flags_1_0(location), timestamp |-> location.timestamp,
               elapsed |-> elapsedRealtime(location.timestamp, sinceBootRead,
                                           sinceBoot + ahead)]
  /\ wasRight' = (ahead = Utc)
  /\ UNCHANGED <<sinceBoot, ahead, report, fixedAt, location, info, sinceBootRead, injected>>

\* Mutant: the accuracies are not taken back.
WithoutAccuracies(s) == s.flags \ {"verticalUnc", "speedUnc", "bearingUnc"}
flagsBack(s) == s.flags

injectBestLocation ==
  /\ stage = "shown" /\ stage' = "injected"
  /\ injected' = [flags |-> flagsBack(shown), timestamp |-> shown.timestamp]
  /\ UNCHANGED <<sinceBoot, ahead, report, fixedAt, location, info, sinceBootRead, shown,
                 wasRight>>

-----------------------------------------------------------------------------
Tick ==
  /\ sinceBoot < MaxTime /\ (Prompt => stage # "converting")
  /\ sinceBoot' = sinceBoot + 1
  /\ UNCHANGED <<ahead, stage, report, fixedAt, location, info, sinceBootRead, shown,
                 wasRight, injected>>

\* The network or the user sets the time of day.
SetClock(a) ==
  /\ a # ahead /\ ahead' = a
  /\ UNCHANGED <<sinceBoot, stage, report, fixedAt, location, info, sinceBootRead, shown,
                 wasRight, injected>>

Next ==
  \/ \E r \in Report : reportPosition(r)
  \/ ReadSinceBoot \/ convertGnssLocation \/ injectBestLocation \/ Tick
  \/ \E a \in Clock : SetClock(a)

Spec == Init /\ [][Next]_vars

-----------------------------------------------------------------------------
\* What the notification calls valid the engine has given: no bit of one word stands
\* for something else in the other (convertLocationInfo).
ValidIsTheEngines ==
  info # None => info.flags \subseteq report.ext \cup Follows(report.ext)

\* What the engine gives the notification calls valid, if it has a word for it; of the
\* dynamics, whose bit is the engine's, and of the source it says nothing.
NothingIsLost ==
  info # None =>
    /\ (report.ext \cap Range(InfoFlags)) \ {"posDynamics", "svSource"} \subseteq info.flags
    /\ "extDop" \in info.flags => "dop" \in info.flags

\* The number of satellites is that of the ids listed (getNumSvUsed).
NumberIsOfTheList ==
  info # None =>
    info.numSvUsed = Cardinality(UNION {{c} \X info.svUsed[c] : c \in DOMAIN info.svUsed})

\* While the time of day is right a position is stamped with the time since boot at
\* which it was true, and never with one before the boot (convertGnssLocation).
StampIsOfTheFix ==
  shown # None => /\ wasRight => shown.elapsed = fixedAt
                  /\ shown.elapsed # None => shown.elapsed \in 0 .. sinceBootRead

\* A position handed back is the one shown, in all but whether it was spoofed
\* (convertGnssLocation in both directions).
InjectedAsShown ==
  injected # None => /\ injected.flags = location.flags \ {"spoof"}
                     /\ injected.timestamp = location.timestamp
=============================================================================
