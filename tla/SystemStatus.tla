---------------------------- MODULE SystemStatus ----------------------------
(***************************************************************************)
(* The store of what the engine says of itself and what is read from it:   *)
(* SystemStatus of src/gps/core/SystemStatus.cpp, the readers of           *)
(* src/gps/gnss/GnssAdapter.cpp (getDebugReport, getAgcInformation and     *)
(* getDataInformation) and the HIDL services that show the report          *)
(* (GnssDebug.cpp of each version).                                        *)
(*                                                                         *)
(* A debug sentence is [talker, fields, value]: what it is about, how many *)
(* fields it has and what they say.  A mask is a set of places, counted    *)
(* from 0; the table of PQWP7 is a sequence, whose order is that of        *)
(* svid_idx.  Of the values only what a reader tells apart is kept;        *)
(* logging is left out.  The store is behind a mutex, so each call is one  *)
(* step; the clock moves with each.                                        *)
(***************************************************************************)
EXTENDS Integers, Sequences, FiniteSets, TLC, SequencesExt, FiniteSetsExt

CONSTANTS
  Num,         \* how many satellites each constellation has
  Talked,      \* the debug sentences that the engine may send
  Located,     \* the positions it may report: [at, accuracy]
  Measured,    \* the times of the week of measurements
  Uninitialised, \* the places that memory nobody wrote may hold
  MaxItem,     \* maxItem
  Version,     \* of the HIDL service: "1.0", "1.1" or "2.0"
  MaxNow

VARIABLES
  mCache,      \* the reports of each kind, oldest first
  now,
  heard        \* what was heard last of each kind and when, or <<>>

vars == <<mCache, now, heard>>

Constellations == {"gps", "glonass", "qzss", "beidou", "galileo", "navic"}
SV_ALL_NUM_MIN == Num.gps + Num.glonass + Num.qzss + Num.beidou + Num.galileo
SV_ALL_NUM == SV_ALL_NUM_MIN + Num.navic
Unknown == [type |-> "unknown", age |-> 0]
NoSvs == [c \in Constellations |-> {}]

Report == {"location", "time", "rf", "recovery", "injected", "best", "xtra", "health", "nav"}
Talker == {"PQWM1", "PQWP1", "PQWP2", "PQWP3", "PQWP5", "PQWP7"}

-----------------------------------------------------------------------------
\* The parsers.  A sentence that is too short leaves what was in memory, here
\* what any such sentence may have said, but for PQWM1, which is zeroed first.
Needed == [PQWM1 |-> 31, PQWP1 |-> 9, PQWP2 |-> 7, PQWP3 |-> 13, PQWP5 |-> 17,
           PQWP7 |-> 2 + 3 * SV_ALL_NUM_MIN]

ZeroAgc == [c \in {"gps", "glonass", "beidou", "galileo"} |-> 0]
ZeroM1 == [valid |-> FALSE, tow |-> 0, leap |-> 0, unc |-> 0, leapUnc |-> 0, uncNs |-> 0,
           freqUnc |-> 0, agc |-> ZeroAgc, jammer |-> ZeroAgc, recovery |-> 0]
anyOf(talker) == {s.value : s \in {t \in Talked : t.talker = talker}}

SystemStatusPQWM1parser(s) ==
  {IF s.fields < Needed.PQWM1 THEN ZeroM1
   ELSE [s.value EXCEPT !.uncNs = IF s.fields > 31 THEN @ ELSE 0]}

SystemStatusPQWP1parser(s) == IF s.fields < Needed.PQWP1 THEN anyOf("PQWP1") ELSE {s.value}
SystemStatusPQWP2parser(s) == IF s.fields < Needed.PQWP2 THEN anyOf("PQWP2") ELSE {s.value}
SystemStatusPQWP3parser(s) == IF s.fields < Needed.PQWP3 THEN anyOf("PQWP3") ELSE {s.value}
SystemStatusPQWP5parser(s) == IF s.fields < Needed.PQWP5 THEN anyOf("PQWP5") ELSE {s.value}

\* A table without NavIC, which older engines send, is filled up.
SystemStatusPQWP7parser(s) ==
  LET svLimit == IF s.fields < 2 + 3 * SV_ALL_NUM THEN SV_ALL_NUM_MIN ELSE SV_ALL_NUM
  IN IF s.fields < Needed.PQWP7 THEN anyOf("PQWP7")
     ELSE {[i \in 0 .. SV_ALL_NUM - 1 |-> IF i < svLimit THEN s.value[i + 1] ELSE Unknown]}

-----------------------------------------------------------------------------
\* The items: what each takes of its sentence.  No sentence speaks of NavIC's
\* health and predictions.
SystemStatusTimeAndClock(m1) ==
  [f \in {"valid", "tow", "leap", "unc", "leapUnc", "uncNs", "freqUnc"} |-> m1[f]]
SystemStatusRfAndParams(m1) == [agc |-> m1.agc, jammer |-> m1.jammer]
SystemStatusErrRecovery(m1) == m1.recovery
SystemStatusInjectedPosition(p1) == p1
SystemStatusBestPosition(p2) == [valid |-> TRUE, at |-> p2.at, hepe |-> p2.hepe]
withNavic(mask) == mask @@ ("navic" :> {})
SystemStatusXtra(p3) == [valid |-> withNavic(p3.valid), age |-> p3.age]
SystemStatusSvHealth(p5) == [good |-> withNavic(p5.good), bad |-> withNavic(p5.bad)]
SystemStatusNavData(p7) == p7
SystemStatusLocation(l) == [valid |-> TRUE, at |-> l.at, accuracy |-> l.accuracy]

\* Those of an engine that has been told to forget.
Defaults(at) ==
  [location |-> [valid |-> FALSE, at |-> at, accuracy |-> 0],
   time |-> SystemStatusTimeAndClock(ZeroM1), rf |-> SystemStatusRfAndParams(ZeroM1),
   recovery |-> 0, injected |-> 0, best |-> [valid |-> FALSE, at |-> 0, hepe |-> 0],
   xtra |-> [valid |-> NoSvs, age |-> [c \in Constellations |-> 0]],
   health |-> [good |-> NoSvs, bad |-> NoSvs],
   nav |-> [i \in 0 .. SV_ALL_NUM - 1 |-> Unknown]]

\* Mutant: positions are the same when they are as accurate.
AsAccurate(kind, a, b) == IF kind = "location" THEN a.accuracy = b.accuracy ELSE a = b
\* Only where a position is tells it from the last.
equals(kind, a, b) ==
  CASE kind = "location" -> a.at = b.at
    [] kind = "best" -> a.at = b.at /\ a.hepe = b.hepe
    [] OTHER -> a = b

-----------------------------------------------------------------------------
Item(v) == [value |-> v, reported |-> now]

\* Mutant: what does not fit replaces nothing.
KeepsOldest(list, v) == IF Len(list) < MaxItem THEN Append(list, Item(v)) ELSE list
pushed(list, v) ==
  LET all == Append(list, Item(v))
  IN IF Len(all) > MaxItem THEN Tail(all) ELSE all

\* Mutant: what says nothing new is ignored.
Ignored(kind, list, v) ==
  IF list # <<>> /\ equals(kind, v, Last(list).value) THEN list ELSE pushed(list, v)
setIteminReport(kind, list, v) ==
  IF list # <<>> /\ equals(kind, v, Last(list).value)
  THEN Front(list) \o <<[Last(list) EXCEPT !.reported = now]>>
  ELSE pushed(list, v)

\* Each kind of the news goes to its own list.
stored(news) ==
  [k \in Report |-> IF k \in DOMAIN news THEN setIteminReport(k, mCache[k], news[k])
                    ELSE mCache[k]]

items(s, v) ==
  CASE s.talker = "PQWM1" ->
         [time |-> SystemStatusTimeAndClock(v), rf |-> SystemStatusRfAndParams(v),
          recovery |-> SystemStatusErrRecovery(v)]
    [] s.talker = "PQWP1" -> [injected |-> SystemStatusInjectedPosition(v)]
    [] s.talker = "PQWP2" -> [best |-> SystemStatusBestPosition(v)]
    [] s.talker = "PQWP3" -> [xtra |-> SystemStatusXtra(v)]
    [] s.talker = "PQWP5" -> [health |-> SystemStatusSvHealth(v)]
    [] s.talker = "PQWP7" -> [nav |-> SystemStatusNavData(v)]

parsed(s) ==
  CASE s.talker = "PQWM1" -> SystemStatusPQWM1parser(s)
    [] s.talker = "PQWP1" -> SystemStatusPQWP1parser(s)
    [] s.talker = "PQWP2" -> SystemStatusPQWP2parser(s)
    [] s.talker = "PQWP3" -> SystemStatusPQWP3parser(s)
    [] s.talker = "PQWP5" -> SystemStatusPQWP5parser(s)
    [] s.talker = "PQWP7" -> SystemStatusPQWP7parser(s)

Hears(kind, what) == heard' = [heard EXCEPT ![kind] = <<what, now>>]

Init ==
  /\ mCache = [k \in Report |-> <<>>] /\ now = 1
  /\ heard = [k \in Talker \cup {"location"} |-> <<>>]

Step == now < MaxNow /\ now' = now + 1

setNmeaString(s) ==
  /\ Step
  /\ \E v \in parsed(s) : mCache' = stored(items(s, v))
  /\ Hears(s.talker, s)

eventPosition(l) ==
  /\ Step
  /\ mCache' = stored([location |-> SystemStatusLocation(l)])
  /\ Hears("location", l)

\* setDefaultIteminReport: the defaults are pushed without a look at the last.
defaulted(at) == [k \in Report |-> pushed(mCache[k], Defaults(at)[k])]

\* gnssDeleteAidingDataCommand with deleteAll, for the standard engine.
setDefaultGnssEngineStates ==
  /\ Step
  /\ \E at \in Uninitialised : mCache' = defaulted(at)
  /\ heard' = [k \in DOMAIN heard |-> <<>>]

Hear == \E s \in Talked : setNmeaString(s)
Locate == \E l \in Located : eventPosition(l)
Next == Hear \/ Locate \/ setDefaultGnssEngineStates
Spec == Init /\ [][Next]_vars

-----------------------------------------------------------------------------
\* The readers: each looks at the last of a list (getReport, isLatestOnly).
has(kind) == mCache[kind] # <<>>
back(kind) == Last(mCache[kind]).value

\* Mutant: the table is in the order of the report.
InReportOrder ==
  [gps |-> 0, glonass |-> Num.gps, qzss |-> Num.gps + Num.glonass,
   beidou |-> Num.gps + Num.glonass + Num.qzss,
   galileo |-> SV_ALL_NUM_MIN - Num.galileo, navic |-> SV_ALL_NUM_MIN]
svid_idx ==
  [gps |-> 0, glonass |-> Num.gps, beidou |-> Num.gps + Num.glonass,
   galileo |-> Num.gps + Num.glonass + Num.beidou,
   qzss |-> Num.gps + Num.glonass + Num.beidou + Num.galileo, navic |-> SV_ALL_NUM_MIN]
svid_min == [c \in Constellations |-> IF c = "qzss" THEN 193 ELSE 1]

healthOf(c, i) ==
  CASE has("health") /\ i \in back("health").good[c] -> "good"
    [] has("health") /\ i \in back("health").bad[c] -> "bad"
    [] OTHER -> "unknown"

convertSatelliteInfo(c) ==
  [i \in 0 .. Num[c] - 1 |->
     [svid |-> i + svid_min[c],
      nav |-> IF has("nav") THEN back("nav")[svid_idx[c] + i] ELSE Unknown,
      health |-> healthOf(c, i),
      predicted |-> has("xtra") /\ i \in back("xtra").valid[c],
      predictionAge |-> IF has("xtra") THEN back("xtra").age[c] ELSE 0]]

\* Mutant: the best position comes first.
BestFirst ==
  IF has("best") /\ back("best").valid THEN "best"
  ELSE IF has("location") /\ back("location").valid THEN "location" ELSE "none"
positionFrom ==
  IF has("location") /\ back("location").valid THEN "location"
  ELSE IF has("best") /\ back("best").valid THEN "best" ELSE "none"

uncertainty(t) ==
  IF t.uncNs > 0 THEN t.leapUnc * 1000 + t.uncNs ELSE (t.unc + t.leapUnc) * 1000

getDebugReport ==
  [position |->
     IF positionFrom = "none" THEN [valid |-> FALSE]
     ELSE [valid |-> TRUE, at |-> back(positionFrom).at,
           accuracy |-> IF positionFrom = "best" THEN back("best").hepe
                        ELSE back("location").accuracy,
           reported |-> Last(mCache[positionFrom]).reported],
   time |->
     IF has("time") /\ back("time").valid
     THEN [valid |-> TRUE, estimate |-> back("time").tow - back("time").leap,
           unc |-> uncertainty(back("time")), freqUnc |-> back("time").freqUnc]
     ELSE [valid |-> FALSE],
   satellites |-> [c \in Constellations |-> convertSatelliteInfo(c)]]

\* What the service makes of it: nothing is told as surer than it may be.
MaxAccuracy == 20000000
MaxUnc == 1000000000  \* for the five years of the code, which are beyond TLC's numbers
MaxFreqUnc == 200000
bounded(x, max) == IF x <= 0 \/ x > max THEN max ELSE x
boundedTime(x) ==
  IF x <= 0 /\ Version # "1.0" THEN 999 ELSE bounded(x, MaxUnc)
Year2017 == -1  \* the earliest that is shown
shownAs(c) == IF c # "navic" THEN c ELSE IF Version = "2.0" THEN "irnss" ELSE "unknown"

getDebugData ==
  LET r == getDebugReport
  IN [position |-> IF r.position.valid
                   THEN [r.position EXCEPT !.accuracy = bounded(@, MaxAccuracy)]
                   ELSE [valid |-> FALSE, accuracy |-> MaxAccuracy],
      time |-> IF r.time.valid
               THEN [estimate |-> r.time.estimate, unc |-> boundedTime(r.time.unc),
                     freqUnc |-> bounded(r.time.freqUnc, MaxFreqUnc)]
               ELSE [estimate |-> Year2017, unc |-> boundedTime(0), freqUnc |-> MaxFreqUnc],
      satellites |-> UNION {{s @@ [constellation |-> shownAs(c)] :
                               s \in {r.satellites[c][i] : i \in DOMAIN r.satellites[c]}} :
                                 c \in Constellations}]

\* The last PQWM1 is as old as the measurement.
abs(x) == IF x < 0 THEN -x ELSE x
fresh(ms) == has("rf") /\ has("time") /\ abs(ms - back("time").tow) < 2000
None == -1

agcSource(c) == IF c = "qzss" THEN "gps" ELSE c
getAgcInformation(c, ms) ==
  IF fresh(ms) /\ agcSource(c) \in DOMAIN back("rf").agc
  THEN back("rf").agc[agcSource(c)] ELSE None

\* Of the signals only one of each constellation is given; a gain that the
\* engine could not measure has a value of its own.
GNSS_INVALID_JAMMER_IND == 2147483647
dataSource(c) == IF c \in {"qzss", "sbas"} THEN "gps" ELSE c
measured(gains, c) ==
  IF dataSource(c) \in DOMAIN gains /\ gains[dataSource(c)] # GNSS_INVALID_JAMMER_IND
  THEN gains[dataSource(c)] ELSE None
getDataInformation(c, ms) ==
  IF fresh(ms)
  THEN [agc |-> measured(back("rf").agc, c), jammer |-> measured(back("rf").jammer, c)]
  ELSE [agc |-> None, jammer |-> None]

-----------------------------------------------------------------------------
\* What was heard, told by the sentences themselves.
said(talker) == heard[talker][1].value
Has(talker) ==
  heard[talker] # <<>> /\ (talker = "PQWM1" => heard[talker][1].fields >= Needed.PQWM1)

\* The engine writes its table constellation by constellation.
TableOrder == <<"gps", "glonass", "beidou", "galileo", "qzss", "navic">>
entry(c, i) ==
  LET before == {d \in Constellations : \E j, k \in 1 .. 6 :
                   j < k /\ TableOrder[j] = d /\ TableOrder[k] = c}
      at == MapThenSumSet(LAMBDA d : Num[d], before) + i + 1
  IN IF Has("PQWP7") /\ at <= Len(said("PQWP7")) THEN said("PQWP7")[at] ELSE Unknown

toldHealth(c, i) ==
  IF ~Has("PQWP5") \/ c = "navic" THEN "unknown"
  ELSE IF i \in said("PQWP5").good[c] THEN "good"
  ELSE IF i \in said("PQWP5").bad[c] THEN "bad" ELSE "unknown"

TellsSatellites ==
  getDebugData.satellites =
    UNION {{[constellation |-> shownAs(c), svid |-> i + svid_min[c], nav |-> entry(c, i),
             health |-> toldHealth(c, i),
             predicted |-> Has("PQWP3") /\ c # "navic" /\ i \in said("PQWP3").valid[c],
             predictionAge |-> IF Has("PQWP3") THEN said("PQWP3").age[c] ELSE 0] :
               i \in 0 .. Num[c] - 1} : c \in Constellations}

TellsPosition ==
  LET p == getDebugData.position
  IN IF Has("location")
     THEN p.valid /\ p.at = heard["location"][1].at /\ p.reported = heard["location"][2]
     ELSE IF Has("PQWP2")
     THEN p.valid /\ p.at = said("PQWP2").at /\ p.reported = heard["PQWP2"][2]
     ELSE ~p.valid

TellsTime ==
  LET m1 == said("PQWM1")
      ns == IF heard["PQWM1"][1].fields > 31 THEN m1.uncNs ELSE 0
      time == getDebugData.time
  IN /\ time.unc \in 1 .. MaxUnc
     /\ IF Has("PQWM1") /\ m1.valid
        THEN /\ time.estimate = m1.tow - m1.leap
             /\ time.unc = m1.leapUnc * 1000 + IF ns > 0 THEN ns ELSE m1.unc * 1000
        ELSE time.estimate = Year2017

TellsGain ==
  \A ms \in Measured :
    LET known == Has("PQWM1") /\ abs(ms - said("PQWM1").tow) < 2000
    IN \A c \in {"gps", "glonass", "beidou", "galileo", "qzss", "navic", "sbas"} :
         /\ getAgcInformation(c, ms) =
              IF ~known \/ c \in {"navic", "sbas"} THEN None
              ELSE said("PQWM1").agc[agcSource(c)]
         /\ getDataInformation(c, ms) =
              IF ~known THEN [agc |-> None, jammer |-> None]
              ELSE [agc |-> measured(said("PQWM1").agc, c),
                    jammer |-> measured(said("PQWM1").jammer, c)]

\* Whatever was heard, repeated, forgotten or pushed out of the lists meanwhile,
\* the debug report and the gains that measurements get tell what the engine
\* said last, and when (setIteminReport, convertSatelliteInfo, getAgcInformation).
TellsTheLatest == TellsSatellites /\ TellsPosition /\ TellsTime /\ TellsGain

\* Each list is of some items, none of which is younger than the next.
TypeOK ==
  /\ now \in 1 .. MaxNow /\ DOMAIN mCache = Report
  /\ \A k \in Report :
       /\ Len(mCache[k]) <= MaxItem
       /\ \A i, j \in DOMAIN mCache[k] : i < j => mCache[k][i].reported < mCache[k][j].reported
=============================================================================
