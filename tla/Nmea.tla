-------------------------------- MODULE Nmea --------------------------------
(***************************************************************************)
(* The NMEA sentences that the adapter makes of a report when it provides  *)
(* them itself (src/gps/utils/loc_nmea.cpp, called by reportPosition and   *)
(* reportSv of src/gps/gnss/GnssAdapter.cpp): GSV for the satellites in    *)
(* view; GSA, VTG, DTM, RMC, GNS and GGA for a position.                   *)
(*                                                                         *)
(* A sentence is a record of what the properties tell apart: its talker,   *)
(* its place among the sentences of its group, the satellites it lists and *)
(* the modes.  Coordinates, speeds, precisions and checksums, and the      *)
(* buffers they are printed to, are left out: each is a field that is      *)
(* there or empty.  The signals of a constellation are the two that        *)
(* sentences are made for, "first" and "second"; "default", which is taken *)
(* for the first; "alias", which has the second's id (the pilot of B2a);   *)
(* and "other".                                                            *)
(*                                                                         *)
(* Time is in milliseconds from the GPS time at which a leap second        *)
(* begins, which is midnight UTC by the seconds counted before it.         *)
(***************************************************************************)
EXTENDS Integers, Sequences, FiniteSets, SequencesExt, FiniteSetsExt

CONSTANTS Skies,      \* the reports of satellites in view: sequences of satellites
          Fixes,      \* what positions may have used and have been computed with
          Times,      \* the GPS times of positions
          Datum,      \* DATUM_TYPE: "WGS84" or "PZ90"
          LeapKnown   \* BOOLEAN: mLocSystemInfo has the change of leap seconds

VARIABLES
  svReport,    \* the satellites last reported, or <<>>
  gsv,         \* the sentences made of them
  fix,         \* the position last reported: [fix, time, generate], or None
  said,        \* the sentences made of it
  shown,       \* the day and the millisecond of it that they show
  shownBefore  \* those of the position before, or <<0, 0>>

vars == <<svReport, gsv, fix, said, shown, shownBefore>>

None == [generate |-> FALSE]
Init ==
  /\ svReport = <<>> /\ gsv = <<>> /\ fix = None /\ said = <<>>
  /\ shown = <<0, 0>> /\ shownBefore = <<0, 0>>

-----------------------------------------------------------------------------
\* The satellites in view.
signalId(signal) ==
  CASE signal \in {"first", "default"} -> "first"
    [] signal \in {"second", "alias"} -> "second"
    [] OTHER -> "other"

\* Mutant: only the signals that are known are counted as the first.
CountedByFirst(c, v) == v.type = c /\ v.signal = "first"
countedFirst(c, v) == v.type = c /\ (v.signal # "second" \/ c = "navic")

\* sv_cache_info: what is not the second signal counts as the first.
svCount(c, signal, svs) ==
  Len(SelectSeq(svs, LAMBDA v : IF signal = "first" THEN countedFirst(c, v)
                                ELSE v.type = c /\ ~countedFirst(c, v)))

\* Mutant: a last sentence that is not full is left out.
FullSentences(n) == n \div 4
sentenceCount(n) == n \div 4 + (IF n % 4 # 0 THEN 1 ELSE 0)

\* The sentences go on through the report from where the one before ended.
Listed(c, signal, svs, k) ==
  LET matching == SelectSeq(svs, LAMBDA v : v.type = c /\ signalId(v.signal) = signal)
  IN SubSeq(matching, 4 * k - 3, Min({4 * k, Len(matching)}))

loc_nmea_generate_GSV(c, signal, svs) ==
  LET n == svCount(c, signal, svs)
  IN [k \in 1 .. sentenceCount(n) |->
        [type |-> c, signal |-> signal, of |-> sentenceCount(n), number |-> k, count |-> n,
         svs |-> Listed(c, signal, svs, k)]]

Groups == <<<<"gps", "first">>, <<"gps", "second">>, <<"glonass", "first">>,
            <<"glonass", "second">>, <<"galileo", "first">>, <<"galileo", "second">>,
            <<"qzss", "first">>, <<"qzss", "second">>, <<"beidou", "first">>,
            <<"beidou", "second">>, <<"navic", "first">>>>

loc_nmea_generate_sv(svs) ==
  FlattenSeq([i \in DOMAIN Groups |-> loc_nmea_generate_GSV(Groups[i][1], Groups[i][2], svs)])

reportSv(svs) ==
  /\ svReport = <<>> /\ svReport' = svs
  /\ gsv' = loc_nmea_generate_sv(svs)
  /\ UNCHANGED <<fix, said, shown, shownBefore>>

-----------------------------------------------------------------------------
\* A position.  f.used gives the ids used of each constellation.
Constellations == <<"gps", "glonass", "galileo", "beidou", "qzss", "navic">>
WithGsa == <<"gps", "glonass", "galileo", "beidou", "qzss">>
Used(f) == {c \in Range(Constellations) : f.used[c] # {}}

\* loc_nmea_sv_meta_init with needCombine.
\* Mutant: only the two first constellations are looked at.
CombinesTwo(f, c) == IF {"gps", "glonass"} \subseteq Used(f) THEN "GN" ELSE c
metaTalker(f, c) == IF Cardinality(Used(f)) > 1 THEN "GN" ELSE c

\* get_sv_count_from_mask, of all constellations.
Total(f, cs) == FoldFunction(LAMBDA a, b : a + b, 0, [c \in cs |-> Cardinality(f.used[c])])
totalSvUsedCount(f) == Total(f, Range(Constellations))

fixType(f) ==
  LET n == totalSvUsedCount(f) IN IF n = 0 THEN 1 ELSE IF n <= 3 THEN 2 ELSE 3

\* The first twelve.
loc_nmea_generate_GSA(f, c) ==
  IF f.used[c] = {} THEN <<>>
  ELSE <<[name |-> "GSA", talker |-> metaTalker(f, c), of |-> c, fixType |-> fixType(f),
          svs |-> {i \in f.used[c] : Cardinality({j \in f.used[c] : j < i}) < 12}]>>

\* The talker of the other sentences is that of the last GSA.
talker(f) ==
  LET with == SelectSeq(WithGsa, LAMBDA c : f.used[c] # {})
  IN IF with = <<>> THEN "gps" ELSE metaTalker(f, Last(with))

svUsedCount(f) == Total(f, Range(WithGsa))

\* The first of these that a position has decides: the quality for GGA, the modes
\* for RMC and VTG.
loc_nmea_get_fix_quality(f) ==
  LET q(gga, rmc, vtg) == [gga |-> gga, rmc |-> rmc, vtg |-> vtg]
  IN CASE ~f.latLong -> q("0", "N", "N")
       [] f.latLong /\ f.correction = "PPP" -> q("2", "P", "P")
       [] f.latLong /\ f.correction = "RTK fixed" -> q("4", "R", "D")
       [] f.latLong /\ f.correction = "RTK" -> q("5", "F", "D")
       [] f.latLong /\ f.correction \in {"DGNSS", "SBAS"} -> q("2", "D", "D")
       [] f.latLong /\ f.correction = "none" /\ "satellite" \in f.tech -> q("1", "A", "A")
       [] f.latLong /\ f.correction = "none" /\ f.tech = {"sensors"} -> q("6", "E", "E")
       [] OTHER -> q("0", "N", "N")

\* The mode of each constellation, those at the end without satellites left out.
modeOf(f, c) ==
  IF f.used[c] = {} THEN "N"
  ELSE IF c = "gps" /\ f.correction = "SBAS" THEN "D"
  ELSE IF f.tech = {"sensors"} THEN "E" ELSE "A"
\* Mutant: at the first one without satellites the modes end.
UpToFirstGap(f) ==
  LET gaps == {i \in 2 .. 6 : modeOf(f, Constellations[i]) = "N"}
  IN [i \in 1 .. IF gaps = {} THEN 6 ELSE Min(gaps) - 1 |-> modeOf(f, Constellations[i])]
modeIndicator(f) ==
  LET last == Max({1} \cup {i \in 1 .. 6 : modeOf(f, Constellations[i]) # "N"})
  IN [i \in 1 .. last |-> modeOf(f, Constellations[i])]

-----------------------------------------------------------------------------
\* The time.  timestamp is the UTC of the position by the seconds that count at
\* its time, as the modem reports it.
Midnight == 86400000
timestamp(t) == IF t < 0 THEN t ELSE t - 1000

\* Mutant: the extra second is over one millisecond late.
TooLong(t) == LeapKnown /\ t >= 0 /\ t <= 1000
inLsTransition(t) == LeapKnown /\ t >= 0 /\ t < 1000

\* Mutant: the date is advanced during the extra second.
NextDay(t) == IF inLsTransition(t) THEN <<1, Midnight + (t % 1000)>>
              ELSE <<IF timestamp(t) < 0 THEN 0 ELSE 1, timestamp(t) % Midnight>>
\* gmtime: the day before midnight is 0.
utcShown(t) ==
  IF inLsTransition(t) THEN <<0, Midnight + (t % 1000)>>
  ELSE <<IF timestamp(t) < 0 THEN 0 ELSE 1, timestamp(t) % Midnight>>

-----------------------------------------------------------------------------
VTG(f) == [name |-> "VTG", talker |-> talker(f), mode |-> loc_nmea_get_fix_quality(f).vtg]
\* The two datums: the one the position is given in and the one it is related to.
DTM(f) == [name |-> "DTM", talker |-> talker(f), ref |-> Datum,
           local |-> IF Datum = "WGS84" THEN "PZ90" ELSE "WGS84"]
RMC(f, t) == [name |-> "RMC", talker |-> talker(f), latLong |-> f.latLong, time |-> utcShown(t),
              mode |-> loc_nmea_get_fix_quality(f).rmc]
GNS(f, t) == [name |-> "GNS", talker |-> talker(f), latLong |-> f.latLong, time |-> utcShown(t),
              modes |-> modeIndicator(f), count |-> svUsedCount(f)]
ggaCount(f) == Min({svUsedCount(f), 12})
GGA(f, t) == [name |-> "GGA", talker |-> talker(f), latLong |-> f.latLong, time |-> utcShown(t),
              quality |-> loc_nmea_get_fix_quality(f).gga, count |-> ggaCount(f)]

Blank == [i \in 1 .. 6 |->
            [name |-> <<"GSA", "VTG", "DTM", "RMC", "GNS", "GGA">>[i], talker |-> "gps"]]

\* With PZ-90 each of the sentences with coordinates comes after a DTM.
loc_nmea_generate_pos(f, t) ==
  LET again == IF Datum = "PZ90" THEN <<DTM(f)>> ELSE <<>>
  IN FlattenSeq([i \in DOMAIN WithGsa |-> loc_nmea_generate_GSA(f, WithGsa[i])])
     \o <<VTG(f), DTM(f), RMC(f, t)>> \o again \o <<GNS(f, t)>> \o again \o <<GGA(f, t)>>

\* A position that goes to no GNSS client, has failed or is blank has blank
\* sentences.
reportPosition(f, t, generate) ==
  /\ fix # None => fix.time < t
  /\ fix' = [fix |-> f, time |-> t, generate |-> generate]
  /\ said' = IF generate THEN loc_nmea_generate_pos(f, t) ELSE Blank
  /\ shown' = utcShown(t) /\ shownBefore' = shown
  /\ UNCHANGED <<svReport, gsv>>

Next ==
  \/ \E svs \in Skies : reportSv(svs)
  \/ \E f \in Fixes, t \in Times, generate \in BOOLEAN : reportPosition(f, t, generate)

Spec == Init /\ [][Next]_vars

-----------------------------------------------------------------------------
GroupOf(v) == <<v.type, signalId(v.signal)>>
Of(group) == SelectSeq(gsv, LAMBDA s : <<s.type, s.signal>> = group)
Lists(group) == FlattenSeq([i \in DOMAIN Of(group) |-> Of(group)[i].svs])

\* Each group of GSV sentences lists the satellites reported with its signal, all
\* of them, once and in order, is numbered through, and gives as their number how
\* many it lists (loc_nmea_generate_sv, loc_nmea_generate_GSV).
GsvTellsTheReport ==
  \A group \in Range(Groups) :
    /\ Lists(group) = SelectSeq(svReport, LAMBDA v : GroupOf(v) = group)
    /\ \A i \in DOMAIN Of(group) :
         LET s == Of(group)[i]
         IN /\ s.number = i /\ s.of = Len(Of(group)) /\ s.count = Len(Lists(group))
            /\ s.svs # <<>>

Named(name) == {s \in Range(said) : s.name = name}

\* The sentences of a position agree: one talker, which is GN exactly for several
\* constellations; the satellites GSA lists are those used, which GNS counts,
\* and GGA up to twelve; GNS has a mode for each constellation with a GSA
\* (loc_nmea_generate_pos).
SentencesAgree ==
  (fix # None /\ fix.generate) =>
    LET f == fix.fix
    IN /\ \A s, r \in Range(said) : s.talker = r.talker
       /\ (Used(f) \ {"navic"} # {}) =>
            \A s \in Range(said) : s.talker = "GN" <=> Cardinality(Used(f)) > 1
       /\ \A s, r \in Named("GSA") : s.fixType = r.fixType
       /\ \A s \in Named("GNS") :
            /\ (\A r \in Named("GSA") : Cardinality(r.svs) < 12) =>
                 s.count = Cardinality(UNION {{<<r.of, i>> : i \in r.svs} : r \in Named("GSA")})
            /\ \A i \in 1 .. 5 : (\E r \in Named("GSA") : r.of = WithGsa[i])
                                   <=> (i <= Len(s.modes) /\ s.modes[i] # "N")
       /\ \A s \in Named("GGA") : s.count <= 12

\* The time shown goes on through a leap second, whose own second is told from
\* those before and after (get_utctime_with_leapsecond_transition).
ShownTimeGoesOn ==
  (fix # None /\ LeapKnown) =>
    \/ shownBefore[1] < shown[1]
    \/ shownBefore[1] = shown[1] /\ shownBefore[2] < shown[2]
=============================================================================
