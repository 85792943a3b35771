--------------------------- MODULE MeasurementHal ---------------------------
(***************************************************************************)
(* The measurement service that the framework calls: class GnssMeasurement *)
(* (HIDL 2.0) and its MeasurementAPIClient, with the adapter that reports  *)
(* to it.  Registering a callback starts a session and close() ends it,    *)
(* as does the death of the process that registered.  Other clients'       *)
(* sessions make measurements, too, which the client gets all the same:    *)
(* it passes them on while its own mTracking is set.  The binder thread    *)
(* carries out a call step by step, the adapter's thread a report.         *)
(* Each measurement is told in the words of the callback's version.        *)
(***************************************************************************)
EXTENDS Naturals, Sequences, FiniteSets

CONSTANTS
  Interface,     \* the interface versions that are used
  OneInterface,  \* the framework uses the same version all along
  Callback,      \* callback objects
  ProcessOf,     \* the process (1 or 2) a callback object lives in
  Measured,      \* what the engine may report: sequences of measurements
  NoticesFirst,  \* a process that comes back finds the old one's death handled
  SVS_COUNT,     \* how many measurements a 1.0 callback can be given
  Expressible,   \* what the types of each version have a word for (external)
  MaxCalls,      \* bound: calls of the framework
  none

VARIABLES
  service,     \* GnssMeasurement's callbacks, one of each version
  client,      \* MeasurementAPIClient's
  linked,      \* callbacks whose death the service is told of
  mTracking,   \* MeasurementAPIClient's
  session,     \* the power mode of its session with the adapter, or none
  todo,        \* what is left of the current binder call
  posted,      \* the adapter's message with a report, or <<>>
  reporter,    \* the adapter's thread in onGnssMeasurementsCb
  uses,        \* the versions that this framework uses
  live, calls,
  current, power, heard
     \* ghosts: the callback that was accepted last and its power mode, until
     \* close; who was told what last

vars == <<service, client, linked, mTracking, session, todo, posted, reporter, uses, live, calls,
          current, power, heard>>

V == {"1.0", "1.1", "2.0"}
Nobody == [v \in V |-> none]
Idle == [at |-> "idle"]
Power == {"M1", "M2"}

Init ==
  /\ service = Nobody /\ client = Nobody /\ linked = {} /\ mTracking = FALSE
  /\ session = none /\ todo = <<>> /\ posted = <<>> /\ reporter = Idle
  /\ uses \in IF OneInterface THEN {{v} : v \in Interface} ELSE {Interface}
  /\ live = 1 /\ calls = 0 /\ current = none /\ power = none /\ heard = Idle

-----------------------------------------------------------------------------
(***************************************************************************)
(* The binder thread.                                                      *)
(***************************************************************************)
Free == todo = <<>> /\ calls < MaxCalls /\ calls' = calls + 1
        /\ (NoticesFirst => \A c \in linked : ProcessOf[c] = live)

\* 1.0 says nothing of power; full tracking is M1.
powerModes(v) == IF v = "1.0" THEN {"any"} ELSE Power

\* ERROR_ALREADY_INIT is the answer while the slot of the version is taken.
\* Mutant: it is while the client has a callback.
WhileClientHas(v) == client[v] # none
alreadySet(v) == service[v] # none

registered(r, c) == [r EXCEPT !.since = @ \cup {c}]

setCallback(v, c, p) ==
  /\ Free /\ ~alreadySet(v) /\ p \in powerModes(v)
  /\ service' = [service EXCEPT ![v] = c]
  /\ linked' = linked \cup {c}
  /\ client' = [client EXCEPT ![v] = c]
  /\ todo' = <<"track", "start">>
  /\ current' = c /\ power' = p
  /\ reporter' = IF reporter = Idle THEN Idle ELSE registered(reporter, c)
  /\ UNCHANGED <<mTracking, session, posted, uses, live, heard>>

\* Mutant: the client goes on passing measurements.
StopOnly == <<"stop">>
measurementClose == <<"untrack", "stop">>

closed ==
  /\ service' = Nobody /\ linked' = {}
  /\ todo' = measurementClose
  /\ UNCHANGED <<client, mTracking, session, posted, reporter, uses, live, heard>>

close == Free /\ closed /\ UNCHANGED <<current, power>>

\* serviceDied calls close().
serviceDied(c) ==
  /\ todo = <<>> /\ c \in linked /\ ProcessOf[c] < live
  /\ closed /\ UNCHANGED <<calls, current, power>>

\* startTracking: the base starts a session if there is none, and otherwise
\* leaves its options as they are.
step(op) ==
  /\ mTracking' = CASE op = "track" -> TRUE [] op = "untrack" -> FALSE [] OTHER -> mTracking
  /\ session' = CASE op = "start" /\ session = none -> power
                  [] op = "stop" -> none
                  [] OTHER -> session
  /\ current' = IF op = "stop" THEN none ELSE current
  /\ power' = IF op = "stop" THEN none ELSE power

ClientCall ==
  /\ todo # <<>>
  /\ step(Head(todo)) /\ todo' = Tail(todo)
  /\ UNCHANGED <<service, client, linked, posted, reporter, uses, live, calls, heard>>

Crash ==
  /\ live = 1 /\ todo = <<>> /\ live' = 2
  /\ UNCHANGED <<service, client, linked, mTracking, session, todo, posted, reporter, uses,
                 calls, current, power, heard>>

-----------------------------------------------------------------------------
(***************************************************************************)
(* What is told of a measurement.  A bit without a word is left out.       *)
(***************************************************************************)
AdrWords == {"valid", "reset", "cycle slip"}
StateWords ==
  {"code lock", "bit sync", "subframe sync", "tow decoded", "msec ambiguous", "symbol sync",
   "glo string sync", "glo tod decoded", "bds d2 bit sync", "bds d2 subframe sync",
   "gal e1bc code lock", "gal e1c 2nd code lock", "gal e1b page sync", "sbas sync"}
FlagWords == {"snr", "carrier frequency", "carrier cycles", "carrier phase",
              "carrier phase uncertainty", "automatic gain control"}
ClockFlags == {"leap second", "time uncertainty", "full bias", "bias", "bias uncertainty",
               "drift", "drift uncertainty"}
CodeTypes == {"A", "B", "C", "I", "L", "M", "P", "Q", "S", "W", "X", "Y", "Z", "N"}

convertGnssMeasurement(m) ==
  [svid |-> m.svid, flags |-> m.flags \cap FlagWords,
   constellation |-> IF m.constellation = "navic" THEN "unknown" ELSE m.constellation,
   state |-> m.state \cap StateWords, adr |-> m.adr \cap AdrWords]
convertGnssClock(flags) == flags \cap ClockFlags

\* Each later version repeats what the one before it could not say.
convertGnssMeasurement_1_1(m) ==
  [convertGnssMeasurement(m) EXCEPT !.adr = m.adr \cap (AdrWords \cup {"half cycle resolved"})]

convertGnssMeasurementsCodeType(code) == IF code \in CodeTypes THEN code ELSE "unknown"
\* Mutant: a satellite is told in the words of 1.0.
OldConstellation(m) == convertGnssMeasurement(m).constellation
constellationOf(m) == m.constellation

convertGnssMeasurement_2_0(m) ==
  LET said == convertGnssMeasurement_1_1(m)
  IN [f \in DOMAIN said \cup {"code"} |->
        CASE f = "constellation" -> constellationOf(m)
          [] f = "state" -> m.state \cap (StateWords \cup {"tow known", "glo tod known",
                                                           "2nd code lock"})
          [] f = "code" -> convertGnssMeasurementsCodeType(m.code)
          [] OTHER -> said[f]]

\* Only the array of 1.0 has a fixed length.
clamped(n) == IF n > SVS_COUNT THEN SVS_COUNT ELSE n
convertGnssData(r) ==
  [of |-> [i \in 1 .. clamped(Len(r.of)) |-> convertGnssMeasurement(r.of[i])],
   clock |-> convertGnssClock(r.clock)]
convertGnssData_1_1(r) ==
  [of |-> [i \in DOMAIN r.of |-> convertGnssMeasurement_1_1(r.of[i])],
   clock |-> convertGnssClock(r.clock)]
convertGnssData_2_0(r) ==
  [of |-> [i \in DOMAIN r.of |-> convertGnssMeasurement_2_0(r.of[i])],
   clock |-> convertGnssClock(r.clock)]

converted(v, r) ==
  CASE v = "1.0" -> convertGnssData(r) [] v = "1.1" -> convertGnssData_1_1(r)
    [] OTHER -> convertGnssData_2_0(r)

(***************************************************************************)
(* The adapter's thread: a report of the engine is posted and passed to    *)
(* every client that has ever asked for measurements.                      *)
(***************************************************************************)
reportGnssMeasurementsEvent(r) ==
  /\ posted = <<>> /\ Len(r.of) > 0
  /\ posted' = <<r>>
  /\ UNCHANGED <<service, client, linked, mTracking, session, todo, reporter, uses, live, calls,
                 current, power, heard>>

Target == IF client["2.0"] # none THEN "2.0" ELSE IF client["1.1"] # none THEN "1.1" ELSE "1.0"

\* since is a ghost: the callbacks that were registered during the report.
looks ==
  /\ reporter = Idle /\ posted # <<>>
  /\ posted' = <<>>
  /\ reporter' = IF mTracking
                 THEN [at |-> "tracking", what |-> posted[1], since |-> {current} \ {none}]
                 ELSE Idle
  /\ heard' = heard

copies ==
  /\ reporter.at = "tracking"
  /\ reporter' = IF client[Target] = none THEN Idle
                 ELSE [at |-> "telling", what |-> reporter.what, since |-> reporter.since,
                       to |-> client[Target], version |-> Target]
  /\ UNCHANGED <<posted, heard>>

tells ==
  /\ reporter.at = "telling"
  /\ heard' = [reporter EXCEPT !.what = [said |-> converted(reporter.version, @), of |-> @]]
  /\ reporter' = Idle
  /\ UNCHANGED posted

onGnssMeasurementsCb ==
  /\ looks \/ copies \/ tells
  /\ UNCHANGED <<service, client, linked, mTracking, session, todo, uses, live, calls, current,
                 power>>

Registers ==
  \E c \in {d \in Callback : ProcessOf[d] = live}, v \in uses, p \in Power \cup {"any"} :
    setCallback(v, c, p)

Next ==
  \/ Registers \/ close \/ Crash \/ ClientCall \/ onGnssMeasurementsCb
  \/ \E c \in Callback : serviceDied(c)
  \/ \E r \in Measured : reportGnssMeasurementsEvent(r)

Spec == Init /\ [][Next]_vars

-----------------------------------------------------------------------------
TypeOK ==
  /\ linked \subseteq Callback /\ live \in 1 .. 2 /\ calls \in 0 .. MaxCalls
  /\ session \in Power \cup {"any", none} /\ Len(posted) <= 1
  /\ \A v \in V : service[v] \in Callback \cup {none} /\ client[v] \in Callback \cup {none}

AtRest == todo = <<>> /\ \A c \in linked : ProcessOf[c] = live

\* Between calls there is a session exactly while the living process has a
\* callback registered, in the power mode it asked for, and measurements go
\* to that callback or nowhere: a process that crashed or closed leaves nothing
\* behind, and then any callback is accepted.
SessionIsTheLivings ==
  AtRest =>
    /\ (current = none \/ ProcessOf[current] = live)
    /\ session = power /\ mTracking = (current # none)
    /\ IF current = none THEN \A v \in V : ~alreadySet(v) ELSE client[Target] = current

\* A callback is told measurements only if it was registered at some time
\* during the report: none that starts after close() has returned reaches it.
ToldWhileRegistered == heard # Idle => heard.to \in heard.since

\* Everything that the types of a version have a word for is told.
ToldAsMeasured ==
  heard # Idle =>
    LET e == Expressible[heard.version]
        n == Len(heard.what.said.of)
    IN /\ n = Len(heard.what.of.of) \/ n = e.max
       /\ \A i \in 1 .. n :
            LET m == heard.what.of.of[i]
                said == heard.what.said.of[i]
            IN /\ said.state = m.state \cap e.state /\ said.adr = m.adr \cap e.adr
               /\ said.constellation = IF m.constellation \in e.constellations
                                       THEN m.constellation ELSE "unknown"
               /\ "code" \in DOMAIN said =>
                    said.code = IF m.code = "other" THEN "unknown" ELSE m.code
=============================================================================
