-------------------------------- MODULE Doze --------------------------------
(***************************************************************************)
(* The doze gestures: DozeService follows the display and registers the    *)
(* tilt and proximity sensors while it is off, according to the settings;  *)
(* each sensor registers on an executor of its own. The main thread of the *)
(* application takes broadcasts and service calls in order (mainQ).        *)
(***************************************************************************)
EXTENDS Integers, Sequences

CONSTANTS
  MaxSteps,   \* bound: the user's doings
  Prompt,     \* TRUE: the user changes a setting only when mainQ is empty, and
              \* turns the display off only after the service has been called
              \* (the process is killed only when mainQ is empty)
  MayBeKilled \* TRUE: the process may be killed, and the service restarted

Gesture == {"pickUp", "handwave", "pocket"}
Sensor == {"tilt", "proximity"}

VARIABLES
  display,     \* "on" or "off"
  settings,    \* the settings that are on, "doze" among them
  mainQ,       \* the main thread: "on", "off", "check", "start", "stop"
  running,     \* DozeService runs
  executor,    \* tasks of each sensor's executor, "enable" and "disable"
  registered,  \* sensors with a listener registered
  killed,      \* ... and the display has not turned off since
  steps

vars == <<display, settings, mainQ, running, executor, registered, killed, steps>>

NoTasks == [s \in Sensor |-> <<>>]

Init ==
  /\ display = "on" /\ settings \in SUBSET (Gesture \cup {"doze"})
  /\ mainQ = <<"check">> /\ running = FALSE
  /\ executor = NoTasks /\ registered = {} /\ killed = FALSE /\ steps = 0

-----------------------------------------------------------------------------

isPickUpEnabled == "pickUp" \in settings
sensorsEnabled == settings \cap Gesture # {}
isProximityWanted == {"handwave", "pocket"} \cap settings # {}
gestureSensors == {s \in Sensor : IF s = "tilt" THEN isPickUpEnabled ELSE isProximityWanted}

\* enable() and disable() of a sensor only submit the work.
submit(S, task) == executor' = [s \in Sensor |-> IF s \in S THEN Append(executor[s], task)
                                                 ELSE executor[s]]

unchangedBySystem == UNCHANGED <<display, settings, registered, killed, steps>>
next == mainQ' = Tail(mainQ)
msgIs(m) == mainQ # <<>> /\ Head(mainQ) = m

\* Mutant: the tilt sensor is not turned off.
TiltStaysOn ==
  /\ msgIs("on") /\ next
  /\ IF running THEN submit(gestureSensors \ {"tilt"}, "disable") ELSE UNCHANGED executor
  /\ UNCHANGED running /\ unchangedBySystem
onDisplayOn ==
  /\ msgIs("on") /\ next
  /\ IF running THEN submit(gestureSensors, "disable") ELSE UNCHANGED executor
  /\ UNCHANGED running /\ unchangedBySystem

\* Mutant: the proximity sensor is for one of its gestures only.
HandwaveOnly ==
  /\ msgIs("off") /\ next
  /\ IF running
     THEN submit({s \in gestureSensors : s = "proximity" => "handwave" \in settings}, "enable")
     ELSE UNCHANGED executor
  /\ UNCHANGED running /\ unchangedBySystem
onDisplayOff ==
  /\ msgIs("off") /\ next
  /\ IF running THEN submit(gestureSensors, "enable") ELSE UNCHANGED executor
  /\ UNCHANGED running /\ unchangedBySystem

\* checkDozeService() asks the system to start or to stop the service.
checkDozeService ==
  /\ msgIs("check")
  /\ mainQ' = Append(Tail(mainQ), IF "doze" \in settings /\ sensorsEnabled
                                  THEN "start" ELSE "stop")
  /\ UNCHANGED <<running, executor>> /\ unchangedBySystem

\* A service that runs is not created again.
onCreate ==
  /\ msgIs("start") /\ next /\ running' = TRUE
  /\ UNCHANGED executor /\ unchangedBySystem

\* onDestroy() disables both; the executors of the old sensors go on.
onDestroy ==
  /\ msgIs("stop") /\ next /\ running' = FALSE
  /\ IF running THEN submit(Sensor, "disable") ELSE UNCHANGED executor
  /\ unchangedBySystem

RunTask(s) ==
  /\ executor[s] # <<>> /\ executor' = [executor EXCEPT ![s] = Tail(@)]
  /\ registered' = IF Head(executor[s]) = "enable" THEN registered \cup {s}
                   ELSE registered \ {s}
  /\ UNCHANGED <<display, settings, mainQ, running, killed, steps>>

-----------------------------------------------------------------------------
(* The user and the system.                                                *)

step == steps < MaxSteps /\ steps' = steps + 1

DisplayTurns ==
  /\ step
  /\ Prompt => \A i \in 1 .. Len(mainQ) : mainQ[i] \in {"on", "off"}
  /\ display' = IF display = "on" THEN "off" ELSE "on"
  /\ mainQ' = Append(mainQ, display')
  /\ killed' = (killed /\ display' = "on")
  /\ UNCHANGED <<settings, running, executor, registered>>

\* onPreferenceChange() posts the check, and the preference is saved first;
\* onCheckedChanged() of the main switch saves and checks.
SettingChanges(g) ==
  /\ step /\ display = "on" /\ (Prompt => mainQ = <<>>)
  /\ settings' = IF g \in settings THEN settings \ {g} ELSE settings \cup {g}
  /\ mainQ' = Append(mainQ, "check")
  /\ UNCHANGED <<display, running, executor, registered, killed>>

\* START_STICKY: the system creates the service again.
Killed ==
  /\ MayBeKilled /\ step /\ (Prompt => mainQ = <<>>)
  /\ killed' = TRUE
  /\ executor' = NoTasks /\ registered' = {}
  /\ mainQ' = IF running THEN <<"start">> ELSE <<>>
  /\ running' = FALSE
  /\ UNCHANGED <<display, settings>>

Next ==
  \/ onDisplayOn \/ onDisplayOff \/ checkDozeService \/ onCreate \/ onDestroy
  \/ \E s \in Sensor : RunTask(s)
  \/ DisplayTurns
  \/ \E g \in Gesture \cup {"doze"} : SettingChanges(g)
  \/ Killed

Spec == Init /\ [][Next]_vars

-----------------------------------------------------------------------------
(* Properties.                                                             *)

AtRest == mainQ = <<>> /\ executor = NoTasks

\* When all is handled, the sensors have a listener exactly while the display
\* is off, doze is on and a gesture of theirs is: none drains the battery
\* behind a lit display, and none is missing behind a dark one, however
\* displays, settings and the sensors' executors interleave (onDisplayOn,
\* onDisplayOff, checkDozeService, onDestroy). A service that was killed has
\* none until the display next turns off.
SensorsFollow ==
  AtRest =>
    LET due == IF display = "off" /\ "doze" \in settings THEN gestureSensors ELSE {}
    IN registered \subseteq due /\ (killed \/ registered = due)
=============================================================================
