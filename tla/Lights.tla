------------------------------- MODULE Lights -------------------------------
(***************************************************************************)
(* The lights service: three logical lights (battery, notifications and    *)
(* attention) share one breath light of two colours. active_status holds   *)
(* the sources that are on; the driver's files select a colour and then    *)
(* set the mode of what is selected. One binder thread serves all calls.   *)
(***************************************************************************)
CONSTANTS
  Light,      \* the lights the framework uses
  MaxCalls    \* bound: calls of setLightState

LOCAL INSTANCE Naturals

Colour == {"red", "green"}
Status == {"charging", "low", "full", "free", "unknown"}

VARIABLES
  active_status, \* sources that are on: "battery" and "notification"
  selected,      \* NUBIA_LED_COLOR, external
  mode,          \* NUBIA_LED_MODE of each colour, external
  asked,         \* lights whose last state is lit
  battery,       \* what getBatteryStatus() finds
  read,          \* what it last found when the battery was shown
  calls

vars == <<active_status, selected, mode, asked, battery, read, calls>>

Init ==
  /\ active_status = {} /\ selected = "none" /\ mode = [c \in Colour |-> "off"]
  /\ asked = {} /\ battery \in Status /\ read = "unknown" /\ calls = 0

\* Writing a mode sets the colour that is selected.
show(c, m) ==
  /\ selected' = c
  /\ mode' = IF c \in Colour THEN [mode EXCEPT ![c] = m] ELSE mode

setBatteryBreathLight ==
  /\ read' = battery
  /\ CASE battery = "charging" -> show("red", "constant")
       [] battery = "low"      -> show("red", "blink")
       [] battery = "full"     -> show("green", "constant")
       [] battery = "free"     -> show(selected, "off")
       [] battery = "unknown"  -> UNCHANGED <<selected, mode>>

setNotificationBreathLight == show("green", "blink") /\ UNCHANGED read

\* Both colours are turned off, and then none is selected.
closeAll ==
  /\ mode' = [c \in Colour |-> "off"] /\ selected' = "none" /\ UNCHANGED read

\* ATTENTION and NOTIFICATIONS are one source.
source(light) == IF light = "battery" THEN "battery" ELSE "notification"

\* Mutant: the battery is not put back behind a notification.
BatteryIsLost(light, lit) ==
  LET active == IF lit THEN active_status \cup {source(light)}
                ELSE active_status \ {source(light)}
  IN /\ active_status' = IF "notification" \in active THEN {"notification"} ELSE active
     /\ IF active = {} THEN closeAll
        ELSE IF "notification" \in active THEN setNotificationBreathLight
        ELSE setBatteryBreathLight
\* The notification is the primary event: the battery waits behind it.
setBreathLightLocked(light, lit) ==
  LET active == IF lit THEN active_status \cup {source(light)}
                ELSE active_status \ {source(light)}
  IN /\ active_status' = active
     /\ IF active = {} THEN closeAll
        ELSE IF "notification" \in active THEN setNotificationBreathLight
        ELSE setBatteryBreathLight

setLightState(light, lit) ==
  /\ calls < MaxCalls /\ calls' = calls + 1
  /\ asked' = IF lit THEN asked \cup {light} ELSE asked \ {light}
  /\ setBreathLightLocked(light, lit)
  /\ UNCHANGED battery

BatteryChanges(s) ==
  /\ s # battery /\ battery' = s
  /\ UNCHANGED <<active_status, selected, mode, asked, read, calls>>

Next ==
  \/ \E l \in Light, lit \in BOOLEAN : setLightState(l, lit)
  \/ \E s \in Status : BatteryChanges(s)

Spec == Init /\ [][Next]_vars

-----------------------------------------------------------------------------
\* The light shows the most important of what was asked for after any series
\* of calls: a notification blinks green whatever the battery does, the battery
\* is shown again when the notification has gone, and nothing is lit when
\* nothing is asked for (setBreathLightLocked).
ShowsWhatIsAsked ==
  LET notified == asked \ {"battery"} # {}
  IN /\ notified => mode["green"] = "blink"
     /\ asked = {} => \A c \in Colour : mode[c] = "off"
     /\ asked = {"battery"} =>
          CASE read = "charging" -> mode["red"] = "constant"
            [] read = "low"      -> mode["red"] = "blink"
            [] read = "full"     -> mode["green"] = "constant"
            [] OTHER             -> TRUE
=============================================================================
