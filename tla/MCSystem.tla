------------------------------ MODULE MCSystem ------------------------------
(***************************************************************************)
(* What follows the state of the phone, for TLC, one part at a time (the   *)
(* parts share no state): the data item observer, with two items and two   *)
(* clients that do not update ("observer"), or with one item and a client  *)
(* that does ("updates"); connectivity as the XTRA daemon is told of it;   *)
(* the battery listener; the doze gestures; the lights; and the            *)
(* recovery's search for the modem's version, in all words of two letters  *)
(* for those that do not end as they begin.                                *)
(***************************************************************************)
EXTENDS OsObserver, TLC

CONSTANTS Part,
          c1, c2, network, tac, v1, v2, any,         \* model values
          Network, NewestFirst, MaxHandles, MaxEvents, MaxStarts, None,
          BatteryStatus, MaxChanges, MaxSteps, Light, MaxCalls, MaxPattern, MaxImage
VARIABLES part,
          networks, fields, latest, xtra, xtraQ, wire, daemon, events, starts,
          mStatus, mDone, local, pc, notified, told, first, health, registered,
          handler, battery, changes,
          display, settings, mainQ, running, executor, listening, killed, steps,
          active_status, selected, mode, asked, charge, read, calls,
          pattern, image, place, found, package, installed

Two == {c1, c2}
Items == {network, tac}
Values == {v1, v2}
Updating == {c2}
Requested == {tac}
PushedItems == {network}
WifiAndMobile == <<"wifi", "mobile">>
Symm == Permutations(Values)

Xtra == INSTANCE Connectivity WITH
    TypeOf <- WifiAndMobile, Ril <- "2.0", Field <- {"lock"}, Value <- {"v"}, msgQ <- xtraQ
Battery == INSTANCE BatteryListener WITH ThreadFirst <- TRUE, ServiceDies <- TRUE
Gestures == INSTANCE Doze WITH Prompt <- TRUE, MayBeKilled <- TRUE, registered <- listening
Breath == INSTANCE Lights WITH battery <- charge
words(n) == UNION {[1 .. k -> {0, 1}] : k \in 1 .. n}
Updater == INSTANCE ModemVersion WITH
    Patterns <- {w \in words(MaxPattern) :
                   \A k \in 1 .. Len(w) - 1 : SubSeq(w, 1, k) # SubSeq(w, Len(w) - k + 1, Len(w))},
    Images <- words(MaxImage), Requirement <- {0, 1, any, None}, Any <- any, i <- place

xtraVars == <<networks, fields, latest, xtra, xtraQ, wire, daemon, events, starts>>
batteryVars == <<mStatus, mDone, local, pc, notified, told, first, health, registered,
                 handler, battery, changes>>
dozeVars == <<display, settings, mainQ, running, executor, listening, killed, steps>>
lightVars == <<active_status, selected, mode, asked, charge, read, calls>>
updaterVars == <<pattern, image, place, found, package, installed>>
systemVars == <<part, vars, xtraVars, batteryVars, dozeVars, lightVars, updaterVars>>

SystemInit ==
    /\ part \in Part
    /\ Init /\ (part \notin {"observer", "updates"} => \A i \in Item : fwValue[i] = v1)
    /\ Xtra!Init
    /\ Battery!Init /\ (part # "battery" => battery = "FULL")
    /\ Gestures!Init /\ (part # "doze" => settings = {})
    /\ Breath!Init /\ (part # "lights" => charge = "full")
    /\ Updater!Init
    /\ part # "updater" => pattern = <<0>> /\ image = <<0>>
                            /\ package.modem = None /\ package.firmware = None

\* The bounds of the two parts of the observer.
Queued(kind) == \E k \in DOMAIN msgQ' : msgQ'[k].kind = kind
Of(S) == \A c \in Client : wants'[c] \subseteq S

SystemNext ==
    \/ /\ \/ part = "observer" /\ Next /\ ~Queued("update")
          \/ part = "updates" /\ Next /\ Of({network}) /\ ~Queued("requestData")
       /\ UNCHANGED <<part, xtraVars, batteryVars, dozeVars, lightVars, updaterVars>>
    \/ /\ part = "xtra" /\ Xtra!Next
       /\ UNCHANGED <<part, vars, batteryVars, dozeVars, lightVars, updaterVars>>
    \/ /\ part = "battery" /\ Battery!Next
       /\ UNCHANGED <<part, vars, xtraVars, dozeVars, lightVars, updaterVars>>
    \/ /\ part = "doze" /\ Gestures!Next
       /\ UNCHANGED <<part, vars, xtraVars, batteryVars, lightVars, updaterVars>>
    \/ /\ part = "lights" /\ Breath!Next
       /\ UNCHANGED <<part, vars, xtraVars, batteryVars, dozeVars, updaterVars>>
    \/ /\ part = "updater" /\ Updater!Next
       /\ UNCHANGED <<part, vars, xtraVars, batteryVars, dozeVars, lightVars>>

SystemSpec == SystemInit /\ [][SystemNext]_systemVars

-----------------------------------------------------------------------------
\* Once nothing is on its way the daemon knows the networks that are connected
\* and the other fields (SystemStatus.h, XtraSystemStatusObserver.cpp).
DaemonIsTold == Xtra!NetworksAreKnown /\ Xtra!FieldsAreKnown

\* A change of charging is told whenever it comes, sensors listen while the
\* display is off and their gestures on, and the breath light shows the most
\* important of what is asked, and the updater finds the stamp of the modem's firmware
\* (battery_listener.cpp, DozeService.java, Light.cpp, recovery_updater.cpp).
DevicesAreServed ==
    /\ Battery!NewsIsTold /\ Gestures!SensorsFollow /\ Breath!ShowsWhatIsAsked
    /\ part = "updater" => Updater!FirmwareIsFound
=============================================================================
