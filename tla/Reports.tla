------------------------------- MODULE Reports -------------------------------
(***************************************************************************)
(* What GnssAdapter passes on to its clients: positions and satellites,    *)
(* with the satellites a position used kept for the next satellite report; *)
(* NMEA sentences, the modem's or its own; measurements and data; the      *)
(* system information, kept for clients that come later; and the power     *)
(* state.  With an engine hub (initEngHubProxy) positions and satellites   *)
(* go to it, and come back when it likes.                                  *)
(*                                                                         *)
(* An event posts one message and reads nothing that changes, and messages *)
(* are handled in the order of their posts: an event is one step here.     *)
(***************************************************************************)
EXTENDS Naturals, FiniteSets

CONSTANTS
  Client,
  Registers,              \* sets of callbacks that a client may register
  Position,               \* positions reported, [status, tech, used] each: status
                          \* success, intermediate or failure; tech satellite, sensors
                          \* or network; used none, ids or bands
  Hub,                    \* TRUE: initEngHubProxy() has loaded the engine hub
  ProviderAP,             \* TRUE: NMEA_PROVIDER is the AP
  AcceptIntermediate,     \* INTERMEDIATE_POS
  AllowFlpNetworkFixes,
  MaxHeld,                \* bound: reports the hub keeps
  None

Satellite == {1, 2}
Signal == {"L1", "L5"}
Sky == Satellite \X Signal
\* A position uses satellite 1, its L1 signal if it says which signals it uses.
Ids == {1}
Bands == {<<1, "L1">>}
Info == [current : {0, 18, 19}, change : BOOLEAN]   \* leap seconds, 0: not said

VARIABLES
  mClientData,                \* client -> callbacks, {} if it has none
  sessions,                   \* kinds of tracking sessions there are
  mPowerOn,
  avail,                      \* mGnssSvIdUsedInPosAvail, mGnssMbSvIdUsedInPosAvail
  mLocSystemInfo,
  hub,                        \* reports that the hub keeps
  power,                      \* last value the power listener was told, None without one
  known,                      \* client -> system information it was told
  fix,                        \* what the last position passed on used, and its clients
  marked,                     \* satellites last reported as used, and those of fix
  got                         \* client -> last callbacks called, for one event

vars == <<mClientData, sessions, mPowerOn, avail, mLocSystemInfo, hub, power, known, fix,
          marked, got>>

NoInfo == [current |-> 0, change |-> FALSE]
NotAvail == [ids |-> FALSE, bands |-> FALSE]

Init ==
  /\ mClientData = [c \in Client |-> {}] /\ sessions = {} /\ mPowerOn = FALSE
  /\ avail = NotAvail /\ mLocSystemInfo = NoInfo /\ hub = {} /\ power = None
  /\ known = [c \in Client |-> NoInfo] /\ fix = None
  /\ marked = [used |-> {}, due |-> {}] /\ got = [c \in Client |-> {}]

-----------------------------------------------------------------------------
\* Which clients a position is for.
needReport(p) ==
  \/ p.status = "success" /\ p.tech \in {"satellite", "sensors"}
  \/ p.status = "intermediate" /\ AcceptIntermediate

needReportForGnssClient(p) == Hub \/ needReport(p)

needReportForFlpClient(p) ==
  ~(p.status = "intermediate" /\ p.tech # "sensors" /\ ~AllowFlpNetworkFixes)

isFlpClient(c) == mClientData[c] \cap {"info", "sv", "nmea", "data", "measurements"} = {}

\* Mutant: the branches are not exclusive.
EveryCallback(c) == mClientData[c] \cap {"tracking", "info"}

\* The one callback of c that a position goes to.
PositionCallback(c) ==
  IF "info" \in mClientData[c] THEN {"info"}
  ELSE IF "engines" \in mClientData[c] /\ ~Hub THEN {"engines"}
  ELSE mClientData[c] \cap {"tracking"}

To(c, callback) == mClientData[c] \cap {callback}

\* Sentences are made for as long as there is a time based session.
Sentences(c) == IF ProviderAP /\ "time" \in sessions THEN To(c, "nmea") ELSE {}

\* Mutant: what an earlier position used is kept.
KeepsUsed(p) ==
  [ids |-> avail.ids \/ p.used # "none", bands |-> avail.bands \/ p.used = "bands"]
\* Mutant: the signals of an earlier position are kept.
KeepsBands(p) ==
  IF ~needReportForGnssClient(p) \/ p.used = "none" THEN NotAvail
  ELSE [ids |-> TRUE, bands |-> avail.bands \/ p.used = "bands"]

\* What the next satellite report may say is used.
availAfter(p) ==
  IF ~needReportForGnssClient(p) THEN NotAvail
  ELSE [ids |-> p.used # "none", bands |-> p.used = "bands"]

reportPosition(p, engines) ==
  LET toGnss == needReportForGnssClient(p)
      toFlp == needReportForFlpClient(p)
  IN /\ got' = [c \in Client |->
                  (IF (IF isFlpClient(c) THEN toFlp ELSE toGnss)
                   THEN PositionCallback(c) ELSE {})
                  \cup Sentences(c) \cup (IF engines THEN To(c, "engines") ELSE {})]
     /\ IF toGnss \/ toFlp
        THEN avail' = availAfter(p) /\ fix' = [used |-> p.used, toGnss |-> toGnss]
        ELSE UNCHANGED <<avail, fix>>

\* The satellites marked as used in the fix.
Marked(seen) ==
  IF ~avail.ids THEN {}
  ELSE IF avail.bands THEN seen \cap Bands
  ELSE {s \in seen : s[1] \in Ids}

\* Mutant: the satellites of a position are marked in every report after it.
KeepsAvail == avail' = avail
consumed == avail' = NotAvail

\* Those that the last position passed on used, if it went to GNSS clients and
\* no satellites were reported since.
OfLastFix(seen) ==
  IF fix = None THEN {}
  ELSE {s \in seen : /\ fix.toGnss /\ fix.used # "none"
                     /\ IF fix.used = "bands" THEN s \in Bands ELSE s[1] \in Ids}

reportSv(seen) ==
  /\ marked' = [used |-> Marked(seen), due |-> OfLastFix(seen)]
  /\ got' = [c \in Client |-> To(c, "sv") \cup Sentences(c)]
  /\ consumed /\ fix' = None

-----------------------------------------------------------------------------
\* The modem's reports.
reportPositionEvent(p, unpropagated) ==
  /\ IF Hub THEN /\ Cardinality(hub) < MaxHeld
                 /\ hub' = hub \cup {[position |-> p]} /\ UNCHANGED <<avail, fix, got>>
     ELSE /\ UNCHANGED hub
          /\ IF unpropagated THEN UNCHANGED <<avail, fix, got>> ELSE reportPosition(p, FALSE)
  /\ UNCHANGED <<mClientData, sessions, mPowerOn, mLocSystemInfo, power, known, marked>>

reportSvEvent(seen) ==
  /\ IF Hub THEN /\ Cardinality(hub) < MaxHeld
                 /\ hub' = hub \cup {[seen |-> seen]} /\ UNCHANGED <<avail, fix, got, marked>>
     ELSE reportSv(seen) /\ UNCHANGED hub
  /\ UNCHANGED <<mClientData, sessions, mPowerOn, mLocSystemInfo, power, known>>

\* A debug sentence that SystemStatus knows is consumed.
reportNmeaEvent(debug, consumes) ==
  /\ ProviderAP => debug
  /\ got' = [c \in Client |-> IF debug /\ consumes THEN {} ELSE To(c, "nmea")]
  /\ UNCHANGED <<mClientData, sessions, mPowerOn, avail, mLocSystemInfo, hub, power, known,
                 fix, marked>>

\* reportDataEvent, reportGnssMeasurementsEvent.
reportDataEvent(callback) ==
  /\ callback \in {"data", "measurements"}
  /\ got' = [c \in Client |-> To(c, callback)]
  /\ UNCHANGED <<mClientData, sessions, mPowerOn, avail, mLocSystemInfo, hub, power, known,
                 fix, marked>>

\* The hub's: one engine's position, which is passed on as a client's own if
\* it is the fused one, or the satellites.
reportEnginePositionsEvent(p, fused) ==
  /\ [position |-> p] \in hub /\ hub' = hub \ {[position |-> p]}
  /\ IF fused THEN reportPosition(p, TRUE)
     ELSE got' = [c \in Client |-> To(c, "engines")] /\ UNCHANGED <<avail, fix>>
  /\ UNCHANGED <<mClientData, sessions, mPowerOn, mLocSystemInfo, power, known, marked>>

HubReportsSv(seen) ==
  /\ [seen |-> seen] \in hub /\ hub' = hub \ {[seen |-> seen]}
  /\ reportSv(seen)
  /\ UNCHANGED <<mClientData, sessions, mPowerOn, mLocSystemInfo, power, known>>

-----------------------------------------------------------------------------
\* What i says, and for the rest what was known before.
Updated(old, i) ==
  [current |-> IF i.current # 0 THEN i.current ELSE old.current,
   change |-> i.change \/ old.change]

reportLocationSystemInfo(i) ==
  /\ mLocSystemInfo' = Updated(mLocSystemInfo, i)
  /\ known' = [c \in Client |->
                 IF "system" \in mClientData[c] THEN Updated(known[c], i) ELSE known[c]]
  /\ got' = [c \in Client |-> To(c, "system")]
  /\ UNCHANGED <<mClientData, sessions, mPowerOn, avail, hub, power, fix, marked>>

\* Mutant: the client is saved first, and then found to have been told.
SavedFirst(c, callbacks) == FALSE
needsCached(c, callbacks) ==
  "system" \in callbacks /\ "system" \notin mClientData[c]

saveClient(c, callbacks) ==
  /\ known' = [known EXCEPT ![c] =
       IF needsCached(c, callbacks) THEN Updated(@, mLocSystemInfo) ELSE @]
  /\ got' = [x \in Client |-> IF x = c /\ needsCached(c, callbacks) THEN {"system"} ELSE {}]
  /\ mClientData' = [mClientData EXCEPT ![c] = callbacks]
  /\ UNCHANGED <<sessions, mPowerOn, avail, mLocSystemInfo, hub, power, fix, marked>>

eraseClient(c) ==
  /\ mClientData' = [mClientData EXCEPT ![c] = {}]
  /\ known' = [known EXCEPT ![c] = NoInfo]
  /\ got' = [x \in Client |-> {}]
  /\ UNCHANGED <<sessions, mPowerOn, avail, mLocSystemInfo, hub, power, fix, marked>>

-----------------------------------------------------------------------------
\* Mutant: the distance based sessions are not looked at.
TimeOnly(s) == "time" \in s
wanted(s) == s # {}

\* saveTrackingSession and eraseTrackingSession, each with
\* reportPowerStateIfChanged.
Sessions(s) ==
  /\ s # sessions /\ sessions' = s
  /\ mPowerOn' = wanted(s)
  /\ power' = IF power # None /\ wanted(s) # mPowerOn THEN wanted(s) ELSE power
  /\ UNCHANGED <<mClientData, avail, mLocSystemInfo, hub, known, fix, marked, got>>

getPowerStateChangesCommand ==
  /\ power' = mPowerOn
  /\ UNCHANGED <<mClientData, sessions, mPowerOn, avail, mLocSystemInfo, hub, known, fix,
                 marked, got>>

Next ==
  \/ \E p \in Position, b \in BOOLEAN :
       reportPositionEvent(p, b) \/ reportEnginePositionsEvent(p, b)
  \/ \E seen \in {Sky, {<<1, "L5">>, <<2, "L1">>}} : reportSvEvent(seen) \/ HubReportsSv(seen)
  \/ \E debug, consumes \in BOOLEAN : reportNmeaEvent(debug, consumes)
  \/ \E callback \in {"data", "measurements"} : reportDataEvent(callback)
  \/ \E i \in Info : reportLocationSystemInfo(i)
  \/ \E c \in Client : eraseClient(c) \/ \E r \in Registers : saveClient(c, r)
  \/ \E s \in SUBSET {"time", "distance"} : Sessions(s)
  \/ getPowerStateChangesCommand

Spec == Init /\ [][Next]_vars

-----------------------------------------------------------------------------
\* The satellites a report marks as used are those of the last position that
\* was passed on, if that went to GNSS clients and no satellites were reported
\* since (reportPosition, reportSv).
UsedIsOfLastFix == marked.used = marked.due

\* A client that asks for the system information knows all that the adapter
\* has kept, whenever it registered (notifyClientOfCachedLocationSystemInfo).
SystemInfoIsKnown ==
  \A c \in Client : "system" \in mClientData[c] =>
    /\ known[c].current = mLocSystemInfo.current
    /\ mLocSystemInfo.change => known[c].change

\* The power listener knows whether there is a session of any kind
\* (reportPowerStateIfChanged).
PowerIsTold == power # None => power = (sessions # {})

\* No callback is called that its client has not registered, and a position
\* reaches a client once, or with the hub once more as one of its engines'
\* (reportPosition, reportEnginePositions).
CalledAsRegistered ==
  \A c \in Client :
    /\ got[c] \subseteq mClientData[c]
    /\ Cardinality(got[c] \cap {"tracking", "info", "engines"}) <= IF Hub THEN 2 ELSE 1
=============================================================================
