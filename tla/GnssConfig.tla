----------------------------- MODULE GnssConfig -----------------------------
(***************************************************************************)
(* What GnssAdapter.cpp keeps of the modem's configuration, and sends it:  *)
(* the GPS lock, which satellites not to use, and which constellations.    *)
(*                                                                         *)
(* Two threads.  The adapter's runs the commands of the location control   *)
(* API and of the framework's configuration, and after a modem restart     *)
(* sends everything again.  What it sends is run by LocApiBase's thread,   *)
(* which also writes mBlacklistedSvIds and mGnssSvIdConfig, that the       *)
(* adapter's thread reads.                                                 *)
(*                                                                         *)
(* A satellite is a model value; a constellation is a set of satellites.   *)
(* Masks are sets (SvMask has the bits).  The other items of the           *)
(* configuration are sent and forgotten (ConfigCalls has their errors).    *)
(***************************************************************************)
EXTENDS Integers, Sequences, FiniteSets

CONSTANTS
    Sv, Constellation,
    Session,            \* ids of enable commands, numbers
    Keep,               \* not an item of this configuration update
    Commands,           \* what is used: "control", "lock", "nfw", "ids", "types"
    NfwWaits,           \* visibility control does not call while the lock is updated
    AtRest,             \* the modem restarts only when nothing is under way
    Whole,              \* the adapter's thread does not read mGnssSvIdConfig
                        \* while the other fills it
    IdsOverTypes,       \* satellites are given while constellations are off
    MaxCommands, MaxRestarts

Lock == {"MO", "NI"}

VARIABLES
    lock,               \* ContextBase::mGps_conf.GPS_LOCK
    mSupportNfwControl, mAfwControlId,
    mBlacklistedSvIds, mGnssSvIdConfig,
    mGnssSvTypeConfig,  \* [black, on], or Keep before it is first set
    known,              \* isEngineCapabilitiesKnown()
    msgQ, pending,      \* the adapter's messages; those that wait for known
    task,               \* where the adapter is in handling an engine up
    locQ, filling,      \* LocApiBase's; the list it fills mGnssSvIdConfig from
    modem,              \* what the modem has: [lock, black, on]
    wantIds,            \* the satellites last given
    commands, restarts

vars == <<lock, mSupportNfwControl, mAfwControlId, mBlacklistedSvIds, mGnssSvIdConfig,
          mGnssSvTypeConfig, known, msgQ, pending, task, locQ, filling, modem, wantIds, commands,
          restarts>>

Default == [lock |-> Lock, black |-> {}, on |-> {}]

Init ==
    /\ lock = Lock /\ mSupportNfwControl = TRUE /\ mAfwControlId = 0
    /\ mBlacklistedSvIds = {} /\ mGnssSvIdConfig = {} /\ mGnssSvTypeConfig = Keep
    /\ known = FALSE /\ msgQ = <<[kind |-> "engineUp"]>> /\ pending = <<>> /\ task = "idle"
    /\ locQ = <<>> /\ filling = Keep
    /\ modem = Default /\ wantIds = {}
    /\ commands = 0 /\ restarts = 0

-----------------------------------------------------------------------------
(***************************************************************************)
(* Handlers on the adapter's thread, as functions on the record st.        *)
(***************************************************************************)
St == [lock |-> lock, nfw |-> mSupportNfwControl, afw |-> mAfwControlId,
       types |-> mGnssSvTypeConfig, pending |-> pending, loc |-> locQ, sent |-> <<>>]

SetLock(l) == [kind |-> "lock", lock |-> l]
Config(l, ids) == [kind |-> "config", lock |-> l, ids |-> ids]
SetBlacklistSv(svs) == [kind |-> "blacklist", svs |-> svs]
SetConstellationControl(cs) == [kind |-> "control", on |-> cs]

enableCommand(id) ==
    LET l == IF mSupportNfwControl THEN lock \cap {"NI"} ELSE lock
    IN IF mAfwControlId > 0 THEN St
       ELSE [St EXCEPT !.afw = id, !.lock = l,
                       !.loc = Append(@, SetLock(IF mSupportNfwControl THEN l ELSE {}))]

disableCommand(id) ==
    LET l == IF mSupportNfwControl THEN lock \cup {"MO"} ELSE lock
    IN IF mAfwControlId # id THEN St
       ELSE [St EXCEPT !.afw = 0, !.lock = l, !.loc = Append(@, SetLock(l))]

\* Mutant: what the framework has of its own, MO, is locked with it.
LocksAll(on) == IF on THEN lock \ {"NI"} ELSE Lock
nfwLock(on) == IF on THEN lock \ {"NI"} ELSE lock \cup {"NI"}

nfwControlCommand(on) == [St EXCEPT !.lock = nfwLock(on), !.loc = Append(@, SetLock(nfwLock(on)))]

\* Mutant: NI stays locked when the framework's first configuration comes
\* after enable.
FirstLockKept(l) == IF mAfwControlId = 0 THEN l \cup {"MO"} ELSE Keep

\* What the modem is told of a new lock l: the lock, none at all, or nothing.
newGpsLock(l) ==
    IF mAfwControlId = 0 THEN l \cup {"MO"}
    ELSE IF mSupportNfwControl THEN {} ELSE Keep

gnssUpdateConfigCommand(m) ==
    IF m.lock = Keep THEN [St EXCEPT !.loc = Append(@, Config(Keep, m.ids))]
    ELSE [St EXCEPT !.lock = m.lock \cup {"MO"}, !.nfw = FALSE,
                    !.loc = Append(@, Config(newGpsLock(m.lock), m.ids))]

blacklisted(types) == mGnssSvIdConfig \cup UNION types.black

\* A constellation that is no longer asked for takes a reset.
gnssSvTypeConfigUpdate(st, types, reset) ==
    [st EXCEPT !.types = types,
               !.loc = @ \o (IF reset THEN <<SetConstellationControl({})>> ELSE <<>>)
                         \o <<SetBlacklistSv(blacklisted(types))>>
                         \o (IF types.on # {} THEN <<SetConstellationControl(types.on)>> ELSE <<>>)]

gnssUpdateSvTypeConfigCommand(types) ==
    gnssSvTypeConfigUpdate(St, types,
        mGnssSvTypeConfig # Keep /\ ~(mGnssSvTypeConfig.on \subseteq types.on))

gnssResetSvTypeConfigCommand ==
    [St EXCEPT !.types = [black |-> {}, on |-> {}],
               !.loc = @ \o <<SetBlacklistSv(mGnssSvIdConfig), SetConstellationControl({})>>]

\* setConfig(): the lock as its comment says, and the satellites.
setConfig ==
    [St EXCEPT !.loc = Append(@, Config(IF mSupportNfwControl \/ mAfwControlId = 0 THEN lock ELSE {},
                                        mBlacklistedSvIds))]

\* Mutant: the constellations are not sent again.
OnlySatellites ==
    [St EXCEPT !.loc = Append(@, SetBlacklistSv(mGnssSvIdConfig)), !.sent = pending, !.pending = <<>>]

\* Then the satellites and constellations, and the messages that waited.
sendSvConfig ==
    LET st == [St EXCEPT !.loc = Append(@, SetBlacklistSv(mGnssSvIdConfig)),
                         !.sent = pending, !.pending = <<>>]
    IN IF mGnssSvTypeConfig = Keep THEN st
       ELSE gnssSvTypeConfigUpdate(st, mGnssSvTypeConfig, FALSE)

Waits(m) == m.kind \in {"config", "types", "resetTypes"} /\ ~known

Handler(m) ==
    IF Waits(m) THEN [St EXCEPT !.pending = Append(@, m)]
    ELSE CASE m.kind = "enable" -> enableCommand(m.id)
           [] m.kind = "disable" -> disableCommand(m.id)
           [] m.kind = "nfw" -> nfwControlCommand(m.on)
           [] m.kind = "config" -> gnssUpdateConfigCommand(m)
           [] m.kind = "types" -> gnssUpdateSvTypeConfigCommand(m.types)
           [] m.kind = "resetTypes" -> gnssResetSvTypeConfigCommand
           [] m.kind = "engineUp" -> setConfig

Become(st) ==
    /\ lock' = st.lock /\ mSupportNfwControl' = st.nfw /\ mAfwControlId' = st.afw
    /\ mGnssSvTypeConfig' = st.types /\ pending' = st.pending /\ locQ' = st.loc

AdapterMayRun == Whole => filling = Keep

HandleMessage ==
    /\ msgQ # <<>> /\ task = "idle" /\ AdapterMayRun
    /\ Become(Handler(Head(msgQ)))
    /\ msgQ' = Tail(msgQ)
    /\ LET up == Head(msgQ).kind = "engineUp"
       IN known' = (known \/ up) /\ task' = IF up THEN "sendSvConfig" ELSE "idle"
    /\ UNCHANGED <<mBlacklistedSvIds, mGnssSvIdConfig, filling, modem, wantIds, commands, restarts>>

FinishEngineUp ==
    /\ task = "sendSvConfig" /\ AdapterMayRun
    /\ Become(sendSvConfig)
    /\ msgQ' = msgQ \o sendSvConfig.sent
    /\ task' = "idle"
    /\ UNCHANGED <<mBlacklistedSvIds, mGnssSvIdConfig, known, filling, modem, wantIds, commands,
                   restarts>>

-----------------------------------------------------------------------------
(***************************************************************************)
(* LocApiBase's thread and the modem.                                      *)
(***************************************************************************)
adapterVars == <<lock, mSupportNfwControl, mAfwControlId, mGnssSvTypeConfig, known, msgQ, pending,
                 task, wantIds, commands, restarts>>

LocMayRun == filling = Keep /\ (Whole => task = "idle")

\* gnssUpdateConfig: the lock, then the satellites; mGnssSvIdConfig is
\* cleared before it is filled.
gnssUpdateConfig(m) ==
    /\ m.kind = "config"
    /\ modem' = IF m.lock = Keep THEN modem ELSE [modem EXCEPT !.lock = m.lock]
    /\ IF m.ids = Keep THEN UNCHANGED <<mBlacklistedSvIds, mGnssSvIdConfig, filling>>
       ELSE mBlacklistedSvIds' = m.ids /\ mGnssSvIdConfig' = {} /\ filling' = m.ids

gnssSvIdConfigUpdateSync ==
    /\ filling # Keep
    /\ mGnssSvIdConfig' = filling
    /\ modem' = [modem EXCEPT !.black = filling]
    /\ filling' = Keep
    /\ UNCHANGED <<mBlacklistedSvIds, locQ, adapterVars>>

Set(m) ==
    /\ modem' = CASE m.kind = "lock" -> [modem EXCEPT !.lock = m.lock]
                  [] m.kind = "blacklist" -> [modem EXCEPT !.black = m.svs]
                  [] m.kind = "control" -> [modem EXCEPT !.on = m.on]
    /\ UNCHANGED <<mBlacklistedSvIds, mGnssSvIdConfig, filling>>

HandleLocMsg ==
    /\ locQ # <<>> /\ LocMayRun
    /\ gnssUpdateConfig(Head(locQ)) \/ (Head(locQ).kind # "config" /\ Set(Head(locQ)))
    /\ locQ' = Tail(locQ)
    /\ UNCHANGED adapterVars

-----------------------------------------------------------------------------
Quiescent == msgQ = <<>> /\ locQ = <<>> /\ filling = Keep /\ task = "idle" /\ pending = <<>>

threadVars == <<lock, mSupportNfwControl, mAfwControlId, mBlacklistedSvIds, mGnssSvIdConfig,
                mGnssSvTypeConfig, known, pending, task, locQ, filling>>

Post(c, m) ==
    /\ c \in Commands /\ commands < MaxCommands
    /\ commands' = commands + 1
    /\ msgQ' = Append(msgQ, m)
    /\ UNCHANGED <<threadVars, modem, restarts>>

TypesAreOff == mGnssSvTypeConfig # Keep /\ mGnssSvTypeConfig.black # {}

Command ==
    \/ /\ \E id \in Session : Post("control", [kind |-> "enable", id |-> id])
                           \/ Post("control", [kind |-> "disable", id |-> id])
       /\ UNCHANGED wantIds
    \/ /\ \E l \in SUBSET Lock : Post("lock", [kind |-> "config", lock |-> l, ids |-> Keep])
       /\ UNCHANGED wantIds
    \* mSupportNfwControl is looked at by the caller, not when the message is handled.
    \/ /\ mSupportNfwControl
       /\ NfwWaits => \A i \in DOMAIN msgQ : msgQ[i].kind # "config"
       /\ \E on \in BOOLEAN : Post("nfw", [kind |-> "nfw", on |-> on])
       /\ UNCHANGED wantIds
    \/ \E svs \in SUBSET Sv :
         /\ ~IdsOverTypes => ~TypesAreOff /\ \A i \in DOMAIN msgQ : msgQ[i].kind # "types"
         /\ Post("ids", [kind |-> "config", lock |-> Keep, ids |-> svs])
         /\ wantIds' = svs
    \/ /\ \E c \in Constellation :
             Post("types", [kind |-> "types", types |-> [black |-> {c}, on |-> {}]])
          \/ Post("types", [kind |-> "types", types |-> [black |-> {}, on |-> {c}]])
       /\ ~AtRest \/ Quiescent
       /\ UNCHANGED wantIds
    \/ /\ Post("types", [kind |-> "resetTypes"])
       /\ ~AtRest \/ Quiescent
       /\ UNCHANGED wantIds

EngineRestart ==
    /\ restarts < MaxRestarts
    /\ AtRest => Quiescent
    /\ restarts' = restarts + 1
    /\ modem' = Default
    /\ msgQ' = Append(msgQ, [kind |-> "engineUp"])
    /\ UNCHANGED <<threadVars, wantIds, commands>>

Next ==
    \/ HandleMessage \/ FinishEngineUp
    \/ HandleLocMsg \/ gnssSvIdConfigUpdateSync
    \/ Command \/ EngineRestart

Spec == Init /\ [][Next]_vars

-----------------------------------------------------------------------------
TypeOK ==
    /\ lock \subseteq Lock /\ modem.lock \subseteq Lock
    /\ mAfwControlId \in Session \cup {0}
    /\ mBlacklistedSvIds \cup mGnssSvIdConfig \cup modem.black \subseteq Sv \cup UNION Constellation

(***************************************************************************)
(* With nothing under way the modem has the lock that setConfig()'s        *)
(* comment says ("Q" and "P" behavior), whichever way enable, disable, the *)
(* framework's configuration and modem restarts have come: it may be used  *)
(* by the user's applications exactly while location is enabled.           *)
(***************************************************************************)
LockFollowsTheUser ==
    Quiescent =>
        /\ modem.lock = IF mSupportNfwControl \/ mAfwControlId = 0 THEN lock ELSE {}
        /\ "MO" \in modem.lock <=> mAfwControlId = 0

(***************************************************************************)
(* With nothing under way the modem leaves out the satellites last given   *)
(* and those of the constellations that are off ("Revert to previously     *)
(* blacklisted SVs for each enabled constellation", "Blacklist all SVs for *)
(* each disabled constellation", gnssSvTypeConfigUpdate), also after it    *)
(* has restarted.                                                          *)
(***************************************************************************)
BlacklistIsAsGiven ==
    Quiescent =>
        /\ modem.black = wantIds \cup (IF mGnssSvTypeConfig = Keep THEN {}
                                       ELSE UNION mGnssSvTypeConfig.black)
        /\ modem.on = IF mGnssSvTypeConfig = Keep THEN {} ELSE mGnssSvTypeConfig.on
=============================================================================
