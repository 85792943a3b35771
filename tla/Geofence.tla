------------------------------ MODULE Geofence ------------------------------
(***************************************************************************)
(* The geofence adapter (gps/geofence/GeofenceAdapter.cpp).                *)
(*                                                                         *)
(* A client names a geofence by the id the adapter gave it, the engine by  *)
(* a hardware id of its own; the adapter keeps a map each way.  A command  *)
(* is about several geofences: each item is put in the vendor's call       *)
(* queue, looked up when its turn comes and sent to the engine, and the    *)
(* last item's answer reports for all and frees the arrays they share.     *)
(*                                                                         *)
(* Abstracted: places and options are values of Option; a client without a *)
(* breach callback, and the status events, which go to every client; the   *)
(* call queue is taken to run one call at a time (SerialCalls), as its     *)
(* name says.                                                              *)
(***************************************************************************)
EXTENDS Integers, Sequences, FiniteSets, Functions, SequencesExt

CONSTANTS
    Fence,          \* geofence ids, numbers; each is added at most once
    Client, ClientOf,
    Option,         \* options of a geofence
    HwId,           \* hardware ids the engine may give
    Ops,            \* what clients use: "add", "remove", "pause", ...
    EngineMayFail, SerialCalls,
    AtRest,         \* TRUE: the engine restarts, and a client is removed, only
                    \* when nothing is under way
    MaxCommands, MaxRestarts, MaxBreaches

VARIABLES
    mGeofences,     \* hardware id -> [id, opt, paused]
    mGeofenceIds,   \* id -> hardware id
    removed,        \* clients no longer in mClientData
    msgQ,           \* the adapter's messages
    callQ, apiQ,    \* the vendor's call queue; requests not yet answered
    up, engine,     \* the engine is up; its geofences, like mGeofences
    added,          \* ids a client has added
    freed,          \* commands that have been reported, their arrays freed
    touched,        \* commands whose arrays were written after that
    paused,         \* ids a client has paused and not resumed, all answered
    breaches,       \* breaches the engine has reported
    misled,         \* ghost: ids told to a client in error, or crossed and not told
    command, restarts

vars == <<mGeofences, mGeofenceIds, removed, msgQ, callQ, apiQ, up, engine, added, freed,
          touched, paused, breaches, misled, command, restarts>>

Init ==
    /\ mGeofences = <<>> /\ mGeofenceIds = <<>> /\ removed = {}
    /\ msgQ = <<>> /\ callQ = <<>> /\ apiQ = <<>>
    /\ up = TRUE /\ engine = <<>>
    /\ added = {} /\ freed = {} /\ touched = {} /\ paused = {}
    /\ breaches = 0 /\ misled = {}
    /\ command = 0 /\ restarts = 0

-----------------------------------------------------------------------------
(***************************************************************************)
(* The two maps, as a record st of the state a handler may change.         *)
(***************************************************************************)
St == [fences |-> mGeofences, ids |-> mGeofenceIds, apiQ |-> apiQ, callQ |-> callQ,
       freed |-> freed, touched |-> touched, paused |-> paused]

Plain == CHOOSE o \in Option : TRUE   \* where options play no part

Put(f, x, y) == [z \in DOMAIN f \cup {x} |-> IF z = x THEN y ELSE f[z]]
Without(f, x) == Restrict(f, DOMAIN f \ {x})

Request(op, hw, id, opt, cb) == [op |-> op, hw |-> hw, id |-> id, opt |-> opt, cb |-> cb]
Silent == [k |-> "silent"]
Send(st, r) == [st EXCEPT !.apiQ = Append(@, r)]

\* The mutant saves the hardware id only.
SaveOneMap(st, id, hw, opt) ==
    [st EXCEPT !.fences = Put(@, hw, [id |-> id, opt |-> opt, paused |-> FALSE])]

saveGeofenceItem(st, id, hw, opt) ==
    [st EXCEPT !.fences = Put(@, hw, [id |-> id, opt |-> opt, paused |-> FALSE]),
               !.ids = Put(@, id, hw)]

\* Mutant: the id is left in the other map.
RemoveOneMap(st, hw) == [st EXCEPT !.fences = Without(@, hw)]

removeGeofenceItem(st, hw) ==
    IF hw \in DOMAIN st.fences /\ st.fences[hw].id \in DOMAIN st.ids
    THEN [st EXCEPT !.ids = Without(@, st.fences[hw].id), !.fences = Without(@, hw)]
    ELSE st

pauseGeofenceItem(st, hw, p) ==
    IF hw \in DOMAIN st.fences THEN [st EXCEPT !.fences[hw].paused = p] ELSE st

modifyGeofenceItem(st, hw, opt) ==
    IF hw \in DOMAIN st.fences THEN [st EXCEPT !.fences[hw].opt = opt] ELSE st

-----------------------------------------------------------------------------
(***************************************************************************)
(* Commands.  m.c is the number of the command, m.ids its geofences.       *)
(***************************************************************************)
Item(m, i) == [k |-> "item", op |-> m.op, c |-> m.c, ids |-> m.ids, opt |-> m.opt, i |-> i]

addToCallQueue(m) == [St EXCEPT !.callQ = @ \o [i \in DOMAIN m.ids |-> Item(m, i)]]

\* Mutant: the first item's answer reports.
ReportFirst(st, cb) == IF cb.i = 1 THEN [st EXCEPT !.freed = @ \cup {cb.c}] ELSE st

\* The last item reports and frees what the items share.
reportResponse(st, cb) ==
    IF cb.i = Len(cb.ids)
    THEN [st EXCEPT !.freed = @ \cup {cb.c},
                    !.paused = IF cb.op = "pause" THEN @ \cup ToSet(cb.ids)
                               ELSE IF cb.op \in {"resume", "add"} THEN @ \ ToSet(cb.ids) ELSE @]
    ELSE st

touch(st, cb) == IF cb.c \in freed THEN [st EXCEPT !.touched = @ \cup {cb.c}] ELSE st

\* An item's turn in the call queue.
onItem(cb) ==
    LET id == cb.ids[cb.i]
        done(hw) == [cb EXCEPT !.k = "done"] @@ [hw |-> hw]
    IN IF cb.op = "add" THEN Send(St, Request("add", 0, id, cb.opt, done(0)))
       ELSE IF id \in DOMAIN mGeofenceIds
       THEN Send(touch(St, cb),
                 Request(cb.op, mGeofenceIds[id], id, cb.opt, done(mGeofenceIds[id])))
       ELSE reportResponse(touch(St, cb), cb)

\* A resume that fails reports nothing.
onDone(cb, ok, hw) ==
    LET st == touch(St, cb)
    IN CASE cb.op = "add" ->
              reportResponse(IF ok THEN saveGeofenceItem(st, cb.ids[cb.i], hw, cb.opt) ELSE st, cb)
         [] cb.op = "remove" ->
              reportResponse(IF ok THEN removeGeofenceItem(st, cb.hw) ELSE st, cb)
         [] cb.op = "pause" ->
              reportResponse(IF ok THEN pauseGeofenceItem(st, cb.hw, TRUE) ELSE st, cb)
         [] cb.op = "resume" ->
              IF ok THEN reportResponse(pauseGeofenceItem(st, cb.hw, FALSE), cb) ELSE St
         [] cb.op = "modify" ->
              reportResponse(IF ok THEN modifyGeofenceItem(st, cb.hw, cb.opt) ELSE St, cb)

\* stopClientSessions: the ids go at once, the hardware ids when the engine
\* has removed them.
stopClientSessions(c) ==
    FoldLeft(LAMBDA st, id :
                 Send([st EXCEPT !.ids = Without(@, id)],
                      Request("remove", mGeofenceIds[id], id, Plain,
                              [k |-> "clientGone", hw |-> mGeofenceIds[id]])),
             St, SetToSortSeq({id \in DOMAIN mGeofenceIds : ClientOf[id] = c}, <))

\* restartGeofences: both maps are emptied, and filled again by the answers.
restartGeofences ==
    LET again(st, hw) ==
            Send(st, Request("add", 0, mGeofences[hw].id, mGeofences[hw].opt,
                             [k |-> "readded", fence |-> mGeofences[hw]]))
    IN IF mGeofences = <<>> THEN St
       ELSE FoldLeft(again, [St EXCEPT !.fences = <<>>, !.ids = <<>>],
                     SetToSortSeq(DOMAIN mGeofences, <))

\* Mutant: the engine is not told to pause it.
ReaddedRunning(cb, ok, hw) ==
    IF ok THEN saveGeofenceItem(St, cb.fence.id, hw, cb.fence.opt) ELSE St

\* The engine is told that it is paused, the map is not.
onReadded(cb, ok, hw) ==
    LET st == IF cb.fence.paused
              THEN Send(St, Request("pause", hw, cb.fence.id, cb.fence.opt, Silent)) ELSE St
    IN IF ok THEN saveGeofenceItem(st, cb.fence.id, hw, cb.fence.opt) ELSE St

onResponse(m) ==
    CASE m.cb.k = "item" -> onItem(m.cb)
      [] m.cb.k = "done" -> onDone(m.cb, m.ok, m.hw)
      [] m.cb.k = "readded" -> onReadded(m.cb, m.ok, m.hw)
      [] m.cb.k = "clientGone" ->
            IF m.ok THEN [St EXCEPT !.fences = Without(@, m.cb.hw)] ELSE St

Handler(m) ==
    CASE m.kind = "command" -> addToCallQueue(m)
      [] m.kind = "removeClient" -> stopClientSessions(m.client)
      [] m.kind = "response" -> onResponse(m)
      [] m.kind = "engineUp" -> restartGeofences
      [] m.kind = "breach" -> St

\* The geofence that the engine calls hw, if the adapter has it.
getGeofenceKeyFromHwId(hw) == {mGeofences[h].id : h \in DOMAIN mGeofences \cap {hw}}

\* Mutant: the owner of a geofence is not looked at.
ToldToAll(c, hws) == UNION {getGeofenceKeyFromHwId(hw) : hw \in hws}

\* What client c is told: those crossed that are its own.
geofenceBreach(c, hws) ==
    {id \in UNION {getGeofenceKeyFromHwId(hw) : hw \in hws} : ClientOf[id] = c}

\* Those of its own that were crossed, the engine says.
crossedBy(c, m) == {id \in m.crossed : ClientOf[id] = c}

HandleMessage ==
    /\ msgQ # <<>>
    /\ misled' = IF Head(msgQ).kind # "breach" THEN misled
                 ELSE misled \cup UNION {SymDiff(geofenceBreach(c, Head(msgQ).hws),
                                                crossedBy(c, Head(msgQ))) :
                                            c \in Client \ removed}
    /\ LET m == Head(msgQ)
           st == Handler(m)
       IN /\ mGeofences' = st.fences /\ mGeofenceIds' = st.ids
          /\ apiQ' = st.apiQ /\ callQ' = st.callQ
          /\ freed' = st.freed /\ touched' = st.touched /\ paused' = st.paused
          /\ removed' = IF m.kind = "removeClient" THEN removed \cup {m.client} ELSE removed
    /\ msgQ' = Tail(msgQ)
    /\ UNCHANGED <<up, engine, added, breaches, command, restarts>>

-----------------------------------------------------------------------------
(***************************************************************************)
(* Clients, the call queue and the engine.                                 *)
(***************************************************************************)
Quiescent == up /\ msgQ = <<>> /\ apiQ = <<>> /\ callQ = <<>>

\* The client has not been removed and is not about to be.
attached(c) ==
    /\ c \notin removed
    /\ \A i \in DOMAIN msgQ : msgQ[i].kind = "removeClient" => msgQ[i].client # c

Command(op, ids, opt) ==
    /\ op \in Ops
    /\ opt = Plain \/ op \in {"add", "modify"}
    /\ command < MaxCommands
    /\ \A i, j \in DOMAIN ids : i # j => ids[i] # ids[j]
    /\ \A i \in DOMAIN ids : attached(ClientOf[ids[i]])
    /\ IF op = "add" THEN ToSet(ids) \cap added = {} ELSE ToSet(ids) \subseteq added
    /\ added' = added \cup ToSet(ids)
    /\ command' = command + 1
    /\ msgQ' = Append(msgQ, [kind |-> "command", op |-> op, c |-> command, ids |-> ids, opt |-> opt])
    /\ UNCHANGED <<mGeofences, mGeofenceIds, removed, callQ, apiQ, up, engine, freed, touched,
                   paused, breaches, misled, restarts>>

removeClientCommand(c) ==
    /\ "removeClient" \in Ops
    /\ AtRest => Quiescent
    /\ command < MaxCommands
    /\ attached(c)
    /\ command' = command + 1
    /\ msgQ' = Append(msgQ, [kind |-> "removeClient", client |-> c])
    /\ UNCHANGED <<mGeofences, mGeofenceIds, removed, callQ, apiQ, up, engine, added, freed,
                   touched, paused, breaches, misled, restarts>>

Answer(cb, ok, hw) ==
    msgQ' = IF cb = Silent THEN msgQ
            ELSE Append(msgQ, [kind |-> "response", cb |-> cb, ok |-> ok, hw |-> hw])

RunCall ==
    /\ callQ # <<>>
    /\ SerialCalls => apiQ = <<>> /\ \A i \in DOMAIN msgQ : msgQ[i].kind # "response"
    /\ Answer(Head(callQ), TRUE, 0)
    /\ callQ' = Tail(callQ)
    /\ UNCHANGED <<mGeofences, mGeofenceIds, removed, apiQ, up, engine, added, freed, touched,
                   paused, breaches, misled, command, restarts>>

Engine(ok) ==
    /\ apiQ # <<>>
    /\ LET r == Head(apiQ)
           known == r.hw \in DOMAIN engine
       IN /\ IF ok THEN up /\ (r.op = "add" \/ known) ELSE ~up \/ EngineMayFail \/ (r.op # "add" /\ ~known)
          /\ \E hw \in IF r.op = "add" THEN HwId \ DOMAIN engine ELSE {r.hw} :
               /\ engine' = IF ~ok THEN engine
                            ELSE IF r.op = "add"
                            THEN Put(engine, hw, [id |-> r.id, opt |-> r.opt, paused |-> FALSE])
                            ELSE IF r.op = "remove" THEN Without(engine, hw)
                            ELSE IF r.op = "modify" THEN [engine EXCEPT ![hw].opt = r.opt]
                            ELSE [engine EXCEPT ![hw].paused = (r.op = "pause")]
               /\ Answer(r.cb, ok, hw)
    /\ apiQ' = Tail(apiQ)
    /\ UNCHANGED <<mGeofences, mGeofenceIds, removed, callQ, up, added, freed, touched, paused,
                   breaches, misled, command, restarts>>

\* The engine names the geofences by its own ids.  What was crossed comes with
\* the message for the property alone.
geofenceBreachEvent(hws) ==
    /\ breaches < MaxBreaches
    /\ hws # {} /\ \A hw \in hws : ~engine[hw].paused
    /\ breaches' = breaches + 1
    /\ msgQ' = Append(msgQ, [kind |-> "breach", hws |-> hws,
                             crossed |-> {engine[hw].id : hw \in hws}])
    /\ UNCHANGED <<mGeofences, mGeofenceIds, removed, callQ, apiQ, up, engine, added, freed,
                   touched, paused, misled, command, restarts>>

EngineRestart ==
    /\ restarts < MaxRestarts
    /\ AtRest => Quiescent
    /\ restarts' = restarts + 1
    /\ engine' = <<>>
    /\ msgQ' = Append(msgQ, [kind |-> "engineUp"])
    /\ UNCHANGED <<mGeofences, mGeofenceIds, removed, callQ, apiQ, up, added, freed, touched,
                   paused, breaches, misled, command>>

Next ==
    \/ HandleMessage
    \/ \E op \in {"add", "remove", "pause", "resume", "modify"}, n \in 1 .. 2, opt \in Option :
         \E ids \in [1 .. n -> Fence] : Command(op, ids, opt)
    \/ \E c \in Client : removeClientCommand(c)
    \/ RunCall
    \/ \E ok \in BOOLEAN : Engine(ok)
    \/ \E hws \in SUBSET DOMAIN engine : geofenceBreachEvent(hws)
    \/ EngineRestart

Spec == Init /\ [][Next]_vars

-----------------------------------------------------------------------------
TypeOK ==
    /\ DOMAIN mGeofences \cup DOMAIN engine \subseteq HwId
    /\ DOMAIN mGeofenceIds \cup paused \subseteq added

(***************************************************************************)
(* With nothing under way the engine has the geofences of the clients that *)
(* are there, with the options they gave last, and both maps name them:    *)
(* after any commands, a client's removal and an engine restart            *)
(* (restartGeofences), a breach reaches its owner and nobody else's.       *)
(***************************************************************************)
EngineServesFences ==
    Quiescent =>
        /\ DOMAIN engine = DOMAIN mGeofences
        /\ DOMAIN mGeofenceIds = {engine[hw].id : hw \in DOMAIN engine}
        /\ \A hw \in DOMAIN engine :
             /\ engine[hw].id = mGeofences[hw].id /\ engine[hw].opt = mGeofences[hw].opt
             /\ ClientOf[engine[hw].id] \notin removed
             /\ mGeofenceIds[engine[hw].id] = hw

(***************************************************************************)
(* A geofence whose pause has been answered is paused in the engine until  *)
(* it is resumed, across restarts ("only that they can be resumed at any   *)
(* time", pauseGeofences, LocationAPI.h).                                  *)
(***************************************************************************)
PausedStaysPaused ==
    Quiescent => \A hw \in DOMAIN engine : engine[hw].id \in paused => engine[hw].paused

(***************************************************************************)
(* A breach that the engine reports is told to the clients whose geofences *)
(* were crossed, under the ids they know, and to nobody else: also when it *)
(* comes between a removal and its answer, or after the engine has given a *)
(* hardware id to another geofence (geofenceBreach).                       *)
(***************************************************************************)
BreachIsTheirs == misled = {}

(***************************************************************************)
(* "Send aggregated response on last item and cleanup": no answer writes   *)
(* to the arrays of a command after the last item's answer has freed them. *)
(***************************************************************************)
NoUseAfterFree == touched = {}
=============================================================================
