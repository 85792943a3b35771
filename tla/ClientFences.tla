----------------------------- MODULE ClientFences -----------------------------
(***************************************************************************)
(* LocationAPIClientBase (gps/location/LocationAPIClientBase.h and .cpp):  *)
(* what a HAL client keeps of its geofences.                               *)
(*                                                                         *)
(* The client's ids and the adapter's sessions are kept in a two-way map   *)
(* with the breaches each geofence is to be reported for.  A call is about *)
(* several geofences and pushes one request; each collective answer takes  *)
(* the request at the head, which turns its sessions into ids again.       *)
(* A call is made under mMutex; the request is run without it.             *)
(***************************************************************************)
EXTENDS Integers, Sequences, FiniteSets, Functions, SequencesExt

CONSTANTS
    Id,             \* the client's ids, numbers > 0
    Mask,           \* breachTypeMask: sets of breaches
    Waits,          \* a client waits for the answer about a geofence before
                    \* the next call about it
    FreshIds,       \* ids added are not in use
    KnownIds,       \* modified are only ids that are in use
    MasksKept,      \* a resume asks for the breaches asked for before
    AddMayFail,
    MaxCalls

VARIABLES
    mForwardMap,    \* id -> session
    mBackwardMap,   \* session -> id
    mExtMap,        \* session -> mask
    queue,          \* mRequestQueues[REQUEST_GEOFENCE]
    next,           \* the adapter's next session
    wire,           \* calls the adapter has not answered, in order
    fences,         \* its geofences: session -> mask
    calling,        \* the request that is run, with the answer
    breached,       \* ids of the last breach reported to the client
    misnamed,       \* answers that did not name the geofences of the call
    calls

vars == <<mForwardMap, mBackwardMap, mExtMap, queue, next, wire, fences, calling, breached,
          misnamed, calls>>

Init ==
    /\ mForwardMap = <<>> /\ mBackwardMap = <<>> /\ mExtMap = <<>>
    /\ queue = <<>> /\ next = 1 /\ wire = <<>> /\ fences = <<>>
    /\ calling = <<>> /\ breached = {} /\ misnamed = {} /\ calls = 0

-----------------------------------------------------------------------------
Put(f, x, y) == [z \in DOMAIN f \cup {x} |-> IF z = x THEN y ELSE f[z]]
Without(f, x) == Restrict(f, DOMAIN f \ {x})
Quiescent == wire = <<>> /\ calling = <<>>

\* The two-way map, as a record of its three maps.
BiDict == [fwd |-> mForwardMap, bwd |-> mBackwardMap, ext |-> mExtMap]
dictSet(d, id, s, mask) ==
    [fwd |-> Put(d.fwd, id, s), bwd |-> Put(d.bwd, s, id), ext |-> Put(d.ext, s, mask)]

\* A slip: the session keeps its id.
RemoveForward(d, s) == [d EXCEPT !.fwd = Without(@, d.bwd[s])]
rmBySession(d, s) ==
    [fwd |-> Without(d.fwd, d.bwd[s]), bwd |-> Without(d.bwd, s), ext |-> Without(d.ext, s)]
Keep(d) == mForwardMap' = d.fwd /\ mBackwardMap' = d.bwd /\ mExtMap' = d.ext

getId(bwd, s) == IF s \in DOMAIN bwd THEN bwd[s] ELSE 0

\* The ids that have a session, in their order, and the sessions.
Known(ids) == SelectSeq(ids, LAMBDA id : id \in DOMAIN mForwardMap)
Sessions(ids) == [i \in DOMAIN Known(ids) |-> mForwardMap[Known(ids)[i]]]

\* call and ids are ghosts: what the answer ought to name.
Pushed(kind, ids, removed) ==
    /\ queue' = Append(queue, [kind |-> kind, removed |-> removed, call |-> calls])
    /\ calls' = calls + 1
Sent(op, ss, masks, ids) ==
    wire' = Append(wire, [op |-> op, ss |-> ss, masks |-> masks, ids |-> ids, call |-> calls])

Free(ids) ==
    LET busy == UNION {ToSet(wire[i].ids) : i \in DOMAIN wire}
                    \cup (IF calling = <<>> THEN {} ELSE ToSet(calling.ids))
    IN Waits => ToSet(ids) \cap busy = {}

Calling(ids) == calls < MaxCalls /\ Free(ids) /\ IsInjective(ids)
ByCall == UNCHANGED <<fences, calling, breached, misnamed>>

locAPIAddGeofences(ids, masks) ==
    /\ Calling(ids)
    /\ FreshIds => ToSet(ids) \cap DOMAIN mForwardMap = {}
    /\ LET ss == [i \in DOMAIN ids |-> next + i - 1]
       IN /\ Keep(FoldLeftDomain(LAMBDA d, i : dictSet(d, ids[i], ss[i], masks[i]), BiDict, ids))
          /\ Sent("add", ss, masks, ids)
    /\ next' = next + Len(ids)
    /\ Pushed("add", ids, <<>>)
    /\ ByCall

locAPIRemoveGeofences(ids) ==
    /\ Calling(ids)
    /\ Known(ids) # <<>>
    /\ Keep(FoldLeft(rmBySession, BiDict, Sessions(ids)))
    /\ Pushed("remove", ids, [s \in ToSet(Sessions(ids)) |-> mBackwardMap[s]])
    /\ Sent("remove", Sessions(ids), <<>>, Known(ids))
    /\ UNCHANGED next /\ ByCall

\* The sessions are moved up over the unknown ids, the options are not.
locAPIModifyGeofences(ids, masks) ==
    /\ Calling(ids)
    /\ Known(ids) # <<>>
    /\ KnownIds => Known(ids) = ids
    /\ Keep(FoldLeftDomain(LAMBDA d, i : IF ids[i] \in DOMAIN mForwardMap
                                         THEN dictSet(d, ids[i], mForwardMap[ids[i]], masks[i])
                                         ELSE d,
                           BiDict, ids))
    /\ Pushed("modify", ids, <<>>)
    /\ Sent("modify", Sessions(ids), masks, Known(ids))
    /\ UNCHANGED next /\ ByCall

locAPIPauseGeofences(ids) ==
    /\ Calling(ids)
    /\ Known(ids) # <<>>
    /\ Pushed("pause", ids, <<>>)
    /\ Sent("pause", Sessions(ids), <<>>, Known(ids))
    /\ UNCHANGED <<mForwardMap, mBackwardMap, mExtMap, next>> /\ ByCall

\* The new mask is the client's affair: the adapter is not told.
locAPIResumeGeofences(ids, masks) ==
    /\ Calling(ids)
    /\ Known(ids) # <<>>
    /\ MasksKept => \A i \in DOMAIN ids :
          ids[i] \in DOMAIN mForwardMap => masks[i] = mExtMap[mForwardMap[ids[i]]]
    /\ Keep(FoldLeftDomain(LAMBDA d, i : IF ids[i] \in DOMAIN mForwardMap
                                         THEN dictSet(d, ids[i], mForwardMap[ids[i]], masks[i])
                                         ELSE d,
                           BiDict, ids))
    /\ Pushed("resume", ids, <<>>)
    /\ Sent("resume", Sessions(ids), <<>>, Known(ids))
    /\ UNCHANGED next /\ ByCall

-----------------------------------------------------------------------------
\* The adapter carries out the oldest call and answers for all its items.
onCollectiveResponseCb ==
    /\ wire # <<>> /\ calling = <<>>
    /\ LET c == Head(wire)
       IN \E ok \in {TRUE} \cup (IF AddMayFail /\ c.op = "add" THEN {FALSE} ELSE {}) :
          /\ fences' = CASE ~ok -> fences
                         [] ok /\ c.op \in {"add", "modify"} ->
                              FoldLeftDomain(LAMBDA f, i : Put(f, c.ss[i], c.masks[i]), fences, c.ss)
                         [] ok /\ c.op = "remove" -> Restrict(fences, DOMAIN fences \ ToSet(c.ss))
                         [] OTHER -> fences
          /\ calling' = Head(queue) @@ [ss |-> c.ss, ids |-> c.ids, answered |-> c.call]
    /\ queue' = Tail(queue)
    /\ wire' = Tail(wire)
    /\ UNCHANGED <<mForwardMap, mBackwardMap, mExtMap, next, breached, misnamed, calls>>

\* Removed geofences are looked up in the map the request took with it.
\* A slip: they are looked up in the client's.
LookUpNow(r) == mBackwardMap
lookUp(r) == IF r.kind = "remove" THEN r.removed ELSE mBackwardMap

onCollectiveResponse ==
    /\ calling # <<>>
    /\ LET named == [i \in DOMAIN calling.ss |-> getId(lookUp(calling), calling.ss[i])]
       IN misnamed' = IF named # calling.ids \/ calling.call # calling.answered
                      THEN misnamed \cup {calling.answered} ELSE misnamed
    /\ calling' = <<>>
    /\ UNCHANGED <<mForwardMap, mBackwardMap, mExtMap, queue, next, wire, fences, breached, calls>>

\* The engine reports breaches of some geofences.
beforeGeofenceBreachCb(S, b) ==
    /\ calling = <<>>
    /\ \A s \in S : b \in fences[s]
    /\ breached' = {getId(mBackwardMap, s) : s \in {t \in S \cap DOMAIN mExtMap : b \in mExtMap[t]}}
    /\ UNCHANGED <<mForwardMap, mBackwardMap, mExtMap, queue, next, wire, fences, calling,
                   misnamed, calls>>

Lists == {<<a>> : a \in Id} \cup {<<a, b>> : a \in Id, b \in Id}

Next ==
    \/ \E ids \in Lists :
         \/ \E masks \in [DOMAIN ids -> Mask] :
              \/ locAPIAddGeofences(ids, masks)
              \/ locAPIModifyGeofences(ids, masks)
              \/ locAPIResumeGeofences(ids, masks)
         \/ locAPIRemoveGeofences(ids)
         \/ locAPIPauseGeofences(ids)
    \/ onCollectiveResponseCb \/ onCollectiveResponse
    \/ \E S \in SUBSET DOMAIN fences, b \in UNION Mask : beforeGeofenceBreachCb(S, b)

Spec == Init /\ [][Next]_vars

-----------------------------------------------------------------------------
TypeOK ==
    /\ DOMAIN mForwardMap \subseteq Id /\ DOMAIN mExtMap = DOMAIN mBackwardMap
    /\ DOMAIN mBackwardMap \cup DOMAIN fences \subseteq 1 .. (next - 1)

(***************************************************************************)
(* A collective answer names the geofences of the call it answers, also    *)
(* when they have been removed by the time it comes (onCollectiveResponse  *)
(* of RemoveGeofencesRequest).                                             *)
(***************************************************************************)
AnswerNamesItsFences == misnamed = {}

(***************************************************************************)
(* With nothing under way the client has an id for each geofence that the  *)
(* adapter has, and for no other, and both watch it for the same breaches: *)
(* none is lost to the filter of beforeGeofenceBreachCb.                   *)
(***************************************************************************)
FencesAgree ==
    Quiescent =>
        /\ mExtMap = fences
        /\ DOMAIN mBackwardMap = Range(mForwardMap)
        /\ \A id \in DOMAIN mForwardMap : mBackwardMap[mForwardMap[id]] = id

(***************************************************************************)
(* "if type == 0, we will not head into the following block anyway. so we  *)
(* don't need to check id and type": a breach is reported for ids that the *)
(* client has.                                                             *)
(***************************************************************************)
BreachIsOfAKnownFence == [][breached' # breached => breached' \subseteq DOMAIN mForwardMap]_vars
=============================================================================
