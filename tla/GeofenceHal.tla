----------------------------- MODULE GeofenceHal -----------------------------
(***************************************************************************)
(* The geofence service that the framework calls: class GnssGeofencing     *)
(* (HIDL 2.0) and its GeofenceAPIClient.  The first callback makes the     *)
(* client, which keeps it for good: a later one, of a process that has     *)
(* come back, is not taken, and the death of a process removes nothing.    *)
(*                                                                         *)
(* Each call is about one geofence.  Of the base (ClientFences) the ids in *)
(* use and their breaches are kept, of the adapter (Geofence) one queue of *)
(* calls and reports, carried out and answered in order.                   *)
(***************************************************************************)
EXTENDS Naturals, Sequences, FiniteSets, Functions

CONSTANTS
  Id,        \* the framework's ids
  Transition,  \* sets of transitions it asks for
  Error,     \* errors of the engine, beside those about ids
  RemoveMayFail,
  MaxCalls,  \* bound: calls of the framework
  none

VARIABLES
  cb,        \* mGnssGeofencingCbIface: the process it lives in, or none
  linked,    \* the service is told of that process's death
  breachTypeMask,  \* mGeofenceBiDict: id -> breaches
  wire,      \* the adapter's messages
  engine,    \* its geofences: id -> "on" or "paused"
  live, calls,
  told, asked, crossed
     \* ghosts: what the process in cb has been told of its geofences, the
     \* transitions it asked for, the last one there was

vars == <<cb, linked, breachTypeMask, wire, engine, live, calls, told, asked, crossed>>

Put(f, x, y) == [z \in DOMAIN f \cup {x} |-> IF z = x THEN y ELSE f[z]]
Without(f, x) == Restrict(f, DOMAIN f \ {x})
Nothing == [type |-> none, told |-> FALSE, wanted |-> {}]

Init ==
  /\ cb = none /\ linked = FALSE
  /\ breachTypeMask = [i \in {} |-> {}] /\ wire = <<>> /\ engine = [i \in {} |-> "on"]
  /\ live = 1 /\ calls = 0
  /\ told = [i \in {} |-> "on"] /\ asked = [i \in {} |-> {}] /\ crossed = Nothing

-----------------------------------------------------------------------------
setCallback ==
  /\ calls < MaxCalls /\ calls' = calls + 1
  /\ IF cb # none THEN UNCHANGED <<cb, linked>> ELSE cb' = live /\ linked' = TRUE
  /\ UNCHANGED <<breachTypeMask, wire, engine, live, told, asked, crossed>>

\* The framework calls about a geofence again when it has its answer.
Called(id) ==
  /\ cb # none /\ calls < MaxCalls /\ calls' = calls + 1
  /\ \A i \in DOMAIN wire : wire[i].id # id
  /\ UNCHANGED <<cb, linked, engine, live, told, crossed>>

Sent(op, id) == wire' = Append(wire, [op |-> op, id |-> id, type |-> none])

\* Transitions other than entering and leaving are not asked for.
\* Mutant: leaving counts as entering.
EnteringOnly(transitions) == IF transitions = {} THEN {} ELSE {"entered"}
maskOf(transitions) == transitions \cap {"entered", "exited"}

\* An id is used for a new geofence when the framework knows of none.
geofenceAdd(id, transitions) ==
  /\ Called(id) /\ (live = 1 => id \notin DOMAIN told)
  /\ breachTypeMask' = Put(breachTypeMask, id, maskOf(transitions))
  /\ asked' = Put(asked, id, transitions)
  /\ Sent("add", id)

\* Of an id that is not known there is neither a call nor an answer.
geofencePause(id) ==
  /\ Called(id) /\ id \in DOMAIN breachTypeMask
  /\ Sent("pause", id)
  /\ UNCHANGED <<breachTypeMask, asked>>

geofenceResume(id, transitions) ==
  /\ Called(id) /\ id \in DOMAIN breachTypeMask
  /\ breachTypeMask' = Put(breachTypeMask, id, maskOf(transitions))
  /\ asked' = Put(asked, id, transitions)
  /\ Sent("resume", id)

geofenceRemove(id) ==
  /\ Called(id) /\ id \in DOMAIN breachTypeMask
  /\ breachTypeMask' = Without(breachTypeMask, id)
  /\ Sent("remove", id)
  /\ UNCHANGED asked

\* geofenceRemoveAll is still to be written, and does nothing.
serviceDied ==
  /\ linked /\ live = 2 /\ linked' = FALSE
  /\ UNCHANGED <<cb, breachTypeMask, wire, engine, live, calls, told, asked, crossed>>

Crash ==
  /\ live = 1 /\ live' = 2
  /\ UNCHANGED <<cb, linked, breachTypeMask, wire, engine, calls, told, asked, crossed>>

-----------------------------------------------------------------------------
(***************************************************************************)
(* The adapter's thread answers the calls and passes breaches on.          *)
(***************************************************************************)
Carried(m) ==
  CASE m.op = "add" -> Put(engine, m.id, "on")
    [] m.op = "pause" -> Put(engine, m.id, "paused")
    [] m.op = "resume" -> Put(engine, m.id, "on")
    [] OTHER -> Without(engine, m.id)

\* Of a geofence the adapter has not got, it knows without the engine.
errors(m) ==
  IF m.op # "add" /\ m.id \notin DOMAIN engine THEN {"id unknown"}
  ELSE {"success"} \cup (IF m.op = "remove" /\ ~RemoveMayFail THEN {} ELSE Error)
                   \cup (IF m.op = "add" THEN {"id exists"} ELSE {})

\* The status of a callback: each kind of call has one error of its own.
\* Mutant: what the adapter does not know is no error.
UnknownIsFine(op, error) == IF error = "id unknown" THEN "success" ELSE error
statusOf(op, error) ==
  IF error \in {"success", IF op = "add" THEN "id exists" ELSE "id unknown"}
  THEN error ELSE "generic"

\* What a process makes of it: a geofence it cannot resume or remove is there
\* still, unless it is unknown.
Understood(m, status) ==
  CASE status = "success" /\ m.op = "remove" -> Without(told, m.id)
    [] status = "success" -> Put(told, m.id, IF m.op = "pause" THEN "paused" ELSE "on")
    [] status = "id unknown" -> Without(told, m.id)
    [] OTHER -> told

onGeofencesCb ==
  /\ wire # <<>> /\ Head(wire).op # "breach"
  /\ LET m == Head(wire)
     IN \E error \in errors(m) :
          /\ engine' = IF error = "success" THEN Carried(m) ELSE engine
          /\ told' = Understood(m, statusOf(m.op, error))
  /\ wire' = Tail(wire)
  /\ UNCHANGED <<cb, linked, breachTypeMask, live, calls, asked, crossed>>

Cross(id, type) ==
  /\ engine[id] = "on" /\ \A i \in DOMAIN wire : wire[i].op # "breach"
  /\ wire' = Append(wire, [op |-> "breach", id |-> id, type |-> type])
  /\ UNCHANGED <<cb, linked, breachTypeMask, engine, live, calls, told, asked, crossed>>

onGeofenceBreachCb ==
  /\ wire # <<>> /\ Head(wire).op = "breach"
  /\ LET m == Head(wire)
         removing == \E i \in DOMAIN wire : wire[i].op = "remove" /\ wire[i].id = m.id
     IN crossed' = [type |-> m.type,
                    told |-> m.id \in DOMAIN breachTypeMask /\ m.type \in breachTypeMask[m.id],
                    wanted |-> IF removing \/ m.id \notin DOMAIN told THEN {} ELSE asked[m.id]]
  /\ wire' = Tail(wire)
  /\ UNCHANGED <<cb, linked, breachTypeMask, engine, live, calls, told, asked>>

Next ==
  \/ setCallback \/ serviceDied \/ Crash \/ onGeofencesCb \/ onGeofenceBreachCb
  \/ \E id \in Id :
       \/ \E t \in Transition : geofenceAdd(id, t) \/ geofenceResume(id, t)
       \/ geofencePause(id) \/ geofenceRemove(id)
  \/ \E id \in DOMAIN engine, type \in {"entered", "exited"} : Cross(id, type)

Spec == Init /\ [][Next]_vars

-----------------------------------------------------------------------------
TypeOK ==
  /\ cb \in {1, 2, none} /\ DOMAIN breachTypeMask \subseteq Id /\ DOMAIN engine \subseteq Id
  /\ \A id \in DOMAIN engine : engine[id] \in {"on", "paused"}

\* With nothing under way the process that registered knows from its callbacks
\* which geofences there are and which of them are paused, whatever failed.
FrameworkKnowsItsFences == live = 1 /\ wire = <<>> => told = engine

\* It is told of each transition of a geofence it knows that it asked for, and
\* of no other.
CrossedAsAsked == live = 1 /\ crossed # Nothing => crossed.told = (crossed.type \in crossed.wanted)
=============================================================================
