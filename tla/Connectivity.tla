---------------------------- MODULE Connectivity ----------------------------
(***************************************************************************)
(* What the XTRA daemon knows of the phone's networks, and how it learns   *)
(* it: AGnssRil turns the framework's network states into events,          *)
(* SystemStatus collates each with the table of networks it had            *)
(* (SystemStatus.h), SystemStatusOsObserver tells the collated item to its *)
(* subscriber XtraSystemStatusObserver if it is news, and that one sends   *)
(* it over a datagram socket once the daemon has asked for the status.     *)
(* Everything in between runs as messages of one MsgTask.                  *)
(***************************************************************************)
EXTENDS Integers, Sequences, FiniteSets

CONSTANTS
  Network,      \* handles of the framework's networks
  TypeOf,       \* the type of each
  MaxHandles,   \* MAX_NETWORK_HANDLES, the length of the table
  Ril,          \* the interface the framework uses: "1.0" or "2.0"
  NewestFirst,  \* TRUE: networks go in the reverse order they came in
  Field,        \* what else the daemon is told: "lock", "mccmnc", "throttle"
  Value,        \* its values
  None,         \* not known yet
  MaxEvents,    \* bound: events of the framework and the adapter
  MaxStarts     \* bound: starts of the daemon

VARIABLES
  networks,   \* the connected networks, in the order they came
  fields,     \* the last value given of each other field
  latest,     \* the last of mCache.mNetworkInfo, which is what clients are told
  xtra,       \* the observer: connections, other fields, mReqStatusReceived
  msgQ,       \* messages of the adapter's MsgTask
  wire,       \* datagrams on their way to the daemon
  daemon,     \* the daemon: up, has had its answer, what it was told
  events, starts

vars == <<networks, fields, latest, xtra, msgQ, wire, daemon, events, starts>>

Free == [handle |-> None, type |-> "unknown"]
Unheard == [f \in Field |-> None]

Init ==
  /\ networks = <<>> /\ fields = Unheard /\ latest = None
  /\ xtra = [connections |-> None, field |-> Unheard, asked |-> FALSE]
  /\ msgQ = <<>> /\ wire = <<>>
  /\ daemon = [up |-> FALSE, known |-> FALSE, connections |-> None, field |-> Unheard]
  /\ events = 0 /\ starts = 0

-----------------------------------------------------------------------------
(* The collated table.                                                     *)

\* What the RIL makes of a network. updateNetworkState() of 1.0 passes its
\* arguments in another order than the callee takes them: the type is FALSE
\* (TYPE_MOBILE) and the handle 0 whatever the network.
entry(n) == IF Ril = "1.0" THEN [handle |-> 0, type |-> "mobile"]
                           ELSE [handle |-> n, type |-> TypeOf[n]]

Place == 1 .. MaxHandles
EmptyTable == [i \in Place |-> Free]
first(S) == CHOOSE i \in S : \A j \in S : i =< j
\* The places before the first free one: the loops look no further.
valid(table) == {i \in Place : \A j \in 1 .. i : table[j] # Free}

addHandle(table, e) ==
  LET free == {i \in Place : table[i] = Free}
      same == {i \in valid(table) : table[i].handle = e.handle}
  IN IF same # {} \/ free = {} THEN table ELSE [table EXCEPT ![first(free)] = e]

\* The entry after the last valid one: behind a full table that is memory of
\* the item itself, its handle and then its id.
after(table, e) ==
  IF valid(table) = Place THEN [handle |-> e.handle, type |-> "id"]
                          ELSE table[Cardinality(valid(table)) + 1]
removeHandle(table, e) ==
  LET gone == {i \in valid(table) : table[i].handle = e.handle}
      last == Cardinality(valid(table)) + 1
      moved == [table EXCEPT ![CHOOSE i \in gone : TRUE] = after(table, e)]
  IN IF gone = {} THEN table
     ELSE [i \in Place |-> IF i = last THEN Free ELSE moved[i]]
\* Mutant: the network that goes is counted.
OfTypeWithIt(table, e) == Cardinality({i \in valid(table) : table[i].type = e.type})
ofType(table, e) ==
  Cardinality({i \in valid(table) : table[i].type = e.type /\ table[i].handle # e.handle})

collate(cur, e, connected) ==
  IF cur = None
  THEN [types |-> {e.type}, table |-> [EmptyTable EXCEPT ![1] = e]]
  ELSE IF connected
  THEN [types |-> cur.types \cup {e.type}, table |-> addHandle(cur.table, e)]
  ELSE [types |-> IF ofType(cur.table, e) = 0 THEN cur.types \ {e.type} ELSE {e.type},
        table |-> removeHandle(cur.table, e)]

\* setIteminReport(): an item whose table is the same as before is no news.
isSame(s) == latest # None /\ latest.table = s.table

-----------------------------------------------------------------------------
(* The messages of the task.                                               *)

\* A datagram is lost when the daemon is not there.
sendTo(m) == wire' = IF daemon.up THEN Append(wire, m) ELSE wire

\* eventDataItemNotify() and, if it is news, XtraSystemStatusObserver::notify().
HandleNotify(m) ==
  LET s == collate(latest, m.entry, m.connected)
  IN /\ IF isSame(s)
        THEN msgQ' = Tail(msgQ) /\ UNCHANGED latest
        ELSE /\ latest' = s
             /\ msgQ' = Append(Tail(msgQ), [kind |-> "update", connections |-> s])
     /\ UNCHANGED <<xtra, wire>>

updateConnections(m) ==
  /\ xtra' = [xtra EXCEPT !.connections = m.connections]
  /\ IF xtra.asked THEN sendTo(m) ELSE UNCHANGED wire
  /\ msgQ' = Tail(msgQ) /\ UNCHANGED latest

\* updateLockStatus(), updateMccMnc(), updateTac(), updateXtraThrottle().
\* Mutant: what the daemon has not asked for yet is not kept.
NotKept(m) ==
  /\ IF xtra.asked THEN /\ xtra' = [xtra EXCEPT !.field[m.field] = m.value]
                        /\ sendTo(m)
                   ELSE UNCHANGED <<xtra, wire>>
  /\ msgQ' = Tail(msgQ) /\ UNCHANGED latest
updateField(m) ==
  /\ xtra' = [xtra EXCEPT !.field[m.field] = m.value]
  /\ IF xtra.asked THEN sendTo(m) ELSE UNCHANGED wire
  /\ msgQ' = Tail(msgQ) /\ UNCHANGED latest

\* The answer has every field but the throttle. A daemon that says its status
\* is up to date gets none.
onStatusRequested(m) ==
  /\ xtra' = [xtra EXCEPT !.asked = TRUE]
  /\ IF m.updated THEN UNCHANGED wire
     ELSE sendTo([kind |-> "respondStatus", connections |-> xtra.connections,
                  field |-> [f \in Field \ {"throttle"} |-> xtra.field[f]]])
  /\ msgQ' = Tail(msgQ) /\ UNCHANGED latest

HandleMessage ==
  /\ msgQ # <<>>
  /\ LET m == Head(msgQ)
     IN CASE m.kind = "notify" -> HandleNotify(m)
          [] m.kind = "update" -> updateConnections(m)
          [] m.kind = "field"  -> updateField(m)
          [] m.kind = "status" -> onStatusRequested(m)
  /\ UNCHANGED <<networks, fields, daemon, events, starts>>

-----------------------------------------------------------------------------
(* The framework, the adapter and the daemon.                              *)

post(m) == msgQ' = Append(msgQ, m)
among(n) == \E i \in 1 .. Len(networks) : networks[i] = n

updateNetworkState(n, connected) ==
  /\ events < MaxEvents /\ events' = events + 1
  /\ connected # among(n)
  /\ ~connected /\ NewestFirst => networks[Len(networks)] = n
  /\ networks' = IF connected THEN Append(networks, n)
                 ELSE SelectSeq(networks, LAMBDA x : x # n)
  /\ post([kind |-> "notify", entry |-> entry(n), connected |-> connected])
  /\ UNCHANGED <<fields, latest, xtra, wire, daemon, starts>>

FieldChanges(f, v) ==
  /\ events < MaxEvents /\ events' = events + 1
  /\ fields' = [fields EXCEPT ![f] = v]
  /\ post([kind |-> "field", field |-> f, value |-> v])
  /\ UNCHANGED <<networks, latest, xtra, wire, daemon, starts>>

\* The daemon starts knowing nothing, and asks; it dies with what it knew.
DaemonStarts ==
  /\ ~daemon.up /\ starts < MaxStarts /\ starts' = starts + 1
  /\ daemon' = [up |-> TRUE, known |-> FALSE, connections |-> None, field |-> Unheard]
  /\ post([kind |-> "status", updated |-> FALSE])
  /\ UNCHANGED <<networks, fields, latest, xtra, wire, events>>

DaemonDies ==
  /\ daemon.up
  /\ daemon' = [daemon EXCEPT !.up = FALSE] /\ wire' = <<>>
  /\ UNCHANGED <<networks, fields, latest, xtra, msgQ, events, starts>>

\* The halinit timer makes a daemon that has its status ask again.
DaemonAsksAgain ==
  /\ daemon.up /\ daemon.known /\ events < MaxEvents /\ events' = events + 1
  /\ post([kind |-> "status", updated |-> TRUE])
  /\ UNCHANGED <<networks, fields, latest, xtra, wire, daemon, starts>>

DaemonReads ==
  /\ daemon.up /\ wire # <<>>
  /\ LET m == Head(wire)
     IN daemon' = CASE m.kind = "update" -> [daemon EXCEPT !.connections = m.connections]
                    [] m.kind = "field" -> [daemon EXCEPT !.field[m.field] = m.value]
                    [] m.kind = "respondStatus" ->
                         [daemon EXCEPT !.known = TRUE, !.connections = m.connections,
                            !.field = [f \in Field |-> IF f \in DOMAIN m.field THEN m.field[f]
                                                       ELSE @[f]]]
  /\ wire' = Tail(wire)
  /\ UNCHANGED <<networks, fields, latest, xtra, msgQ, events, starts>>

Next ==
  \/ HandleMessage
  \/ \E n \in Network, c \in BOOLEAN : updateNetworkState(n, c)
  \/ \E f \in Field, v \in Value : FieldChanges(f, v)
  \/ DaemonStarts \/ DaemonDies \/ DaemonAsksAgain \/ DaemonReads

Spec == Init /\ [][Next]_vars

-----------------------------------------------------------------------------
(* Properties.                                                             *)

AtRest == msgQ = <<>> /\ wire = <<>> /\ daemon.up /\ daemon.known

\* When nothing is on its way, the daemon knows exactly the networks that are
\* connected and their types, whenever it was started or restarted and
\* however the events, its questions and its deaths fell between each other
\* (collate, setIteminReport, updateConnections and onStatusRequested).
NetworksAreKnown ==
  AtRest =>
    LET conn == daemon.connections
        there == {networks[i] : i \in 1 .. Len(networks)}
    IN IF conn = None THEN networks = <<>>
       ELSE /\ {conn.table[i].handle : i \in Place} \ {None} = there
            /\ conn.types = {TypeOf[n] : n \in there}

\* When nothing is on its way, the daemon has the last value given of
\* every field, before or after the daemon asked (updateLockStatus,
\* updateMccMnc, onStatusRequested).
FieldsAreKnown == AtRest => \A f \in Field : daemon.field[f] = fields[f]
=============================================================================
