----------------------------- MODULE BatchingHal -----------------------------
(***************************************************************************)
(* The batching service that the framework calls: class GnssBatching (HIDL *)
(* 2.0) and its BatchingAPIClient.  Each init makes a new client, deletes  *)
(* the old one, and keeps one callback of each version under watch.  What  *)
(* the client asks is a message to the adapter, whose thread answers and   *)
(* passes batches on, in the order of its queue; a deleted client stays    *)
(* known to the adapter until the message that removes it is handled.      *)
(*                                                                         *)
(* Batches made for others reach the client, too.  What LocationAPI and    *)
(* its base keep of the session is only whether the id is in use.          *)
(***************************************************************************)
EXTENDS Naturals, Sequences, FiniteSets

CONSTANTS
  Interface,     \* the interface versions that the framework uses
  Callback,      \* callback objects
  ProcessOf,     \* the process (1 or 2) a callback object lives in
  Quiet,         \* init finds the adapter with nothing to do
  Waits,         \* start finds the session before stopped, and no call under way
  NoticesFirst,  \* a process that comes back finds the old one's death handled
  MaxCalls,      \* bound: calls of the framework
  none

VARIABLES
  service,    \* GnssBatching: its callbacks and mApi, 0 or the number of a client
  client,     \* each BatchingAPIClient: callbacks, whether its session's id is in
              \* use, the capabilities it knows
  deleted,    \* clients that have been deleted
  linked,     \* callbacks whose death the service is told of
  wire,       \* the adapter's messages
  known,      \* the adapter's clients
  running,    \* its sessions: the mode of each client's
  reporter,   \* the adapter's thread in onBatchingCb
  live, calls,
  current, wanted, stray
     \* ghosts: the callback of the last init; the mode of the session the living
     \* process thinks it has; a deleted client was called

vars == <<service, client, deleted, linked, wire, known, running, reporter, live, calls,
          current, wanted, stray>>

Flag == {"on full", "no report"}
Idle == [at |-> "idle"]

Init ==
  /\ service = [cb10 |-> none, cb20 |-> none, api |-> 0]
  /\ client = <<>> /\ deleted = {} /\ linked = {}
  /\ wire = <<>> /\ known = {} /\ running = [n \in {} |-> none] /\ reporter = Idle
  /\ live = 1 /\ calls = 0 /\ current = none /\ wanted = none /\ stray = FALSE

-----------------------------------------------------------------------------
\* BatchingAPIClient(callback), onBatchingCb's choice among its two.
NewClient(slot, c) ==
  [[cb10 |-> none, cb20 |-> none, session |-> FALSE, caps |-> {}] EXCEPT ![slot] = c]
Target(n) == IF client[n].cb20 # none THEN client[n].cb20 ELSE client[n].cb10

Message(op, n) == [op |-> op, n |-> n, mode |-> none]
Busy == wire # <<>> \/ reporter # Idle

Called ==
  /\ calls < MaxCalls /\ calls' = calls + 1
  /\ NoticesFirst => \A c \in linked : ProcessOf[c] = live

ByCall == UNCHANGED <<known, running, reporter, live, stray>>

\* The callback of the same version is unlinked, the other one stays linked.
\* Mutant: the old callback stays linked.
AllLinked(slot, c) == linked \cup {c}
relinked(slot, c) == (linked \ {service[slot]}) \cup {c}

\* Mutant: the old client is not deleted.
NewOnly(slot, c) == <<Message("add", Len(client) + 1)>>
remade(slot, c) ==
  (IF service.api # 0 THEN <<Message("remove", service.api)>> ELSE <<>>)
    \o <<Message("add", Len(client) + 1)>>

init(slot, c) ==
  /\ Called /\ (Quiet => ~Busy)
  /\ deleted' = IF service.api # 0 THEN deleted \cup {service.api} ELSE deleted
  /\ client' = Append(client, NewClient(slot, c))
  /\ service' = [service EXCEPT ![slot] = c, !.api = Len(client) + 1]
  /\ linked' = relinked(slot, c)
  /\ wire' = wire \o remade(slot, c)
  /\ current' = c /\ wanted' = none
  /\ ByCall

\* convertBatchOption: what the capabilities allow best.
convertBatchOption(caps) ==
  IF "msb" \in caps THEN "msb" ELSE IF "msa" \in caps THEN "msa" ELSE "standalone"
modeOf(flags) == IF flags = "on full" THEN "routine" ELSE "no auto report"

\* The answer is true whatever locAPIStartSession says, since -1 is true.
start(flags) ==
  /\ Called /\ service.api # 0
  /\ Waits => wire = <<>> /\ ~client[service.api].session
  /\ LET n == service.api
         mode == <<modeOf(flags), convertBatchOption(client[n].caps)>>
     IN /\ wire' = IF client[n].session THEN wire
                   ELSE Append(wire, [op |-> "start", n |-> n, mode |-> mode])
        /\ client' = [client EXCEPT ![n].session = TRUE]
        /\ wanted' = modeOf(flags)
  /\ UNCHANGED <<service, deleted, linked, current>> /\ ByCall

stopSession ==
  IF service.api # 0 /\ client[service.api].session
  THEN <<Message("stop", service.api)>> ELSE <<>>

stop ==
  /\ Called
  /\ wire' = wire \o stopSession /\ wanted' = none
  /\ UNCHANGED <<service, client, deleted, linked, current>> /\ ByCall

flush ==
  /\ Called /\ service.api # 0 /\ client[service.api].session
  /\ wire' = Append(wire, Message("get", service.api))
  /\ UNCHANGED <<service, client, deleted, linked, current, wanted>> /\ ByCall

\* The client and its callbacks stay.
forgotten ==
  /\ service' = [service EXCEPT !.cb10 = none, !.cb20 = none]
  /\ linked' = {}

cleanup ==
  /\ Called
  /\ wire' = wire \o stopSession /\ forgotten /\ wanted' = none
  /\ UNCHANGED <<client, deleted, current>> /\ ByCall

\* stop(), then cleanup(), which stops again.
\* Mutant: only the watch is given up.
NothingStopped == <<>>
stoppedTwice == stopSession \o stopSession
serviceDied(c) ==
  /\ c \in linked /\ ProcessOf[c] < live
  /\ wire' = wire \o stoppedTwice /\ forgotten /\ wanted' = none
  /\ UNCHANGED <<client, deleted, calls, current>> /\ ByCall

Crash ==
  /\ live = 1 /\ live' = 2 /\ wanted' = none
  /\ UNCHANGED <<service, client, deleted, linked, wire, known, running, reporter, calls,
                 current, stray>>

-----------------------------------------------------------------------------
(***************************************************************************)
(* The adapter's thread, one message at a time.                            *)
(***************************************************************************)
Touches(n) == stray' = (stray \/ n \in deleted)
Handle(op) ==
  /\ reporter = Idle /\ wire # <<>> /\ Head(wire).op = op
  /\ UNCHANGED <<service, deleted, linked, live, calls, current, wanted>>

\* A client that is new is told what the engine can do.
added ==
  /\ Handle("add")
  /\ LET n == Head(wire).n
     IN known' = known \cup {n} /\ client' = [client EXCEPT ![n].caps = {"msa", "msb"}] /\ Touches(n)
  /\ wire' = Tail(wire) /\ UNCHANGED <<running, reporter>>

removed ==
  /\ Handle("remove")
  /\ LET n == Head(wire).n
     IN known' = known \ {n} /\ running' = [m \in DOMAIN running \ {n} |-> running[m]]
  /\ wire' = Tail(wire) /\ UNCHANGED <<client, reporter, stray>>

started ==
  /\ Handle("start")
  /\ LET n == Head(wire).n
     IN /\ running' = [m \in DOMAIN running \cup {n} |->
                         IF m = n THEN Head(wire).mode ELSE running[m]]
        /\ Touches(n)
  /\ wire' = Tail(wire) /\ UNCHANGED <<client, known, reporter>>

\* Only an answer that the session is stopped frees its id.
stopped ==
  /\ Handle("stop")
  /\ LET n == Head(wire).n
     IN /\ running' = [m \in DOMAIN running \ {n} |-> running[m]]
        /\ client' = IF n \in DOMAIN running THEN [client EXCEPT ![n].session = FALSE] ELSE client
        /\ Touches(n)
  /\ wire' = Tail(wire) /\ UNCHANGED <<known, reporter>>

\* What was batched is reported, as when the batch is full, and to everybody.
got ==
  /\ Handle("get")
  /\ wire' = Append(Tail(wire), Message("batch", 0)) /\ Touches(Head(wire).n)
  /\ UNCHANGED <<client, known, running, reporter>>

Full ==
  /\ \A i \in DOMAIN wire : wire[i].op # "batch"
  /\ wire' = Append(wire, Message("batch", 0))
  /\ UNCHANGED <<service, client, deleted, linked, known, running, reporter, live, calls,
                 current, wanted, stray>>

reportLocations ==
  /\ Handle("batch")
  /\ wire' = Tail(wire)
  /\ reporter' = IF known = {} THEN Idle ELSE [at |-> "reporting", to |-> known]
  /\ UNCHANGED <<client, known, running, stray>>

\* onBatchingCb of one client after the other.
onBatchingCb ==
  /\ reporter # Idle
  /\ \E n \in reporter.to :
       /\ reporter' = IF reporter.to = {n} THEN Idle ELSE [reporter EXCEPT !.to = @ \ {n}]
       /\ Touches(n)
  /\ UNCHANGED <<service, client, deleted, linked, wire, known, running, live, calls, current,
                 wanted>>

Adapter == added \/ removed \/ started \/ stopped \/ got \/ reportLocations \/ onBatchingCb

\* It starts only what it has inited and not cleaned up, and an object of one
\* version is not one of the other.
Framework ==
  \/ \E c \in {d \in Callback : ProcessOf[d] = live} :
       \/ "1.0" \in Interface /\ c # service.cb20 /\ init("cb10", c)
       \/ "2.0" \in Interface /\ c # service.cb10 /\ init("cb20", c)
  \/ linked # {} /\ \E flags \in Flag : start(flags)
  \/ stop \/ flush \/ cleanup

Next ==
  \/ Framework \/ Crash \/ Full \/ Adapter
  \/ \E c \in Callback : serviceDied(c)

Spec == Init /\ [][Next]_vars

-----------------------------------------------------------------------------
TypeOK ==
  /\ service.api \in 0 .. Len(client) /\ deleted \subseteq 1 .. Len(client)
  /\ linked \subseteq Callback /\ known \subseteq 1 .. Len(client)

AtRest == wire = <<>> /\ reporter = Idle /\ \A c \in linked : ProcessOf[c] = live

\* With nothing under way the adapter knows the service's client and no other;
\* its session runs exactly while the framework thinks it does, in the mode
\* asked for and with all the help the engine can use: a process that crashed
\* leaves no session behind.
SessionIsTheLivings ==
  AtRest =>
    /\ known = {service.api} \ {0} /\ DOMAIN running \subseteq known
    /\ IF wanted = none THEN running = <<>>
       ELSE running = [n \in {service.api} |-> <<wanted, "msb">>]

\* The callbacks watched for their process's death are those of the service,
\* and the last of them gets the batches.
BatchesReachTheLast ==
  AtRest =>
    /\ linked = {service.cb10, service.cb20} \ {none}
    /\ linked # {} => Target(service.api) = current

\* Neither an answer nor a batch is given to a client that has been deleted.
NoStrayCall == ~stray
=============================================================================
