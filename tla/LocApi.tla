------------------------------- MODULE LocApi -------------------------------
(***************************************************************************)
(* The modem interface (LocApiBase) and what every adapter inherits        *)
(* (LocAdapterBase): clients, event masks, capabilities and the messages   *)
(* that wait for them.                                                     *)
(*                                                                         *)
(* Two threads.  The context's MsgTask runs the adapters: when clients     *)
(* come and go an adapter computes the events it wants and asks LocApiBase *)
(* to open the modem again.  LocApiBase's own MsgTask opens and closes it, *)
(* with the events all adapters want at that moment, and tells an adapter  *)
(* that is new, or all after a modem restart, that the engine is up.  The  *)
(* vendor's threads bring reports and the news of a restart.               *)
(*                                                                         *)
(* Abstracted: events are model values; what an adapter always asks for,   *)
(* and an excluded mask, play no part; of the messages that wait for the   *)
(* capabilities there is the request for them.  Adapters are never         *)
(* destroyed (nothing calls their deinitialize).                           *)
(***************************************************************************)
EXTENDS Integers, Sequences, FiniteSets, Functions, SequencesExt

CONSTANTS
    Adapter, NoAdapter,
    Client, Event,
    OpenWaits,      \* open() waits for an engine that is down
    MaxCalls, MaxRestarts, MaxReports

VARIABLES
    mLocAdapters,   \* the adapters, in the order they were made
    mEvtMask,       \* adapter -> events
    mClientData,    \* adapter -> client -> events it has a callback for
    mKnown,         \* adapter -> mIsEngineCapabilitiesKnown
    mPendingMsgs,   \* adapter -> clients whose requests wait
    known,          \* ContextBase::sIsEngineCapabilitiesKnown
    msgQ, locQ,     \* the messages of the context's thread and of LocApiBase's
    up, registered, \* the engine; the events it reports, {} when closed
    restarted,      \* adapters that have restarted their sessions since it
                    \* came up
    asked, told,    \* clients that asked for capabilities; that have them
    strays,         \* clients called back after they had gone
    calls, restarts, reports

vars == <<mLocAdapters, mEvtMask, mClientData, mKnown, mPendingMsgs, known, msgQ, locQ, up,
          registered, restarted, asked, told, strays, calls, restarts, reports>>

Init ==
    /\ mLocAdapters = <<>>
    /\ mEvtMask = [a \in Adapter |-> {}]
    /\ mClientData = [a \in Adapter |-> <<>>]
    /\ mKnown = [a \in Adapter |-> FALSE]
    /\ mPendingMsgs = [a \in Adapter |-> <<>>]
    /\ known = FALSE
    /\ msgQ = <<>> /\ locQ = <<>>
    /\ up = TRUE /\ registered = {} /\ restarted = {}
    /\ asked = {} /\ told = {} /\ strays = {}
    /\ calls = 0 /\ restarts = 0 /\ reports = 0

adapters == Range(mLocAdapters)

Put(f, x, y) == [z \in DOMAIN f \cup {x} |-> IF z = x THEN y ELSE f[z]]
Without(f, x) == Restrict(f, DOMAIN f \ {x})

Msg(kind, a, c, e) == [kind |-> kind, adapter |-> a, client |-> c, events |-> e]
EngineUpMsgs(S) == [i \in DOMAIN S |-> Msg("engineUp", S[i], S[i], {})]
LocOpenMsg(a) == [kind |-> "open", adapter |-> a]
LocSsrMsg == [kind |-> "ssr", adapter |-> NoAdapter]

-----------------------------------------------------------------------------
(***************************************************************************)
(* The context's thread.  A handler is a function on the record st of what *)
(* it may change.                                                          *)
(***************************************************************************)
St == [mask |-> mEvtMask, clients |-> mClientData, known |-> mKnown, pending |-> mPendingMsgs,
       sent |-> <<>>, loc |-> locQ, restarted |-> restarted, told |-> told, strays |-> strays]

\* Mutant: the modem is not opened again.
MaskOnly(st, a) == [st EXCEPT !.mask[a] = UNION Range(st.clients[a])]

updateClientsEventMask(st, a) ==
    [st EXCEPT !.mask[a] = UNION Range(st.clients[a]),
               !.loc = Append(@, LocOpenMsg(NoAdapter))]

saveClient(a, c, events) ==
    updateClientsEventMask([St EXCEPT !.clients[a] = Put(@, c, events)], a)

eraseClient(a, c) ==
    updateClientsEventMask([St EXCEPT !.clients[a] = Without(@, c)], a)

requestCapabilities(a, c) ==
    IF ~mKnown[a] THEN [St EXCEPT !.pending[a] = Append(@, c)]
    ELSE IF c \in DOMAIN mClientData[a] THEN [St EXCEPT !.told = @ \cup {<<a, c>>}]
    ELSE St

\* Mutant: the messages that waited are dropped.
DropPending(a) ==
    [St EXCEPT !.known[a] = TRUE, !.restarted = @ \cup {a}, !.pending[a] = <<>>]

\* The capabilities go to every client the adapter has; then sessions are
\* restarted, and the messages that waited are sent again.
onEngineUp(a) ==
    [St EXCEPT !.known[a] = TRUE,
               !.told = @ \cup {<<a, c>> : c \in DOMAIN mClientData[a]},
               !.restarted = @ \cup {a},
               !.sent = [i \in DOMAIN mPendingMsgs[a] |->
                            Msg("request", a, mPendingMsgs[a][i], {})],
               !.pending[a] = <<>>]

\* Mutant: the clients there were when the report was posted.
CalledThen(m) == m.events

\* The clients with a callback when the message is handled; m.client is the
\* event.
called(m) == {c \in DOMAIN mClientData[m.adapter] : m.client \in mClientData[m.adapter][c]}

onReport(m) ==
    [St EXCEPT !.strays = @ \cup (called(m) \ DOMAIN mClientData[m.adapter])]

Handle(m) ==
    CASE m.kind = "add" -> saveClient(m.adapter, m.client, m.events)
      [] m.kind = "remove" -> eraseClient(m.adapter, m.client)
      [] m.kind = "request" -> requestCapabilities(m.adapter, m.client)
      [] m.kind = "engineUp" -> onEngineUp(m.adapter)
      [] m.kind = "report" -> onReport(m)

HandleMessage ==
    /\ msgQ # <<>>
    /\ LET st == Handle(Head(msgQ))
       IN /\ mEvtMask' = st.mask /\ mClientData' = st.clients
          /\ mKnown' = st.known /\ mPendingMsgs' = st.pending
          /\ locQ' = st.loc /\ restarted' = st.restarted
          /\ told' = st.told /\ strays' = st.strays
          /\ msgQ' = Tail(msgQ) \o st.sent
    /\ UNCHANGED <<mLocAdapters, known, up, registered, asked, calls, restarts, reports>>

-----------------------------------------------------------------------------
(***************************************************************************)
(* LocApiBase's thread.  An open that succeeds makes the capabilities      *)
(* known, the first time.                                                  *)
(***************************************************************************)
getEvtMask == UNION {mEvtMask[a] : a \in adapters}

Opened ==
    /\ registered' = getEvtMask
    /\ known' = TRUE

\* Mutant: after a restart only the first adapter is told.
TellFirst(m) == IF m.kind = "ssr" THEN SelectSeq(mLocAdapters, LAMBDA a : a = mLocAdapters[1])
                ELSE IF m.adapter = NoAdapter THEN <<>> ELSE <<m.adapter>>

\* Who is told that the engine is up.
tells(m) == IF m.kind = "ssr" THEN mLocAdapters
            ELSE IF m.adapter = NoAdapter THEN <<>> ELSE <<m.adapter>>

HandleLocMsg ==
    /\ locQ # <<>>
    /\ OpenWaits => up
    /\ IF up THEN Opened /\ msgQ' = msgQ \o EngineUpMsgs(tells(Head(locQ)))
       ELSE UNCHANGED <<registered, known, msgQ>>
    /\ locQ' = Tail(locQ)
    /\ UNCHANGED <<mLocAdapters, mEvtMask, mClientData, mKnown, mPendingMsgs, up, restarted,
                   asked, told, strays, calls, restarts, reports>>

-----------------------------------------------------------------------------
(***************************************************************************)
(* Other threads: whoever makes an adapter, its clients, the vendor's.     *)
(***************************************************************************)
addAdapter(a) ==
    /\ a \notin adapters
    /\ mLocAdapters' = Append(mLocAdapters, a)
    /\ mKnown' = [mKnown EXCEPT ![a] = known]
    /\ locQ' = Append(locQ, LocOpenMsg(a))
    /\ UNCHANGED <<mEvtMask, mClientData, mPendingMsgs, known, msgQ, up, registered, restarted,
                   asked, told, strays, calls, restarts, reports>>

Post(m) ==
    /\ calls < MaxCalls
    /\ calls' = calls + 1
    /\ msgQ' = Append(msgQ, m)
    /\ UNCHANGED <<mLocAdapters, mEvtMask, mClientData, mKnown, mPendingMsgs, known, locQ, up,
                   registered, restarted, told, strays, restarts, reports>>

addClientCommand(a, c, events) ==
    /\ a \in adapters
    /\ Post(Msg("add", a, c, events))
    /\ UNCHANGED asked

removeClientCommand(a, c) ==
    /\ c \in DOMAIN mClientData[a]
    /\ Post(Msg("remove", a, c, {}))
    /\ asked' = asked \ {<<a, c>>}

requestCapabilitiesCommand(a, c) ==
    /\ c \in DOMAIN mClientData[a]
    /\ ~\E i \in DOMAIN msgQ : msgQ[i].kind = "remove" /\ msgQ[i].client = c
    /\ Post(Msg("request", a, c, {}))
    /\ asked' = asked \cup {<<a, c>>}

\* TO_ALL_LOCADAPTERS.
Report(e) ==
    /\ reports < MaxReports
    /\ up /\ e \in registered
    /\ reports' = reports + 1
    /\ msgQ' = msgQ \o [i \in DOMAIN mLocAdapters |->
                          LET a == mLocAdapters[i]
                          IN Msg("report", a, e, {c \in DOMAIN mClientData[a] : e \in mClientData[a][c]})]
    /\ UNCHANGED <<mLocAdapters, mEvtMask, mClientData, mKnown, mPendingMsgs, known, locQ, up,
                   registered, restarted, asked, told, strays, calls, restarts>>

\* The vendor finds the modem gone: LocApiBase::handleEngineDownEvent.
EngineDown ==
    /\ up /\ restarts < MaxRestarts
    /\ restarts' = restarts + 1
    /\ up' = FALSE /\ registered' = {} /\ restarted' = {}
    /\ locQ' = Append(locQ, LocSsrMsg)
    /\ UNCHANGED <<mLocAdapters, mEvtMask, mClientData, mKnown, mPendingMsgs, known, msgQ,
                   asked, told, strays, calls, reports>>

EngineUp ==
    /\ ~up
    /\ up' = TRUE
    /\ UNCHANGED <<mLocAdapters, mEvtMask, mClientData, mKnown, mPendingMsgs, known, msgQ, locQ,
                   registered, restarted, asked, told, strays, calls, restarts, reports>>

Next ==
    \/ HandleMessage \/ HandleLocMsg
    \/ \E a \in Adapter :
         \/ addAdapter(a)
         \/ \E c \in Client :
              \/ \E events \in SUBSET Event : addClientCommand(a, c, events)
              \/ removeClientCommand(a, c)
              \/ requestCapabilitiesCommand(a, c)
    \/ \E e \in Event : Report(e)
    \/ EngineDown \/ EngineUp

Spec == Init /\ [][Next]_vars

-----------------------------------------------------------------------------
Quiescent == up /\ msgQ = <<>> /\ locQ = <<>>

TypeOK ==
    /\ adapters \subseteq Adapter /\ restarted \subseteq adapters
    /\ \A a \in Adapter : mEvtMask[a] \subseteq Event /\ DOMAIN mClientData[a] \subseteq Client
    /\ registered \subseteq Event

(***************************************************************************)
(* When nothing is under way the modem reports what some client has a      *)
(* callback for, and nothing else: through clients that come, go and       *)
(* change, and through modem restarts, with the mask read on one thread    *)
(* and written on another (LocOpenMsg takes it when it is handled).        *)
(***************************************************************************)
EngineReportsWhatIsWanted ==
    Quiescent => registered = UNION {UNION Range(mClientData[a]) : a \in adapters}

(***************************************************************************)
(* When nothing is under way every adapter has restarted its sessions      *)
(* since the modem came up, knows its capabilities, and has told them to   *)
(* every client that asked, or was asked to wait (mPendingMsgs).           *)
(***************************************************************************)
EngineUpReachesAll ==
    Quiescent =>
        /\ restarted = adapters
        /\ \A a \in adapters : mKnown[a] /\ mPendingMsgs[a] = <<>>
        /\ asked \subseteq told

(***************************************************************************)
(* A report that is under way when a client is removed does not call it    *)
(* back: removeClientCommand's completion is the last the client hears.    *)
(***************************************************************************)
RemovedHearsNothing == strays = {}
=============================================================================
