--------------------------- MODULE ControlClient ---------------------------
(***************************************************************************)
(* LocationAPIControlClient (gps/location/LocationAPIClientBase.cpp): how  *)
(* the HAL switches positioning on and off, deletes aiding data and gives  *)
(* the configuration, and how it tells which answer is for which request.  *)
(*                                                                         *)
(* A call is made under mMutex: it calls the adapter, which returns a      *)
(* session id (or an array of them) and posts a message, and then queues   *)
(* the request.  There is a queue for each kind, of the requests about one *)
(* session; the answer, on the adapter's thread, finds its request by the  *)
(* session.  A configuration's answer comes as an array of ids, and the    *)
(* client looks for the address of the array.                              *)
(*                                                                         *)
(* Abstracted: what aiding data is deleted, and what a configuration does  *)
(* (GnssConfig); configurations are functions from flags to values.        *)
(***************************************************************************)
EXTENDS Integers, Sequences, FiniteSets

CONSTANTS
    Flag, Value,    \* of the configurations
    MaxCalls

VARIABLES
    mEnabled, mConfig,
    queue,          \* kind of request -> [session, array, q], a RequestQueue
    next,           \* the next session id; arrays are numbered with them
    msgQ,           \* the adapter's messages
    engineQ,        \* requests the engine has not answered
    mAfwControlId,  \* the adapter's control session, or 0
    has,            \* the configuration the adapter has
    given,          \* ghost: the configuration it was given, flag by flag
    calls,
    mixedUp         \* ghost: requests that got the answer of another one

vars == <<mEnabled, mConfig, queue, next, msgQ, engineQ, mAfwControlId, has, given, calls,
          mixedUp>>

NULL == 0
Kind == {"delete", "control", "update", "get"}
Config == UNION {[flags -> Value] : flags \in SUBSET Flag \ {{}}}
NoConfig == [f \in {} |-> 0]
Merge(c, d) == [f \in DOMAIN c \cup DOMAIN d |-> IF f \in DOMAIN d THEN d[f] ELSE c[f]]

Init ==
    /\ mEnabled = FALSE /\ mConfig = NoConfig
    /\ queue = [k \in Kind |-> [session |-> 0, array |-> NULL, q |-> <<>>]]
    /\ next = 1 /\ msgQ = <<>> /\ engineQ = <<>>
    /\ mAfwControlId = 0 /\ has = NoConfig
    /\ given = NoConfig /\ calls = 0 /\ mixedUp = {}

Quiescent == msgQ = <<>> /\ engineQ = <<>>

-----------------------------------------------------------------------------
(***************************************************************************)
(* Calls.  A request is known by the number of its call.                   *)
(***************************************************************************)
Call == calls < MaxCalls /\ calls' = calls + 1
Message(op, s, config) == [op |-> op, s |-> s, config |-> config, call |-> calls]
Post(op, s, config) == msgQ' = Append(msgQ, Message(op, s, config))

\* A new session forgets the requests about the one before.
reset(rq, s) == [rq EXCEPT !.session = s, !.q = <<>>]
push(rq) == [rq EXCEPT !.q = Append(@, calls)]

\* The array is kept if there was one before: there never is.
resetArray(rq, a) == IF rq.array # NULL THEN [reset(rq, 0) EXCEPT !.array = a] ELSE rq

locAPIGnssDeleteAidingData ==
    /\ Call
    /\ Post("delete", next, NoConfig)
    /\ queue' = [queue EXCEPT !["delete"] = push(reset(@, next))]
    /\ next' = next + 1
    /\ UNCHANGED <<mEnabled, mConfig, engineQ, mAfwControlId, has, given, mixedUp>>

\* Mutant: the session is not remembered.
EnableUnnamed ==
    /\ Call /\ ~mEnabled
    /\ Post("enable", next, NoConfig)
    /\ queue' = [queue EXCEPT !["control"] =
                    push(IF @.session = 0 THEN reset(@, next) ELSE @)]
    /\ mEnabled' = TRUE
    /\ next' = next + 1
    /\ UNCHANGED <<mConfig, engineQ, mAfwControlId, has, given, mixedUp>>

locAPIEnable ==
    /\ Call /\ ~mEnabled
    /\ Post("enable", next, NoConfig)
    /\ queue' = [queue EXCEPT !["control"] = push(reset(@, next))]
    /\ mEnabled' = TRUE
    /\ next' = next + 1
    /\ UNCHANGED <<mConfig, engineQ, mAfwControlId, has, given, mixedUp>>

locAPIDisable ==
    /\ Call /\ mEnabled
    /\ queue["control"].session > 0
    /\ queue' = [queue EXCEPT !["control"] = push(@)]
    /\ Post("disable", queue["control"].session, NoConfig)
    /\ mEnabled' = FALSE
    /\ UNCHANGED <<mConfig, next, engineQ, mAfwControlId, has, given, mixedUp>>

\* Mutant: only the flags are compared.
SameFlags(c) == DOMAIN mConfig = DOMAIN c

\* The configuration is that of the call before, which is enough.
isSame(c) == mConfig = c

locAPIGnssUpdateConfig(c) ==
    /\ Call
    /\ given' = Merge(given, c)
    /\ IF isSame(c)
       THEN UNCHANGED <<mConfig, queue, next, msgQ>>
       ELSE /\ mConfig' = c
            /\ Post("update", next, c)
            /\ queue' = [queue EXCEPT !["update"] = push(resetArray(@, next))]
            /\ next' = next + 1
    /\ UNCHANGED <<mEnabled, engineQ, mAfwControlId, has, mixedUp>>

locAPIGnssGetConfig ==
    /\ Call
    /\ Post("get", next, NoConfig)
    /\ queue' = [queue EXCEPT !["get"] = push(resetArray(@, next))]
    /\ next' = next + 1
    /\ UNCHANGED <<mEnabled, mConfig, engineQ, mAfwControlId, has, given, mixedUp>>

-----------------------------------------------------------------------------
(***************************************************************************)
(* Answers.                                                                *)
(***************************************************************************)
\* Mutant: a request about switching is taken for any session.
OfAnySession(s) == IF queue["delete"].session = s THEN {"delete"} ELSE {"control"}

\* The kinds whose queue is popped for session s: one at most.
getRequestBySession(s) ==
    IF queue["delete"].session = s THEN {"delete"}
    ELSE {k \in {"control"} : queue[k].session = s}

\* The array of an answer is the adapter's own copy of the ids, so it has
\* an address of its own.
Copy(s) == -s
getRequestBySessionArrayPtr(a) ==
    IF queue["update"].array = a THEN {"update"} ELSE {k \in {"get"} : queue[k].array = a}

\* The head of the queue found is the request that is called back.
Pop(kinds, call) ==
    /\ queue' = [k \in Kind |->
                   IF k \in kinds /\ queue[k].q # <<>> THEN [queue[k] EXCEPT !.q = Tail(@)]
                   ELSE queue[k]]
    /\ mixedUp' = mixedUp \cup
                    ({Head(queue[k].q) : k \in {j \in kinds : queue[j].q # <<>>}} \ {call})

onCtrlResponseCb(m) == Pop(getRequestBySession(m.s), m.call)
onCtrlCollectiveResponseCb(m) == Pop(getRequestBySessionArrayPtr(Copy(m.s)), m.call)

\* The adapter answers what it can itself, whether it did it or not.
switch(m) ==
    /\ mAfwControlId' = IF m.op = "enable" /\ mAfwControlId = 0 THEN m.s
                        ELSE IF m.op = "disable" /\ mAfwControlId = m.s THEN 0
                        ELSE mAfwControlId
    /\ onCtrlResponseCb(m)
    /\ UNCHANGED <<engineQ, has>>

toEngine(m) ==
    /\ engineQ' = Append(engineQ, m)
    /\ has' = Merge(has, m.config)
    /\ UNCHANGED <<queue, mixedUp, mAfwControlId>>

HandleMessage ==
    /\ msgQ # <<>>
    /\ msgQ' = Tail(msgQ)
    /\ LET m == Head(msgQ)
       IN IF m.op \in {"enable", "disable"} THEN switch(m) ELSE toEngine(m)
    /\ UNCHANGED <<mEnabled, mConfig, next, given, calls>>

EngineAnswer ==
    /\ engineQ # <<>>
    /\ engineQ' = Tail(engineQ)
    /\ LET m == Head(engineQ)
       IN IF m.op = "delete" THEN onCtrlResponseCb(m) ELSE onCtrlCollectiveResponseCb(m)
    /\ UNCHANGED <<mEnabled, mConfig, next, msgQ, mAfwControlId, has, given, calls>>

Next ==
    \/ locAPIGnssDeleteAidingData \/ locAPIEnable \/ locAPIDisable
    \/ \E c \in Config : locAPIGnssUpdateConfig(c)
    \/ locAPIGnssGetConfig
    \/ HandleMessage \/ EngineAnswer

Spec == Init /\ [][Next]_vars

-----------------------------------------------------------------------------
TypeOK ==
    /\ mAfwControlId \in 0 .. next /\ mEnabled \in BOOLEAN
    /\ \A k \in Kind : queue[k].session \in 0 .. next

\* An answer reaches the request it is for, though a later call on another
\* session may have taken its place (getRequestBySession).
AnswerIsItsOwn == mixedUp = {}

\* Once nothing is under way the adapter is switched as the client thinks it is,
\* which it decides when it calls, not when it is answered (locAPIEnable).
SwitchedAsThought == Quiescent => mEnabled = (mAfwControlId # 0)

\* The adapter has the last value given for each flag, though a configuration
\* that is the same as the last is not sent (locAPIGnssUpdateConfig).
ConfigIsAsGiven == Quiescent => has = given

\* No request about a session waits for an answer that came (reset, pop).
NobodyWaits == Quiescent => queue["delete"].q = <<>> /\ queue["control"].q = <<>>
=============================================================================
