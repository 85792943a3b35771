------------------------------ MODULE GnssHal ------------------------------
(***************************************************************************)
(* The GNSS service that the framework calls: class Gnss (HIDL 2.0, and    *)
(* 1.1 where it differs) and the GnssAPIClient it owns.  The framework is  *)
(* a process that registers callbacks, starts and stops positioning, sets  *)
(* configuration, and may crash and come back.  The service has one binder *)
(* thread (configureRpcThreadpool(1, true)), so calls and death notices    *)
(* come one at a time; but the thread of the location library delivers     *)
(* capabilities and fixes between any two calls into the client, whose     *)
(* callbacks it copies under mMutex and calls after unlocking.             *)
(***************************************************************************)
EXTENDS Naturals, Sequences, FiniteSets, Functions, SequenceTheorems, TLAPS

CONSTANTS
  Version,       \* "1.1" or "2.0": which Gnss.cpp is built
  Interface,     \* the interface versions the framework registers with
  Callback,      \* callback objects
  ProcessOf,     \* the process (1 or 2) a callback object lives in
  Flag, Value,   \* kinds of configuration, "server" being a host name
  NoticesFirst,  \* a process that comes back finds the old one's death handled
  MaxCalls,      \* bound: calls of the framework
  none

VARIABLES
  gnss,      \* the Gnss object: its three callbacks, mApi, mPendingConfig
  client,    \* the GnssAPIClient: callbacks, mTracking, cached capabilities
  linked,    \* callbacks whose death the service is told of
  todo,      \* calls into the client left in the current binder call
  capsDue,   \* the location library has still to report capabilities
  reporter,  \* the library's thread inside a callback of the client
  adapter,   \* what the library does: session running, GNSS enabled, config
  live,      \* the framework process that is alive
  calls,     \* calls made so far
  current, wanted, wantsOn, asked, knows, hasStarted
             \* ghosts: the framework's last callback and its wishes, the
             \* callbacks told the capabilities, processes that ever started

hal == <<gnss, client, linked, todo>>
lib == <<capsDue, reporter, adapter>>
ghosts == <<current, wanted, wantsOn, asked, knows, hasStarted>>
vars == <<hal, lib, live, calls, ghosts>>

NoHost == "no host"
Idle == [at |-> "idle"]
NoConfig == [f \in {} |-> none]
NewClient == [gps |-> none, gps20 |-> none, tracking |-> FALSE, cached |-> FALSE]

TypeOK ==
  /\ gnss.cb10 \in Callback \cup {none} /\ gnss.cb11 \in Callback \cup {none}
  /\ gnss.cb20 \in Callback \cup {none} /\ gnss.api \in BOOLEAN
  /\ client.gps \in Callback \cup {none} /\ client.gps20 \in Callback \cup {none}
  /\ linked \subseteq Callback /\ knows \subseteq Callback
  /\ Range(adapter.config) \subseteq Value \cup {NoHost}
  /\ live \in 1..2 /\ calls \in 0..MaxCalls

Init ==
  /\ gnss = [cb10 |-> none, cb11 |-> none, cb20 |-> none, ni |-> FALSE,
             api |-> FALSE, pending |-> NoConfig]
  /\ client = NewClient
  /\ linked = {} /\ todo = <<>>
  /\ capsDue = FALSE /\ reporter = Idle
  /\ adapter = [running |-> FALSE, enabled |-> FALSE, config |-> NoConfig, ran |-> FALSE]
  /\ live = 1 /\ calls = 0
  /\ current = none /\ wanted = FALSE /\ wantsOn = FALSE
  /\ asked = NoConfig /\ knows = {} /\ hasStarted = {}

(***************************************************************************)
(* getApi() makes the client when there is a callback to give it, and then *)
(* hands it the configuration that has been waiting.                       *)
(***************************************************************************)
FirstCallback(g) ==
  IF Version = "1.1" THEN [gps |-> g.cb10, gps20 |-> none]
  ELSE IF g.cb20 # none THEN [gps |-> none, gps20 |-> g.cb20]
       ELSE [gps |-> IF g.cb11 # none THEN g.cb11 ELSE g.cb10, gps20 |-> none]

IsReady(g) ==
  \/ g.api
  \/ {g.cb10, g.cb11, g.cb20} # {none} /\ Version = "2.0"
  \/ (g.cb10 # none \/ g.ni) /\ Version = "1.1"

Merge(f, g) == [x \in DOMAIN f \cup DOMAIN g |-> IF x \in DOMAIN g THEN g[x] ELSE f[x]]

\* The members of mPendingConfig are copied one flag at a time, except that
\* the host name is only copied over one that is already there.
HostOf(pending) == IF "server" \in DOMAIN pending THEN pending["server"] ELSE NoHost
\* Mutant: the last configuration replaces those before it.
LastOnly(pending, f, v) == [x \in {f} |-> v]
Pend(pending, f, v) ==
  Merge(pending, [x \in {f} |-> IF f = "server" /\ HostOf(pending) = NoHost
                                THEN NoHost ELSE v])

GetApi(g) ==
  IF IsReady(g) /\ ~g.api
  THEN /\ gnss' = [g EXCEPT !.api = TRUE, !.pending = NoConfig]
       /\ client' = [NewClient EXCEPT !.gps = FirstCallback(g).gps,
                                      !.gps20 = FirstCallback(g).gps20]
       /\ capsDue' = TRUE
       /\ adapter' = [adapter EXCEPT !.config = Merge(@, g.pending)]
  ELSE gnss' = g /\ UNCHANGED <<client, capsDue, adapter>>

(***************************************************************************)
(* Registration.  The slots of the other interface versions are emptied    *)
(* (2.0), the dying-process notice moves to the new callback, and what the *)
(* client is then asked to do is put in todo.                              *)
(***************************************************************************)
Set(c) == {c} \ {none}
\* Mutant: the new callback is linked before the old one is unlinked.
LinkedFirst(old, c) == (linked \cup Set(c)) \ old
Relinked(old, c) == (linked \ old) \cup Set(c)

One(c) == [op |-> "gnssUpdateCallbacks", cb |-> c]
Two(c) == [op |-> "gnssUpdateCallbacks_2_0", cb |-> c]
Do(op) == [op |-> op, cb |-> none]

\* Mutant: what was registered with another version is kept.
KeptSlots(g, slot, c) == [g EXCEPT ![slot] = c]
slots(g, slot, c) ==
  IF Version = "2.0"
  THEN [g EXCEPT !.cb10 = IF slot = "cb10" THEN c ELSE none,
                 !.cb11 = IF slot = "cb11" THEN c ELSE none,
                 !.cb20 = IF slot = "cb20" THEN c ELSE none]
  ELSE [g EXCEPT !.cb10 = c, !.cb11 = IF slot = "cb11" THEN c ELSE @]

\* Before getApi(): a client that exists drops the other kind of callback.
before(slot) ==
  IF Version = "2.0" /\ gnss.api
  THEN IF slot = "cb20" THEN <<One(none)>> ELSE <<Two(none)>>
  ELSE <<>>
after(slot, c) ==
  <<IF slot = "cb20" THEN Two(c) ELSE One(c), Do("gnssEnable"), Do("requestCapabilities")>>

RegisterAs(slot, c) ==
  LET g == slots(gnss, slot, c)
      old == {gnss.cb10, gnss.cb11, gnss.cb20} \ {none}
  IN /\ linked' = Relinked(IF Version = "2.0" THEN old ELSE Set(gnss.cb10), c)
     /\ GetApi(g)
     /\ todo' = IF IsReady(g) THEN before(slot) \o after(slot, c) ELSE <<>>
     /\ current' = c /\ wantsOn' = IsReady(g)
     /\ UNCHANGED <<reporter, live, wanted, asked, knows, hasStarted>>

setCallback(c) == "1.0" \in Interface /\ RegisterAs("cb10", c)
setCallback_1_1(c) == "1.1" \in Interface /\ RegisterAs("cb11", c)
setCallback_2_0(c) == "2.0" \in Interface /\ RegisterAs("cb20", c)

\* Only the 1.1 service gives the framework an interface for this one.
setGnssNiCb ==
  /\ Version = "1.1" /\ ~gnss.ni
  /\ LET g == [gnss EXCEPT !.ni = TRUE]
     IN GetApi(g) /\ todo' = <<One(g.cb10)>>
  /\ UNCHANGED <<linked, reporter, live, ghosts>>

(***************************************************************************)
(* The framework's other calls.                                            *)
(***************************************************************************)
updateConfiguration(f, v) ==
  /\ IF gnss.api
     THEN /\ adapter' = [adapter EXCEPT !.config = Merge(@, [x \in {f} |-> v])]
          /\ UNCHANGED gnss
     ELSE /\ gnss' = [gnss EXCEPT !.pending = Pend(@, f, v)]
          /\ UNCHANGED adapter
  /\ asked' = Merge(asked, [x \in {f} |-> v])
  /\ UNCHANGED <<client, linked, todo, capsDue, reporter, live,
                 current, wanted, wantsOn, knows, hasStarted>>

start ==
  /\ gnss.api
  /\ todo' = <<Do("gnssStart")>>
  /\ wanted' = TRUE /\ hasStarted' = hasStarted \cup {live}
  /\ UNCHANGED <<gnss, client, linked, lib, live, current, wantsOn, asked, knows>>

stop ==
  /\ gnss.api
  /\ todo' = <<Do("gnssStop")>>
  /\ wanted' = FALSE
  /\ UNCHANGED <<gnss, client, linked, lib, live, current, wantsOn, asked, knows, hasStarted>>

\* 2.0 stops and disables; 1.1 only disables, and leaves stopping to the caller.
cleanup ==
  /\ gnss.api
  /\ todo' = IF Version = "2.0" THEN <<Do("gnssStop"), Do("gnssDisable")>>
             ELSE <<Do("gnssDisable")>>
  /\ wanted' = (wanted /\ Version = "1.1") /\ wantsOn' = FALSE
  /\ UNCHANGED <<gnss, client, linked, lib, live, current, asked, knows, hasStarted>>

\* A dead process's callback: the session is stopped and GNSS is disabled.
serviceDied(c) ==
  /\ todo = <<>> /\ c \in linked /\ ProcessOf[c] < live
  /\ linked' = linked \ {c}
  /\ todo' = IF gnss.api THEN <<Do("gnssStop"), Do("gnssDisable")>> ELSE <<>>
  /\ UNCHANGED <<gnss, client, lib, live, calls, ghosts>>

Called ==
  /\ todo = <<>> /\ calls < MaxCalls
  /\ NoticesFirst => \A c \in linked : ProcessOf[c] = live
  /\ calls' = calls + 1
  /\ \/ \E c \in {d \in Callback : ProcessOf[d] = live} :
          setCallback(c) \/ setCallback_1_1(c) \/ setCallback_2_0(c)
     \/ setGnssNiCb
     \/ \E f \in Flag, v \in Value : updateConfiguration(f, v)
     \/ current # none /\ (start \/ stop \/ cleanup)

\* The framework process crashes (between its calls) and is started again.
Crash ==
  /\ live = 1 /\ todo = <<>> /\ live' = 2
  /\ current' = none /\ wanted' = FALSE /\ wantsOn' = FALSE
  /\ UNCHANGED <<hal, lib, calls, asked, knows, hasStarted>>

(***************************************************************************)
(* The client's side of a binder call, one call into it at a time.         *)
(***************************************************************************)
Target(c) == IF c.gps20 # none THEN c.gps20 ELSE c.gps

clientAfter(t) ==
  CASE t.op = "gnssUpdateCallbacks"     -> [client EXCEPT !.gps = t.cb]
    [] t.op = "gnssUpdateCallbacks_2_0" -> [client EXCEPT !.gps20 = t.cb]
    [] t.op = "gnssStart" -> [client EXCEPT !.tracking = TRUE]
    [] t.op = "gnssStop"  -> [client EXCEPT !.tracking = FALSE]
    [] OTHER -> client

adapterAfter(t) ==
  CASE t.op = "gnssStart"   -> [adapter EXCEPT !.running = TRUE, !.ran = TRUE]
    [] t.op = "gnssStop"    -> [adapter EXCEPT !.running = FALSE]
    [] t.op = "gnssEnable"  -> [adapter EXCEPT !.enabled = TRUE]
    [] t.op = "gnssDisable" -> [adapter EXCEPT !.enabled = FALSE]
    [] OTHER -> adapter

\* requestCapabilities() sends what is cached; if nothing is, the library will.
requestCapabilities(t) ==
  knows' = IF t.op = "requestCapabilities" /\ client.cached
           THEN knows \cup Set(Target(client)) ELSE knows

ClientCall ==
  /\ todo # <<>>
  /\ client' = clientAfter(Head(todo))
  /\ adapter' = adapterAfter(Head(todo))
  /\ requestCapabilities(Head(todo))
  /\ todo' = Tail(todo)
  /\ UNCHANGED <<gnss, linked, capsDue, reporter, live, calls,
                 current, wanted, wantsOn, asked, hasStarted>>

(***************************************************************************)
(* The library's thread: onCapabilitiesCb caches first, then copies the    *)
(* callbacks under the lock, then calls; onTrackingCb copies the callbacks *)
(* and mTracking together; satellites and sentences are passed on always.  *)
(***************************************************************************)
\* Mutant: the callbacks are copied before the capabilities are cached.
CopiesFirst == [at |-> "caching", to |-> Target(client)]
capabilitiesStart == [at |-> "copying", to |-> none]

onCapabilitiesCb ==
  /\ UNCHANGED <<gnss, linked, todo, adapter, live, calls, current, wanted,
                 wantsOn, asked, hasStarted>>
  /\ \/ /\ reporter = Idle /\ capsDue
        /\ capsDue' = FALSE
        /\ reporter' = capabilitiesStart
        /\ client' = [client EXCEPT !.cached = capabilitiesStart.at = "copying"]
        /\ UNCHANGED knows
     \/ /\ reporter.at \in {"copying", "caching"}
        /\ reporter' = [at |-> "telling", to |-> IF reporter.at = "copying"
                                                 THEN Target(client) ELSE reporter.to]
        /\ client' = [client EXCEPT !.cached = TRUE]
        /\ UNCHANGED <<capsDue, knows>>
     \/ /\ reporter.at = "telling"
        /\ reporter' = Idle
        /\ knows' = knows \cup Set(reporter.to)
        /\ UNCHANGED <<capsDue, client>>

\* The 1.1 client reports whether or not it is tracking.  A fix may be on its
\* way after the session has been stopped.
\* Mutant: the 2.0 client does the same.
ReportsAnyway(c) == TRUE
isTracking(c) == c.tracking \/ Version = "1.1"

Report(kind) ==
  reporter = Idle /\ Target(client) # none /\ reporter' = [at |-> kind, to |-> Target(client)]

onTrackingCb == isTracking(client) /\ Report("fix")
onGnssSvCb == Report("satellites")
onGnssNmeaCb == Report("sentence")

Reports ==
  /\ \/ adapter.ran /\ (onTrackingCb \/ onGnssSvCb \/ onGnssNmeaCb)
     \/ reporter.at \in {"fix", "satellites", "sentence"} /\ reporter' = Idle
  /\ UNCHANGED <<hal, capsDue, adapter, live, calls, ghosts>>

Next == Called \/ Crash \/ ClientCall \/ onCapabilitiesCb \/ Reports
        \/ \E c \in Callback : serviceDied(c)

Spec == Init /\ [][Next]_vars

----------------------------------------------------------------------------
AtRest == todo = <<>> /\ \A c \in linked : ProcessOf[c] = live

\* Between calls, the client reports to the callback the framework set last
\* and to no other, and a request for a position (odcpiRequestCb) would go
\* there or nowhere, in whatever order the versions of setCallback are used.
ReportsReachTheLast ==
  AtRest /\ current # none =>
    /\ Target(client) = current
    /\ (IF gnss.cb20 # none THEN gnss.cb20 ELSE gnss.cb11) \in {none, current}

\* Once neither thread is inside a call, a registered callback has been told
\* the capabilities, by the library or by requestCapabilities: the two may
\* overlap in any way, but never so that each leaves it to the other.
CapabilitiesReachTheLast ==
  AtRest /\ reporter = Idle /\ ~capsDue /\ current # none => current \in knows

\* The engine runs and GNSS is enabled exactly when the living framework
\* process asked for it: a crashed one leaves nothing behind.
ServesTheLiving ==
  AtRest => adapter.running = wanted /\ adapter.enabled = wantsOn

\* A framework process that has never started positioning gets no fix, though
\* one may be under way that its predecessor's session produced.
FixesAreAskedFor ==
  reporter.at = "fix" => ProcessOf[reporter.to] \in hasStarted

\* Configuration set before the client exists reaches the library with it.
PendingIsDelivered ==
  gnss.api => \A f \in DOMAIN asked : f \in DOMAIN adapter.config
                                      /\ adapter.config[f] = asked[f]

----------------------------------------------------------------------------
(***************************************************************************)
(* Proofs.  A call of the framework leaves calls into the client to be     *)
(* made, so the invariants are about what the client and the library will  *)
(* be once those have been made: between calls that is what they are.      *)
(***************************************************************************)
\* What the code is built and used with.
Built ==
  /\ none \notin Callback
  /\ ProcessOf \in [Callback -> {1, 2}]
  /\ Version = "2.0" \/ (Version = "1.1" /\ Interface = {"1.1"})

Op == {"gnssUpdateCallbacks", "gnssUpdateCallbacks_2_0", "gnssStart", "gnssStop",
       "gnssEnable", "gnssDisable", "requestCapabilities"}
Call == [op : Op, cb : Callback \cup {none}]

(***************************************************************************)
(* What a field will be once the calls of todo have been made.             *)
(***************************************************************************)
SetBy(f) ==
  CASE f = "running" -> {"gnssStart", "gnssStop"}
    [] f = "enabled" -> {"gnssEnable", "gnssDisable"}
    [] f = "gps"     -> {"gnssUpdateCallbacks"}
    [] f = "gps20"   -> {"gnssUpdateCallbacks_2_0"}
    [] OTHER -> {}
Val(t, f) == IF f \in {"gps", "gps20"} THEN t.cb ELSE t.op \in {"gnssStart", "gnssEnable"}
Made(x, t, f) == IF t.op \in SetBy(f) THEN Val(t, f) ELSE x

\* A field that is x will be v.
Becomes(x, q, f, v) ==
  \/ v = x /\ \A i \in 1 .. Len(q) : q[i].op \notin SetBy(f)
  \/ \E i \in 1 .. Len(q) :
        /\ q[i].op \in SetBy(f) /\ v = Val(q[i], f)
        /\ \A j \in 1 .. Len(q) : i < j => q[j].op \notin SetBy(f)

(* One call is made. *)
LEMMA BecomesCalled ==
    ASSUME NEW S, NEW q \in Seq(S), q # <<>>, NEW x, NEW f, NEW v,
           Becomes(Made(x, Head(q), f), Tail(q), f, v)
    PROVE  Becomes(x, q, f, v)
<1> DEFINE h == Head(q)
           t == Tail(q)
           D == SetBy(f)
<1>1. /\ Len(q) \in Nat \ {0} /\ h = q[1] /\ Len(t) = Len(q) - 1
      /\ \A i \in 1 .. Len(t) : t[i] = q[i + 1]
  BY HeadTailProperties, LenProperties, EmptySeq
<1>2. \A i \in 1 .. Len(q) : i = 1 \/ (i - 1 \in 1 .. Len(t) /\ q[i] = t[i - 1])
  <2> SUFFICES ASSUME NEW i \in 1 .. Len(q), i # 1 PROVE i - 1 \in 1 .. Len(t) /\ q[i] = t[i - 1]
    OBVIOUS
  <2>1. i - 1 \in 1 .. Len(t) /\ (i - 1) + 1 = i
    BY <1>1
  <2> QED
    BY <1>1, <2>1
<1> DEFINE y == Made(x, h, f)
<1>3. y = IF h.op \in D THEN Val(h, f) ELSE x
  BY DEF Made
<1>4. Becomes(y, t, f, v)
  OBVIOUS
<1> HIDE DEF h, t, y, D
<1>5. CASE v = y /\ \A i \in 1 .. Len(t) : t[i].op \notin D
  <2>1. \A i \in 1 .. Len(q) : i = 1 \/ q[i].op \notin D
    BY <1>2, <1>5
  <2>2. 1 \in 1 .. Len(q) /\ \A j \in 1 .. Len(q) : 1 < j => j # 1
    BY <1>1
  <2>3. CASE h.op \in D
    BY <1>1, <1>3, <1>5, <2>1, <2>2, <2>3 DEF Becomes, D
  <2>4. CASE h.op \notin D
    BY <1>1, <1>3, <1>5, <2>1, <2>4 DEF Becomes, D
  <2> QED
    BY <2>3, <2>4
<1>6. ASSUME NEW i \in 1 .. Len(t), t[i].op \in D, v = Val(t[i], f),
             \A j \in 1 .. Len(t) : i < j => t[j].op \notin D
      PROVE  Becomes(x, q, f, v)
  <2>1. i + 1 \in 1 .. Len(q) /\ q[i + 1] = t[i]
    BY <1>1
  <2>2. ASSUME NEW j \in 1 .. Len(q), i + 1 < j PROVE q[j].op \notin D
    <3>1. j - 1 \in 1 .. Len(t) /\ q[j] = t[j - 1] /\ i < j - 1
      BY <1>1, <1>2, <2>2
    <3> QED
      BY <1>6, <3>1
  <2> QED
    BY <1>6, <2>1, <2>2 DEF Becomes, D
<1> QED
  BY <1>4, <1>5, <1>6 DEF Becomes, D

(* What is to be, before the call and after it. *)
LEMMA BecomesCalling ==
    ASSUME NEW S, NEW q \in Seq(S), q # <<>>, NEW x, NEW f, NEW v, Becomes(x, q, f, v)
    PROVE  Becomes(Made(x, Head(q), f), Tail(q), f, v)
<1> DEFINE h == Head(q)
           t == Tail(q)
           D == SetBy(f)
           y == Made(x, h, f)
<1>1. /\ Len(q) \in Nat \ {0} /\ h = q[1] /\ Len(t) = Len(q) - 1
      /\ \A i \in 1 .. Len(t) : t[i] = q[i + 1] /\ i + 1 \in 1 .. Len(q) /\ 1 < i + 1
  BY HeadTailProperties, LenProperties, EmptySeq
<1>2. y = IF h.op \in D THEN Val(h, f) ELSE x
  BY DEF Made
<1> HIDE DEF h, t, y
<1>3. CASE v = x /\ \A i \in 1 .. Len(q) : q[i].op \notin D
  <2>1. 1 \in 1 .. Len(q)
    BY <1>1
  <2>2. v = y
    BY <1>1, <1>2, <1>3, <2>1
  <2>3. \A i \in 1 .. Len(t) : t[i].op \notin D
    BY <1>1, <1>3
  <2> QED
    BY <2>2, <2>3 DEF Becomes, t, y, h
<1>4. ASSUME NEW i \in 1 .. Len(q), q[i].op \in D, v = Val(q[i], f),
             \A j \in 1 .. Len(q) : i < j => q[j].op \notin D
      PROVE  Becomes(y, t, f, v)
  <2>1. CASE i = 1
    <3>1. v = y
      BY <1>1, <1>2, <1>4, <2>1
    <3>2. \A j \in 1 .. Len(t) : t[j].op \notin D
      BY <1>1, <1>4, <2>1
    <3> QED
      BY <3>1, <3>2 DEF Becomes
  <2>2. CASE i # 1
    <3> DEFINE k == i - 1
    <3>1. k \in 1 .. Len(t) /\ k + 1 = i
      BY <1>1, <2>2
    <3> HIDE DEF k
    <3>2. t[k] = q[i]
      BY <1>1, <3>1
    <3>3. \A j \in 1 .. Len(t) : k < j => t[j].op \notin D
      <4> SUFFICES ASSUME NEW j \in 1 .. Len(t), k < j PROVE t[j].op \notin D
        OBVIOUS
      <4>1. i < j + 1
        BY <3>1
      <4> QED
        BY <1>1, <1>4, <4>1
    <3> QED
      BY <1>4, <3>1, <3>2, <3>3 DEF Becomes
  <2> QED
    BY <2>1, <2>2
<1> QED
  BY <1>3, <1>4 DEF Becomes, h, t, y

(* No calls are left. *)
LEMMA BecomesNow ==
    ASSUME NEW x, NEW f
    PROVE  /\ Becomes(x, <<>>, f, x)
           /\ \A v : Becomes(x, <<>>, f, v) => v = x
BY DEF Becomes

(* Which calls set a field, and what to. *)
LEMMA Fields ==
    /\ SetBy("running") = {"gnssStart", "gnssStop"}
    /\ SetBy("enabled") = {"gnssEnable", "gnssDisable"}
    /\ SetBy("gps") = {"gnssUpdateCallbacks"}
    /\ SetBy("gps20") = {"gnssUpdateCallbacks_2_0"}
    /\ \A t : /\ Val(t, "gps") = t.cb /\ Val(t, "gps20") = t.cb
              /\ Val(t, "running") = (t.op \in {"gnssStart", "gnssEnable"})
              /\ Val(t, "enabled") = (t.op \in {"gnssStart", "gnssEnable"})
BY DEF SetBy, Val

(* What a list of calls makes of a field. *)
LEMMA OneMade ==
    ASSUME NEW x, NEW f, NEW v, NEW a, Becomes(x, <<a>>, f, v)
    PROVE  v = Made(x, a, f)
<1>1. <<a>> \in Seq({a}) /\ <<a>> # <<>> /\ Head(<<a>>) = a /\ Tail(<<a>>) = <<>>
  OBVIOUS
<1>2. Becomes(Made(x, a, f), <<>>, f, v)
  BY <1>1, BecomesCalling
<1> QED
  BY <1>2, BecomesNow

(* The same of two calls, .... *)
LEMMA TwoMade ==
    ASSUME NEW x, NEW f, NEW v, NEW a, NEW b, Becomes(x, <<a, b>>, f, v)
    PROVE  v = Made(Made(x, a, f), b, f)
<1>1. <<a, b>> \in Seq({a, b}) /\ <<a, b>> # <<>> /\ Head(<<a, b>>) = a /\ Tail(<<a, b>>) = <<b>>
  OBVIOUS
<1>2. Becomes(Made(x, a, f), <<b>>, f, v)
  BY <1>1, BecomesCalling
<1> QED
  BY <1>2, OneMade

(* ... of three, .... *)
LEMMA ThreeMade ==
    ASSUME NEW x, NEW f, NEW v, NEW a, NEW b, NEW c, Becomes(x, <<a, b, c>>, f, v)
    PROVE  v = Made(Made(Made(x, a, f), b, f), c, f)
<1>1. /\ <<a, b, c>> \in Seq({a, b, c}) /\ <<a, b, c>> # <<>>
      /\ Head(<<a, b, c>>) = a /\ Tail(<<a, b, c>>) = <<b, c>>
  OBVIOUS
<1>2. Becomes(Made(x, a, f), <<b, c>>, f, v)
  BY <1>1, BecomesCalling
<1> QED
  BY <1>2, TwoMade

(* ... and of four. *)
LEMMA FourMade ==
    ASSUME NEW x, NEW f, NEW v, NEW a, NEW b, NEW c, NEW d, Becomes(x, <<a, b, c, d>>, f, v)
    PROVE  v = Made(Made(Made(Made(x, a, f), b, f), c, f), d, f)
<1>1. /\ <<a, b, c, d>> \in Seq({a, b, c, d}) /\ <<a, b, c, d>> # <<>>
      /\ Head(<<a, b, c, d>>) = a /\ Tail(<<a, b, c, d>>) = <<b, c, d>>
  OBVIOUS
<1>2. Becomes(Made(x, a, f), <<b, c, d>>, f, v)
  BY <1>1, BecomesCalling
<1> QED
  BY <1>2, ThreeMade

(* What each call sets. *)
LEMMA CallsSet ==
    \A x : /\ \A c : /\ Made(x, One(c), "gps") = c /\ Made(x, One(c), "gps20") = x
                     /\ Made(x, One(c), "running") = x /\ Made(x, One(c), "enabled") = x
                     /\ Made(x, Two(c), "gps") = x /\ Made(x, Two(c), "gps20") = c
                     /\ Made(x, Two(c), "running") = x /\ Made(x, Two(c), "enabled") = x
           /\ \A op \in Op \ {"gnssUpdateCallbacks", "gnssUpdateCallbacks_2_0"} :
                Made(x, Do(op), "gps") = x /\ Made(x, Do(op), "gps20") = x
           /\ \A op \in Op \ {"gnssStart", "gnssStop"} : Made(x, Do(op), "running") = x
           /\ \A op \in Op \ {"gnssEnable", "gnssDisable"} : Made(x, Do(op), "enabled") = x
           /\ Made(x, Do("gnssStart"), "running") = TRUE
           /\ Made(x, Do("gnssStop"), "running") = FALSE
           /\ Made(x, Do("gnssEnable"), "enabled") = TRUE
           /\ Made(x, Do("gnssDisable"), "enabled") = FALSE
<1>1. /\ \A c : One(c).op = "gnssUpdateCallbacks" /\ One(c).cb = c
      /\ \A c : Two(c).op = "gnssUpdateCallbacks_2_0" /\ Two(c).cb = c
      /\ \A op : Do(op).op = op
  BY DEF One, Two, Do
<1>2. \A x : /\ \A u : u.op \notin SetBy("gps") => Made(x, u, "gps") = x
             /\ \A u : u.op \notin SetBy("gps20") => Made(x, u, "gps20") = x
             /\ \A u : u.op \notin SetBy("running") => Made(x, u, "running") = x
             /\ \A u : u.op \notin SetBy("enabled") => Made(x, u, "enabled") = x
  BY DEF Made
<1>3. \A x : /\ \A u : u.op \in SetBy("gps") => Made(x, u, "gps") = u.cb
             /\ \A u : u.op \in SetBy("gps20") => Made(x, u, "gps20") = u.cb
  BY Fields DEF Made
<1>4. \A x : /\ Made(x, Do("gnssStart"), "running") = TRUE
             /\ Made(x, Do("gnssStop"), "running") = FALSE
             /\ Made(x, Do("gnssEnable"), "enabled") = TRUE
             /\ Made(x, Do("gnssDisable"), "enabled") = FALSE
  <2>1. /\ "gnssStart" \in SetBy("running") /\ "gnssStop" \in SetBy("running")
        /\ "gnssEnable" \in SetBy("enabled") /\ "gnssDisable" \in SetBy("enabled")
    BY Fields
  <2>2. /\ Val(Do("gnssStart"), "running") = TRUE /\ Val(Do("gnssStop"), "running") = FALSE
        /\ Val(Do("gnssEnable"), "enabled") = TRUE /\ Val(Do("gnssDisable"), "enabled") = FALSE
    BY <1>1 DEF Val
  <2> QED
    BY <1>1, <2>1, <2>2 DEF Made
<1>5. \A c : /\ One(c).op \in SetBy("gps") /\ One(c).op \notin SetBy("gps20")
             /\ One(c).op \notin SetBy("running") /\ One(c).op \notin SetBy("enabled")
             /\ Two(c).op \notin SetBy("gps") /\ Two(c).op \in SetBy("gps20")
             /\ Two(c).op \notin SetBy("running") /\ Two(c).op \notin SetBy("enabled")
  BY <1>1, Fields
<1>6. \A op \in Op : /\ op # "gnssUpdateCallbacks" => Do(op).op \notin SetBy("gps")
                     /\ op # "gnssUpdateCallbacks_2_0" => Do(op).op \notin SetBy("gps20")
                     /\ op \notin {"gnssStart", "gnssStop"} => Do(op).op \notin SetBy("running")
                     /\ op \notin {"gnssEnable", "gnssDisable"} => Do(op).op \notin SetBy("enabled")
  BY <1>1, Fields
<1> QED
  BY <1>1, <1>2, <1>3, <1>4, <1>5, <1>6

-----------------------------------------------------------------------------
Maybe == Callback \cup {none}

Shape ==
  /\ DOMAIN gnss = {"cb10", "cb11", "cb20", "ni", "api", "pending"}
  /\ gnss.cb10 \in Maybe /\ gnss.cb11 \in Maybe /\ gnss.cb20 \in Maybe /\ gnss.api \in BOOLEAN
  /\ DOMAIN client = {"gps", "gps20", "tracking", "cached"}
  /\ client.gps \in Maybe /\ client.gps20 \in Maybe
  /\ client.tracking \in BOOLEAN /\ client.cached \in BOOLEAN
  /\ DOMAIN adapter = {"running", "enabled", "config", "ran"}
  /\ adapter.running \in BOOLEAN /\ adapter.enabled \in BOOLEAN
  /\ linked \subseteq Callback /\ live \in {1, 2} /\ todo \in Seq(Call)
  /\ wanted \in BOOLEAN /\ wantsOn \in BOOLEAN /\ current \in Maybe
  /\ Version = "1.1" => /\ gnss.cb20 = none /\ client.gps20 = none
                        /\ \A i \in 1 .. Len(todo) : todo[i].op # "gnssUpdateCallbacks_2_0"

First(slot) == IF slot = "cb20" THEN One(none) ELSE Two(none)
Second(slot, c) == IF slot = "cb20" THEN Two(c) ELSE One(c)
Slot == IF Version = "1.1" THEN {"cb11"} ELSE {"cb10", "cb11", "cb20"}

(* A registration: the slots, ... *)
LEMMA SlotsOf ==
    ASSUME Built, Shape, NEW c \in Callback, NEW slot \in Slot
    PROVE  LET g == slots(gnss, slot, c)
           IN /\ DOMAIN g = DOMAIN gnss /\ g.api = gnss.api /\ g.pending = gnss.pending
              /\ g.cb10 \in Maybe /\ g.cb11 = (IF slot = "cb11" THEN c ELSE none)
              /\ g.cb20 = (IF slot = "cb20" THEN c ELSE none)
              /\ FirstCallback(g) = IF slot = "cb20" THEN [gps |-> none, gps20 |-> c]
                                    ELSE [gps |-> c, gps20 |-> none]
              /\ Version = "1.1" => g.cb10 = c
              /\ IsReady(g)
<1> DEFINE g == slots(gnss, slot, c)
<1>1. c # none /\ c \in Maybe /\ none \in Maybe
  BY DEF Built, Maybe
<1>2. CASE Version = "2.0"
  <2>1. /\ DOMAIN g = DOMAIN gnss /\ g.api = gnss.api /\ g.pending = gnss.pending
        /\ g.cb10 = (IF slot = "cb10" THEN c ELSE none)
        /\ g.cb11 = (IF slot = "cb11" THEN c ELSE none)
        /\ g.cb20 = (IF slot = "cb20" THEN c ELSE none)
    BY <1>2 DEF slots, Shape
  <2> HIDE DEF g
  <2>2. slot \in {"cb10", "cb11", "cb20"}
    BY DEF Slot
  <2>3. FirstCallback(g) = IF slot = "cb20" THEN [gps |-> none, gps20 |-> c]
                           ELSE [gps |-> c, gps20 |-> none]
    BY <1>1, <1>2, <2>1, <2>2 DEF FirstCallback
  <2>4. IsReady(g)
    BY <1>1, <1>2, <2>1, <2>2 DEF IsReady
  <2> QED
    BY <1>1, <1>2, <2>1, <2>3, <2>4 DEF g
<1>3. CASE Version = "1.1"
  <2>1. /\ DOMAIN g = DOMAIN gnss /\ g.api = gnss.api /\ g.pending = gnss.pending
        /\ g.cb10 = c /\ g.cb11 = c /\ g.cb20 = none /\ slot = "cb11"
    BY <1>3 DEF slots, Shape, Slot
  <2> HIDE DEF g
  <2>2. FirstCallback(g) = [gps |-> c, gps20 |-> none] /\ IsReady(g)
    BY <1>1, <1>3, <2>1 DEF FirstCallback, IsReady
  <2> QED
    BY <1>1, <1>3, <2>1, <2>2 DEF g
<1> QED
  BY <1>2, <1>3 DEF Built

(* ... what becomes of the client and the library, ... *)
LEMMA GotApi ==
    ASSUME Shape, NEW g, DOMAIN g = DOMAIN gnss, g.api = gnss.api, GetApi(g), IsReady(g)
    PROVE  /\ DOMAIN gnss' = DOMAIN gnss /\ gnss'.api = TRUE
           /\ gnss'.cb10 = g.cb10 /\ gnss'.cb11 = g.cb11 /\ gnss'.cb20 = g.cb20
           /\ gnss.api => UNCHANGED <<client, capsDue, adapter>>
           /\ ~gnss.api =>
                 /\ client' = [gps |-> FirstCallback(g).gps, gps20 |-> FirstCallback(g).gps20,
                               tracking |-> FALSE, cached |-> FALSE]
                 /\ capsDue' = TRUE
                 /\ adapter' = [adapter EXCEPT !.config = Merge(@, g.pending)]
           /\ DOMAIN adapter' = DOMAIN adapter
           /\ adapter'.running = adapter.running /\ adapter'.enabled = adapter.enabled
<1>1. CASE gnss.api
  BY <1>1 DEF GetApi, Shape
<1>2. CASE ~gnss.api
  <2>1. /\ gnss' = [g EXCEPT !.api = TRUE, !.pending = NoConfig]
        /\ client' = [NewClient EXCEPT !.gps = FirstCallback(g).gps, !.gps20 = FirstCallback(g).gps20]
        /\ capsDue' = TRUE
        /\ adapter' = [adapter EXCEPT !.config = Merge(@, g.pending)]
    BY <1>2 DEF GetApi
  <2>2. client' = [gps |-> FirstCallback(g).gps, gps20 |-> FirstCallback(g).gps20,
                   tracking |-> FALSE, cached |-> FALSE]
    BY <2>1 DEF NewClient
  <2>3. /\ DOMAIN gnss' = DOMAIN gnss /\ gnss'.api = TRUE
        /\ gnss'.cb10 = g.cb10 /\ gnss'.cb11 = g.cb11 /\ gnss'.cb20 = g.cb20
    BY <2>1 DEF Shape
  <2>4. /\ DOMAIN adapter' = DOMAIN adapter
        /\ adapter'.running = adapter.running /\ adapter'.enabled = adapter.enabled
    BY <2>1 DEF Shape
  <2> QED
    BY <1>2, <2>1, <2>2, <2>3, <2>4
<1> QED
  BY <1>1, <1>2

(* ... and the calls into the client that follow. *)
LEMMA RegisterCalls ==
    ASSUME Built, Shape, NEW c \in Callback, NEW slot \in Slot, RegisterAs(slot, c)
    PROVE  todo' = IF Version = "2.0" /\ gnss.api
                   THEN <<First(slot), Second(slot, c), Do("gnssEnable"), Do("requestCapabilities")>>
                   ELSE <<Second(slot, c), Do("gnssEnable"), Do("requestCapabilities")>>
<1>1. IsReady(slots(gnss, slot, c))
  BY SlotsOf
<1>2. todo' = before(slot) \o after(slot, c)
  BY <1>1 DEF RegisterAs
<1>3. after(slot, c) = <<Second(slot, c), Do("gnssEnable"), Do("requestCapabilities")>>
  BY DEF after, Second
<1>4. before(slot) = IF Version = "2.0" /\ gnss.api THEN <<First(slot)>> ELSE <<>>
  BY DEF before, First
<1>5. ASSUME NEW r, NEW s, NEW t, NEW u PROVE <<r>> \o <<s, t, u>> = <<r, s, t, u>>
  <2> DEFINE S == {r, s, t, u}
             p == <<r>> \o <<s, t, u>>
             q == <<r, s, t, u>>
  <2>1. <<r>> \in Seq(S) /\ <<s, t, u>> \in Seq(S) /\ q \in Seq(S) /\ Len(q) = 4
    OBVIOUS
  <2>2. p \in Seq(S) /\ Len(p) = 4 /\ p[1] = r /\ p[2] = s /\ p[3] = t /\ p[4] = u
    BY <2>1, ConcatProperties
  <2>3. \A i \in 1 .. 4 : p[i] = q[i]
    BY <2>2
  <2> HIDE DEF p, q, S
  <2>4. p = q
    BY <2>1, <2>2, <2>3, SeqEqual
  <2> QED
    BY <2>4 DEF p, q
<1>6. \A s, t, u : <<>> \o <<s, t, u>> = <<s, t, u>>
  OBVIOUS
<1> DEFINE a == First(slot)
           b == Second(slot, c)
           e == Do("gnssEnable")
           r == Do("requestCapabilities")
<1>7. after(slot, c) = <<b, e, r>> /\ before(slot) = IF Version = "2.0" /\ gnss.api THEN <<a>> ELSE <<>>
  BY <1>3, <1>4
<1> HIDE DEF a, b, e, r
<1>8. CASE Version = "2.0" /\ gnss.api
  <2>1. todo' = <<a>> \o <<b, e, r>>
    BY <1>2, <1>7, <1>8
  <2>2. todo' = <<a, b, e, r>>
    BY <1>5, <2>1, Zenon
  <2> QED
    BY <1>8, <2>2 DEF a, b, e, r
<1>9. CASE ~(Version = "2.0" /\ gnss.api)
  <2>1. todo' = <<>> \o <<b, e, r>>
    BY <1>2, <1>7, <1>9
  <2>2. todo' = <<b, e, r>>
    BY <1>6, <2>1, Zenon
  <2> QED
    BY <1>9, <2>2 DEF b, e, r
<1> QED
  BY <1>8, <1>9

(* Registration, altogether. *)
LEMMA Registered ==
    ASSUME Built, Shape, NEW c \in Callback, NEW slot \in Slot, RegisterAs(slot, c)
    PROVE  /\ DOMAIN gnss' = DOMAIN gnss /\ gnss'.api = TRUE /\ gnss'.cb10 \in Maybe
           /\ gnss'.cb11 = (IF slot = "cb11" THEN c ELSE none)
           /\ gnss'.cb20 = (IF slot = "cb20" THEN c ELSE none)
           /\ Version = "1.1" => gnss'.cb10 = c
           /\ gnss.api => UNCHANGED <<client, capsDue, adapter>>
           /\ ~gnss.api =>
                 /\ client' = [gps |-> IF slot = "cb20" THEN none ELSE c,
                               gps20 |-> IF slot = "cb20" THEN c ELSE none,
                               tracking |-> FALSE, cached |-> FALSE]
                 /\ capsDue' = TRUE
                 /\ adapter' = [adapter EXCEPT !.config = Merge(@, gnss.pending)]
           /\ DOMAIN adapter' = DOMAIN adapter
           /\ adapter'.running = adapter.running /\ adapter'.enabled = adapter.enabled
           /\ linked' \subseteq linked \cup {c} /\ c \in linked'
           /\ current' = c /\ wantsOn' = TRUE
           /\ UNCHANGED <<reporter, live, wanted, asked, knows, hasStarted>>
<1> DEFINE g == slots(gnss, slot, c)
<1>1. GetApi(g)
  BY DEF RegisterAs
<1>2. /\ DOMAIN g = DOMAIN gnss /\ g.api = gnss.api /\ g.pending = gnss.pending
      /\ g.cb10 \in Maybe /\ g.cb11 = (IF slot = "cb11" THEN c ELSE none)
      /\ g.cb20 = (IF slot = "cb20" THEN c ELSE none)
      /\ FirstCallback(g).gps = (IF slot = "cb20" THEN none ELSE c)
      /\ FirstCallback(g).gps20 = (IF slot = "cb20" THEN c ELSE none)
      /\ Version = "1.1" => g.cb10 = c
      /\ IsReady(g)
  BY SlotsOf
<1>3. wantsOn' = IsReady(g) /\ wantsOn' = TRUE
  BY <1>2 DEF RegisterAs
<1> HIDE DEF g
<1>4. c # none
  BY DEF Built
<1>5. linked' \subseteq linked \cup {c} /\ c \in linked'
  BY <1>4 DEF RegisterAs, Relinked, Set
<1>6. current' = c /\ UNCHANGED <<reporter, live, wanted, asked, knows, hasStarted>>
  BY DEF RegisterAs
<1>7. /\ DOMAIN gnss' = DOMAIN gnss /\ gnss'.api = TRUE
      /\ gnss'.cb10 = g.cb10 /\ gnss'.cb11 = g.cb11 /\ gnss'.cb20 = g.cb20
      /\ DOMAIN adapter' = DOMAIN adapter
      /\ adapter'.running = adapter.running /\ adapter'.enabled = adapter.enabled
  BY <1>1, <1>2, GotApi
<1>8. CASE gnss.api
  <2>1. UNCHANGED <<client, capsDue, adapter>>
    BY <1>1, <1>2, <1>8, GotApi
  <2> QED
    BY <1>2, <1>3, <1>5, <1>6, <1>7, <1>8, <2>1
<1>9. CASE ~gnss.api
  <2>1. /\ client' = [gps |-> FirstCallback(g).gps, gps20 |-> FirstCallback(g).gps20,
                      tracking |-> FALSE, cached |-> FALSE]
        /\ capsDue' = TRUE
        /\ adapter' = [adapter EXCEPT !.config = Merge(@, g.pending)]
    BY <1>1, <1>2, <1>9, GotApi
  <2>2. client' = [gps |-> IF slot = "cb20" THEN none ELSE c,
                   gps20 |-> IF slot = "cb20" THEN c ELSE none,
                   tracking |-> FALSE, cached |-> FALSE]
    BY <1>2, <2>1
  <2>3. adapter' = [adapter EXCEPT !.config = Merge(@, gnss.pending)]
    BY <1>2, <2>1
  <2> QED
    BY <1>2, <1>3, <1>5, <1>6, <1>7, <1>9, <2>1, <2>2, <2>3
<1> QED
  BY <1>8, <1>9

(* The other interface of 1.1: the client is told of the callback there is. *)
LEMMA NiRegistered ==
    ASSUME Built, Shape, setGnssNiCb
    PROVE  /\ Version = "1.1" /\ DOMAIN gnss' = DOMAIN gnss /\ gnss'.api = TRUE
           /\ gnss'.cb10 = gnss.cb10 /\ gnss'.cb11 = gnss.cb11 /\ gnss'.cb20 = gnss.cb20
           /\ gnss.api => UNCHANGED <<client, capsDue, adapter>>
           /\ ~gnss.api =>
                 /\ client' = [gps |-> gnss.cb10, gps20 |-> none, tracking |-> FALSE, cached |-> FALSE]
                 /\ capsDue' = TRUE
                 /\ adapter' = [adapter EXCEPT !.config = Merge(@, gnss.pending)]
           /\ DOMAIN adapter' = DOMAIN adapter
           /\ adapter'.running = adapter.running /\ adapter'.enabled = adapter.enabled
           /\ todo' = <<One(gnss.cb10)>>
           /\ UNCHANGED <<linked, reporter, live, ghosts>>
<1> DEFINE g == [gnss EXCEPT !.ni = TRUE]
<1>1. Version = "1.1" /\ GetApi(g) /\ todo' = <<One(g.cb10)>> /\ UNCHANGED <<linked, reporter, live, ghosts>>
  BY DEF setGnssNiCb
<1>2. /\ DOMAIN g = DOMAIN gnss /\ g.api = gnss.api /\ g.pending = gnss.pending /\ g.ni = TRUE
      /\ g.cb10 = gnss.cb10 /\ g.cb11 = gnss.cb11 /\ g.cb20 = gnss.cb20
  BY DEF Shape
<1> HIDE DEF g
<1>3. IsReady(g) /\ FirstCallback(g) = [gps |-> gnss.cb10, gps20 |-> none]
  BY <1>1, <1>2 DEF IsReady, FirstCallback
<1>4. FirstCallback(g).gps = gnss.cb10 /\ FirstCallback(g).gps20 = none
  BY <1>3
<1>5. /\ DOMAIN gnss' = DOMAIN gnss /\ gnss'.api = TRUE
      /\ gnss'.cb10 = gnss.cb10 /\ gnss'.cb11 = gnss.cb11 /\ gnss'.cb20 = gnss.cb20
      /\ DOMAIN adapter' = DOMAIN adapter
      /\ adapter'.running = adapter.running /\ adapter'.enabled = adapter.enabled
  BY <1>1, <1>2, <1>3, GotApi
<1>6. CASE gnss.api
  <2>1. UNCHANGED <<client, capsDue, adapter>>
    BY <1>1, <1>2, <1>3, <1>6, GotApi
  <2> QED
    BY <1>1, <1>2, <1>5, <1>6, <2>1
<1>7. CASE ~gnss.api
  <2>1. /\ client' = [gps |-> FirstCallback(g).gps, gps20 |-> FirstCallback(g).gps20,
                      tracking |-> FALSE, cached |-> FALSE]
        /\ capsDue' = TRUE
        /\ adapter' = [adapter EXCEPT !.config = Merge(@, g.pending)]
    BY <1>1, <1>2, <1>3, <1>7, GotApi
  <2>2. client' = [gps |-> gnss.cb10, gps20 |-> none, tracking |-> FALSE, cached |-> FALSE]
    BY <1>4, <2>1
  <2>3. adapter' = [adapter EXCEPT !.config = Merge(@, gnss.pending)]
    BY <1>2, <2>1
  <2> QED
    BY <1>1, <1>2, <1>5, <1>7, <2>1, <2>2, <2>3
<1> QED
  BY <1>6, <1>7

(* A call into the client. *)
LEMMA Calling ==
    ASSUME Shape, ClientCall
    PROVE  /\ todo # <<>> /\ Head(todo) \in Call /\ todo' = Tail(todo) /\ Tail(todo) \in Seq(Call)
           /\ client'.gps = Made(client.gps, Head(todo), "gps")
           /\ client'.gps20 = Made(client.gps20, Head(todo), "gps20")
           /\ client'.tracking = Made(client.tracking, Head(todo), "running")
           /\ adapter'.running = Made(adapter.running, Head(todo), "running")
           /\ adapter'.enabled = Made(adapter.enabled, Head(todo), "enabled")
           /\ client'.cached = client.cached /\ adapter'.config = adapter.config
           /\ DOMAIN client' = DOMAIN client /\ DOMAIN adapter' = DOMAIN adapter
           /\ client'.tracking \in BOOLEAN /\ adapter'.running \in BOOLEAN
           /\ adapter'.enabled \in BOOLEAN
<1> DEFINE h == Head(todo)
<1>1. todo # <<>> /\ todo \in Seq(Call)
  BY DEF ClientCall, Shape
<1>2. h \in Call /\ todo' = Tail(todo) /\ Tail(todo) \in Seq(Call)
  BY <1>1, HeadTailProperties, EmptySeq DEF ClientCall
<1>3. client' = clientAfter(h) /\ adapter' = adapterAfter(h)
  BY DEF ClientCall
<1> HIDE DEF h
<1>4. h.op \in Op
  BY <1>2 DEF Call
<1>5. /\ h.op = "gnssUpdateCallbacks" => client' = [client EXCEPT !.gps = h.cb]
      /\ h.op = "gnssUpdateCallbacks_2_0" => client' = [client EXCEPT !.gps20 = h.cb]
      /\ h.op = "gnssStart" => client' = [client EXCEPT !.tracking = TRUE]
      /\ h.op = "gnssStop" => client' = [client EXCEPT !.tracking = FALSE]
      /\ h.op \in {"gnssEnable", "gnssDisable", "requestCapabilities"} => client' = client
  BY <1>3 DEF clientAfter
<1>6. /\ h.op = "gnssStart" => adapter' = [adapter EXCEPT !.running = TRUE, !.ran = TRUE]
      /\ h.op = "gnssStop" => adapter' = [adapter EXCEPT !.running = FALSE]
      /\ h.op = "gnssEnable" => adapter' = [adapter EXCEPT !.enabled = TRUE]
      /\ h.op = "gnssDisable" => adapter' = [adapter EXCEPT !.enabled = FALSE]
      /\ h.op \in {"gnssUpdateCallbacks", "gnssUpdateCallbacks_2_0", "requestCapabilities"} =>
            adapter' = adapter
  BY <1>3 DEF adapterAfter
<1>7. /\ client'.gps = (IF h.op = "gnssUpdateCallbacks" THEN h.cb ELSE client.gps)
      /\ client'.gps20 = (IF h.op = "gnssUpdateCallbacks_2_0" THEN h.cb ELSE client.gps20)
      /\ client'.tracking = (IF h.op = "gnssStart" THEN TRUE
                             ELSE IF h.op = "gnssStop" THEN FALSE ELSE client.tracking)
      /\ client'.cached = client.cached /\ DOMAIN client' = DOMAIN client
  BY <1>4, <1>5 DEF Op, Shape
<1>8. /\ adapter'.running = (IF h.op = "gnssStart" THEN TRUE
                             ELSE IF h.op = "gnssStop" THEN FALSE ELSE adapter.running)
      /\ adapter'.enabled = (IF h.op = "gnssEnable" THEN TRUE
                             ELSE IF h.op = "gnssDisable" THEN FALSE ELSE adapter.enabled)
      /\ adapter'.config = adapter.config /\ DOMAIN adapter' = DOMAIN adapter
  BY <1>4, <1>6 DEF Op, Shape
<1>9. \A x : /\ Made(x, h, "gps") = (IF h.op = "gnssUpdateCallbacks" THEN h.cb ELSE x)
             /\ Made(x, h, "gps20") = (IF h.op = "gnssUpdateCallbacks_2_0" THEN h.cb ELSE x)
  BY Fields DEF Made
<1>10. \A x : Made(x, h, "running") = (IF h.op = "gnssStart" THEN TRUE
                                       ELSE IF h.op = "gnssStop" THEN FALSE ELSE x)
  <2>1. /\ h.op = "gnssStart" => Val(h, "running") = TRUE /\ h.op \in SetBy("running")
        /\ h.op = "gnssStop" => Val(h, "running") = FALSE /\ h.op \in SetBy("running")
        /\ h.op \notin {"gnssStart", "gnssStop"} => h.op \notin SetBy("running")
    BY Fields DEF Val
  <2> QED
    BY <2>1 DEF Made
<1>11. \A x : Made(x, h, "enabled") = (IF h.op = "gnssEnable" THEN TRUE
                                       ELSE IF h.op = "gnssDisable" THEN FALSE ELSE x)
  <2>1. /\ h.op = "gnssEnable" => Val(h, "enabled") = TRUE /\ h.op \in SetBy("enabled")
        /\ h.op = "gnssDisable" => Val(h, "enabled") = FALSE /\ h.op \in SetBy("enabled")
        /\ h.op \notin {"gnssEnable", "gnssDisable"} => h.op \notin SetBy("enabled")
    BY Fields DEF Val
  <2> QED
    BY <2>1 DEF Made
<1>12. /\ client'.tracking \in BOOLEAN /\ adapter'.running \in BOOLEAN
       /\ adapter'.enabled \in BOOLEAN
  BY <1>7, <1>8 DEF Shape
<1> QED
  BY <1>1, <1>2, <1>7, <1>8, <1>9, <1>10, <1>11, <1>12 DEF h

Ready == todo = <<>> /\ (NoticesFirst => \A c \in linked : ProcessOf[c] = live)

(* The framework's call comes between two calls into the client. *)
LEMMA Steps ==
    ASSUME Built, [Next]_vars
    PROVE  \/ Ready /\ \E c \in Callback, slot \in Slot : ProcessOf[c] = live /\ RegisterAs(slot, c)
           \/ Ready /\ (setGnssNiCb \/ \E f \in Flag, v \in Value : updateConfiguration(f, v))
           \/ Ready /\ current # none /\ (start \/ stop \/ cleanup)
           \/ Crash \/ ClientCall \/ onCapabilitiesCb \/ Reports
           \/ \E c \in Callback : serviceDied(c)
           \/ UNCHANGED vars
<1>1. CASE Called
  <2>1. Ready
    BY <1>1 DEF Called, Ready
  <2>2. ASSUME NEW c \in Callback, ProcessOf[c] = live,
               setCallback(c) \/ setCallback_1_1(c) \/ setCallback_2_0(c)
        PROVE  \E slot \in Slot : RegisterAs(slot, c)
    <3>1. "1.0" \in Interface \/ "2.0" \in Interface => Version = "2.0"
      BY DEF Built
    <3> QED
      BY <2>2, <3>1 DEF setCallback, setCallback_1_1, setCallback_2_0, Slot
  <2> QED
    BY <1>1, <2>1, <2>2 DEF Called
<1> QED
  BY <1>1 DEF Next

(* The calls that the service makes are calls into the client, ... *)
LEMMA CallsAreCalls ==
    /\ \A c \in Maybe : One(c) \in Call /\ Two(c) \in Call
    /\ \A op \in Op : Do(op) \in Call
    /\ Maybe = Callback \cup {none} /\ Op # {}
BY DEF One, Two, Do, Call, Maybe, Op

(* ... and lists of them are lists of calls. *)
LEMMA SomeCalls ==
    /\ <<>> \in Seq(Call)
    /\ \A a, b, c, d \in Call : /\ <<a>> \in Seq(Call) /\ <<a, b>> \in Seq(Call)
                               /\ <<a, b, c>> \in Seq(Call) /\ <<a, b, c, d>> \in Seq(Call)
OBVIOUS

(* The shape of the state. *)
LEMMA ShapeStep ==
    ASSUME Built, Shape, [Next]_vars
    PROVE  Shape'
<1>1. ASSUME NEW c \in Callback, NEW slot \in Slot, RegisterAs(slot, c) PROVE Shape'
  <2>1. c \in Maybe /\ none \in Maybe
    BY DEF Maybe
  <2>2. First(slot) \in Call /\ Second(slot, c) \in Call /\ Do("gnssEnable") \in Call
        /\ Do("requestCapabilities") \in Call
    BY <2>1, CallsAreCalls DEF First, Second, Op
  <2>3. todo' \in Seq(Call)
    BY <1>1, <2>2, RegisterCalls, SomeCalls
  <2>4. Version = "1.1" => \A i \in 1 .. Len(todo') : todo'[i].op # "gnssUpdateCallbacks_2_0"
    <3> SUFFICES ASSUME Version = "1.1"
                 PROVE  \A i \in 1 .. Len(todo') : todo'[i].op # "gnssUpdateCallbacks_2_0"
      OBVIOUS
    <3>1. slot = "cb11"
      BY DEF Slot
    <3>2. todo' = <<One(c), Do("gnssEnable"), Do("requestCapabilities")>>
      BY <1>1, <3>1, RegisterCalls DEF Second
    <3> QED
      BY <3>2 DEF One, Do
  <2>5. Version = "1.1" => slot = "cb11"
    BY DEF Slot
  <2>6. DOMAIN client' = DOMAIN client /\ client'.gps \in Maybe /\ client'.gps20 \in Maybe
        /\ client'.tracking \in BOOLEAN /\ client'.cached \in BOOLEAN
        /\ (Version = "1.1" => client'.gps20 = none)
    <3>1. CASE gnss.api
      BY <1>1, <3>1, Registered DEF Shape
    <3>2. CASE ~gnss.api
      <4>1. client' = [gps |-> IF slot = "cb20" THEN none ELSE c,
                       gps20 |-> IF slot = "cb20" THEN c ELSE none,
                       tracking |-> FALSE, cached |-> FALSE]
        BY <1>1, <3>2, Registered
      <4> QED
        BY <2>1, <2>5, <4>1 DEF Shape
    <3> QED
      BY <3>1, <3>2
  <2>7. linked' \subseteq Callback /\ current' \in Maybe /\ wantsOn' \in BOOLEAN
    BY <1>1, <2>1, Registered DEF Shape
  <2> QED
    BY <1>1, <2>1, <2>3, <2>4, <2>5, <2>6, <2>7, Registered DEF Shape
<1>2. CASE setGnssNiCb
  <2>1. none \in Maybe
    BY DEF Maybe
  <2>2. One(gnss.cb10) \in Call
    BY CallsAreCalls DEF Shape
  <2>3. todo' \in Seq(Call) /\ \A i \in 1 .. Len(todo') : todo'[i].op # "gnssUpdateCallbacks_2_0"
    <3>1. todo' = <<One(gnss.cb10)>>
      BY <1>2, NiRegistered
    <3>2. One(gnss.cb10).op # "gnssUpdateCallbacks_2_0"
      BY DEF One
    <3> HIDE DEF One
    <3> QED
      BY <2>2, <3>1, <3>2, SomeCalls
  <2>4. DOMAIN client' = DOMAIN client /\ client'.gps \in Maybe /\ client'.gps20 \in Maybe
        /\ client'.tracking \in BOOLEAN /\ client'.cached \in BOOLEAN
        /\ client'.gps20 = none
    <3>1. CASE gnss.api
      BY <1>2, <3>1, NiRegistered DEF Shape
    <3>2. CASE ~gnss.api
      <4>1. client' = [gps |-> gnss.cb10, gps20 |-> none, tracking |-> FALSE, cached |-> FALSE]
        BY <1>2, <3>2, NiRegistered
      <4> QED
        BY <2>1, <4>1 DEF Shape
    <3> QED
      BY <3>1, <3>2
  <2> QED
    BY <1>2, <2>3, <2>4, NiRegistered DEF Shape, ghosts
<1>3. ASSUME NEW f, NEW v, updateConfiguration(f, v) PROVE Shape'
  BY <1>3 DEF updateConfiguration, Shape
<1>4. ASSUME UNCHANGED <<gnss, client, adapter>>, live' \in {1, 2}, linked' \subseteq linked,
             wanted' \in BOOLEAN, wantsOn' \in BOOLEAN, current' \in {none, current},
             todo' \in {<<>>, <<Do("gnssStart")>>, <<Do("gnssStop")>>, <<Do("gnssDisable")>>,
                        <<Do("gnssStop"), Do("gnssDisable")>>}
      PROVE  Shape'
  <2>1. /\ Do("gnssStart") \in Call /\ Do("gnssStop") \in Call /\ Do("gnssDisable") \in Call
    BY CallsAreCalls DEF Op
  <2>2. todo' \in Seq(Call)
    BY <1>4, <2>1, SomeCalls
  <2>3. \A i \in 1 .. Len(todo') : todo'[i].op # "gnssUpdateCallbacks_2_0"
    BY <1>4 DEF Do
  <2> QED
    BY <1>4, <2>2, <2>3 DEF Shape, Maybe
<1>5. CASE start \/ stop \/ cleanup
  <2>1. /\ UNCHANGED <<gnss, client, adapter, live, linked, current>>
        /\ todo' \in {<<Do("gnssStart")>>, <<Do("gnssStop")>>, <<Do("gnssDisable")>>,
                      <<Do("gnssStop"), Do("gnssDisable")>>}
    BY <1>5 DEF start, stop, cleanup, lib
  <2>2. wanted' \in BOOLEAN /\ wantsOn' \in BOOLEAN
    BY <1>5 DEF start, stop, cleanup, Shape
  <2> QED
    BY <1>4, <2>1, <2>2 DEF Shape
<1>6. CASE Crash
  <2>1. /\ UNCHANGED <<gnss, client, adapter, linked>> /\ live' = 2 /\ todo' = <<>>
        /\ current' = none /\ wanted' = FALSE /\ wantsOn' = FALSE
    BY <1>6 DEF Crash, hal, lib
  <2> QED
    BY <1>4, <2>1
<1>7. ASSUME NEW c, serviceDied(c) PROVE Shape'
  <2>1. /\ UNCHANGED <<gnss, client, adapter, live, wanted, wantsOn, current>> /\ linked' \subseteq linked
        /\ todo' \in {<<>>, <<Do("gnssStop"), Do("gnssDisable")>>}
    BY <1>7 DEF serviceDied, lib, ghosts
  <2> QED
    BY <1>4, <2>1 DEF Shape
<1>8. CASE ClientCall
  <2>1. UNCHANGED <<gnss, linked, live, current, wanted, wantsOn>>
    BY <1>8 DEF ClientCall
  <2>2. Head(todo).op \in Op /\ Head(todo).cb \in Maybe
    BY <1>8, Calling DEF Call, Maybe
  <2>3. \A x \in Maybe : Made(x, Head(todo), "gps") \in Maybe /\ Made(x, Head(todo), "gps20") \in Maybe
    BY <2>2, Fields DEF Made
  <2>5. Version = "1.1" => /\ client'.gps20 = none
                           /\ \A i \in 1 .. Len(todo') : todo'[i].op # "gnssUpdateCallbacks_2_0"
    <3> SUFFICES ASSUME Version = "1.1"
                 PROVE  /\ client'.gps20 = none
                        /\ \A i \in 1 .. Len(todo') : todo'[i].op # "gnssUpdateCallbacks_2_0"
      OBVIOUS
    <3>1. /\ Len(todo) \in Nat \ {0} /\ Head(todo) = todo[1] /\ Len(todo') = Len(todo) - 1
          /\ \A i \in 1 .. Len(todo') : todo'[i] = todo[i + 1] /\ i + 1 \in 1 .. Len(todo)
      BY <1>8, Calling, HeadTailProperties, EmptySeq DEF Shape
    <3>2. todo[1].op # "gnssUpdateCallbacks_2_0"
      BY <3>1 DEF Shape
    <3>3. Made(client.gps20, Head(todo), "gps20") = client.gps20
      BY <3>1, <3>2, Fields DEF Made
    <3> QED
      BY <1>8, <3>1, <3>3, Calling DEF Shape
  <2> QED
    BY <1>8, <2>1, <2>3, <2>5, Calling DEF Shape
<1>9. CASE onCapabilitiesCb
  <2>1. /\ UNCHANGED <<gnss, linked, todo, adapter, live, current, wanted, wantsOn>>
        /\ \/ client' = client
           \/ \E b \in BOOLEAN : client' = [client EXCEPT !.cached = b]
    BY <1>9 DEF onCapabilitiesCb
  <2>2. /\ DOMAIN client' = DOMAIN client /\ client'.gps = client.gps /\ client'.gps20 = client.gps20
        /\ client'.tracking = client.tracking /\ client'.cached \in BOOLEAN
    BY <2>1 DEF Shape
  <2> QED
    BY <2>1, <2>2 DEF Shape
<1>10. ASSUME UNCHANGED <<gnss, client, linked, todo, adapter, live, current, wanted, wantsOn>>
       PROVE  Shape'
  BY <1>10 DEF Shape
<1>11. CASE Reports
  BY <1>10, <1>11 DEF Reports, hal, ghosts
<1>12. CASE UNCHANGED vars
  BY <1>10, <1>12 DEF vars, hal, lib, ghosts
<1> QED
  BY <1>1, <1>2, <1>3, <1>5, <1>6, <1>7, <1>8, <1>9, <1>11, <1>12, Steps

(* What a registration makes of the fields. *)
LEMMA RegisterMakes ==
    ASSUME Built, Shape, NEW c \in Callback, NEW slot \in Slot, RegisterAs(slot, c), NEW x, NEW v
    PROVE  /\ Becomes(x, todo', "running", v) => v = x
           /\ Becomes(x, todo', "enabled", v) => v = TRUE
           /\ Becomes(x, todo', "gps", v) =>
                 v = IF slot # "cb20" THEN c ELSE IF Version = "2.0" /\ gnss.api THEN none ELSE x
           /\ Becomes(x, todo', "gps20", v) =>
                 v = IF slot = "cb20" THEN c ELSE IF Version = "2.0" /\ gnss.api THEN none ELSE x
<1>1. \A y : /\ Made(y, First(slot), "running") = y /\ Made(y, First(slot), "enabled") = y
             /\ Made(y, First(slot), "gps") = (IF slot = "cb20" THEN none ELSE y)
             /\ Made(y, First(slot), "gps20") = (IF slot = "cb20" THEN y ELSE none)
  BY CallsSet DEF First
<1>2. \A y : /\ Made(y, Second(slot, c), "running") = y /\ Made(y, Second(slot, c), "enabled") = y
             /\ Made(y, Second(slot, c), "gps") = (IF slot = "cb20" THEN y ELSE c)
             /\ Made(y, Second(slot, c), "gps20") = (IF slot = "cb20" THEN c ELSE y)
  BY CallsSet DEF Second
<1> DEFINE e == Do("gnssEnable")
           r == Do("requestCapabilities")
           a == First(slot)
           b == Second(slot, c)
<1>3. \A y : /\ Made(y, e, "running") = y /\ Made(y, e, "enabled") = TRUE
             /\ Made(y, e, "gps") = y /\ Made(y, e, "gps20") = y
             /\ Made(y, r, "running") = y /\ Made(y, r, "enabled") = y
             /\ Made(y, r, "gps") = y /\ Made(y, r, "gps20") = y
  BY CallsSet DEF Op
<1>4. todo' = IF Version = "2.0" /\ gnss.api THEN <<a, b, e, r>> ELSE <<b, e, r>>
  BY RegisterCalls
<1> HIDE DEF a, b, e, r
<1>5. CASE Version = "2.0" /\ gnss.api
  <2>1. todo' = <<a, b, e, r>>
    BY <1>4, <1>5
  <2>2. \A f : Becomes(x, todo', f, v) => v = Made(Made(Made(Made(x, a, f), b, f), e, f), r, f)
    BY <2>1, FourMade
  <2> QED
    BY <1>1, <1>2, <1>3, <1>5, <2>2 DEF a, b
<1>6. CASE ~(Version = "2.0" /\ gnss.api)
  <2>1. todo' = <<b, e, r>>
    BY <1>4, <1>6
  <2>2. \A f : Becomes(x, todo', f, v) => v = Made(Made(Made(x, b, f), e, f), r, f)
    BY <2>1, ThreeMade
  <2> QED
    BY <1>2, <1>3, <1>6, <2>2 DEF b
<1> QED
  BY <1>5, <1>6

(***************************************************************************)
(* What runs is what the living process asked for, once the notices of the *)
(* death of another have been handled.                                     *)
(***************************************************************************)
Dead == \E c \in linked : ProcessOf[c] # live

LivingInv ==
  /\ ~gnss.api => todo = <<>> /\ ~adapter.running /\ ~adapter.enabled /\ current = none
  /\ current # none => current \in linked /\ ProcessOf[current] = live
  /\ current = none => ~wanted /\ ~wantsOn
  /\ Dead => live = 2 /\ current = none
  /\ ~Dead => /\ \A v : Becomes(adapter.running, todo, "running", v) => v = wanted
              /\ \A v : Becomes(adapter.enabled, todo, "enabled", v) => v = wantsOn

(* With no calls left, the fields are what they are to be. *)
LEMMA LivingReady ==
    ASSUME NoticesFirst, LivingInv, Ready
    PROVE  ~Dead /\ adapter.running = wanted /\ adapter.enabled = wantsOn
<1>1. ~Dead /\ todo = <<>>
  BY DEF Ready, Dead
<1> QED
  BY <1>1, BecomesNow DEF LivingInv

(* Every step keeps that. *)
LEMMA LivingStep ==
    ASSUME Built, NoticesFirst, Shape, LivingInv, [Next]_vars
    PROVE  LivingInv'
<1>1. ASSUME Ready, NEW c \in Callback, NEW slot \in Slot, ProcessOf[c] = live, RegisterAs(slot, c)
      PROVE  LivingInv'
  <2>1. ~Dead /\ adapter.running = wanted
    BY <1>1, LivingReady
  <2>2. /\ gnss'.api = TRUE /\ current' = c /\ c \in linked' /\ linked' \subseteq linked \cup {c}
        /\ live' = live /\ wanted' = wanted /\ wantsOn' = TRUE /\ c # none
        /\ adapter'.running = adapter.running
    BY <1>1, Registered DEF Built
  <2>3. ~Dead'
    BY <1>1, <2>1, <2>2 DEF Dead
  <2>4. \A v : Becomes(adapter'.running, todo', "running", v) => v = wanted'
    BY <1>1, <2>1, <2>2, RegisterMakes
  <2>5. \A v : Becomes(adapter'.enabled, todo', "enabled", v) => v = wantsOn'
    BY <1>1, <2>2, RegisterMakes
  <2> QED
    BY <1>1, <2>2, <2>3, <2>4, <2>5 DEF LivingInv
<1>2. ASSUME Ready, setGnssNiCb PROVE LivingInv'
  <2>1. ~Dead /\ adapter.running = wanted /\ adapter.enabled = wantsOn
    BY <1>2, LivingReady
  <2>2. /\ gnss'.api = TRUE /\ UNCHANGED <<current, linked, live, wanted, wantsOn>>
        /\ adapter'.running = adapter.running /\ adapter'.enabled = adapter.enabled
        /\ todo' = <<One(gnss.cb10)>>
    BY <1>2, NiRegistered DEF ghosts
  <2>3. /\ \A v : Becomes(adapter'.running, todo', "running", v) => v = wanted'
        /\ \A v : Becomes(adapter'.enabled, todo', "enabled", v) => v = wantsOn'
    BY <2>1, <2>2, OneMade, CallsSet
  <2> QED
    BY <2>2, <2>3 DEF LivingInv, Dead
<1>3. ASSUME NEW f, NEW v, updateConfiguration(f, v) PROVE LivingInv'
  <2>1. /\ UNCHANGED <<todo, current, linked, live, wanted, wantsOn>> /\ gnss'.api = gnss.api
        /\ adapter'.running = adapter.running /\ adapter'.enabled = adapter.enabled
    BY <1>3 DEF updateConfiguration, Shape
  <2> QED
    BY <2>1 DEF LivingInv, Dead
<1>4. ASSUME Ready, current # none, start \/ stop \/ cleanup PROVE LivingInv'
  <2>1. ~Dead /\ adapter.running = wanted /\ adapter.enabled = wantsOn /\ gnss.api
    BY <1>4, LivingReady DEF LivingInv
  <2>2. UNCHANGED <<gnss, adapter, current, linked, live>>
    BY <1>4 DEF start, stop, cleanup, lib
  <2>3. /\ \A v : Becomes(adapter'.running, todo', "running", v) => v = wanted'
        /\ \A v : Becomes(adapter'.enabled, todo', "enabled", v) => v = wantsOn'
    <3> DEFINE begin == Do("gnssStart")
               end == Do("gnssStop")
               off == Do("gnssDisable")
    <3>m. \A x : /\ Made(x, begin, "running") = TRUE /\ Made(x, begin, "enabled") = x
                 /\ Made(x, end, "running") = FALSE /\ Made(x, end, "enabled") = x
                 /\ Made(x, off, "running") = x /\ Made(x, off, "enabled") = FALSE
      BY CallsSet DEF Op
    <3>e. adapter'.running = wanted /\ adapter'.enabled = wantsOn
      BY <2>1, <2>2
    <3>1. CASE start
      <4>1. todo' = <<begin>> /\ wanted' = TRUE /\ wantsOn' = wantsOn
        BY <3>1 DEF start
      <4> HIDE DEF begin
      <4>2. \A x, f, v : Becomes(x, todo', f, v) => v = Made(x, begin, f)
        BY <4>1, OneMade
      <4>3. /\ Made(adapter'.running, begin, "running") = wanted'
           /\ Made(adapter'.enabled, begin, "enabled") = wantsOn'
        BY <3>m, <3>e, <4>1
      <4> QED
        BY <4>2, <4>3
    <3>2. CASE stop
      <4>1. todo' = <<end>> /\ wanted' = FALSE /\ wantsOn' = wantsOn
        BY <3>2 DEF stop
      <4> HIDE DEF end
      <4>2. \A x, f, v : Becomes(x, todo', f, v) => v = Made(x, end, f)
        BY <4>1, OneMade
      <4>3. /\ Made(adapter'.running, end, "running") = wanted'
           /\ Made(adapter'.enabled, end, "enabled") = wantsOn'
        BY <3>m, <3>e, <4>1
      <4> QED
        BY <4>2, <4>3
    <3>3. CASE cleanup /\ Version = "2.0"
      <4>1. todo' = <<end, off>> /\ wanted' = FALSE /\ wantsOn' = FALSE
        BY <3>3 DEF cleanup
      <4> HIDE DEF end, off
      <4>2. \A x, f, v : Becomes(x, todo', f, v) => v = Made(Made(x, end, f), off, f)
        BY <4>1, TwoMade
      <4>3. /\ Made(Made(adapter'.running, end, "running"), off, "running") = wanted'
           /\ Made(Made(adapter'.enabled, end, "enabled"), off, "enabled") = wantsOn'
        BY <3>m, <3>e, <4>1
      <4> QED
        BY <4>2, <4>3
    <3>4. CASE cleanup /\ Version # "2.0"
      <4>1. todo' = <<off>> /\ wanted' = wanted /\ wantsOn' = FALSE
        BY <3>4 DEF cleanup, Built, Shape
      <4> HIDE DEF off
      <4>2. \A x, f, v : Becomes(x, todo', f, v) => v = Made(x, off, f)
        BY <4>1, OneMade
      <4>3. /\ Made(adapter'.running, off, "running") = wanted'
           /\ Made(adapter'.enabled, off, "enabled") = wantsOn'
        BY <3>m, <3>e, <4>1
      <4> QED
        BY <4>2, <4>3
    <3> QED
      BY <1>4, <3>1, <3>2, <3>3, <3>4
  <2> QED
    BY <1>4, <2>1, <2>2, <2>3 DEF LivingInv, Dead
<1>5. CASE Crash
  <2>1. /\ UNCHANGED <<gnss, adapter, linked, todo>> /\ live = 1 /\ live' = 2 /\ todo = <<>>
        /\ current' = none /\ wanted' = FALSE /\ wantsOn' = FALSE
    BY <1>5 DEF Crash, hal, lib
  <2>2. ~Dead
    BY <2>1 DEF LivingInv
  <2>3. ASSUME ~Dead' PROVE /\ \A v : Becomes(adapter'.running, todo', "running", v) => v = wanted'
                            /\ \A v : Becomes(adapter'.enabled, todo', "enabled", v) => v = wantsOn'
    <3>1. linked = {}
      BY <2>1, <2>2, <2>3 DEF Dead, Shape
    <3>2. wanted = FALSE /\ wantsOn = FALSE
      BY <3>1 DEF LivingInv, Shape
    <3>3. UNCHANGED <<adapter, todo>> /\ wanted' = wanted /\ wantsOn' = wantsOn
      BY <2>1, <3>2
    <3>4. /\ \A v : Becomes(adapter.running, todo, "running", v) => v = wanted
          /\ \A v : Becomes(adapter.enabled, todo, "enabled", v) => v = wantsOn
      BY <2>2 DEF LivingInv
    <3> QED
      BY <3>3, <3>4
  <2>4. Dead' => live' = 2 /\ current' = none
    BY <2>1
  <2>5. ~gnss'.api => todo' = <<>> /\ ~adapter'.running /\ ~adapter'.enabled /\ current' = none
    BY <2>1 DEF LivingInv
  <2> QED
    BY <2>1, <2>3, <2>4, <2>5 DEF LivingInv
<1>6. ASSUME NEW c \in Callback, serviceDied(c) PROVE LivingInv'
  <2>1. /\ UNCHANGED <<gnss, adapter, live, current, wanted, wantsOn>>
        /\ c \in linked /\ ProcessOf[c] # live /\ linked' = linked \ {c}
        /\ todo' = IF gnss.api THEN <<Do("gnssStop"), Do("gnssDisable")>> ELSE <<>>
    BY <1>6 DEF serviceDied, lib, ghosts, Built, Shape
  <2>2. Dead /\ live = 2 /\ current = none /\ ~wanted /\ ~wantsOn
    BY <2>1 DEF LivingInv, Dead
  <2>3. /\ \A v : Becomes(adapter'.running, todo', "running", v) => v = FALSE
        /\ \A v : Becomes(adapter'.enabled, todo', "enabled", v) => v = FALSE
    <3>1. CASE gnss.api
      BY <2>1, <3>1, TwoMade, CallsSet DEF Op
    <3>2. CASE ~gnss.api
      <4>1. todo' = <<>> /\ adapter'.running = FALSE /\ adapter'.enabled = FALSE
        BY <2>1, <3>2 DEF LivingInv, Shape
      <4> QED
        BY <4>1, BecomesNow
    <3> QED
      BY <3>1, <3>2
  <2>4. wanted' = FALSE /\ wantsOn' = FALSE
    BY <2>1, <2>2 DEF Shape
  <2>5. /\ ~gnss'.api => todo' = <<>> /\ ~adapter'.running /\ ~adapter'.enabled /\ current' = none
        /\ current' = none /\ ~wanted' /\ ~wantsOn' /\ live' = 2
    BY <2>1, <2>2 DEF LivingInv
  <2> QED
    BY <2>3, <2>4, <2>5 DEF LivingInv
<1>7. CASE ClientCall
  <2>1. UNCHANGED <<gnss, current, linked, live, wanted, wantsOn>>
    BY <1>7 DEF ClientCall
  <2>2. gnss.api
    BY <1>7, Calling DEF LivingInv
  <2>3. /\ \A v : Becomes(adapter'.running, todo', "running", v) => Becomes(adapter.running, todo, "running", v)
        /\ \A v : Becomes(adapter'.enabled, todo', "enabled", v) => Becomes(adapter.enabled, todo, "enabled", v)
    BY <1>7, Calling, BecomesCalled DEF Shape
  <2> QED
    BY <2>1, <2>2, <2>3 DEF LivingInv, Dead
<1>8. ASSUME UNCHANGED <<gnss, todo, adapter, linked, live, current, wanted, wantsOn>>
      PROVE  LivingInv'
  BY <1>8 DEF LivingInv, Dead
<1>9. CASE onCapabilitiesCb
  BY <1>8, <1>9 DEF onCapabilitiesCb
<1>10. CASE Reports
  BY <1>8, <1>10 DEF Reports, hal, ghosts
<1>11. CASE UNCHANGED vars
  BY <1>8, <1>11 DEF vars, hal, lib, ghosts
<1> QED
  BY <1>1, <1>2, <1>3, <1>4, <1>5, <1>6, <1>7, <1>9, <1>10, <1>11, Steps

(* The first states. *)
LEMMA LivingInit ==
    ASSUME Built, Init
    PROVE  Shape /\ LivingInv
<1>1. /\ gnss = [cb10 |-> none, cb11 |-> none, cb20 |-> none, ni |-> FALSE,
                 api |-> FALSE, pending |-> NoConfig]
      /\ client = [gps |-> none, gps20 |-> none, tracking |-> FALSE, cached |-> FALSE]
      /\ linked = {} /\ todo = <<>> /\ live = 1 /\ current = none
      /\ adapter = [running |-> FALSE, enabled |-> FALSE, config |-> NoConfig, ran |-> FALSE]
      /\ wanted = FALSE /\ wantsOn = FALSE /\ none \in Maybe
  BY DEF Init, NewClient, Maybe
<1>2. <<>> \in Seq(Call) /\ \A i \in 1 .. Len(todo) : FALSE
  BY <1>1, SomeCalls
<1>3. Shape
  BY <1>1, <1>2 DEF Shape
<1>4. /\ \A v : Becomes(adapter.running, todo, "running", v) => v = wanted
      /\ \A v : Becomes(adapter.enabled, todo, "enabled", v) => v = wantsOn
  <2>1. adapter.running = wanted /\ adapter.enabled = wantsOn /\ todo = <<>>
    BY <1>1
  <2> QED
    BY <2>1, BecomesNow
<1>5. ~Dead
  BY <1>1 DEF Dead
<1> QED
  BY <1>1, <1>3, <1>4, <1>5 DEF LivingInv

(* The engine runs and GNSS is enabled as the living framework process asked *)
(* for it: neither a crash nor a callback of another version leaves a        *)
(* session behind.                                                           *)
THEOREM GnssServesTheLiving ==
    ASSUME Built, NoticesFirst
    PROVE  Spec => []ServesTheLiving
<1>1. Init => Shape /\ LivingInv
  BY LivingInit
<1>2. Shape /\ LivingInv /\ [Next]_vars => Shape' /\ LivingInv'
  BY ShapeStep, LivingStep
<1>3. Shape /\ LivingInv => ServesTheLiving
  <2> SUFFICES ASSUME LivingInv, AtRest
               PROVE  adapter.running = wanted /\ adapter.enabled = wantsOn
    BY DEF ServesTheLiving
  <2>1. Ready
    BY DEF AtRest, Ready
  <2> QED
    BY <2>1, LivingReady
<1> QED
  BY <1>1, <1>2, <1>3, PTL DEF Spec


(***************************************************************************)
(* The callback the client reports to is the framework's last one, once    *)
(* the calls that its registration made have been made.                    *)
(***************************************************************************)
ReportInv ==
  /\ ~gnss.api => todo = <<>> /\ current = none
  /\ current # none =>
        /\ gnss.cb20 \in {none, current} /\ gnss.cb11 \in {none, current}
        /\ Version = "1.1" => gnss.cb10 = current
        /\ \A v : Becomes(client.gps20, todo, "gps20", v) => v = gnss.cb20
        /\ gnss.cb20 = none => \A v : Becomes(client.gps, todo, "gps", v) => v = current

(* The calls that start and stop leave the callbacks alone. *)
LEMMA OthersMade ==
    ASSUME NEW q \in {<<>>, <<Do("gnssStart")>>, <<Do("gnssStop")>>, <<Do("gnssDisable")>>,
                      <<Do("gnssStop"), Do("gnssDisable")>>},
           NEW f \in {"gps", "gps20"}, NEW x, NEW v, Becomes(x, q, f, v)
    PROVE  v = x
<1> DEFINE begin == Do("gnssStart")
           end == Do("gnssStop")
           off == Do("gnssDisable")
<1>1. \A y : Made(y, begin, f) = y /\ Made(y, end, f) = y /\ Made(y, off, f) = y
  <2>1. \A op \in {"gnssStart", "gnssStop", "gnssDisable"} :
           op \in Op \ {"gnssUpdateCallbacks", "gnssUpdateCallbacks_2_0"}
    BY DEF Op
  <2>2. \A y : /\ Made(y, begin, "gps") = y /\ Made(y, end, "gps") = y /\ Made(y, off, "gps") = y
               /\ Made(y, begin, "gps20") = y /\ Made(y, end, "gps20") = y
               /\ Made(y, off, "gps20") = y
    BY <2>1, CallsSet
  <2> QED
    BY <2>2
<1>2. q \in {<<>>, <<begin>>, <<end>>, <<off>>, <<end, off>>}
  OBVIOUS
<1> HIDE DEF begin, end, off
<1>3. CASE q = <<>>
  BY <1>3, BecomesNow
<1>4. CASE q = <<begin>> \/ q = <<end>> \/ q = <<off>>
  BY <1>1, <1>4, OneMade
<1>5. CASE q = <<end, off>>
  BY <1>1, <1>5, TwoMade
<1> QED
  BY <1>2, <1>3, <1>4, <1>5

(* Every step keeps that. *)
LEMMA ReportStep ==
    ASSUME Built, Shape, ReportInv, [Next]_vars
    PROVE  ReportInv'
<1>1. ASSUME NEW c \in Callback, NEW slot \in Slot, RegisterAs(slot, c) PROVE ReportInv'
  <2>1. /\ gnss'.api = TRUE /\ current' = c /\ c # none
        /\ gnss'.cb11 = (IF slot = "cb11" THEN c ELSE none)
        /\ gnss'.cb20 = (IF slot = "cb20" THEN c ELSE none)
        /\ Version = "1.1" => gnss'.cb10 = c
    BY <1>1, Registered DEF Built
  <2>2. \A v : Becomes(client'.gps20, todo', "gps20", v) => v = gnss'.cb20
    <3> SUFFICES ASSUME NEW v, Becomes(client'.gps20, todo', "gps20", v) PROVE v = gnss'.cb20
      OBVIOUS
    <3>1. v = IF slot = "cb20" THEN c ELSE IF Version = "2.0" /\ gnss.api THEN none ELSE client'.gps20
      <4> DEFINE x == client'.gps20
      <4>1. Becomes(x, todo', "gps20", v)
        OBVIOUS
      <4> HIDE DEF x
      <4>2. v = IF slot = "cb20" THEN c ELSE IF Version = "2.0" /\ gnss.api THEN none ELSE x
        BY <1>1, <4>1, RegisterMakes
      <4> QED
        BY <4>2 DEF x
    <3>2. CASE slot = "cb20"
      BY <2>1, <3>1, <3>2
    <3>3. CASE slot # "cb20" /\ gnss.api
      <4>1. client' = client /\ (Version # "2.0" => client.gps20 = none)
        BY <1>1, <3>3, Registered DEF Shape, Built
      <4> QED
        BY <2>1, <3>1, <3>3, <4>1
    <3>4. CASE slot # "cb20" /\ ~gnss.api
      <4>1. client' = [gps |-> IF slot = "cb20" THEN none ELSE c,
                       gps20 |-> IF slot = "cb20" THEN c ELSE none,
                       tracking |-> FALSE, cached |-> FALSE]
        BY <1>1, <3>4, Registered
      <4> QED
        BY <2>1, <3>1, <3>4, <4>1
    <3> QED
      BY <3>2, <3>3, <3>4
  <2>3. gnss'.cb20 = none => \A v : Becomes(client'.gps, todo', "gps", v) => v = c
    BY <1>1, <2>1, RegisterMakes
  <2> QED
    BY <2>1, <2>2, <2>3 DEF ReportInv
<1>2. ASSUME setGnssNiCb PROVE ReportInv'
  <2>1. /\ Version = "1.1" /\ gnss'.api = TRUE /\ current' = current /\ todo' = <<One(gnss.cb10)>>
        /\ gnss'.cb10 = gnss.cb10 /\ gnss'.cb11 = gnss.cb11 /\ gnss'.cb20 = gnss.cb20
        /\ gnss.cb20 = none
    BY <1>2, NiRegistered DEF ghosts, Shape
  <2>2. client'.gps20 = none
    <3>1. CASE gnss.api
      BY <1>2, <2>1, <3>1, NiRegistered DEF Shape
    <3>2. CASE ~gnss.api
      <4>1. client' = [gps |-> gnss.cb10, gps20 |-> none, tracking |-> FALSE, cached |-> FALSE]
        BY <1>2, <3>2, NiRegistered
      <4> QED
        BY <4>1
    <3> QED
      BY <3>1, <3>2
  <2>3. \A x, f, v : Becomes(x, todo', f, v) => v = Made(x, One(gnss.cb10), f)
    BY <2>1, OneMade
  <2>4. \A x : Made(x, One(gnss.cb10), "gps20") = x /\ Made(x, One(gnss.cb10), "gps") = gnss.cb10
    BY CallsSet
  <2> QED
    BY <2>1, <2>2, <2>3, <2>4 DEF ReportInv
<1>3. ASSUME NEW f, NEW v, updateConfiguration(f, v) PROVE ReportInv'
  <2>1. /\ UNCHANGED <<todo, current, client>> /\ gnss'.api = gnss.api
        /\ gnss'.cb10 = gnss.cb10 /\ gnss'.cb11 = gnss.cb11 /\ gnss'.cb20 = gnss.cb20
    BY <1>3 DEF updateConfiguration, Shape
  <2> QED
    BY <2>1 DEF ReportInv
<1>4. ASSUME todo = <<>>, UNCHANGED <<gnss, client>>, current' \in {none, current},
             ~gnss.api => todo' = <<>>,
             todo' \in {<<>>, <<Do("gnssStart")>>, <<Do("gnssStop")>>, <<Do("gnssDisable")>>,
                        <<Do("gnssStop"), Do("gnssDisable")>>}
      PROVE  ReportInv'
  <2>1. \A v : /\ Becomes(client.gps20, todo', "gps20", v) => v = client.gps20
               /\ Becomes(client.gps, todo', "gps", v) => v = client.gps
    BY <1>4, OthersMade
  <2>2. /\ \A v : (\A u : Becomes(client.gps20, todo, "gps20", u) => u = v) => v = client.gps20
        /\ \A v : (\A u : Becomes(client.gps, todo, "gps", u) => u = v) => v = client.gps
    BY <1>4, BecomesNow
  <2>3. ~gnss'.api => todo' = <<>> /\ current' = none
    BY <1>4 DEF ReportInv
  <2>4. CASE current' = none
    BY <2>3, <2>4 DEF ReportInv
  <2>5. CASE current' = current /\ current # none
    <3>1. gnss.cb20 = client.gps20 /\ (gnss.cb20 = none => client.gps = current)
      BY <2>2, <2>5 DEF ReportInv
    <3>2. /\ \A v : Becomes(client'.gps20, todo', "gps20", v) => v = gnss'.cb20
          /\ gnss'.cb20 = none => \A v : Becomes(client'.gps, todo', "gps", v) => v = current'
      BY <1>4, <2>1, <2>5, <3>1
    <3> QED
      BY <1>4, <2>3, <2>5, <3>2 DEF ReportInv
  <2> QED
    BY <1>4, <2>4, <2>5
<1>5. ASSUME Ready, start \/ stop \/ cleanup PROVE ReportInv'
  <2>1. /\ UNCHANGED <<gnss, client, current>> /\ todo = <<>> /\ gnss.api
        /\ todo' \in {<<Do("gnssStart")>>, <<Do("gnssStop")>>, <<Do("gnssDisable")>>,
                      <<Do("gnssStop"), Do("gnssDisable")>>}
    BY <1>5 DEF start, stop, cleanup, Ready
  <2> QED
    BY <1>4, <2>1
<1>6. CASE Crash
  <2>1. UNCHANGED <<gnss, client, todo>> /\ todo = <<>> /\ current' = none
    BY <1>6 DEF Crash, hal
  <2> QED
    BY <1>4, <2>1
<1>7. ASSUME NEW c, serviceDied(c) PROVE ReportInv'
  <2>1. /\ UNCHANGED <<gnss, client, current>> /\ todo = <<>> /\ (~gnss.api => todo' = <<>>)
        /\ todo' \in {<<>>, <<Do("gnssStop"), Do("gnssDisable")>>}
    BY <1>7 DEF serviceDied, ghosts
  <2> QED
    BY <1>4, <2>1
<1>8. CASE ClientCall
  <2>1. UNCHANGED <<gnss, current>> /\ gnss.api
    BY <1>8, Calling DEF ClientCall, ReportInv
  <2>2. /\ \A v : Becomes(client'.gps20, todo', "gps20", v) => Becomes(client.gps20, todo, "gps20", v)
        /\ \A v : Becomes(client'.gps, todo', "gps", v) => Becomes(client.gps, todo, "gps", v)
    BY <1>8, Calling, BecomesCalled DEF Shape
  <2> QED
    BY <2>1, <2>2 DEF ReportInv
<1>9. ASSUME UNCHANGED <<gnss, todo, current>>, client'.gps = client.gps, client'.gps20 = client.gps20
      PROVE  ReportInv'
  BY <1>9 DEF ReportInv
<1>10. CASE onCapabilitiesCb
  <2>1. /\ UNCHANGED <<gnss, todo, current>>
        /\ client' = client \/ \E b : client' = [client EXCEPT !.cached = b]
    BY <1>10 DEF onCapabilitiesCb
  <2>2. client'.gps = client.gps /\ client'.gps20 = client.gps20
    BY <2>1 DEF Shape
  <2> QED
    BY <1>9, <2>1, <2>2
<1>11. CASE Reports
  BY <1>9, <1>11 DEF Reports, hal, ghosts
<1>12. CASE UNCHANGED vars
  BY <1>9, <1>12 DEF vars, hal, lib, ghosts
<1> QED
  BY <1>1, <1>2, <1>3, <1>5, <1>6, <1>7, <1>8, <1>10, <1>11, <1>12, Steps

(* Between calls the client reports to the callback the framework set last, *)
(* whatever versions of setCallback have been used, and no slot that        *)
(* odcpiRequestCb looks at holds another.                                   *)
THEOREM GnssReportsReachTheLast ==
    ASSUME Built
    PROVE  Spec => []ReportsReachTheLast
<1>1. Init => Shape /\ ReportInv
  <2>1. ASSUME Init PROVE ~gnss.api /\ todo = <<>> /\ current = none
    BY <2>1 DEF Init
  <2> QED
    BY <2>1, LivingInit DEF ReportInv
<1>2. Shape /\ ReportInv /\ [Next]_vars => Shape' /\ ReportInv'
  BY ShapeStep, ReportStep
<1>3. Shape /\ ReportInv => ReportsReachTheLast
  <2> SUFFICES ASSUME Shape, ReportInv, todo = <<>>, current # none
               PROVE  /\ Target(client) = current
                      /\ (IF gnss.cb20 # none THEN gnss.cb20 ELSE gnss.cb11) \in {none, current}
    BY DEF ReportsReachTheLast, AtRest
  <2>1. Becomes(client.gps20, todo, "gps20", client.gps20) /\ Becomes(client.gps, todo, "gps", client.gps)
    BY BecomesNow
  <2>2. client.gps20 = gnss.cb20 /\ (gnss.cb20 = none => client.gps = current)
    BY <2>1 DEF ReportInv
  <2> QED
    BY <2>2 DEF Target, ReportInv
<1> QED
  BY <1>1, <1>2, <1>3, PTL DEF Spec


(***************************************************************************)
(* Configuration: what was asked for waits for the client, or is there.    *)
(***************************************************************************)
Holds(config) == \A f \in DOMAIN asked : f \in DOMAIN config /\ config[f] = asked[f]
PendInv == IF gnss.api THEN Holds(adapter.config) ELSE Holds(gnss.pending)

(* What a merged configuration holds. *)
LEMMA Merged ==
    \A a, b : /\ \A f : f \in DOMAIN Merge(a, b) <=> f \in DOMAIN a \/ f \in DOMAIN b
              /\ \A f : f \in DOMAIN b => Merge(a, b)[f] = b[f]
              /\ \A f : f \in DOMAIN a /\ f \notin DOMAIN b => Merge(a, b)[f] = a[f]
BY DEF Merge

(* Every step keeps that. *)
LEMMA PendStep ==
    ASSUME Built, "server" \notin Flag, Shape, PendInv, [Next]_vars
    PROVE  PendInv'
<1>1. ASSUME gnss'.api = TRUE, asked' = asked,
             gnss.api => adapter' = adapter,
             ~gnss.api => adapter' = [adapter EXCEPT !.config = Merge(@, gnss.pending)]
      PROVE  PendInv'
  <2>1. CASE gnss.api
    BY <1>1, <2>1 DEF PendInv, Holds
  <2>2. CASE ~gnss.api
    <3>1. adapter'.config = Merge(adapter.config, gnss.pending)
      BY <1>1, <2>2 DEF Shape
    <3>2. Holds(gnss.pending)
      BY <2>2 DEF PendInv
    <3>3. \A f \in DOMAIN asked : /\ f \in DOMAIN Merge(adapter.config, gnss.pending)
                                 /\ Merge(adapter.config, gnss.pending)[f] = asked[f]
      <4> SUFFICES ASSUME NEW f \in DOMAIN asked
                   PROVE  /\ f \in DOMAIN Merge(adapter.config, gnss.pending)
                          /\ Merge(adapter.config, gnss.pending)[f] = asked[f]
        OBVIOUS
      <4>1. f \in DOMAIN gnss.pending /\ gnss.pending[f] = asked[f]
        BY <3>2 DEF Holds
      <4> DEFINE a == adapter.config
                 b == gnss.pending
      <4>2. f \in DOMAIN b /\ b[f] = asked[f]
        BY <4>1
      <4> HIDE DEF a, b
      <4>3. f \in DOMAIN Merge(a, b) /\ Merge(a, b)[f] = asked[f]
        BY <4>2, Merged
      <4> QED
        BY <4>3 DEF a, b
    <3> QED
      BY <1>1, <3>1, <3>3 DEF PendInv, Holds
  <2> QED
    BY <2>1, <2>2
<1>2. ASSUME NEW c \in Callback, NEW slot \in Slot, RegisterAs(slot, c) PROVE PendInv'
  BY <1>1, <1>2, Registered
<1>3. CASE setGnssNiCb
  BY <1>1, <1>3, NiRegistered DEF ghosts
<1>4. ASSUME NEW f \in Flag, NEW v, updateConfiguration(f, v) PROVE PendInv'
  <2> DEFINE new == [x \in {f} |-> v]
  <2>1. f # "server" /\ asked' = Merge(asked, new) /\ DOMAIN new = {f} /\ new[f] = v
    BY <1>4 DEF updateConfiguration
  <2>2. Pend(gnss.pending, f, v) = Merge(gnss.pending, new)
    BY <2>1 DEF Pend
  <2>3. \/ gnss.api /\ gnss' = gnss /\ adapter'.config = Merge(adapter.config, new)
        \/ ~gnss.api /\ gnss'.api = gnss.api /\ gnss'.pending = Merge(gnss.pending, new)
    BY <1>4, <2>2 DEF updateConfiguration, Shape
  <2> HIDE DEF new
  <2>4. ASSUME NEW config, Holds(config)
        PROVE  \A x \in DOMAIN Merge(asked, new) :
                  x \in DOMAIN Merge(config, new) /\ Merge(config, new)[x] = Merge(asked, new)[x]
    <3> SUFFICES ASSUME NEW x \in DOMAIN Merge(asked, new)
                 PROVE  x \in DOMAIN Merge(config, new) /\ Merge(config, new)[x] = Merge(asked, new)[x]
      OBVIOUS
    <3>0. x \in DOMAIN asked \/ x \in DOMAIN new
      BY Merged
    <3>1. CASE x \in DOMAIN new
      BY <3>1, Merged
    <3>2. CASE x \notin DOMAIN new
      <4>1. x \in DOMAIN asked /\ x \in DOMAIN config /\ config[x] = asked[x]
        BY <2>4, <3>0, <3>2 DEF Holds
      <4>2. x \in DOMAIN Merge(config, new) /\ Merge(config, new)[x] = config[x]
        BY <3>2, <4>1, Merged
      <4>3. Merge(asked, new)[x] = asked[x]
        BY <3>2, <4>1, Merged
      <4> QED
        BY <4>1, <4>2, <4>3
    <3> QED
      BY <3>1, <3>2
  <2> QED
    BY <2>1, <2>3, <2>4 DEF PendInv, Holds
<1>5. ASSUME asked' = asked, gnss' = gnss, adapter'.config = adapter.config PROVE PendInv'
  BY <1>5 DEF PendInv, Holds
<1>6. CASE start \/ stop \/ cleanup
  BY <1>5, <1>6 DEF start, stop, cleanup, lib
<1>7. CASE Crash
  BY <1>5, <1>7 DEF Crash, hal, lib
<1>8. ASSUME NEW c, serviceDied(c) PROVE PendInv'
  BY <1>5, <1>8 DEF serviceDied, lib, ghosts
<1>9. CASE ClientCall
  BY <1>5, <1>9, Calling DEF ClientCall
<1>10. CASE onCapabilitiesCb \/ Reports
  BY <1>5, <1>10 DEF onCapabilitiesCb, Reports, hal, ghosts
<1>11. CASE UNCHANGED vars
  BY <1>5, <1>11 DEF vars, hal, lib, ghosts
<1> QED
  BY <1>2, <1>3, <1>4, <1>6, <1>7, <1>8, <1>9, <1>10, <1>11, Steps

(* Configuration set before the client exists reaches the library with it.  *)
(* The host name is left out: it is only copied over one that is there.     *)
THEOREM GnssPendingIsDelivered ==
    ASSUME Built, "server" \notin Flag
    PROVE  Spec => []PendingIsDelivered
<1>1. Init => Shape /\ PendInv
  <2>1. ASSUME Init PROVE DOMAIN asked = {}
    BY <2>1 DEF Init, NoConfig
  <2> QED
    BY <2>1, LivingInit DEF PendInv, Holds
<1>2. Shape /\ PendInv /\ [Next]_vars => Shape' /\ PendInv'
  BY ShapeStep, PendStep
<1>3. PendInv => PendingIsDelivered
  BY DEF PendInv, Holds, PendingIsDelivered
<1> QED
  BY <1>1, <1>2, <1>3, PTL DEF Spec


(***************************************************************************)
(* Capabilities: to a callback that does not know them a call that asks is *)
(* still to be made, or the library's thread is telling it or will find it *)
(* in the client.                                                          *)
(***************************************************************************)
Asking(t) == t.op = "requestCapabilities"
\* The calls left put no other callback in the client's place for it.
Staying ==
  /\ Target(client) = current
  /\ \A i \in 1 .. Len(todo) :
        \/ todo[i].op \notin {"gnssUpdateCallbacks", "gnssUpdateCallbacks_2_0"}
        \/ todo[i].op = "gnssUpdateCallbacks" /\ todo[i].cb = current /\ client.gps20 = none

CapInv ==
  /\ gnss.api /\ ~client.cached => capsDue
  /\ reporter.at # "caching"
  /\ \A i \in 1 .. Len(todo) : Asking(todo[i]) => i = Len(todo)
  /\ current # none /\ current \notin knows =>
        \/ \E i \in 1 .. Len(todo) : Asking(todo[i])
        \/ reporter.at = "telling" /\ reporter.to = current
        \/ (capsDue \/ reporter.at = "copying") /\ Staying

(* The last call of a registration is the one that asks. *)
LEMMA RegisterAsks ==
    ASSUME Built, Shape, NEW c \in Callback, NEW slot \in Slot, RegisterAs(slot, c)
    PROVE  /\ \A i \in 1 .. Len(todo') : Asking(todo'[i]) => i = Len(todo')
           /\ \E i \in 1 .. Len(todo') : Asking(todo'[i])
<1> DEFINE e == Do("gnssEnable")
           r == Do("requestCapabilities")
           a == First(slot)
           b == Second(slot, c)
<1>1. ~Asking(a) /\ ~Asking(b) /\ ~Asking(e) /\ Asking(r)
  BY DEF First, Second, One, Two, Do, Asking
<1>2. todo' = IF Version = "2.0" /\ gnss.api THEN <<a, b, e, r>> ELSE <<b, e, r>>
  BY RegisterCalls
<1> HIDE DEF a, b, e, r
<1>3. CASE todo' = <<a, b, e, r>>
  <2>1. Len(todo') = 4 /\ todo'[1] = a /\ todo'[2] = b /\ todo'[3] = e /\ todo'[4] = r
    BY <1>3
  <2>2. \A i \in 1 .. 4 : i = 1 \/ i = 2 \/ i = 3 \/ i = 4
    OBVIOUS
  <2> QED
    BY <1>1, <2>1, <2>2
<1>4. CASE todo' = <<b, e, r>>
  <2>1. Len(todo') = 3 /\ todo'[1] = b /\ todo'[2] = e /\ todo'[3] = r
    BY <1>4
  <2>2. \A i \in 1 .. 3 : i = 1 \/ i = 2 \/ i = 3
    OBVIOUS
  <2> QED
    BY <1>1, <2>1, <2>2
<1> QED
  BY <1>2, <1>3, <1>4

(* Every step keeps that. *)
LEMMA CapStep ==
    ASSUME Built, Shape, ReportInv, CapInv, [Next]_vars
    PROVE  CapInv'
<1>1. ASSUME NEW c \in Callback, NEW slot \in Slot, RegisterAs(slot, c) PROVE CapInv'
  <2>1. reporter' = reporter /\ (gnss.api => UNCHANGED <<client, capsDue>>) /\ (~gnss.api => capsDue')
    BY <1>1, Registered
  <2> QED
    BY <1>1, <2>1, RegisterAsks DEF CapInv
<1>2. ASSUME Ready, setGnssNiCb PROVE CapInv'
  <2>1. /\ Version = "1.1" /\ todo = <<>> /\ todo' = <<One(gnss.cb10)>>
        /\ UNCHANGED <<reporter, current, knows>>
        /\ gnss.api => UNCHANGED <<client, capsDue>>
        /\ ~gnss.api => capsDue'
    BY <1>2, NiRegistered DEF ghosts, Ready
  <2>2. /\ Len(todo') = 1 /\ todo'[1].op = "gnssUpdateCallbacks" /\ todo'[1].cb = gnss.cb10
        /\ \A i \in 1 .. 1 : i = 1
    BY <2>1 DEF One
  <2>3. \A i \in 1 .. Len(todo') : ~Asking(todo'[i])
    BY <2>2 DEF Asking
  <2>4. ASSUME current # none, Staying PROVE Staying'
    <3>1. gnss.api /\ gnss.cb10 = current /\ client.gps20 = none
      BY <2>1, <2>4 DEF ReportInv, Shape
    <3>2. Target(client) = current
      BY <2>4 DEF Staying
    <3> QED
      BY <2>1, <2>2, <3>1, <3>2 DEF Staying
  <2>5. current # none => gnss.api
    BY DEF ReportInv
  <2>6. \A i \in 1 .. Len(todo) : FALSE
    BY <2>1
  <2> QED
    BY <2>1, <2>3, <2>4, <2>5, <2>6 DEF CapInv
<1>3. ASSUME UNCHANGED <<client, todo, capsDue, reporter, current, knows>>, gnss'.api = gnss.api
      PROVE  CapInv'
  BY <1>3 DEF CapInv, Staying
<1>4. ASSUME NEW f, NEW v, updateConfiguration(f, v) PROVE CapInv'
  <2>1. gnss'.api = gnss.api
    BY <1>4 DEF updateConfiguration, Shape
  <2> QED
    BY <1>3, <1>4, <2>1 DEF updateConfiguration
<1>5. ASSUME todo = <<>>, UNCHANGED <<gnss, client, capsDue, reporter, knows>>, current' \in {none, current},
             todo' \in {<<>>, <<Do("gnssStart")>>, <<Do("gnssStop")>>, <<Do("gnssDisable")>>,
                        <<Do("gnssStop"), Do("gnssDisable")>>}
      PROVE  CapInv'
  <2>1. \A i \in 1 .. Len(todo') : todo'[i].op \in {"gnssStart", "gnssStop", "gnssDisable"}
    BY <1>5 DEF Do
  <2>2. \A i \in 1 .. Len(todo) : FALSE
    BY <1>5
  <2>3. current' = current /\ Staying => Staying'
    BY <1>5, <2>1 DEF Staying
  <2>4. \A i \in 1 .. Len(todo') : ~Asking(todo'[i])
    BY <2>1 DEF Asking
  <2> QED
    BY <1>5, <2>2, <2>3, <2>4 DEF CapInv
<1>6. ASSUME Ready, start \/ stop \/ cleanup PROVE CapInv'
  <2>1. /\ UNCHANGED <<gnss, client, current, capsDue, reporter, knows>> /\ todo = <<>>
        /\ todo' \in {<<Do("gnssStart")>>, <<Do("gnssStop")>>, <<Do("gnssDisable")>>,
                      <<Do("gnssStop"), Do("gnssDisable")>>}
    BY <1>6 DEF start, stop, cleanup, Ready, lib
  <2> QED
    BY <1>5, <2>1
<1>7. CASE Crash
  <2>1. UNCHANGED <<gnss, client, todo, capsDue, reporter, knows>> /\ todo = <<>> /\ current' = none
    BY <1>7 DEF Crash, hal, lib
  <2> QED
    BY <1>5, <2>1
<1>8. ASSUME NEW c, serviceDied(c) PROVE CapInv'
  <2>1. /\ UNCHANGED <<gnss, client, current, capsDue, reporter, knows>> /\ todo = <<>>
        /\ todo' \in {<<>>, <<Do("gnssStop"), Do("gnssDisable")>>}
    BY <1>8 DEF serviceDied, ghosts, lib
  <2> QED
    BY <1>5, <2>1
<1>9. CASE ClientCall
  <2> DEFINE h == Head(todo)
  <2>1. UNCHANGED <<gnss, reporter, capsDue, current>> /\ client'.cached = client.cached /\ requestCapabilities(h)
    BY <1>9, Calling DEF ClientCall
  <2>2. knows \subseteq knows' /\ (Asking(h) /\ client.cached => knows' = knows \cup Set(Target(client)))
    BY <2>1 DEF requestCapabilities, Asking
  <2>3. /\ Len(todo) \in Nat \ {0} /\ h = todo[1] /\ Len(todo') = Len(todo) - 1
        /\ \A i \in 1 .. Len(todo') : todo'[i] = todo[i + 1] /\ i + 1 \in 1 .. Len(todo)
    BY <1>9, Calling, HeadTailProperties, EmptySeq DEF Shape
  <2>4. /\ client'.gps = Made(client.gps, h, "gps") /\ client'.gps20 = Made(client.gps20, h, "gps20")
        /\ gnss.api
    BY <1>9, Calling DEF ReportInv
  <2> HIDE DEF h
  <2>5. \A i \in 1 .. Len(todo') : Asking(todo'[i]) => i = Len(todo')
    <3> SUFFICES ASSUME NEW i \in 1 .. Len(todo'), Asking(todo'[i]) PROVE i = Len(todo')
      OBVIOUS
    <3>1. i + 1 = Len(todo)
      BY <2>3 DEF CapInv
    <3> QED
      BY <2>3, <3>1
  <2>6. CASE current # none /\ current \notin knows'
    <3>1. CASE \E i \in 1 .. Len(todo) : Asking(todo[i])
      <4>1. PICK i \in 1 .. Len(todo) : Asking(todo[i])
        BY <3>1
      <4>2. CASE i # 1
        <5>1. i - 1 \in 1 .. Len(todo') /\ (i - 1) + 1 = i
          BY <2>3, <4>2
        <5>2. Asking(todo'[i - 1])
          BY <2>3, <4>1, <5>1
        <5> QED
          BY <2>1, <2>5, <2>6, <5>1, <5>2 DEF CapInv
      <4>3. CASE i = 1
        <5>1. Len(todo) = 1 /\ Asking(h)
          BY <2>3, <4>1, <4>3 DEF CapInv
        <5>2. /\ h.op = "requestCapabilities" /\ todo[1].op = "requestCapabilities"
              /\ client'.gps = client.gps /\ client'.gps20 = client.gps20
          BY <2>3, <2>4, <5>1, Fields DEF Asking, Made
        <5>3. \A i1 \in 1 .. Len(todo) : i1 = 1
          BY <5>1
        <5>4. Becomes(client.gps, todo, "gps", client.gps) /\ Becomes(client.gps20, todo, "gps20", client.gps20)
          BY <5>2, <5>3, Fields DEF Becomes
        <5>5. Target(client) = current
          BY <2>6, <5>4 DEF ReportInv, Target
        <5>6. ~client.cached
          BY <2>2, <2>6, <5>1, <5>5 DEF Set
        <5>7. capsDue /\ \A i1 \in 1 .. Len(todo') : FALSE
          BY <2>3, <2>4, <5>1, <5>6 DEF CapInv
        <5>8. Staying'
          BY <2>1, <5>2, <5>5, <5>7 DEF Staying, Target
        <5> QED
          BY <2>1, <2>5, <5>7, <5>8 DEF CapInv
      <4> QED
        BY <4>2, <4>3
    <3>2. ASSUME Staying PROVE Staying'
      <4>1. h.op \notin {"gnssUpdateCallbacks", "gnssUpdateCallbacks_2_0"}
            \/ (h.op = "gnssUpdateCallbacks" /\ h.cb = current /\ client.gps20 = none)
        BY <2>3, <3>2 DEF Staying
      <4>2. \/ client'.gps = client.gps /\ client'.gps20 = client.gps20
            \/ client'.gps = current /\ client'.gps20 = none /\ client.gps20 = none
        BY <2>4, <4>1, Fields DEF Made
      <4>3. Target(client') = current
        BY <3>2, <4>2 DEF Staying, Target
      <4>4. client.gps20 = none => client'.gps20 = none
        BY <4>2
      <4>5. \A i \in 1 .. Len(todo') :
               \/ todo'[i].op \notin {"gnssUpdateCallbacks", "gnssUpdateCallbacks_2_0"}
               \/ todo'[i].op = "gnssUpdateCallbacks" /\ todo'[i].cb = current /\ client'.gps20 = none
        BY <2>3, <3>2, <4>4 DEF Staying
      <4> QED
        BY <2>1, <4>3, <4>5 DEF Staying
    <3>3. CASE ~\E i \in 1 .. Len(todo) : Asking(todo[i])
      BY <2>1, <2>2, <2>5, <2>6, <3>2, <3>3 DEF CapInv
    <3> QED
      BY <3>1, <3>3
  <2>7. CASE ~(current # none /\ current \notin knows')
    BY <2>1, <2>5, <2>7 DEF CapInv
  <2> QED
    BY <2>6, <2>7
<1>10. CASE onCapabilitiesCb
  <2>1. UNCHANGED <<gnss, todo, current>>
    BY <1>10 DEF onCapabilitiesCb
  <2>2. CASE /\ reporter = Idle /\ capsDue /\ capsDue' = FALSE /\ reporter' = capabilitiesStart
             /\ client' = [client EXCEPT !.cached = capabilitiesStart.at = "copying"] /\ UNCHANGED knows
    <3>1. /\ reporter.at = "idle" /\ reporter'.at = "copying"
          /\ client'.cached = TRUE /\ client'.gps = client.gps /\ client'.gps20 = client.gps20
      BY <2>2 DEF Idle, capabilitiesStart, Shape
    <3>2. Staying => Staying'
      BY <2>1, <3>1 DEF Staying, Target
    <3> QED
      BY <2>1, <2>2, <3>1, <3>2 DEF CapInv
  <2>3. CASE /\ reporter.at \in {"copying", "caching"}
             /\ reporter' = [at |-> "telling", to |-> IF reporter.at = "copying"
                                                      THEN Target(client) ELSE reporter.to]
             /\ client' = [client EXCEPT !.cached = TRUE] /\ UNCHANGED <<capsDue, knows>>
    <3>1. reporter.at = "copying" /\ reporter'.at = "telling" /\ reporter'.to = Target(client)
      BY <2>3 DEF CapInv
    <3>2. client'.cached = TRUE /\ client'.gps = client.gps /\ client'.gps20 = client.gps20
      BY <2>3 DEF Shape
    <3>3. Staying => reporter'.to = current
      BY <3>1 DEF Staying
    <3> QED
      BY <2>1, <2>3, <3>1, <3>2, <3>3 DEF CapInv
  <2>4. CASE /\ reporter.at = "telling" /\ reporter' = Idle /\ knows' = knows \cup Set(reporter.to)
             /\ UNCHANGED <<capsDue, client>>
    <3>1. reporter'.at = "idle" /\ knows \subseteq knows'
          /\ (current # none /\ reporter.to = current => current \in knows')
      BY <2>4 DEF Idle, Set
    <3> QED
      BY <2>1, <2>4, <3>1 DEF CapInv, Staying
  <2> QED
    BY <1>10, <2>2, <2>3, <2>4 DEF onCapabilitiesCb
<1>11. CASE Reports
  <2>1. UNCHANGED <<gnss, todo, current, capsDue, knows, client>>
    BY <1>11 DEF Reports, hal, ghosts
  <2>2. /\ reporter.at \notin {"telling", "copying", "caching"}
        /\ reporter'.at \in {"idle", "fix", "satellites", "sentence"}
    BY <1>11 DEF Reports, onTrackingCb, onGnssSvCb, onGnssNmeaCb, Report, Idle
  <2> QED
    BY <2>1, <2>2 DEF CapInv, Staying
<1>12. CASE UNCHANGED vars
  BY <1>3, <1>12 DEF vars, hal, lib, ghosts
<1> QED
  BY <1>1, <1>2, <1>4, <1>6, <1>7, <1>8, <1>9, <1>10, <1>11, <1>12, Steps

(* A registered callback is told the capabilities, by the library's thread  *)
(* or by the call that asks for them, however the two overlap.              *)
THEOREM GnssCapabilitiesReachTheLast ==
    ASSUME Built
    PROVE  Spec => []CapabilitiesReachTheLast
<1>1. Init => Shape /\ ReportInv /\ CapInv
  <2>1. ASSUME Init PROVE /\ ~gnss.api /\ todo = <<>> /\ current = none /\ reporter.at = "idle"
                          /\ \A i \in 1 .. Len(todo) : FALSE
    BY <2>1 DEF Init, Idle
  <2> QED
    BY <2>1, LivingInit DEF ReportInv, CapInv
<1>2. Shape /\ ReportInv /\ CapInv /\ [Next]_vars => Shape' /\ ReportInv' /\ CapInv'
  BY ShapeStep, ReportStep, CapStep
<1>3. CapInv => CapabilitiesReachTheLast
  <2> SUFFICES ASSUME CapInv, todo = <<>>, reporter = Idle, ~capsDue, current # none
               PROVE  current \in knows
    BY DEF CapabilitiesReachTheLast, AtRest
  <2>1. reporter.at = "idle" /\ \A i \in 1 .. Len(todo) : FALSE
    BY DEF Idle
  <2> QED
    BY <2>1 DEF CapInv
<1> QED
  BY <1>1, <1>2, <1>3, PTL DEF Spec


(***************************************************************************)
(* Fixes: while a session may be running, every callback that may get its  *)
(* fixes is in a process that has started one.                             *)
(***************************************************************************)
Starting == \E i \in 1 .. Len(todo) : todo[i].op = "gnssStart"
Served == {client.gps, client.gps20} \cup {todo[i].cb : i \in 1 .. Len(todo)}

FixInv ==
  /\ client.tracking = adapter.running
  /\ client.tracking \/ wanted \/ Starting =>
        \A c \in Served : c = none \/ ProcessOf[c] \in hasStarted
  /\ wanted => live \in hasStarted
  /\ current # none => \A v : \A f \in {"gps", "gps20"} :
                          Becomes(client[f], todo, f, v) => v = none \/ ProcessOf[v] = live
  /\ FixesAreAskedFor

(* Every step keeps that. *)
LEMMA FixStep ==
    ASSUME Built, Version = "2.0", NoticesFirst, Shape, LivingInv, FixInv, [Next]_vars
    PROVE  FixInv'
<1>1. ASSUME Ready, NEW c \in Callback, NEW slot \in Slot, ProcessOf[c] = live, RegisterAs(slot, c)
      PROVE  FixInv'
  <2>1. adapter.running = wanted
    BY <1>1, LivingReady
  <2>2. /\ UNCHANGED <<live, wanted, hasStarted, reporter>> /\ adapter'.running = adapter.running
        /\ gnss.api => client' = client
        /\ ~gnss.api => client' = [gps |-> IF slot = "cb20" THEN none ELSE c,
                                   gps20 |-> IF slot = "cb20" THEN c ELSE none,
                                   tracking |-> FALSE, cached |-> FALSE]
    BY <1>1, Registered
  <2>3. client'.tracking = adapter'.running
    <3>1. CASE gnss.api
      BY <2>2, <3>1 DEF FixInv
    <3>2. CASE ~gnss.api
      <4>1. client'.tracking = FALSE /\ adapter'.running = FALSE
        BY <2>2, <3>2 DEF LivingInv, Shape
      <4> QED
        BY <4>1
    <3> QED
      BY <3>1, <3>2
  <2>4. /\ \A i \in 1 .. Len(todo') : todo'[i].cb \in {none, c} /\ todo'[i].op # "gnssStart"
        /\ client'.gps \in {client.gps, none, c} /\ client'.gps20 \in {client.gps20, none, c}
    <3> DEFINE e == Do("gnssEnable")
               r == Do("requestCapabilities")
               a == First(slot)
               b == Second(slot, c)
    <3>1. /\ a.cb = none /\ b.cb = c /\ e.cb = none /\ r.cb = none
          /\ a.op # "gnssStart" /\ b.op # "gnssStart" /\ e.op # "gnssStart" /\ r.op # "gnssStart"
      BY DEF First, Second, One, Two, Do
    <3>2. todo' = <<a, b, e, r>> \/ todo' = <<b, e, r>>
      BY <1>1, RegisterCalls
    <3> HIDE DEF a, b, e, r
    <3>3. \A i \in 1 .. Len(todo') : todo'[i] \in {a, b, e, r}
      <4>1. CASE todo' = <<a, b, e, r>>
        <5>1. Len(todo') = 4 /\ \A i \in 1 .. 4 : i = 1 \/ i = 2 \/ i = 3 \/ i = 4
          BY <4>1
        <5> QED
          BY <4>1, <5>1
      <4>2. CASE todo' = <<b, e, r>>
        <5>1. Len(todo') = 3 /\ \A i \in 1 .. 3 : i = 1 \/ i = 2 \/ i = 3
          BY <4>2
        <5> QED
          BY <4>2, <5>1
      <4> QED
        BY <3>2, <4>1, <4>2
    <3>4. client'.gps \in {client.gps, none, c} /\ client'.gps20 \in {client.gps20, none, c}
      BY <2>2
    <3> QED
      BY <3>1, <3>3, <3>4
  <2>5. ASSUME wanted PROVE \A d \in Served' : d = none \/ ProcessOf[d] \in hasStarted
    <3>1. live \in hasStarted /\ \A d \in {client.gps, client.gps20} : d = none \/ ProcessOf[d] \in hasStarted
      BY <2>5 DEF FixInv, Served
    <3>2. Served' \subseteq {client.gps, client.gps20, none, c}
      BY <2>4 DEF Served
    <3> QED
      BY <1>1, <3>1, <3>2
  <2>6. \A v : \A f \in {"gps", "gps20"} : Becomes(client'[f], todo', f, v) => v \in {none, c}
    <3>1. \A x, v : /\ Becomes(x, todo', "gps", v) =>
                          v = IF slot # "cb20" THEN c ELSE IF gnss.api THEN none ELSE x
                    /\ Becomes(x, todo', "gps20", v) =>
                          v = IF slot = "cb20" THEN c ELSE IF gnss.api THEN none ELSE x
      <4> SUFFICES ASSUME NEW x, NEW v
                   PROVE  /\ Becomes(x, todo', "gps", v) =>
                                v = IF slot # "cb20" THEN c ELSE IF gnss.api THEN none ELSE x
                          /\ Becomes(x, todo', "gps20", v) =>
                                v = IF slot = "cb20" THEN c ELSE IF gnss.api THEN none ELSE x
        OBVIOUS
      <4>1. Becomes(x, todo', "gps", v) =>
               v = IF slot # "cb20" THEN c ELSE IF Version = "2.0" /\ gnss.api THEN none ELSE x
        BY <1>1, RegisterMakes
      <4>2. Becomes(x, todo', "gps20", v) =>
               v = IF slot = "cb20" THEN c ELSE IF Version = "2.0" /\ gnss.api THEN none ELSE x
        BY <1>1, RegisterMakes
      <4> QED
        BY <4>1, <4>2
    <3>2. ~gnss.api => client'.gps \in {none, c} /\ client'.gps20 \in {none, c}
      BY <2>2
    <3>3. \A v : /\ Becomes(client'.gps, todo', "gps", v) => v \in {none, c}
                 /\ Becomes(client'.gps20, todo', "gps20", v) => v \in {none, c}
      BY <3>1, <3>2
    <3> QED
      BY <3>3
  <2>7. client'.tracking => wanted
    BY <2>1, <2>2, <2>3
  <2>8. ~Starting'
    BY <2>4 DEF Starting
  <2>9. FixesAreAskedFor'
    BY <2>2 DEF FixInv, FixesAreAskedFor
  <2>10. \A v : \A f \in {"gps", "gps20"} : Becomes(client'[f], todo', f, v) => v = none \/ ProcessOf[v] = live'
    BY <1>1, <2>2, <2>6
  <2> QED
    BY <2>2, <2>3, <2>5, <2>7, <2>8, <2>9, <2>10 DEF FixInv
<1>2. ~setGnssNiCb
  BY DEF setGnssNiCb
<1>3. ASSUME UNCHANGED <<client, todo, live, current, wanted, hasStarted, reporter>>,
             adapter'.running = adapter.running
      PROVE  FixInv'
  BY <1>3 DEF FixInv, Starting, Served, FixesAreAskedFor
<1>4. ASSUME NEW f, NEW v, updateConfiguration(f, v) PROVE FixInv'
  <2>1. adapter'.running = adapter.running
    BY <1>4 DEF updateConfiguration, Shape
  <2> QED
    BY <1>3, <1>4, <2>1 DEF updateConfiguration
<1>5. ASSUME todo = <<>>, UNCHANGED <<client, adapter, reporter>>, hasStarted \subseteq hasStarted',
             current' # none => current' = current /\ live' = live,
             wanted' => live' \in hasStarted',
             wanted' => \A c \in {client.gps, client.gps20} : c = none \/ ProcessOf[c] \in hasStarted',
             todo' = <<Do("gnssStart")>> => wanted',
             todo' \in {<<>>, <<Do("gnssStart")>>, <<Do("gnssStop")>>, <<Do("gnssDisable")>>,
                        <<Do("gnssStop"), Do("gnssDisable")>>}
      PROVE  FixInv'
  <2>1. \A i \in 1 .. Len(todo') : /\ todo'[i].cb = none
                                   /\ todo'[i].op = "gnssStart" => todo' = <<Do("gnssStart")>>
    BY <1>5 DEF Do
  <2>2. Starting' => wanted'
    BY <1>5, <2>1 DEF Starting
  <2>3. Served' \subseteq {client.gps, client.gps20, none}
    BY <1>5, <2>1 DEF Served
  <2>4. client.tracking => \A c \in {client.gps, client.gps20} : c = none \/ ProcessOf[c] \in hasStarted
    BY DEF FixInv, Served
  <2>5. client'.tracking \/ wanted' \/ Starting' =>
           \A c \in Served' : c = none \/ ProcessOf[c] \in hasStarted'
    BY <1>5, <2>2, <2>3, <2>4
  <2>6. \A v : \A f \in {"gps", "gps20"} : Becomes(client[f], todo', f, v) => v = client[f]
    BY <1>5, OthersMade
  <2>7. \A f \in {"gps", "gps20"} : Becomes(client[f], todo, f, client[f])
    BY <1>5, BecomesNow
  <2>8. current' # none => \A v : \A f \in {"gps", "gps20"} :
                              Becomes(client'[f], todo', f, v) => v = none \/ ProcessOf[v] = live'
    <3> SUFFICES ASSUME current' # none, NEW f \in {"gps", "gps20"}, NEW v, Becomes(client'[f], todo', f, v)
                 PROVE  v = none \/ ProcessOf[v] = live'
      OBVIOUS
    <3>1. current = current' /\ live' = live
      BY <1>5
    <3>2. v = client[f]
      BY <1>5, <2>6
    <3>3. client[f] = none \/ ProcessOf[client[f]] = live
      BY <2>7, <3>1 DEF FixInv
    <3> QED
      BY <3>1, <3>2, <3>3
  <2>9. client'.tracking = adapter'.running
    BY <1>5 DEF FixInv
  <2>10. FixesAreAskedFor'
    BY <1>5 DEF FixInv, FixesAreAskedFor
  <2> QED
    BY <1>5, <2>5, <2>8, <2>9, <2>10 DEF FixInv
<1>6. ASSUME Ready, current # none, start \/ stop \/ cleanup PROVE FixInv'
  <2>1. /\ UNCHANGED <<client, adapter, reporter, live, current>> /\ todo = <<>>
        /\ hasStarted \subseteq hasStarted'
        /\ todo' \in {<<Do("gnssStart")>>, <<Do("gnssStop")>>, <<Do("gnssDisable")>>,
                      <<Do("gnssStop"), Do("gnssDisable")>>}
    BY <1>6 DEF start, stop, cleanup, Ready, lib
  <2>2. \/ wanted' = TRUE /\ live \in hasStarted'
        \/ wanted' = FALSE /\ todo' # <<Do("gnssStart")>>
    <3>1. CASE start
      BY <3>1 DEF start
    <3>2. <<Do("gnssStop")>> # <<Do("gnssStart")>> /\ <<Do("gnssStop"), Do("gnssDisable")>> # <<Do("gnssStart")>>
      <4>1. Do("gnssStop") # Do("gnssStart")
        BY DEF Do
      <4> DEFINE x == Do("gnssStart")
                 y == Do("gnssStop")
                 z == Do("gnssDisable")
      <4> HIDE DEF x, y, z
      <4>2. <<y>>[1] = y /\ <<x>>[1] = x /\ Len(<<y, z>>) = 2 /\ Len(<<x>>) = 1
        OBVIOUS
      <4> QED
        BY <4>1, <4>2 DEF x, y, z
    <3>3. CASE stop
      BY <3>2, <3>3 DEF stop
    <3>4. CASE cleanup
      BY <3>2, <3>4 DEF cleanup
    <3> QED
      BY <1>6, <3>1, <3>3, <3>4
  <2>3. \A f \in {"gps", "gps20"} : client[f] = none \/ ProcessOf[client[f]] = live
    <3>1. \A f \in {"gps", "gps20"} : Becomes(client[f], todo, f, client[f])
      BY <2>1, BecomesNow
    <3> QED
      BY <1>6, <3>1 DEF FixInv
  <2>4. wanted' => \A c \in {client.gps, client.gps20} : c = none \/ ProcessOf[c] \in hasStarted'
    BY <2>2, <2>3
  <2> QED
    BY <1>5, <2>1, <2>2, <2>4
<1>7. CASE Crash
  <2>1. /\ UNCHANGED <<client, adapter, reporter, todo, hasStarted>> /\ todo = <<>>
        /\ current' = none /\ wanted' = FALSE
    BY <1>7 DEF Crash, hal, lib
  <2>2. \A x : <<>> # <<x>>
    OBVIOUS
  <2> QED
    BY <1>5, <2>1, <2>2
<1>8. ASSUME NEW c \in Callback, serviceDied(c) PROVE FixInv'
  <2>1. /\ UNCHANGED <<client, adapter, reporter, hasStarted, live, current, wanted>> /\ todo = <<>>
        /\ todo' \in {<<>>, <<Do("gnssStop"), Do("gnssDisable")>>}
        /\ c \in linked /\ ProcessOf[c] # live
    BY <1>8 DEF serviceDied, ghosts, lib, Built, Shape
  <2>2. ~wanted'
    BY <2>1 DEF LivingInv, Dead
  <2>3. \A x, y, z : <<>> # <<x>> /\ <<y, z>> # <<x>>
    <3>1. \A x, y, z : Len(<<x>>) = 1 /\ Len(<<y, z>>) = 2 /\ Len(<<>>) = 0
      OBVIOUS
    <3> QED
      BY <3>1
  <2>4. todo' # <<Do("gnssStart")>>
    BY <2>1, <2>3
  <2> QED
    BY <1>5, <2>1, <2>2, <2>4
<1>9. CASE ClientCall
  <2> DEFINE h == Head(todo)
  <2>1. UNCHANGED <<live, current, wanted, hasStarted, reporter>>
    BY <1>9 DEF ClientCall
  <2>2. /\ client'.gps = Made(client.gps, h, "gps") /\ client'.gps20 = Made(client.gps20, h, "gps20")
        /\ client'.tracking = Made(client.tracking, h, "running")
        /\ adapter'.running = Made(adapter.running, h, "running")
        /\ todo # <<>> /\ todo' = Tail(todo)
    BY <1>9, Calling
  <2>3. /\ Len(todo) \in Nat \ {0} /\ h = todo[1] /\ Len(todo') = Len(todo) - 1
        /\ \A i \in 1 .. Len(todo') : todo'[i] = todo[i + 1] /\ i + 1 \in 1 .. Len(todo)
        /\ 1 \in 1 .. Len(todo)
    BY <2>2, HeadTailProperties, EmptySeq DEF Shape
  <2>4. \A v : \A f \in {"gps", "gps20"} : Becomes(client'[f], todo', f, v) => Becomes(client[f], todo, f, v)
    <3>1. \A v : /\ Becomes(client'.gps, todo', "gps", v) => Becomes(client.gps, todo, "gps", v)
                 /\ Becomes(client'.gps20, todo', "gps20", v) => Becomes(client.gps20, todo, "gps20", v)
      BY <2>2, BecomesCalled DEF Shape
    <3> QED
      BY <3>1
  <2> HIDE DEF h
  <2>5. client'.tracking = adapter'.running
    BY <2>2 DEF FixInv
  <2>6. client'.tracking \/ Starting' => client.tracking \/ Starting
    <3>1. Starting' => Starting
      BY <2>3 DEF Starting
    <3>2. client'.tracking /\ ~client.tracking => h.op = "gnssStart"
      <4>1. h.op = "gnssStop" => ~client'.tracking
        BY <2>2, Fields DEF Made
      <4>2. h.op \notin {"gnssStart", "gnssStop"} => client'.tracking = client.tracking
        BY <2>2, Fields DEF Made
      <4> QED
        BY <4>1, <4>2
    <3>3. h.op = "gnssStart" => Starting
      BY <2>3 DEF Starting
    <3> QED
      BY <3>1, <3>2, <3>3
  <2>7. Served' \subseteq Served
    <3>1. client'.gps \in {client.gps, h.cb} /\ client'.gps20 \in {client.gps20, h.cb}
      BY <2>2, Fields DEF Made
    <3>2. h.cb \in Served
      BY <2>3 DEF Served
    <3>3. \A i \in 1 .. Len(todo') : todo'[i].cb \in Served
      BY <2>3 DEF Served
    <3> QED
      BY <3>1, <3>2, <3>3 DEF Served
  <2>8. client'.tracking \/ wanted' \/ Starting' =>
           \A c \in Served' : c = none \/ ProcessOf[c] \in hasStarted'
    BY <2>1, <2>6, <2>7 DEF FixInv
  <2>9. current' # none => \A v : \A f \in {"gps", "gps20"} :
                              Becomes(client'[f], todo', f, v) => v = none \/ ProcessOf[v] = live'
    BY <2>1, <2>4 DEF FixInv
  <2>10. FixesAreAskedFor'
    BY <2>1 DEF FixInv, FixesAreAskedFor
  <2> QED
    BY <2>1, <2>5, <2>8, <2>9, <2>10 DEF FixInv
<1>10. CASE onCapabilitiesCb
  <2>1. /\ UNCHANGED <<todo, adapter, live, current, wanted, hasStarted>>
        /\ client' = client \/ \E b : client' = [client EXCEPT !.cached = b]
        /\ reporter'.at # "fix"
    BY <1>10 DEF onCapabilitiesCb, capabilitiesStart, Idle
  <2>2. client'.gps = client.gps /\ client'.gps20 = client.gps20 /\ client'.tracking = client.tracking
    BY <2>1 DEF Shape
  <2>3. \A f \in {"gps", "gps20"} : client'[f] = client[f]
    BY <2>2
  <2>4. Served' = Served /\ Starting' = Starting
    BY <2>1, <2>2 DEF Served, Starting
  <2> QED
    BY <2>1, <2>2, <2>3, <2>4 DEF FixInv, FixesAreAskedFor
<1>11. CASE Reports
  <2>1. UNCHANGED <<client, todo, adapter, live, current, wanted, hasStarted>>
    BY <1>11 DEF Reports, hal, ghosts
  <2>2. FixesAreAskedFor'
    <3> SUFFICES ASSUME reporter'.at = "fix" PROVE ProcessOf[reporter'.to] \in hasStarted
      BY <2>1 DEF FixesAreAskedFor
    <3>1. onTrackingCb
      BY <1>11 DEF Reports, onGnssSvCb, onGnssNmeaCb, Report, Idle
    <3>2. client.tracking /\ Target(client) # none /\ reporter'.to = Target(client)
      BY <3>1 DEF onTrackingCb, isTracking, Report
    <3>3. Target(client) \in Served
      BY DEF Target, Served
    <3> QED
      BY <3>2, <3>3 DEF FixInv
  <2>3. Served' = Served /\ Starting' = Starting
    BY <2>1 DEF Served, Starting
  <2> QED
    BY <2>1, <2>2, <2>3 DEF FixInv
<1>12. CASE UNCHANGED vars
  BY <1>3, <1>12 DEF vars, hal, lib, ghosts
<1> QED
  BY <1>1, <1>2, <1>4, <1>6, <1>7, <1>8, <1>9, <1>10, <1>11, <1>12, Steps

(* No process gets a fix that has never started positioning (2.0: the 1.1  *)
(* client reports whether or not it tracks), though one of its             *)
(* predecessor's may still be under way when it registers.                 *)
THEOREM GnssFixesAreAskedFor ==
    ASSUME Built, Version = "2.0", NoticesFirst
    PROVE  Spec => []FixesAreAskedFor
<1>1. Init => Shape /\ LivingInv /\ FixInv
  <2>1. ASSUME Init
        PROVE  /\ client.tracking = FALSE /\ adapter.running = FALSE /\ ~wanted /\ current = none
               /\ reporter.at = "idle" /\ \A i \in 1 .. Len(todo) : FALSE
    BY <2>1 DEF Init, NewClient, Idle
  <2> QED
    BY <2>1, LivingInit DEF FixInv, Starting, FixesAreAskedFor
<1>2. Shape /\ LivingInv /\ FixInv /\ [Next]_vars => Shape' /\ LivingInv' /\ FixInv'
  BY ShapeStep, LivingStep, FixStep
<1>3. FixInv => FixesAreAskedFor
  BY DEF FixInv
<1> QED
  BY <1>1, <1>2, <1>3, PTL DEF Spec

============================================================================
