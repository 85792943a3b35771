# Formal models of the nubia nx611j device tree

This directory holds TLA+ models of the programs in the device tree of the nubia
nx611j, the TLC configurations that check them on small instances, and proofs,
checked by TLAPS, of the theorems that hold for every instance. Most of the tree is
build files and settings; nearly all of the program is the GNSS stack under `gps/`,
and the models follow that weight. Paths below are relative to the root of the
repository; `PROJECT.json` gives, for every definition that stands for code, the file
and the lines it stands for.

To check a model: `tlc -workers 2 -config AgpsSafety.cfg Agps.tla`. To check proofs:
`tlapm AgpsProofs.tla`.

## 1. The system and its parts

The GNSS stack is layered. The framework calls a HIDL service (`gps/android`), which
calls `LocationAPI` (`gps/location`), which calls one of three adapters: `GnssAdapter`
(`gps/gnss`), `BatchingAdapter` and `GeofenceAdapter`. An adapter talks to the modem
through a `LocApiBase` (`gps/core`), whose implementation is closed. All adapters and
`LocApiBase` share one message queue and one thread, `MsgTask` (`gps/utils`).

The rule that holds the stack together is that **every call becomes a message**. A
public method only builds a `LocMsg` and posts it; state is touched by `proc()` of the
messages, one at a time. What makes the code hard is where the rule stops:

- an answer of the modem is itself a message (`LocApiResponse`), so between a request
  and its callback any other message may run, and the callback uses what it captured;
- messages are put aside while the engine's capabilities are unknown and posted again
  later (`mPendingMsgs`), behind what was sent meanwhile;
- some state is also touched by threads of its own: the NI threads, the timer's poll
  thread, binder threads that call the adapter's `dataConnOpenCommand`;
- the modem restarts (SSR), loses everything, and reports itself up again;
- the framework, the user and the network answer late, twice or never.

| Part | State | Operations | What makes it hard | What makes it right |
|---|---|---|---|---|
| AGPS data connections, `gnss/Agps.cpp` | two state machines with lists of subscribers | requestATL, releaseATL, open, failed, closed | answers for earlier requests; leaving while opening; the framework drops a connection | no subscriber is forgotten, none keeps a connection that is gone, each request and release is answered |
| Tracking sessions, `gnss/GnssAdapter.cpp` | maps of time-based and distance-based sessions, one engine session | start, update, stop, remove client, engine up | many sessions on one; callbacks that send requests; restarts; refusals | the engine runs as the sessions that exist ask, each command gets one response |
| Network-initiated requests, `gnss/GnssAdapter.cpp` | two NI sessions, one thread each | notify, respond, time out | a mutex that covers half of the accesses; a timeout that races the user | what is accepted is what the user accepted; data is freed or sent once |
| Timer service, `utils/LocTimer.cpp` | a heap of timers, a timerfd, an epoll set | start, stop, expire | client, MsgTask and poll thread; delegates outlive clients' interest | no lost wake-up; a stopped timer does not call back; each delegate is deleted once |
| Data item observer, `core/SystemStatusOsObserver.cpp` | two maps, a cache, the framework's subscription | subscribe, requestData, update, unsubscribe, notify | items shared by clients; reports that cross calls | the framework is asked for what is wanted; subscribers end up current |
| Message queue and threads, `utils/msg_q.c`, `MsgTask.cpp`, `LocThread.cpp` | a list, a mutex, a condition, a reference count | snd, rcv, unblock, flush, destroy | destruction by two threads; messages refused at shutdown | FIFO, each message handled or destroyed once, one last owner |
| Timer heap, `utils/LocHeap.cpp` | a size-balanced tree | push, pop, remove | removal of a node that is not on top | the top is soonest, no node is lost |
| ODCPI requests, `GnssAdapter.cpp:3968-4124` | active flag, last request, a timer | start, stop, expire | an expiry already posted | the framework is asked at most once per period while a session is active, and an emergency at once |
| Enable/disable and configuration, `GnssAdapter.cpp:893-1800`, `2961-3063` | `afwControlId`, lock, blacklist | enable, disable, updateConfig, getConfig, NFW control | the lock has three writers; a modem restart while it is written; collective responses from several requests | the modem has the lock and the blacklist asked for; every id has its own error |
| Reports to clients, `GnssAdapter.cpp:3066-3743`, `LocationUtil.cpp` | satellites used, system information, power state | report position, satellites, NMEA, data, measurements | two reports that belong together; clients that come later; with an engine hub everything comes twice | a client hears what it registered for, and what it is told is what the engine said |
| Client API, `location/LocationAPI.cpp`, `LocationAPIClientBase.cpp` | instances, callbacks per client, request queues | create, destroy, start, stop, ... | three adapters answer one destroy; responses matched to requests by queue order | an instance is deleted once, after its last callback; an answer goes to its request |
| Batching, `batching/BatchingAdapter.cpp` | routine and trip sessions | start, update, stop, restart, batch complete | trips multiplexed on one; errors that report nothing | as for tracking; each trip completes at its distance |
| Geofencing, `geofence/GeofenceAdapter.cpp` | two maps: by key, by hardware id | add, remove, modify, pause, resume, breach, restart | maps emptied while the engine restarts; aggregated responses | the engine has the clients' geofences, breaches reach their owners |
| System status, `core/SystemStatus.cpp` | a list of reports per kind | parse, set report, read | collation of connects and disconnects; news without news; tables in two orders | readers get what was said last |
| XTRA observer, `gnss/XtraSystemStatusObserver.cpp`, `utils/LocIpc.cpp` | status of networks, lock, TAC; a socket and its thread | notify, request, listen, abort | the daemon starts and dies at any time; messages longer than a datagram | the daemon learns each change; a listener can be ended |
| Modem interface, contexts, `core/LocApiBase.cpp`, `LocAdapterBase.cpp` | event masks, list of adapters, clients | register, open, close, engine up | adapters made before or after the engine is up | an event reaches every adapter registered for it, and the modem reports what is wanted |
| HIDL front ends, `gps/android/*` | callback and client pointers, interface versions | register, start, stop, die | the caller dies and another registers; pointers shared by binder and adapter threads | who lives is served, who is gone is not called |
| Utilities, `utils/loc_nmea.cpp`, `loc_cfg.cpp` | a static record of a configuration file | NMEA sentences, processes to start | counts that must agree with lists; the leap second; values left from the block before | sentences tell the report; each process starts as its block says |
| Doze gestures, `doze/` | registered sensors, settings | display on/off, sensor events | settings that change while the display is off; a process that is killed | sensors run only while the display is off and the setting is on |
| Lights, `lights/Light.cpp` | set of active sources | setLightState | sources that share a bit | the light shows the most important active source |
| Device tree, `releasetools.py`, `recovery/` | none | search for the firmware's stamp | a search of its own, with two tables | the first stamp is found; the rest is data |

How they interact: adapters share `MsgTask`; `GnssAdapter` owns `AgpsManager`, the NI
data and the ODCPI timer (a `LocTimer`); `XtraSystemStatusObserver` is the one client of
the data item observer, which gets its items from `SystemStatus` and the framework;
`LocationAPI` reaches the adapters through tables of functions (`location_gnss.cpp` and
its like) and is called back on the MsgTask thread.

`PROJECT.json` lists the main hazards: each is a place in the code where an order of
events nobody wrote a test for matters, with the properties that watch it. Further ones,
smaller or behind one of those:

- `MsgTask.cpp:78`: `sendMsg()` ignores that an unblocked queue refuses the message, which
  is then neither handled nor deleted.
- `LocApiBase.h:126`: the users of the shared `MsgTask` are counted down and then tested,
  in two steps; two destructors may both destroy it.
- `GnssAdapter.cpp:4382`: an open report with a bad APN is handled on the caller's thread,
  ahead of what is queued; `:3796`: the NI thread writes to the session after it gave it up;
  `:3784`: the modem restarts while a request is shown.
- `GnssAdapter.cpp:2524`, `:2656`: a start that several sessions share, or the stop in a
  stop-then-start update, is refused.
- `GnssAdapter.cpp:4001`: an ordinary ODCPI start during an emergency overwrites
  `mOdcpiRequest`, so that the emergency goes on with the ordinary request.
- `GnssAdapter.cpp:2190`: a client that comes late must be told the cached system
  information, once.
- `BatchingAdapter.cpp:345`: a refused start or update of batching reports nothing.
- `LocationAPIClientBase.cpp:116`: `mEnabled` is set before the adapter has answered, and
  an error does not reset it.
- `Agps.cpp:142`: the last active subscriber leaves while others wait for close (dead code
  today); `Agps.cpp:577`: `mAgpsType` is overwritten by each request, so a release may
  carry another type than its request (SUPL and SUPL_ES share a machine).

## 2. The models

A component's module is parameterised by constants. Agps and LocTimer are run as they are;
for the others an `MC` module gives the constants values for TLC. Five MC modules are
**suites**: they hold the variables of several components and one more, `part`, chosen in
the initial state, which says whose actions run. The parts of a suite share no state and
are checked one beside the other; a property of a suite is the conjunction of what its
parts promise. Messages to an adapter are the sequence
`msgQ` in every model, and `HandleMessage` is one turn of `MsgTask::run`: it takes the head
and runs the whole of its `proc()` in one step, which is what the single thread
guarantees. Environment actions (modem, framework, user, network, clients) only append
messages, as the public methods do.

### Agps: `gnss/Agps.cpp`, `Agps.h` and the adapter's messages

`mState`, `mSubscriberList` and `mIsInactive` are the machines' fields; `created` says
which machines `createAgpsStateMachines` has made. The five `processAgpsEvent...`
operators are the five methods, with one disjunct per state. `leave` is what
PENDING, ACQUIRED and RELEASING share when one subscriber unsubscribes, `releaseComplete`
what RELEASED and DENIED do in RELEASING. The framework takes the commands of an
interface in order (`fwCmd`, `fwServing`) and answers each; it may also drop an open
connection. `atl` is what the modem believes of each handle, and is what properties
relate to the machines.

`dataConnOpenCommand` with an APN that is too long calls `reportAtlClosed` on the
caller's thread: the one event that overtakes the queue (`dataConnOpenBadApn`).
Its races on the lists are not modelled; it is one step.

`WaitForClose` holds handles that subscribe with `mWaitForCloseComplete`. `requestATL`
passes false always, so `{}` is the program; the code for RELEASING is exercised by
giving one handle the flag.

### Tracking: sessions of `GnssAdapter.cpp`

`timeBased` and `distanceBased` are the two maps. A request to the engine is a record in
`apiQ` that carries the callback it was sent with, as the C++ lambda captures it; the
engine's answer appends a message that runs the callback. The multiplexing functions
are operators on the map that return the requests to send, so that start, update, stop
and their callbacks share them as the code does. `pending` is `mPendingMsgs`;
`engineUpEvent` restarts sessions and then posts the pended messages.
`owed` counts commands against responses, `ended` remembers stops: both exist for the
properties. Intervals are small numbers and `MIN_TRACKING_INTERVAL` is 1 instead of
100 ms: only comparisons and clamping look at them.

### Ni: network-initiated requests of `GnssAdapter.cpp`

The fields of the two `NiSession`s are variables by their own names. What runs under
the mutex `tLock` is one step; what runs outside is a step of its own: the check of
`gnssNiResponseCommand` (2890-2906) and its write (2908-2922), and the thread's
clearing of the time and of the id (3796-3804) after it has left the wait.
`pc` is the place of each request's thread. A wait may time out at any moment: seconds
are not counted.

### LocTimer, LocHeap, MsgQueue, LocIpc: `gps/utils`

**LocTimer**: a delegate is a number, its record in `timers` says whose it is and how it
ended. `task` and `poll` are the program counters of the two threads; each
`timerfd_settime` and `epoll_ctl` is a step, since both threads make them. The heap is the
set of its timers and `top`, any of the soonest: what `PriorityQueue` promises. Of the two
containers (they share threads but neither heap nor timerfd) one is modelled. Clients are
never deleted, as in this repository; the C wrapper `loc_timer_start`, which does delete,
is not modelled.

**LocHeap** is the tree itself: `push`, `pop` and `remove` with their recursions and the
sizes that steer them. It implements **PriorityQueue** (`IsPriorityQueue`), whose state
is the set of items, and which returns one that no other outranks.

**MsgQueue** has the doubly linked list node by node (`linked_list_*`), the queue with
its condition variable (`asleep`), the task's loop, and the reference-counted delegate
that thread and owner release. It implements **Fifo** (`IsFifo`): a message is accepted once
or refused, and handled or destroyed once, in order. Three instances: the thread is
detached, or joined; the task is destroyed by a message of its own (as `~LocApiBase`
does), or by another thread.

**LocIpc**: a message longer than `mMaxTxSize` is sent as a head and parts, each a
datagram; `listener` is the program counter of the receiving thread, `stopping` that of
the thread that ends it by sending it the abort message and joining.

### Odcpi: `GnssAdapter.cpp:3968-4124`

Requests, the timer's expiry and the news of a restart are messages; `now` and `expiry` are
in units of half a period. `hasty` remembers whether the framework was asked sooner than
the period allows, with nothing that explains it.

### Batching and Geofence: `BatchingAdapter.cpp`, `GeofenceAdapter.cpp`

As in Tracking, engine requests carry their callbacks. **Batching** keeps `batching` and
`trips` as the maps; `odometer` is the distance travelled, from which the engine counts
each trip. **Geofence** keeps the map from key to object and from hardware id to key;
a command for several geofences is a chain of items in `callQ`, each of which looks its
geofence up when its turn comes, and the arrays they share are freed by the last
(`freed`, `touched`). A breach names geofences as the engine numbers them; `misled` holds
those that a client was wrongly told of, or not told of.

### LocApi, GnssConfig, ConfigCalls: below and beside the sessions

**LocApi** has the two threads of `LocApiBase`: adapters compute the events they want and
ask for the modem to be opened again, the modem's own thread opens it with what all want
at that moment. **GnssConfig** is the modem's lock and blacklist with the three who write
the lock: the control API's switch, the framework's configuration, and the visibility
control's NFW calls. `filling` is the state between the clearing of `mGnssSvIdConfig` and
its writing, on another thread than its readers. **ConfigCalls** has what two calls of the
control API compute: which id of a configuration request gets which error, and the
conversion from a list of satellites to masks (with the width of the shift) and back to
what is reported.

### Reports, LocationInfo, Nmea: what clients are told

**Reports**: an event is one step, since it posts one message and reads nothing that
changes. Which clients a position is for, which callback of each, what is kept from a
position for the next satellite report, and what a client that comes later is told; `Hub`
says whether an engine hub is loaded, through which reports come twice. **LocationInfo**
follows one position: its flags through three words of flags (each the sequence of what
its bits mean, so that a bit of the wrong word shows), the number of its satellites, and
the time since boot the HIDL service works out from two clocks. **Nmea** has which
sentences are made of a report, which satellites each lists and counts, the quality and
mode they give it, and the time through a leap second. Coordinates are left out.

### ClientBase, ClientFences, ControlClient, LocationApi: `gps/location`

**ClientBase** and **ClientFences** are the two halves of `LocationAPIClientBase`: request
queues, the sessions that ids stand for, and geofence ids. An adapter's answer names a
session or nothing, and the head of a queue is taken for what it answers.
**ControlClient** is `LocationAPIControlClient`: the switch for positioning, aiding data
and configurations, each kind with its queue, and the adapter's control session behind
them. **LocationApi** is the life of an instance over three adapters, whose `destroy`
waits for each.

### GnssHal, MeasurementHal, BatchingHal, GeofenceHal: `gps/android`

The framework is up to two processes that register callbacks, call, crash and come back.
Calls and death notices come on one binder thread, in that order if `NoticesFirst`; the
library's thread reports in between, copying callbacks under the mutex and calling
afterwards (`reporter`). `live` says which processes live, `current` which registered last:
properties relate them to who is called. GnssHal covers 2.0 and 1.1; MeasurementHal also
what each version's words can express of a measurement.

### SystemStatus, Connectivity, OsObserver, BatteryListener: the state of phone and engine

**SystemStatus** has the sentences the engine speaks (PQWM1, PQWP1, P2, P3, P5, P7), the
lists of items with the rule that news equal to the last only moves its time, and two
readers: the debug report and the gains put into measurements. `heard` counts time.
**Connectivity** goes from the framework's network events to the XTRA daemon, with the
array of networks that connects and disconnects shift. **OsObserver**: the two maps, the
cache and the flag that the subscription object is set; `wants` and `seen` record what
clients asked for and were told; `notify` takes lists of one item. The map class reads
iterators it has just erased (`LocUnorderedSetMap.h:66`, `:136`), which C++ leaves undefined;
the model takes the outcome of the allocator in use, where a freed node keeps its contents
until the thread allocates again. **BatteryListener** has its thread, the condition it
waits on and the health service that calls it and may die.

### LocCfg, Doze, Lights, ModemVersion

**LocCfg** reads a configuration file line by line into a static record, as
`loc_read_process_conf` does in three passes, and decides which processes are enabled; the
engine hub is loaded by what it found. **Doze** has the service's main thread, the
executor of each sensor and the settings that change under them. **Lights** is the set of
active sources and the choice among them. **ModemVersion** is the updater's search for
the firmware's time stamp, with both tables of Boyer-Moore, and the script that asks for it.

## 3. The runs

Sessions, Threads, System, Adapters and Clients are the suites, each of the MC module of
its name; NiStaleAnswer is of MCSessions, the Tracking runs of MCTracking, AgpsSafety of Agps,
the LocTimer runs of LocTimer, PositionFlags of MCAdapters.

| Run | Instance | Question |
|---|---|---|
| AgpsSafety | 2 handles, both interfaces, 3 messages and commands in flight, bad APNs, restarts | Do lists, states and the modem's belief agree, and is no request forgotten? |
| Sessions | part "time": 3 sessions of 2 clients, 2 intervals of which one is below the minimum, 4 commands; "mixed": 2 sessions, both kinds and 2 power modes, 3 commands, 1 restart; "ni": an emergency and a SUPL request, clients come and go, a restart | Does the engine serve the sessions it has, and no others? Is an NI request's data disposed once, does each session keep its thread, is what is accepted the user's? |
| TrackingFaults | 2 sessions, refusals, invalid options, a client without callbacks, removal, 3 commands, 1 restart, fair | At most one response each; is a stop final, with messages posted again and late answers; do chains of callbacks end? |
| TrackingRemove | 3 sessions of 2 clients, removal, no updates | **violated**: the engine runs on for nobody |
| NiStaleAnswer | two SUPL requests | **violated**: one request's answer is taken for the next |
| LocTimer | 2 clients, 3 starts, delays 1 and 2, time to 3, fair | Is every timer ended, and the timerfd armed for each? |
| LocTimerEarly | the same without fairness | **violated**: a callback before its time |
| PositionFlags | reports of any two quantities | **violated**: a position says of quantities the engine never gave that they are valid |
| Threads | heap of 5 items with 4 ranks; 2 senders of 2 messages; ODCPI to 3 periods and 1 restart; an emergency and a control-plane request without a restart, the latter with one; 2 data handles of which one waits for close; messages of 2 to 4 units where a datagram holds 2; fair | Do the containers keep their promise (refinements), do threads end without a stray use, is every request answered? |
| System | observer, 2 clients, 2 in flight: 2 items of which one is also requested, or 1 item and a client that updates; 2 networks, 4 events, 2 starts of the daemon; 5 changes of the battery; 5 steps of display and settings with a kill; 2 lights, 5 calls; words of 5 letters in images of 6 | Do maps and subscription agree, does each follower learn the latest? |
| Adapters | batching: 2 sessions with 3 commands and a restart, or 3 commands and 4 units of travel; 2 geofences, 3 commands of every kind, or add, pause and remove with a breach and a restart; 2 adapters over the modem; the lock with 3 commands, the blacklist with 3; every set of 7 configuration flags; up to 3 listed satellites; reports with and without the hub; skies of 1, 2 and 5 satellites; a leap second; a position and its clocks; files of up to 2 processes | Is the modem as the sessions, fences and configuration say, and are clients told what it says? |
| Clients | 4 calls on 2 ids, 4 on the control client; 2 geofence ids; 2 instances over 3 adapters; 3 callbacks of 2 processes for each HIDL service; 5 pieces of news | Does each answer reach its request, does a new framework process get what the dead one had? |

**Why the bounds are enough.** A bound is the least at which the case that matters
happens. Agps: a late answer is the answer to an open that is still coming while a release
and a new request wait, which is three things in flight; two handles are the first number
where one may leave while another stays. Tracking: three sessions are the first number
where joining, leaving and being the smallest fall on different sessions; four commands
are start, start, update, stop, and each has up to three messages of callbacks behind it;
of intervals it matters which is the smaller and which is raised to the minimum. Two kinds
of session meet in a start, an update to the other kind and what follows it. Ni: an
emergency and another request meet in all orders, two requests of one session show what is
carried over. LocTimer: three starts give a client that restarts while another's timer is
in the heap. LocHeap: five nodes give a removal below the top with two children. MsgQueue:
two senders and two messages each give a list with a middle. Batching: a trip that joins
needs one under way, and its distance shows after a third command; Geofence: every command
after every other, and add, pause and remove around a restart with one breach at any
point. The observer's updates and requests, and an emergency and a restart of the modem,
are taken apart to keep the runs short; the theorems of section 5 hold of them together.
HIDL: three callbacks are an old process, its second registration, and a new process.
SystemStatus: two values each, so that news, old news and news again differ. LocIpc:
lengths 2 to 4 with parts of 2 are one datagram, an odd last part and two full parts.
Every action of every model is taken in its runs, and each property is violated when a
plausible mistake is made in one definition: `PROJECT.json` lists these mutants and the
modules define them next to the definition they change.

**Deadlock** is checked for AgpsSafety, where something can always happen. Elsewhere
commands, requests, events or time are bounded, and when they are used up and nothing is
under way the system rests: that it rests with everything done is what properties like
`EveryCommandAnswered`, `DaemonIsTold` and `RequestsAreServed` say.

**Fairness.** A loop that takes messages is weakly fair, since `MsgTask` runs until the
process ends and no handler of these blocks; so are the NI threads, the timer's poll
thread, the socket's listener and the thread that stops it, which the scheduler runs. The
framework takes and answers each data connection command; the engine answers each request
and comes up again after it went down, since the closed side has its own watchdogs; without
it nothing could be promised. Time goes on in LocTimer. Nothing is assumed of those who
may simply not act: clients, the user, the network, the modem's own requests.

## 4. What the models say about the code

Most properties hold, which is the main result. Four that the repository's own words
promise do not, and have a run each:

1. `stopClientSessions` stops each session as if the others stayed, and with two
   time-based sessions stops none (TrackingRemove).
2. `gnssNiResponseCommand` checks the request without the lock and writes with it;
   the answer written to an ended session is taken by the next request's thread
   (NiStaleAnswer). The instances of Sessions and Threads choose requests of different
   sessions for this reason.
3. `LocTimerDelegate::expire` stops whatever timer its client has by then
   (LocTimerEarly).
4. `convertLocationInfo` sets bits of the engine's word of flags in the notification's
   word: a position with the GPS time claims a valid east velocity, one with dynamics a
   north velocity, one with an east velocity valid leap seconds (PositionFlags). In the
   runs for Adapters the engine gives these quantities only together with those their bits
   stand for.

Further disagreements were seen with other instances of the same modules, named by the
constant and its value. They have no run of their own; a constant that a passing run sets
the other way is an assumption of that run.

**Agps, Tracking, Ni, LocTimer**

- An open report with a bad APN is handled as a close, which PENDING ignores: the modem
  waits for ever (`GnssAdapter.cpp:4379-4382`, `Agps.cpp:203`). Seen with `BadApn` and
  `EveryRequestAnswered`.
- After a modem restart its old handles stay subscribed: `handleModemSSR`
  (`Agps.h:196`) has no caller. Seen with `AllowRestart` and `SubscriberIsKnown`.
- A start that fails for a missing callback is not reported (`GnssAdapter.cpp:2407`),
  nor is the second half of a stop-then-start update whose stop is refused (2650-2668).
- Sessions joined to a start the engine then refuses were told success (2498, 2524).
- With three sessions of different power modes the smallest interval and the power
  mode of the new request are merged so that the engine's mode is not the smallest
  (2485-2493).
- A stop posted while messages are pended overtakes the start it is meant for
  (2135, 2404).
- An update to distance-based tracking lacks the check for support that the start has
  (2607 against 2417).
- Start by distance, update the distance, update to time-based and stop, in quick
  succession: the stop is answered, and then the callbacks of the updates start the engine
  and save the session again.
- NI: a timeout overwrites an answer the client was told had succeeded (3766), or an
  IGNORE; the thread of one request clears the id of the next (3797); nothing resets
  `rawRequest` on a modem restart, as the comment at 3776 expects.
- LocTimer: the first pop of `MsgTimerExpire` does not look at the time
  (`LocTimer.cpp:370`), a second way to expire early. When the last timer is removed
  the timerfd stays armed; the stale wake-up finds an empty heap.

**MsgQueue, LocHeap, LocIpc, Odcpi**

- With `OwnerDestroys` on a detached thread, `MsgTask::destroy` writes `mThread`
  (`MsgTask.cpp:68-70`) after the thread has deleted the object.
- `LocHeap.h:84-88` says that `remove` finds a node of the same rank; the code compares
  addresses, which is what the timers need. `LocHeap.cpp:33` says that a node's size
  leaves itself out; it does not.
- LocIpc: a message of another sender, or the abort, between the parts of a long message is
  taken for a part (`Alone = FALSE`; when the abort is swallowed the join waits for ever). A
  listener stopped before its thread has looked at its runnable leaks it and the socket
  (`Begun = FALSE`; `LocThread.h` says the thread deletes it). A listener whose receive failed
  has deleted its runnable, which `stopNonBlockingListening` then uses
  (`RecvFails = TRUE`, `LocIpc.cpp:346`). After a stop it cannot be started again.
- Odcpi: a request at the instant of an expiry asks twice in a row (`Alone = FALSE`, against
  the comment at 3976-3981); a request that comes between the restart and its news is
  lost (`UpFirst = FALSE`, 2150).

**Batching, Geofence**

- A trip's distance is lost over an engine restart, as `restartSessions` resets a copy
  (`BatchingAdapter.cpp:216`), so the trip ends late. A stop in flight during the restart
  leaves its session. Two stops that are answered out of order disable BATCH_FULL
  (`AnyOrder`). A trip that joined is not in `mBatchingSessions` and can never be stopped.
  A refused stop saves the session with other options (512). Errors of a start, an update and
  a stop are not reported, and an update is answered twice (against
  `LocationAPI.h:113-117`).
- `saveGeofenceItem` marks a geofence as running, so with two restarts a paused one runs
  (`MaxRestarts = 2`). With calls side by side arrays are used after they were freed
  (`SerialCalls = FALSE`); commands under way at a restart leave geofences without an
  owner (`AtRest = FALSE`). A resume that fails, and null options, are never reported.

**Configuration**

- A visibility-control call whose check (`GnssAdapter.cpp:4926`) passed before an update
  ended NFW control locks the modem for emergencies too (`NfwWaits = FALSE`).
- The blacklist is lost if the modem restarts while it is written (`AtRest = FALSE`), or is
  read while `mGnssSvIdConfig` is being filled (`Whole = FALSE`); and a blacklisted satellite of
  a constellation switched off comes back with it (`IdsOverTypes = TRUE`, comments at
  1664-1668). `gnssUpdateConfigCommand` does not tell the XTRA daemon the new lock.
- With all flags at once a configuration error reaches another id: assistance and SUPL
  version are sent in one order and numbered in the other, and three flags have no number.
  A C2K server takes the inverted result of `inet_aton` (against `LocationAPI.h:230-232`).
- Satellites whose shift exceeds 31 in an `int` (`GnssAdapter.cpp:1494`; Galileo 32 and 36,
  BeiDou 35) blacklist others (`LocationDataTypes.h:1182` has 64-bit masks).

**Reports and sentences**

- The comment at `GnssAdapter.cpp:3484-3486` says that the flag USED_IN_FIX is cleared for
  the others; the code never clears it. Ids above 32 shift an int; QZSS ids are off by 192.
- Fused-location clients get the positions of failed sessions; with a hub every status goes
  to GNSS clients. `isFlpClient` ignores `engineLocationsInfoCb`.
- Between the reads of the two clocks in `convertGnssLocation` a thread may wait: the time
  is off by as much (`Prompt = FALSE`), while 1 ms is claimed. It is also off by whatever
  the time of day is wrong.
- The notification never calls dynamics valid by their own bit.
- A satellite of a signal other than the two main ones is counted with the first
  (comments "or default", `loc_nmea.cpp:1908`) and listed by no sentence, and a pilot
  signal counted first is listed second: the runs use the main signals. A position of
  NavIC alone has talker GP; NavIC is in no GSA, GNS or GGA count. `magTrack` is shadowed
  (1297-1300), so it is never shown. Without leap-second information the time shown
  repeats 23:59:59.

**Configuration files**

- A block that lacks a parameter takes the first line of the next, and one with a line twice
  ends early (`Complete = FALSE`): values of the block before stay in the static record. The
  shipped `izat.conf` is complete and in order. "all foo" without "exclude" means nowhere.
  A failed load of the hub is never tried again. `loc_read_conf_r` returns 0 at the end, not
  1 as its comment says.

**Clients**

- Answers out of order are matched to the wrong request (`InOrder = FALSE`;
  `LocationDataTypes.h:1320-1323` promises the id). So do two starts of an id without
  waiting (`Waits = FALSE`), two updates (`UpdateTwice`), ids of NI requests that collide.
- The control client looks for a configuration's answer by the address of an array that is
  never set (`LocationAPIClientBase.cpp:155`, 178), while the adapter answers with a copy of the
  ids (`GnssAdapter.cpp:1196-1203`) and deletes the array it gave away (1079): no answer
  reaches `onGnssUpdateConfigCb`, although `LocationAPI.h:230-234` promises the response and
  the array's life. `mEnabled` is set before the answer.
- Geofences: a remove before the add's answer names id 0; a used id that is added again
  orphans the old session; a modify after an unknown id takes the wrong options; a resume's
  mask never reaches the adapter; a refused add stays in the map.
- A client that changes callbacks to fewer adapters is not forgotten by the others
  (`KeepsTypes = FALSE`, `LocationAPI.h:49-51`). The destructor of a client calls `destroy()`
  without a callback, which deletes nothing. Destroying the control API leaves its
  callbacks in the adapter.
- If `open` did not wait for an engine that is down, an adapter made then would never be
  told that it is up (`OpenWaits = FALSE`). Adapters are never destroyed.

**HIDL services**

- A process that registers before the old one's death is handled loses its callbacks to it
  (`NoticesFirst = FALSE`), in all services. `hostName` is freed and kept
  (`2.0/Gnss.cpp:238-242`, `Flag` with "server"). Interfaces 1.0 and 1.1 mixed on version 1.1
  keep the older callback. `setCallback(null)` switches GNSS on with nothing linked.
  `getExtensionGnssNi` of 2.0 returns null.
- Measurements: after a close the callbacks stay, and a later registration with an older
  version is told through them (`OneInterface = FALSE`); a second registration while
  tracking keeps the first's options. 1.0 clamps at its own maximum, which is smaller; three
  states have no word in 1.0.
- Batching: start and stop return `true` for -1; a start before the stop's answer gets
  ALREADY_STARTED and nothing runs (`Waits = FALSE`). `init` deletes the client while the
  adapter may be calling it (`Quiet = FALSE`). The death of either version's process stops
  the other's session.
- Geofencing: a second `setCallback` is ignored for ever, so a framework that restarted
  hears nothing, and its geofences stay (a TODO in the code). A refused remove forgets the
  id (`RemoveMayFail = TRUE`): its breaches are lost and it cannot be removed.
- Connectivity: when networks go in another order than the reverse of their coming, the
  array gets a hole and the last is lost (`NewestFirst = FALSE`, `SystemStatus.h:553-559`);
  a full array is read beyond its end; a first event that is a disconnect is stored as
  connected. `AGnssRil.cpp:105` of 1.0 swaps two arguments. The lock of "throttle" is never
  answered.
- SystemStatus: sentences shorter than expected leave the parser's record uninitialised
  (`SystemStatus.cpp:304`, 358, ...), which the run admits for PQWM1 only; equal positions are
  compared by place alone, so a better accuracy is not kept; after `deleteAll` a measurement in
  the first two seconds of a week gets a gain of 0 as valid; the valid old location is
  preferred to a newer best position; an unknown time is shown with 999 ns of uncertainty
  by 2.0 and with five years by 1.0.
- OsObserver: an item first asked for with `requestData()` is never subscribed for
  afterwards (`EverySubscriberIsCurrent`), and `updateSubscription()` drops the items the
  client keeps, since `update()` returns the wrong difference. The properties of the
  run are stated for other items and clients: `RequestItems` and `Updaters`.

**Devices**

- `bm_make_delta2` shifts one place too far for a pattern that ends as it begins
  (`recovery_updater.cpp:83`, "aba" is not found in "acaba"): its `p` is compared where
  Wikipedia's search, which the comment names, compares `p + 1`. The pattern in use does not end
  so; `Patterns` of the run are the words that do not.
- The battery listener is not registered again after the health service died
  (`battery_listener.cpp:195-212`, log at 204); a status that changes before its thread runs
  is not told (`ThreadFirst = FALSE`); the first status is never told; `is_charging()` before
  there is a listener dereferences null.
- A doze gesture that is switched off while its executor has not yet run stays registered
  (`Prompt = FALSE`); a killed service registers nothing until the display goes off again.
  `ProximitySensor.mSawNear` is stale at the next display-off (62-75).
- ATTENTION and NOTIFICATIONS share a bit and end each other (`Light.cpp:308-325`, `Light`
  with "attention"). Very dark colours count as off; a light that ends switches off only
  the colour chosen last.

## 5. What is proved

Eight modules hold proofs, Odcpi and GnssHal at their own end and the others in a module
of theirs; thirty theorems are listed in `PROJECT.json`. They are for any number of
handles, clients, sessions, requests, messages, items, calls and starts and for any bounds.
What they assume of constants are the named `ASSUME`s of the modules, which say of what
kind the constants are, and where a theorem has a hypothesis of its own it is given below
with the reason. An invariant is seldom inductive as it stands, and what had to be added to it
says why the code works.

| Theorem | For | Says |
|---|---|---|
| AgpsInvariant | every instance | `TypeOK`, `ReleasedIsEmpty` |
| AgpsOpenIsAcquired | `WaitForClose = {}` | what the modem has open is held for it |
| AgpsOneNifPerHandle | no modem restart | a handle is subscribed to one machine |
| AgpsWaitingIsServed | `WaitForClose = {}`, or no modem restart | no request is forgotten |
| AgpsPendingHasAnswerComing | no bad APN | a machine that waits has an answer coming |
| LocTimerStopOrCallback | every instance | stopped or called back, and once |
| LocTimerTimersAreKept | every instance | heap, deletion and timerfd, together `TimersAreKept` |
| OsObserverMapsAgree, OsObserverSubscribed | every instance | the maps, and the subscription |
| OsObserverSubscriberIsCurrent | every instance | with an empty queue, subscribers have the framework's value |
| OsObserverNothingForNobody | every instance | nothing is asked for that nobody wants |
| NiSessionsAreWhole | every instance | threads, raw data, emergencies, some user's consent |
| NiAcceptIsTheUsers | no session serves two requests | the consent is to that request |
| TrackingInvariant | every instance | `TypeOK`, and what queues and requests carry (`QueuesOK`) |
| TrackingAnsweredAtMostOnce | every instance | no command is answered twice |
| TrackingEveryCommandAnswered | `NoSilentError` | nor is any left unanswered |
| TrackingEngineServesSessions | `Steady` | the engine, once it answered, runs as often as every session asks |
| TrackingEngineOffWhenIdle | `Steady`, no distances | and not for nobody |
| TrackingStopIsFinal | every instance | a stop with no update's answer under way is final |
| MsgQueueListIsWhole | every instance | the list is the same both ways |
| MsgQueueIsFifo | every instance | the queue implements `Fifo` |
| MsgQueueDelegateIsShared | every instance | the delegate is not used after it is deleted |
| MsgQueueNoStrayUse | `OwnerDestroys = FALSE` | nor is the task |
| OdcpiNotSpammed | `Alone` | the framework is asked once a period |
| OdcpiWantedIsAsked | `Alone`, `UpFirst` | and is asked while the modem wants positions, no longer |
| GnssServesTheLiving | `NoticesFirst` | the engine runs as the living process asked |
| GnssReportsReachTheLast | every instance | reports go to the callback set last |
| GnssCapabilitiesReachTheLast | every instance | which is told the capabilities |
| GnssFixesAreAskedFor | 2.0, `NoticesFirst` | no fix for a process that started nothing |
| GnssPendingIsDelivered | no host name | configuration that waited is delivered |

**Agps.** `TypeOK` and `ReleasedIsEmpty` are inductive together: RELEASED is entered only
with the list just emptied, and left with the first subscriber. One lemma per event shows
what it does to a machine's fields (`MachineOK`), and `HandlerStep` combines them.
*OpenIsAcquired* is not inductive, because a machine might be RELEASING, from where it asks
again and its active subscribers are not served; `NeverReleasing` rules that out: without
subscribers that wait there are no inactive ones, so the list is empty exactly when no
subscriber is active. The theorem thus also says that RELEASING is dead code today.
*OneNifPerHandle* follows from handles taking turns (`TakesTurns`): a handle asks once, and
again only when it was told that it is idle; by then it is in no list, and a release of
it still in the queue is for a subscriber that is gone and comes before the new request. A
restart makes the modem forget its handles while the machines keep them (`handleModemSSR`
has no caller), hence the hypothesis. *WaitingIsServed*: every event of a machine either
tells a waiting subscriber what it asked for or leaves it an active subscriber of a machine
in PENDING or RELEASING (`GoesOn`); without turns a late release would make inactive a
subscriber that waits, unless inactive subscribers do not exist. *PendingHasAnswerComing*:
a machine begins to wait only by sending the command (`Asks`), and what lies between is
the command in `fwCmd`, the one being served, or the report in `msgQ`. With a bad
APN it does not hold: `reportAtlClosed` is called for it in PENDING and ignored.

**LocTimer.** *StopOrCallback*: a stop that succeeded is never followed by the callback. The
invariant adds what the messages refer to (`QueueOK`: a delegate is pushed before it is
removed), that the heap holds only created delegates (`HeapOK`), that a client's `mTimer`
is its own running delegate (`RunningOK`), and what the MsgTask has copied of a delegate
where it stands in `expire` (`TaskOK`). The last is what the argument turns on: between
reading `mClient` and calling `stop()` only the client can act, and `stop()` tells who came
first. *TimersAreKept* adds that the message which deletes a delegate is the last one
about it and is queued exactly while the delegate has ended and is not deleted
(`RemovalsOK`), so that it is deleted once and then in neither heap nor queue; and that of
the system calls which follow a change of the top, the MsgTask carries the time of the top
as it is now (`WakeOK`), so that no wake-up is lost between the calls of the two threads.

**OsObserver.** The maps are each other's inverse for clients that do not call
`updateSubscription()`. That the framework is subscribed to exactly the items that have clients
needs `NoObjectNoSubscription`: nothing is subscribed before the subscription object is
set, since `setSubscriptionObj` subscribes to all at once. *SubscriberIsCurrent* and
*NothingForNobody* speak of an empty queue; `CurrentInv` says what a queue on its way leads
to: what a client asked for last is what its messages will have made of its entry
(`WantedComes`), a client has the cached value unless its subscription is still queued
(`SeenIsCached`), and the cache will have the framework's value unless a report is due
(`CacheCatchesUp`).

**Ni.** The duty to dispose of a request's raw data is in exactly one place: in the message
that announces it, in the thread of its session, in what that thread is to send, or in the
message it has sent (`DutyOK`); it is handed on, so that the data is disposed of at most
once. `SessionOK` ties a session to the one request whose thread waits, and ids grow, so an
emergency that is open with another session was shown after it. *Consent* follows an ACCEPT
from the user to the modem: each message, each write of the adapter's thread, each session
and each thread's result that says ACCEPT has behind it a user's, to a request that the same
session showed no later (`ConsentInv`). The argument turns on `IdsOK`: ids name requests,
and the request in a session is the one it showed last. That it is the same request cannot
be had: run NiStaleAnswer shows the code take a late answer for the next request of the
session, and *NiAcceptIsTheUsers* says that this is the only way.

**Tracking.** *AnsweredAtMostOnce* comes from a ledger (`LedgerOK`): of the commands of a session
that are not answered, each answer still to come is one item in one of three queues: the
command itself in the adapter's queue or among the pended messages, a request the engine
has yet to answer, or the message that brings its answer. A
handler takes one such item and leaves at most one, and none once it has reported. What the
multiplexing functions send is an item only if its callback reports, which is a lemma
about each of them. The maps hold only clamped options, each message and pended command names
a started session and the options its handler reads, and each request is an operation of the
engine with a callback that its answer can run (*TrackingInvariant*). That
each command is answered at all is false of some (section 4): an error is set and reported to
nobody when the options have no size, the client no callback, or the engine refuses the stop
of a distance session that is restarted. `NoSilentError` says that these do not occur; then
what a session is owed *equals* what is to come for it, and with nothing under way that is
nothing (*EveryCommandAnswered*).
*EngineServesSessions* compares the map of sessions with an engine that hears of it later, and
is not inductive. `LedInv` says of every moment what the engine will run once it has answered:
what the last request under way about its time-based session asks, or what it runs when there
is none, serves the map, unless the engine is down or the news of its return is queued. Each
multiplexing function leaves a last request that serves the map it leaves (`Turns`,
`StartServed`, `UpdateServed`, `StopServed`), for which the smallest interval of a map, a
CHOOSE, is shown to be one of its members and no greater than any; `restartSessions` serves
the map from nothing (`RestartServes`). The same invariant says that without sessions the last
request is a stop (*EngineOffWhenIdle*). `Steady` excludes what makes this false: an update or
start that the engine refuses leaves the others' sessions behind it, a removed client's
sessions stay in the map (run TrackingRemove). *StopIsFinal* needs none of these
hypotheses. What may save a session is its start, and the callbacks of an update, through
one or two further answers (`saves`). A start is queued once, in one place, and while it is
queued its session is in no map and no such answer is under way (`StartedOnce`). And each
handler saves, and sends what will save, only about the session its message starts or
answers, or about one in a map (`Handled`). So a session that is out of the maps with none
of these under way stays out, whatever is refused, restarted or posted again; and a stop
that takes effect, whether stopTracking's own or its callback's, leaves none of them. What
it does not promise is what the code does not do (section 4): a stop with the answer to an
update under way, or of a session in both maps, and a stop that overtook its pended start,
found no session and was refused, do not end it.

**MsgQueue.** `Holds(l, s)` says at which addresses, in which order, a doubly linked list has
its elements; `linked_list_add` and `linked_list_remove` change the order as Append and Tail
do, and the walk from either end finds just these (by a least counterexample over the
length). `TaskInv` says when the queue has been closed and by
whom, which of thread and owner has yet to release the delegate (`Shared`: the count is the
number of those), and that a thread that destroys its own task does nothing else meanwhile
(`Alone`). Each step then is one of `Fifo`'s or leaves its variables alone. With
`OwnerDestroys`, `MsgTask::destroy` may write to a task that its detached thread has deleted
(section 4), so only the delegate is safe then.

**Odcpi.** *NotSpammed*: `TimerInv` says where the timer stands to when the framework was
asked: it runs from that moment for one period, or its expiry is the first message of the
queue, or it is not active and the period is over. Each way to ask then finds the period over
or is an emergency's. A request at the very instant of an expiry may come before it and start
the timer again, which the expiry then ends (hence `Alone`). *WantedIsAsked* follows from what
the modem's messages on their way say: the last of them is what it wants, and what was handled
last is what the flags of the adapter say (`WantedInv`). A restarted modem that asks before the
adapter hears of the restart has its request wiped out by that news (hence `UpFirst`).

**GnssHal.** A call of the framework is several calls into the client, with the library's thread
between them. `Becomes` says what a field will be once the calls left have been made; the
invariants are about that, and between calls it is what the field is. *ServesTheLiving* adds
that a dead process is linked only while the new one has registered nothing
(`LivingInv`): its notices stop the session before the first call of the new one. If they
came later they would stop the session of the living (section 4), hence `NoticesFirst`.
*ReportsReachTheLast* is `ReportInv`: the slots hold the last callback or nothing, and
the client becomes what they say. *CapabilitiesReachTheLast* is the argument that caching
before copying is the right order: a callback that does not know them has the
call that asks still before it, which finds them cached, or the library's thread has yet to
copy and will find that callback in its place (`Staying`). *FixesAreAskedFor* follows each
callback that may come to stand in the client while a session may run (`Served`): all are of
processes that started one. *PendingIsDelivered* leaves out the host name, which is
only copied over one that is there already (section 4). Of the constants `Built` says that a
callback is not null and that 1.1 registers by its own interface, as section 4 has it of the
others.

**Only model-checked.** Everything temporal (`EveryRequestAnswered`, `ComesToRest`,
`ShownIsDisposed`, `EveryTimerEnds`, `ThreadsEnd`), since proofs of liveness need ENABLED.
`IsPriorityQueue`: LocHeap's recursion over trees is a RECURSIVE operator, which the prover
does not take. `EngineServesPower` of Tracking, whose highest and smallest power are folds
over a map. The properties of the components without proofs: Batching, Geofence, the clients'
queues, the HIDL services for measurements, batches and geofences, and what follows the
phone's state. Where a proof needs
induction over numbers or finite sets it is done by a least counterexample, from the
library's theorems on well-founded orders; induction over trees and sequences as data would
need more.

## 6. What is not modelled

The closed modem side, the framework and the engine hub are environments. Within `gps/`:

- services that pass calls on one by one (configuration, AGNSS and NI of HIDL, the calls of
  the visibility control to its client), and stubs (measurement corrections, antenna);
- what `LocApiBase` and the adapters only pass on: the reports without state, and requests
  to the modem whose answer goes straight to the caller; the energy consumed (one callback
  slot: a second asker overwrites the first); positions held back by a blocked CPI session, of
  which only the last is kept; the values of configuration parameters that are only sent;
- sockets of the Internet and of QRTR (LocIpc), which nothing in the repository uses;
  `turnOn`, `turnOff` and `connectBackhaul` of the observer, without callers or not built;
- data items and sentences nobody reads (PQWP4, PQWP6, PQWS1, the Android settings);
- coordinates and text in NMEA, logging, the detection of the target; `loc_update_conf`,
  without callers.

Memory reuse (the deleted subscriber that `Agps.cpp:413` goes on comparing, erased
iterators) and torn reads are below the level of the models, and `pthread_create` does not
fail. Backlight and buttons only scale a brightness; a doze pulse's effect is the
framework's. Build files, policy, overlays and audio settings are data. `PROJECT.json` gives
the status of each part.

## 7. The plan

What is left is proof, in this order:

1. ClientBase: an answer is its request's, under `InOrder`; LocationApi: `DestroyIsComplete`.
2. Geofence: the two maps, and who frees the arrays.
3. MeasurementHal and BatchingHal: `SessionIsTheLivings`, along the argument of GnssHal.
4. Models still worth adding: the energy callback and blocked CPI in Reports, the AGNSS
   service above Agps (types and APNs), LocTimer with the C wrapper that deletes clients.
