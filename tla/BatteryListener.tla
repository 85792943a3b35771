--------------------------- MODULE BatteryListener ---------------------------
(***************************************************************************)
(* battery_listener.cpp: a thread of its own tells the GNSS service        *)
(* whether the battery is charging. The health service reports changes of  *)
(* status through a callback that sets mStatus and notifies a condition    *)
(* variable; when the service dies, serviceDied() asks the thread to end,  *)
(* joins it and calls init() again.                                        *)
(***************************************************************************)
EXTENDS Integers

CONSTANTS
  BatteryStatus, \* battery statuses, "NOT_CHARGING" and "CHARGING" among them
  ThreadFirst, \* TRUE: the thread has looked at mStatus before init() registers
  ServiceDies, \* TRUE: the health service may die and be started again
  None,        \* nothing told yet
  MaxChanges   \* bound: changes of the battery's status

VARIABLES
  mStatus,
  mDone,
  local,       \* local_status of the thread
  pc,          \* where the thread is: in one of the two waits on mCond, in mCb
  notified,    \* mCond has been notified since the thread waits
  told,        \* the last value given to mCb
  first,       \* mStatus as init() found it
  health,      \* the service: "up" or "down"
  registered,  \* the callback is registered with the service that is up
  handler,     \* serviceDied(): "idle", "join", "init"
  battery,     \* the battery's status
  changes

vars == <<mStatus, mDone, local, pc, notified, told, first, health, registered,
          handler, battery, changes>>

statusToBool(s) == s \in {"CHARGING", "FULL"}

Init ==
  /\ battery \in BatteryStatus /\ mStatus = battery /\ first = battery /\ local = battery
  /\ mDone = FALSE /\ notified = FALSE /\ told = None
  /\ pc = "start" /\ health = "up" /\ registered = FALSE /\ handler = "idle"
  /\ changes = 0

-----------------------------------------------------------------------------
(* The thread. It holds mLock but for its two waits and its calls of mCb.  *)

unchangedByThread ==
  UNCHANGED <<mStatus, mDone, first, health, registered, handler, battery, changes>>

\* The loop, from its head to the next wait or call. A wait begins with no
\* notification: those that came while nobody waited are lost.
\* Mutant: the thread waits without looking whether the status has changed.
WaitsFirst(l) ==
  /\ pc' = IF mDone THEN "gone" ELSE "wait"
  /\ local' = l /\ notified' = FALSE
Looks(l) ==
  /\ pc' = IF mDone THEN "gone" ELSE IF l = mStatus THEN "wait"
           ELSE IF mStatus = "NOT_CHARGING" THEN "brief" ELSE "call"
  /\ local' = IF mDone THEN l ELSE mStatus
  /\ notified' = FALSE

ThreadStarts ==
  /\ pc = "start" /\ Looks(mStatus) /\ UNCHANGED told /\ unchangedByThread

ThreadWakes ==
  /\ pc = "wait" /\ notified /\ Looks(local) /\ UNCHANGED told /\ unchangedByThread

\* NOT_CHARGING is told only if it lasts: another status within three seconds
\* takes its place.
\* Mutant: the status that took its place is not looked at.
BriefIsDropped ==
  /\ pc = "brief"
  /\ IF mStatus # local THEN pc' = "wait" /\ notified' = FALSE /\ local' = mStatus
     ELSE pc' = "call" /\ UNCHANGED <<local, notified>>
  /\ UNCHANGED told /\ unchangedByThread
BriefWaitEnds ==
  /\ pc = "brief"
  /\ IF mStatus # local THEN Looks(local)
     ELSE pc' = "call" /\ UNCHANGED <<local, notified>>
  /\ UNCHANGED told /\ unchangedByThread

\* mCb is called without the lock: the status may change under it.
ThreadCalls ==
  /\ pc = "call" /\ told' = statusToBool(local) /\ Looks(local) /\ unchangedByThread

Thread == ThreadStarts \/ ThreadWakes \/ BriefWaitEnds \/ ThreadCalls

-----------------------------------------------------------------------------
(* The callbacks of the health service, which mLock keeps out of a step of  *)
(* the thread.                                                             *)

\* init() goes on to register, and the service answers with the status.
Registers ==
  /\ ~registered /\ health = "up" /\ handler = "idle" /\ ~mDone
  /\ ThreadFirst => pc # "start"
  /\ registered' = TRUE
  /\ UNCHANGED <<mStatus, mDone, local, pc, notified, told, first, health, handler,
                 battery, changes>>

healthInfoChanged ==
  /\ registered /\ health = "up" /\ battery # mStatus
  /\ mStatus' = battery /\ notified' = TRUE
  /\ UNCHANGED <<mDone, local, pc, told, first, health, registered, handler, battery,
                 changes>>

\* serviceDied(): mDone is set and nobody is notified; then the thread is joined.
serviceDied ==
  /\ handler = "idle" /\ health = "down" /\ ~registered /\ ~mDone
  /\ mDone' = TRUE /\ handler' = "join"
  /\ UNCHANGED <<mStatus, local, pc, notified, told, first, health, registered, battery,
                 changes>>

\* Then init() again, which finds mHealth set and returns: nothing is started.
JoinEnds ==
  /\ handler = "join" /\ pc = "gone" /\ handler' = "init"
  /\ UNCHANGED <<mStatus, mDone, local, pc, notified, told, first, health, registered,
                 battery, changes>>
InitAgain ==
  /\ handler = "init" /\ handler' = "idle"
  /\ UNCHANGED <<mStatus, mDone, local, pc, notified, told, first, health, registered,
                 battery, changes>>

-----------------------------------------------------------------------------
(* The battery and the service.                                            *)

BatteryChanges(s) ==
  /\ changes < MaxChanges /\ changes' = changes + 1 /\ s # battery /\ battery' = s
  /\ UNCHANGED <<mStatus, mDone, local, pc, notified, told, first, health, registered,
                 handler>>

HealthDies ==
  /\ ServiceDies /\ health = "up" /\ registered
  /\ health' = "down" /\ registered' = FALSE
  /\ UNCHANGED <<mStatus, mDone, local, pc, notified, told, first, handler, battery, changes>>

HealthStarts ==
  /\ health = "down" /\ health' = "up"
  /\ UNCHANGED <<mStatus, mDone, local, pc, notified, told, first, registered, handler,
                 battery, changes>>

Listener == Thread \/ Registers \/ healthInfoChanged \/ serviceDied \/ JoinEnds \/ InitAgain

Next ==
  \/ Listener
  \/ \E s \in BatteryStatus : BatteryChanges(s)
  \/ HealthDies \/ HealthStarts

Spec == Init /\ [][Next]_vars
FairSpec ==
  /\ Spec
  /\ WF_vars(Thread) /\ WF_vars(Registers) /\ WF_vars(serviceDied) /\ WF_vars(JoinEnds)
  /\ WF_vars(InitAgain) /\ WF_vars(HealthStarts)

-----------------------------------------------------------------------------
(* Properties.                                                             *)

\* When the thread waits and nobody has notified it, what was last told is
\* whether the battery charges, however the changes fell between its waits
\* and its calls; nothing has been told only if there was no change.
NewsIsTold ==
  pc = "wait" /\ ~notified /\ ~mDone =>
    /\ mStatus = local
    /\ told = None => mStatus = first
    /\ told # None => told = statusToBool(mStatus)

\* The log of serviceDied(), "health service died, reinit": the listener is
\* registered again with the service that was started after the death.
ReinitAfterDeath == health = "down" ~> registered
=============================================================================
