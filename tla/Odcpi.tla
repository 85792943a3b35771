------------------------------- MODULE Odcpi -------------------------------
(***************************************************************************)
(* ODCPI (GnssAdapter.cpp): the modem asks for coarse positions, and the   *)
(* framework is asked for one.  Requests come in quick succession, so a    *)
(* timer spaces what the framework is asked; while the modem still wants   *)
(* positions when it expires the framework is asked again.                 *)
(*                                                                         *)
(* The modem's requests, the timer's expiry and the news of a modem        *)
(* restart are messages to the adapter's thread.  Time passes between      *)
(* them only, which is when a late message matters least; two that are due *)
(* at one instant come in any order.                                       *)
(***************************************************************************)
EXTENDS Integers, Sequences, SequenceTheorems, TLAPS

CONSTANTS
    Period,         \* ODCPI_EXPECTED_INJECTION_TIME_MS
    Alone,          \* TRUE: no request comes at the instant of an expiry
    UpFirst,        \* TRUE: a modem that has restarted sends nothing before
                    \* the adapter has heard of it
    MaxTime, MaxRestarts

VARIABLES
    now,
    mOdcpiRequestCb,        \* is set
    mOdcpiRequestActive,
    mOdcpiRequest,          \* isEmergencyMode of the last request
    mActive,                \* of mOdcpiTimer
    expiry,                 \* when the LocTimer expires, or Never
    msgQ,
    wanted,                 \* what the modem wants: "none", "normal", "emergency"
    asked,                  \* what the framework was last asked
    askedAt,                \* and when
    hasty,                  \* it was asked again before Period had passed, and
                            \* not because an emergency replaces a request
    restarted,              \* the modem has, and the adapter is not told yet
    restarts

vars == <<now, mOdcpiRequestCb, mOdcpiRequestActive, mOdcpiRequest, mActive, expiry, msgQ, wanted,
          asked, askedAt, hasty, restarted, restarts>>

Never == 0

Init ==
    /\ now = 1
    /\ mOdcpiRequestCb = FALSE /\ mOdcpiRequestActive = FALSE /\ mOdcpiRequest = FALSE
    /\ mActive = FALSE /\ expiry = Never
    /\ msgQ = <<>>
    /\ wanted = "none" /\ asked = "none" /\ askedAt = Never /\ hasty = FALSE
    /\ restarted = FALSE /\ restarts = 0

-----------------------------------------------------------------------------
(***************************************************************************)
(* OdcpiTimer, and the adapter's handlers.                                 *)
(***************************************************************************)
timerStart == mActive' = TRUE /\ expiry' = now + Period
timerStop == mActive' = FALSE /\ expiry' = Never

Kind(emergency) == IF emergency THEN "emergency" ELSE "normal"

\* mOdcpiRequestCb(request)
Ask(emergency) ==
    /\ asked' = Kind(emergency)
    /\ askedAt' = now
    /\ hasty' = (hasty \/ (/\ askedAt # Never /\ now < askedAt + Period
                           /\ ~(emergency /\ ~mOdcpiRequest)))

DoNotAsk == UNCHANGED <<asked, askedAt, hasty>>

start(emergency) ==
    /\ IF (~mOdcpiRequestActive /\ ~mActive) \/ (~mOdcpiRequest /\ emergency)
       THEN Ask(emergency) /\ timerStart
       ELSE DoNotAsk /\ UNCHANGED <<mActive, expiry>>
    /\ mOdcpiRequestActive' = TRUE
    /\ mOdcpiRequest' = emergency

\* Mutant: a stop stops the timer as well.
StopTimerToo ==
    /\ mOdcpiRequestActive' = FALSE
    /\ timerStop
    /\ DoNotAsk /\ UNCHANGED mOdcpiRequest

\* The timer goes on, so that a start that follows soon has to wait.
stopRequest ==
    /\ mOdcpiRequestActive' = FALSE
    /\ DoNotAsk /\ UNCHANGED <<mOdcpiRequest, mActive, expiry>>

\* Mutant: the framework is asked, the timer not started again.
AskOnceMore ==
    /\ IF mOdcpiRequestActive THEN Ask(mOdcpiRequest) /\ UNCHANGED <<mActive, expiry>>
       ELSE DoNotAsk /\ timerStop
    /\ UNCHANGED <<mOdcpiRequestActive, mOdcpiRequest>>

odcpiTimerExpire ==
    /\ IF mOdcpiRequestActive THEN Ask(mOdcpiRequest) /\ timerStart
       ELSE DoNotAsk /\ timerStop
    /\ UNCHANGED <<mOdcpiRequestActive, mOdcpiRequest>>

HandleMessage ==
    /\ msgQ # <<>>
    /\ msgQ' = Tail(msgQ)
    /\ LET m == Head(msgQ)
           ignored == m \in {"normal", "emergency", "stop"} /\ ~mOdcpiRequestCb
       IN /\ \/ m \in {"normal", "emergency"} /\ ~ignored /\ start(m = "emergency")
             \/ m = "stop" /\ ~ignored /\ stopRequest
             \/ m = "expire" /\ odcpiTimerExpire
             \/ /\ m = "engineUp"        \* restartSessions()
                /\ mOdcpiRequestActive' = FALSE
                /\ DoNotAsk /\ UNCHANGED <<mOdcpiRequest, mActive, expiry>>
             \/ /\ m = "init" \/ ignored
                /\ DoNotAsk /\ UNCHANGED <<mOdcpiRequestActive, mOdcpiRequest, mActive, expiry>>
          /\ mOdcpiRequestCb' = (mOdcpiRequestCb \/ m = "init")
    /\ UNCHANGED <<now, wanted, restarted, restarts>>

-----------------------------------------------------------------------------
(***************************************************************************)
(* The framework, the modem, the timer thread and time.                    *)
(***************************************************************************)
Waiting(m) == \E i \in DOMAIN msgQ : msgQ[i] = m

Post(m) ==
    /\ msgQ' = Append(msgQ, m)
    /\ UNCHANGED <<now, mOdcpiRequestCb, mOdcpiRequestActive, mOdcpiRequest, mActive, asked,
                   askedAt, hasty>>

initOdcpiCommand ==
    /\ ~mOdcpiRequestCb /\ ~Waiting("init")
    /\ Post("init")
    /\ UNCHANGED <<wanted, expiry, restarted, restarts>>

\* REQUEST_WIFI is registered by initOdcpi.
requestOdcpiEvent(kind) ==
    /\ mOdcpiRequestCb
    /\ Alone => expiry # now /\ ~Waiting("expire")
    /\ UpFirst => ~restarted
    /\ Len(msgQ) < 3
    /\ wanted' = IF kind = "stop" THEN "none" ELSE kind
    /\ Post(kind)
    /\ UNCHANGED <<expiry, restarted, restarts>>

odcpiTimerExpireEvent ==
    /\ expiry = now
    /\ Alone => msgQ = <<>>
    /\ expiry' = Never
    /\ Post("expire")
    /\ UNCHANGED <<wanted, restarted, restarts>>

EngineRestart ==
    /\ restarts < MaxRestarts /\ ~restarted
    /\ restarts' = restarts + 1
    /\ restarted' = TRUE /\ wanted' = "none"
    /\ UNCHANGED <<now, mOdcpiRequestCb, mOdcpiRequestActive, mOdcpiRequest, mActive, expiry, msgQ,
                   asked, askedAt, hasty>>

handleEngineUpEvent ==
    /\ restarted
    /\ restarted' = FALSE
    /\ Post("engineUp")
    /\ UNCHANGED <<wanted, expiry, restarts>>

Tick ==
    /\ now < MaxTime /\ expiry # now /\ msgQ = <<>>
    /\ now' = now + 1
    /\ UNCHANGED <<mOdcpiRequestCb, mOdcpiRequestActive, mOdcpiRequest, mActive, expiry, msgQ,
                   wanted, asked, askedAt, hasty, restarted, restarts>>

Next ==
    \/ HandleMessage
    \/ initOdcpiCommand
    \/ \E kind \in {"normal", "emergency", "stop"} : requestOdcpiEvent(kind)
    \/ odcpiTimerExpireEvent
    \/ EngineRestart \/ handleEngineUpEvent
    \/ Tick

Spec == Init /\ [][Next]_vars

-----------------------------------------------------------------------------
Quiescent == msgQ = <<>> /\ expiry # now /\ ~restarted

TypeOK ==
    /\ expiry \in {Never} \cup now .. MaxTime + Period
    /\ wanted \in {"none", "normal", "emergency"} /\ asked \in {"none", "normal", "emergency"}

(***************************************************************************)
(* While the modem wants positions the framework has been asked within the *)
(* last Period and will be asked again ("extending the odcpi session past  *)
(* 30 seconds if needed", requestOdcpi), and it is asked as an emergency   *)
(* as long as the modem's last request is one; when it wants none the      *)
(* timer does not go on for ever.                                          *)
(***************************************************************************)
WantedIsAsked ==
    Quiescent =>
        /\ mOdcpiRequestActive <=> wanted # "none"
        /\ wanted # "none" => expiry # Never /\ now < askedAt + Period
        /\ wanted = "emergency" => asked = "emergency"
        /\ mActive <=> expiry # Never

(***************************************************************************)
(* "the mOdcpiTimer helps avoid spamming the framework" (requestOdcpi):    *)
(* it is not asked again before Period has passed, but when an emergency   *)
(* replaces the request.                                                   *)
(***************************************************************************)
NotSpammed == ~hasty

-----------------------------------------------------------------------------
(***************************************************************************)
(* Both properties for every period and any number of restarts: NotSpammed *)
(* from what the timer and the queue say of when the framework was asked   *)
(* (TimerInv), WantedIsAsked from that and from what the modem's messages  *)
(* on their way say of what it wants (WantedInv).                          *)
(***************************************************************************)
Request == {"normal", "emergency", "stop"}
Message == Request \cup {"init", "expire", "engineUp"}

\* The timer runs from when the framework was asked; its expiry is the only
\* message that may be waiting when the timer no longer runs but is active.
TimerInv ==
    /\ now \in Nat \ {0} /\ askedAt \in Nat /\ expiry \in Nat
    /\ mActive \in BOOLEAN /\ msgQ \in Seq(Message)
    /\ ~hasty
    /\ expiry # Never => mActive /\ askedAt # Never /\ expiry = askedAt + Period /\ now <= expiry
    /\ mActive => expiry # Never \/ (msgQ # <<>> /\ msgQ[1] = "expire")
    /\ ~mActive => askedAt = Never \/ askedAt + Period <= now
    /\ \A i \in 1 .. Len(msgQ) : msgQ[i] = "expire" =>
           /\ i = 1 /\ mActive
           /\ expiry = Never /\ askedAt # Never /\ askedAt + Period <= now

(* What is appended to a queue goes behind. *)
LEMMA Appended ==
    ASSUME NEW q \in Seq(Message), NEW m \in Message
    PROVE  /\ Append(q, m) \in Seq(Message) /\ Append(q, m) # <<>>
           /\ Len(Append(q, m)) = Len(q) + 1 /\ Len(q) \in Nat
           /\ \A i \in 1 .. Len(q) : Append(q, m)[i] = q[i]
           /\ Append(q, m)[Len(q) + 1] = m
           /\ q = <<>> <=> Len(q) = 0
BY AppendProperties, EmptySeq, LenProperties

(* What is taken from a queue is its head. *)
LEMMA Taken ==
    ASSUME NEW q \in Seq(Message), q # <<>>
    PROVE  /\ Head(q) = q[1] /\ Head(q) \in Message /\ Tail(q) \in Seq(Message)
           /\ Len(q) \in Nat \ {0} /\ Len(Tail(q)) = Len(q) - 1
           /\ \A i \in 1 .. Len(Tail(q)) : Tail(q)[i] = q[i + 1] /\ i + 1 \in 1 .. Len(q)
<1>1. Len(q) \in Nat \ {0} /\ q[1] \in Message
  BY EmptySeq, LenProperties, ElementOfSeq
<1> QED
  BY <1>1, HeadTailProperties

(* What a handler does to the timer: nothing, or it asks and starts it when *)
(* the framework may be asked, or the expiry stops it.                      *)
LEMMA TimerHandled ==
    ASSUME Alone, Period \in Nat \ {0}, TimerInv, HandleMessage
    PROVE  TimerInv'
<1> DEFINE m == Head(msgQ)
<1>1. msgQ # <<>> /\ msgQ' = Tail(msgQ) /\ now' = now
  BY DEF HandleMessage
<1>2. /\ m = msgQ[1] /\ m \in Message /\ msgQ' \in Seq(Message)
      /\ Len(msgQ) \in Nat \ {0} /\ Len(msgQ') = Len(msgQ) - 1
      /\ \A i \in 1 .. Len(msgQ') : msgQ'[i] = msgQ[i + 1] /\ i + 1 \in 1 .. Len(msgQ)
  BY <1>1, Taken DEF TimerInv
<1>3. \A i \in 1 .. Len(msgQ') : msgQ'[i] # "expire"
  <2> SUFFICES ASSUME NEW i \in 1 .. Len(msgQ'), msgQ'[i] = "expire" PROVE FALSE
    OBVIOUS
  <2>1. i + 1 = 1
    BY <1>2 DEF TimerInv
  <2> QED
    BY <1>2, <2>1
<1>4. m # "expire" => (mActive <=> expiry # Never)
  BY <1>2 DEF TimerInv
<1>5. m = "expire" => mActive /\ expiry = Never /\ askedAt # Never /\ askedAt + Period <= now
  <2>1. 1 \in 1 .. Len(msgQ)
    BY <1>2
  <2> QED
    BY <1>2, <2>1 DEF TimerInv
<1> HIDE DEF m
\* The timer is not touched.
<1>6. ASSUME m # "expire", UNCHANGED <<mActive, expiry, asked, askedAt, hasty>> PROVE TimerInv'
  BY <1>1, <1>2, <1>3, <1>4, <1>6 DEF TimerInv
\* It is started as the framework is asked.
<1>7. ASSUME NEW e, Ask(e), timerStart,
             (e /\ ~mOdcpiRequest) \/ askedAt = Never \/ askedAt + Period <= now
      PROVE  TimerInv'
  <2>1. askedAt' = now /\ mActive' = TRUE /\ expiry' = now + Period
    BY <1>7 DEF Ask, timerStart
  <2>2. ~hasty'
    <3>1. askedAt + Period <= now => ~(now < askedAt + Period)
      BY DEF TimerInv
    <3> QED
      BY <1>7, <3>1, Zenon DEF Ask, TimerInv
  <2> QED
    BY <1>1, <1>2, <1>3, <2>1, <2>2 DEF TimerInv, Never
<1>8. CASE m = "expire"
  <2>1. odcpiTimerExpire
    BY <1>8 DEF HandleMessage, m
  <2>2. CASE mOdcpiRequestActive
    <3>1. Ask(mOdcpiRequest) /\ timerStart
      BY <2>1, <2>2 DEF odcpiTimerExpire
    <3> QED
      BY <1>5, <1>7, <1>8, <3>1
  <2>3. CASE ~mOdcpiRequestActive
    <3>1. mActive' = FALSE /\ expiry' = Never /\ askedAt' = askedAt /\ hasty' = hasty
      BY <2>1, <2>3 DEF odcpiTimerExpire, timerStop, DoNotAsk
    <3> QED
      BY <1>1, <1>2, <1>3, <1>5, <1>8, <3>1 DEF TimerInv, Never
  <2> QED
    BY <2>2, <2>3
<1>9. CASE m # "expire"
  <2>1. ASSUME NEW e, start(e) PROVE TimerInv'
    <3>1. CASE (~mOdcpiRequestActive /\ ~mActive) \/ (~mOdcpiRequest /\ e)
      <4>1. Ask(e) /\ timerStart
        BY <2>1, <3>1 DEF start
      <4>2. (e /\ ~mOdcpiRequest) \/ askedAt = Never \/ askedAt + Period <= now
        BY <3>1 DEF TimerInv
      <4> QED
        BY <1>7, <4>1, <4>2
    <3>2. CASE ~((~mOdcpiRequestActive /\ ~mActive) \/ (~mOdcpiRequest /\ e))
      BY <1>6, <1>9, <2>1, <3>2 DEF start, DoNotAsk
    <3> QED
      BY <3>1, <3>2
  <2>2. \/ start(m = "emergency") \/ stopRequest
        \/ UNCHANGED <<mActive, expiry, asked, askedAt, hasty>>
    BY <1>9 DEF HandleMessage, DoNotAsk, m
  <2>3. CASE start(m = "emergency")
    BY <2>1, <2>3
  <2> QED
    BY <1>6, <1>9, <2>2, <2>3 DEF stopRequest, DoNotAsk
<1> QED
  BY <1>8, <1>9

(* A message is posted: an expiry alone. *)
LEMMA TimerPosted ==
    ASSUME TimerInv, NEW k \in Message, Post(k),
           \/ k # "expire" /\ expiry' = expiry
           \/ k = "expire" /\ msgQ = <<>> /\ expiry = now /\ expiry' = Never
    PROVE  TimerInv'
<1>1. /\ msgQ' = Append(msgQ, k) /\ now' = now /\ mActive' = mActive
      /\ askedAt' = askedAt /\ hasty' = hasty
  BY DEF Post
<1>2. /\ msgQ' \in Seq(Message) /\ msgQ' # <<>> /\ Len(msgQ') = Len(msgQ) + 1 /\ Len(msgQ) \in Nat
      /\ \A i \in 1 .. Len(msgQ) : msgQ'[i] = msgQ[i]
      /\ msgQ'[Len(msgQ) + 1] = k
      /\ msgQ = <<>> <=> Len(msgQ) = 0
  BY <1>1, Appended DEF TimerInv
<1>3. CASE k # "expire" /\ expiry' = expiry
  <2>1. \A i \in 1 .. Len(msgQ') : msgQ'[i] = "expire" => i \in 1 .. Len(msgQ) /\ msgQ[i] = "expire"
    BY <1>2, <1>3
  <2>2. msgQ # <<>> => msgQ'[1] = msgQ[1]
    BY <1>2
  <2> QED
    BY <1>1, <1>2, <1>3, <2>1, <2>2 DEF TimerInv
<1>4. CASE k = "expire" /\ msgQ = <<>> /\ expiry = now /\ expiry' = Never
  <2>1. \A i \in 1 .. Len(msgQ') : i = 1
    BY <1>2, <1>4
  <2>2. msgQ'[1] = "expire"
    BY <1>2, <1>4
  <2>3. mActive /\ askedAt # Never /\ askedAt + Period <= now
    BY <1>4 DEF TimerInv, Never
  <2> QED
    BY <1>1, <1>2, <1>4, <2>1, <2>2, <2>3 DEF TimerInv, Never
<1> QED
  BY <1>3, <1>4

(* It is at first. *)
LEMMA TimerInit ==
    ASSUME Init
    PROVE  TimerInv
<1>1. /\ now = 1 /\ askedAt = Never /\ expiry = Never /\ mActive = FALSE /\ hasty = FALSE
      /\ msgQ = <<>> /\ Len(msgQ) = 0
  BY DEF Init
<1>2. /\ msgQ \in Seq(Message) /\ \A i \in 1 .. Len(msgQ) : FALSE
      /\ now \in Nat \ {0} /\ askedAt \in Nat /\ expiry \in Nat
  BY <1>1 DEF Never
<1> QED
  BY <1>1, <1>2, Zenon DEF TimerInv

(* Every step keeps the timer right. *)
LEMMA TimerStep ==
    ASSUME Alone, Period \in Nat \ {0}, TimerInv, [Next]_vars
    PROVE  TimerInv'
<1>1. CASE HandleMessage
  BY <1>1, TimerHandled
<1>2. CASE initOdcpiCommand
  BY <1>2, TimerPosted DEF initOdcpiCommand, Message
<1>3. ASSUME NEW kind \in Request, requestOdcpiEvent(kind) PROVE TimerInv'
  BY <1>3, TimerPosted DEF requestOdcpiEvent, Message, Request
<1>4. CASE odcpiTimerExpireEvent
  BY <1>4, TimerPosted DEF odcpiTimerExpireEvent, Message
<1>5. CASE handleEngineUpEvent
  BY <1>5, TimerPosted DEF handleEngineUpEvent, Message
<1>6. CASE EngineRestart
  BY <1>6 DEF EngineRestart, TimerInv
<1>7. CASE Tick
  <2>1. /\ now' = now + 1 /\ expiry # now /\ msgQ' = msgQ /\ msgQ = <<>>
        /\ mActive' = mActive /\ expiry' = expiry /\ askedAt' = askedAt /\ hasty' = hasty
    BY <1>7 DEF Tick
  <2>2. Len(msgQ) = 0
    BY <2>1
  <2> QED
    BY <2>1, <2>2 DEF TimerInv
<1>8. CASE UNCHANGED vars
  BY <1>8 DEF vars, TimerInv
<1> QED
  BY <1>1, <1>2, <1>3, <1>4, <1>5, <1>6, <1>7, <1>8 DEF Next, Request

\* What the modem wants, if its last message has reached the adapter, is what
\* the adapter keeps asking for; if not, it is what that message says.
Deciding(m) == m \in Request \cup {"engineUp"}
Meant(m) == IF m \in {"normal", "emergency"} THEN m ELSE "none"
Served == IF mOdcpiRequestActive THEN Kind(mOdcpiRequest) ELSE "none"
LastAt(i) == Deciding(msgQ[i]) /\ \A j \in 1 .. Len(msgQ) : i < j => ~Deciding(msgQ[j])

WantedInv ==
    /\ mOdcpiRequestCb \in BOOLEAN /\ mOdcpiRequestActive \in BOOLEAN /\ mOdcpiRequest \in BOOLEAN
    /\ restarted \in BOOLEAN
    /\ ~mOdcpiRequestCb => \A i \in 1 .. Len(msgQ) : msgQ[i] \notin Request
    /\ mOdcpiRequestActive => mActive
    /\ mOdcpiRequest => asked = "emergency"
    /\ restarted => wanted = "none"
    /\ ~restarted => /\ (\A i \in 1 .. Len(msgQ) : ~Deciding(msgQ[i])) => wanted = Served
                     /\ \A i \in 1 .. Len(msgQ) : LastAt(i) => wanted = Meant(msgQ[i])

(* The modem is served what the message handled says, and asked accordingly. *)
LEMMA Handled ==
    ASSUME TimerInv, WantedInv, HandleMessage
    PROVE  /\ mOdcpiRequestCb' \in BOOLEAN /\ mOdcpiRequestActive' \in BOOLEAN
           /\ mOdcpiRequest' \in BOOLEAN
           /\ mOdcpiRequestCb => mOdcpiRequestCb'
           /\ mOdcpiRequestActive' => mActive'
           /\ mOdcpiRequest' => asked' = "emergency"
           /\ Served' = IF Deciding(Head(msgQ)) THEN Meant(Head(msgQ)) ELSE Served
<1> DEFINE m == Head(msgQ)
<1>1. /\ m = msgQ[1] /\ m \in Message /\ 1 \in 1 .. Len(msgQ)
  <2>1. msgQ # <<>>
    BY DEF HandleMessage
  <2> QED
    BY <2>1, Taken DEF TimerInv
<1>2. ~mOdcpiRequestCb => m \notin Request
  BY <1>1 DEF WantedInv
<1>3. mOdcpiRequestCb' \in BOOLEAN /\ (mOdcpiRequestCb => mOdcpiRequestCb')
  BY DEF HandleMessage, WantedInv
<1> HIDE DEF m
<1>4. CASE m \in {"normal", "emergency"}
  <2> DEFINE e == m = "emergency"
  <2>1. start(e)
    BY <1>2, <1>4 DEF HandleMessage, Request, m
  <2>2. mOdcpiRequestActive' = TRUE /\ mOdcpiRequest' = e
    BY <2>1 DEF start
  <2>3. mActive'
    <3>1. CASE (~mOdcpiRequestActive /\ ~mActive) \/ (~mOdcpiRequest /\ e)
      BY <2>1, <3>1 DEF start, timerStart
    <3>2. CASE ~((~mOdcpiRequestActive /\ ~mActive) \/ (~mOdcpiRequest /\ e))
      BY <2>1, <3>2 DEF start, WantedInv
    <3> QED
      BY <3>1, <3>2
  <2>4. e => asked' = "emergency"
    <3>1. CASE (~mOdcpiRequestActive /\ ~mActive) \/ (~mOdcpiRequest /\ e)
      BY <2>1, <3>1 DEF start, Ask, Kind
    <3>2. CASE ~((~mOdcpiRequestActive /\ ~mActive) \/ (~mOdcpiRequest /\ e))
      BY <2>1, <3>2 DEF start, DoNotAsk, WantedInv
    <3> QED
      BY <3>1, <3>2
  <2>5. Served' = Meant(m) /\ Deciding(m)
    BY <1>4, <2>2 DEF Served, Kind, Meant, Deciding, Request
  <2> QED
    BY <1>3, <2>2, <2>3, <2>4, <2>5 DEF m
<1>5. CASE m \in {"stop", "engineUp"}
  <2>1. /\ mOdcpiRequestActive' = FALSE
        /\ UNCHANGED <<mOdcpiRequest, asked, mActive>>
    BY <1>2, <1>5 DEF HandleMessage, Request, stopRequest, DoNotAsk, m
  <2>2. Served' = Meant(m) /\ Deciding(m)
    BY <1>5, <2>1 DEF Served, Meant, Deciding, Request
  <2> QED
    BY <1>3, <2>1, <2>2 DEF WantedInv, m
<1>6. CASE m = "expire"
  <2>1. odcpiTimerExpire
    BY <1>6 DEF HandleMessage, m
  <2>2. UNCHANGED <<mOdcpiRequestActive, mOdcpiRequest>>
    BY <2>1 DEF odcpiTimerExpire
  <2>3. mOdcpiRequestActive => mActive' /\ (mOdcpiRequest => asked' = "emergency")
    BY <2>1 DEF odcpiTimerExpire, timerStart, Ask, Kind
  <2>4. ~mOdcpiRequestActive => asked' = asked
    BY <2>1 DEF odcpiTimerExpire, DoNotAsk
  <2>5. Served' = Served /\ ~Deciding(m)
    BY <1>6, <2>2 DEF Served, Deciding, Request
  <2> QED
    BY <1>3, <2>2, <2>3, <2>4, <2>5 DEF WantedInv, m
<1>7. CASE m = "init"
  <2>1. UNCHANGED <<mOdcpiRequestActive, mOdcpiRequest, asked, mActive>>
    BY <1>7 DEF HandleMessage, DoNotAsk, m
  <2>2. Served' = Served /\ ~Deciding(m)
    BY <1>7, <2>1 DEF Served, Deciding, Request
  <2> QED
    BY <1>3, <2>1, <2>2 DEF WantedInv, m
<1> QED
  BY <1>1, <1>4, <1>5, <1>6, <1>7 DEF Message, Request, m

(* The other messages say what they said. *)
LEMMA WantedHandled ==
    ASSUME TimerInv, WantedInv, HandleMessage
    PROVE  WantedInv'
<1> DEFINE m == Head(msgQ)
<1>1. /\ msgQ # <<>> /\ msgQ' = Tail(msgQ) /\ wanted' = wanted /\ restarted' = restarted
  BY DEF HandleMessage
<1>2. /\ m = msgQ[1] /\ Len(msgQ) \in Nat \ {0} /\ Len(msgQ') = Len(msgQ) - 1
      /\ \A i \in 1 .. Len(msgQ') : msgQ'[i] = msgQ[i + 1] /\ i + 1 \in 1 .. Len(msgQ)
  BY <1>1, Taken DEF TimerInv
<1>3. \A i \in 1 .. Len(msgQ) : i = 1 \/ (i - 1 \in 1 .. Len(msgQ') /\ msgQ'[i - 1] = msgQ[i])
  <2> SUFFICES ASSUME NEW i \in 1 .. Len(msgQ), i # 1
               PROVE  i - 1 \in 1 .. Len(msgQ') /\ msgQ'[i - 1] = msgQ[i]
    OBVIOUS
  <2>1. i - 1 \in 1 .. Len(msgQ') /\ (i - 1) + 1 = i
    BY <1>2
  <2> QED
    BY <1>2, <2>1
<1> HIDE DEF m
<1>4. Served' = IF Deciding(m) THEN Meant(m) ELSE Served
  BY Handled DEF m
<1>5. ASSUME ~restarted, \A i \in 1 .. Len(msgQ') : ~Deciding(msgQ'[i])
      PROVE  wanted = Served'
  <2>1. \A i \in 1 .. Len(msgQ) : i = 1 \/ ~Deciding(msgQ[i])
    BY <1>3, <1>5
  <2>2. 1 \in 1 .. Len(msgQ)
    BY <1>2
  <2>3. CASE Deciding(m)
    <3>1. LastAt(1)
      BY <1>2, <2>1, <2>3 DEF LastAt
    <3> QED
      BY <1>2, <1>4, <1>5, <2>2, <2>3, <3>1 DEF WantedInv
  <2>4. CASE ~Deciding(m)
    BY <1>2, <1>4, <1>5, <2>1, <2>4 DEF WantedInv
  <2> QED
    BY <2>3, <2>4
<1>6. ASSUME ~restarted, NEW i \in 1 .. Len(msgQ'), LastAt(i)'
      PROVE  wanted = Meant(msgQ'[i])
  <2>1. i + 1 \in 1 .. Len(msgQ) /\ msgQ'[i] = msgQ[i + 1]
    BY <1>2
  <2>2. ASSUME NEW j \in 1 .. Len(msgQ), i + 1 < j PROVE ~Deciding(msgQ[j])
    <3>1. j - 1 \in 1 .. Len(msgQ') /\ msgQ'[j - 1] = msgQ[j] /\ i < j - 1
      BY <1>2, <1>3, <2>2
    <3> QED
      BY <1>6, <3>1 DEF LastAt
  <2>3. LastAt(i + 1)
    BY <1>6, <2>1, <2>2 DEF LastAt
  <2> QED
    BY <1>6, <2>1, <2>3 DEF WantedInv
<1>7. ~mOdcpiRequestCb => \A i \in 1 .. Len(msgQ') : msgQ'[i] \notin Request
  BY <1>2 DEF WantedInv
<1> QED
  BY <1>1, <1>5, <1>6, <1>7, Handled DEF WantedInv

(* A message is posted: what it says is what the modem wants. *)
LEMMA WantedPosted ==
    ASSUME TimerInv, WantedInv, NEW k \in Message, Post(k),
           k \in Request => mOdcpiRequestCb,
           restarted' \in BOOLEAN /\ (restarted' => wanted' = "none"),
           \/ Deciding(k) /\ wanted' = Meant(k)
           \/ ~Deciding(k) /\ wanted' = wanted /\ restarted' = restarted
    PROVE  WantedInv'
<1>1. /\ msgQ' = Append(msgQ, k)
      /\ UNCHANGED <<mOdcpiRequestCb, mOdcpiRequestActive, mOdcpiRequest, mActive, asked>>
  BY DEF Post
<1>2. /\ Len(msgQ') = Len(msgQ) + 1 /\ Len(msgQ) \in Nat
      /\ \A i \in 1 .. Len(msgQ) : msgQ'[i] = msgQ[i]
      /\ msgQ'[Len(msgQ) + 1] = k
  BY <1>1, Appended DEF TimerInv
<1>3. \A i \in 1 .. Len(msgQ') : i = Len(msgQ) + 1 \/ i \in 1 .. Len(msgQ)
  BY <1>2
<1>4. Len(msgQ) + 1 \in 1 .. Len(msgQ') /\ \A i \in 1 .. Len(msgQ) : i \in 1 .. Len(msgQ') /\ i < Len(msgQ) + 1
  BY <1>2
<1>5. ~mOdcpiRequestCb' => \A i \in 1 .. Len(msgQ') : msgQ'[i] \notin Request
  BY <1>1, <1>2, <1>3 DEF WantedInv
<1>6. Served' = Served
  BY <1>1 DEF Served, Kind
<1>7. ASSUME ~restarted', \A i \in 1 .. Len(msgQ') : ~Deciding(msgQ'[i])
      PROVE  wanted' = Served'
  <2>1. ~Deciding(k) /\ \A i \in 1 .. Len(msgQ) : ~Deciding(msgQ[i])
    BY <1>2, <1>4, <1>7
  <2> QED
    BY <1>6, <1>7, <2>1 DEF WantedInv
<1>8. ASSUME ~restarted', NEW i \in 1 .. Len(msgQ'), LastAt(i)'
      PROVE  wanted' = Meant(msgQ'[i])
  <2>1. CASE Deciding(k)
    <3>1. i = Len(msgQ) + 1
      BY <1>2, <1>3, <1>4, <1>8, <2>1 DEF LastAt
    <3> QED
      BY <1>2, <2>1, <3>1
  <2>2. CASE ~Deciding(k)
    <3>1. i \in 1 .. Len(msgQ)
      BY <1>2, <1>3, <1>8, <2>2 DEF LastAt
    <3>2. LastAt(i)
      BY <1>2, <1>4, <1>8, <3>1 DEF LastAt
    <3> QED
      BY <1>2, <1>8, <2>2, <3>1, <3>2 DEF WantedInv
  <2> QED
    BY <2>1, <2>2
<1> QED
  BY <1>1, <1>5, <1>7, <1>8 DEF WantedInv

(* Every step keeps to what the modem wants. *)
LEMMA WantedStep ==
    ASSUME UpFirst, TimerInv, WantedInv, [Next]_vars
    PROVE  WantedInv'
<1>1. CASE HandleMessage
  BY <1>1, WantedHandled
<1>2. CASE initOdcpiCommand
  BY <1>2, WantedPosted DEF initOdcpiCommand, Message, Request, Deciding, WantedInv
<1>3. ASSUME NEW kind \in Request, requestOdcpiEvent(kind) PROVE WantedInv'
  <2>1. /\ Post(kind) /\ mOdcpiRequestCb /\ ~restarted /\ restarted' = restarted
        /\ wanted' = Meant(kind) /\ kind \in Message /\ Deciding(kind)
    BY <1>3, UpFirst DEF requestOdcpiEvent, Meant, Message, Request, Deciding
  <2>2. restarted' \in BOOLEAN /\ ~restarted'
    BY <2>1, Zenon DEF WantedInv
  <2> QED
    BY <2>1, <2>2, WantedPosted
<1>4. CASE odcpiTimerExpireEvent
  BY <1>4, WantedPosted DEF odcpiTimerExpireEvent, Message, Request, Deciding, WantedInv
<1>5. CASE handleEngineUpEvent
  <2>1. /\ Post("engineUp") /\ restarted /\ restarted' = FALSE /\ wanted' = wanted
        /\ "engineUp" \in Message /\ "engineUp" \notin Request /\ Deciding("engineUp")
        /\ Meant("engineUp") = "none"
    BY <1>5 DEF handleEngineUpEvent, Message, Request, Deciding, Meant
  <2> QED
    BY <2>1, WantedPosted DEF WantedInv
<1>6. CASE EngineRestart
  BY <1>6 DEF EngineRestart, WantedInv
<1>7. ASSUME UNCHANGED <<mOdcpiRequestCb, mOdcpiRequestActive, mOdcpiRequest, mActive, msgQ,
                         wanted, asked, restarted>>
      PROVE  WantedInv'
  BY <1>7 DEF WantedInv, Served, Kind, LastAt
<1> QED
  BY <1>1, <1>2, <1>3, <1>4, <1>5, <1>6, <1>7 DEF Next, Request, Tick, vars

(* The framework is not asked again before the period has passed, unless an *)
(* emergency replaces a request: where no request comes at the instant of   *)
(* an expiry.                                                               *)
THEOREM OdcpiNotSpammed ==
    ASSUME Alone, Period \in Nat \ {0}
    PROVE  Spec => []NotSpammed
<1>1. Init => TimerInv
  BY TimerInit
<1>2. TimerInv /\ [Next]_vars => TimerInv'
  BY Alone, Period \in Nat \ {0}, TimerStep
<1>3. TimerInv => NotSpammed
  BY DEF TimerInv, NotSpammed
<1> QED
  BY <1>1, <1>2, <1>3, PTL DEF Spec

(* While the modem wants positions the framework has been asked within the  *)
(* period and will be asked again; when it wants none that comes to an end. *)
THEOREM OdcpiWantedIsAsked ==
    ASSUME Alone, UpFirst, Period \in Nat \ {0}
    PROVE  Spec => []WantedIsAsked
<1> DEFINE I == TimerInv /\ WantedInv
<1>1. Init => I
  <2> SUFFICES ASSUME Init PROVE I
    OBVIOUS
  <2>1. TimerInv
    BY TimerInit
  <2>2. /\ Len(msgQ) = 0 /\ mOdcpiRequestCb = FALSE /\ mOdcpiRequestActive = FALSE
        /\ mOdcpiRequest = FALSE /\ restarted = FALSE /\ wanted = "none"
    BY DEF Init
  <2>3. Served = "none"
    BY <2>2 DEF Served
  <2>4. \A i \in 1 .. Len(msgQ) : FALSE
    BY <2>2
  <2> QED
    BY <2>1, <2>2, <2>3, <2>4, Zenon DEF WantedInv
<1>2. I /\ [Next]_vars => I'
  BY Alone, UpFirst, Period \in Nat \ {0}, TimerStep, WantedStep
<1>3. I => WantedIsAsked
  <2> SUFFICES ASSUME TimerInv, WantedInv, Quiescent
               PROVE  /\ mOdcpiRequestActive <=> wanted # "none"
                      /\ wanted # "none" => expiry # Never /\ now < askedAt + Period
                      /\ wanted = "emergency" => asked = "emergency"
                      /\ mActive <=> expiry # Never
    BY DEF WantedIsAsked
  <2>1. Len(msgQ) = 0 /\ ~restarted /\ expiry # now /\ msgQ = <<>>
    BY DEF Quiescent
  <2>2. wanted = Served
    BY <2>1 DEF WantedInv
  <2>3. mActive <=> expiry # Never
    BY <2>1 DEF TimerInv
  <2>4. mActive => now < askedAt + Period
    BY <2>1, <2>3 DEF TimerInv
  <2> QED
    BY <2>2, <2>3, <2>4 DEF Served, Kind, WantedInv
<1> QED
  BY <1>1, <1>2, <1>3, PTL DEF Spec
=============================================================================
