------------------------------ MODULE NiProofs ------------------------------
(***************************************************************************)
(* SessionsAreWhole for any requests of the network and any configuration: *)
(* a session in progress has the one thread that will end it, the raw data *)
(* of a request is disposed of at most once, no request joins an emergency *)
(* and none is accepted without a user. The strengthening says where the   *)
(* duty to dispose of a request's data is: in the message that announces   *)
(* it, in the thread of its session, in what that thread is to send, or in *)
(* the message it has sent; in one of these at a time, and only while the  *)
(* data is there. Its second part follows an ACCEPT from the user to the   *)
(* modem.                                                                  *)
(***************************************************************************)
EXTENDS Ni, SequenceTheorems, TLAPS

USE NiAssumption

Waiting == {"created", "waiting", "expired"}
MessageRec ==
    [kind : {"notify"}, r : Request, isInEmergency : BOOLEAN]
    \cup [kind : {"userResponse"}, id : Nat, x : UserResponse]
    \cup [kind : {"inform"}, r : Request, x : Response]
    \cup [kind : {"engineUp"}]
WriteRec == [k : Session, x : Response, id : Nat]
Disposal == Response \cup {"freed"}

QueuesOK ==
    /\ msgQ \in Seq(MessageRec)
    /\ todo \in Seq(WriteRec)
    /\ disposals \in [Request -> Seq(Disposal)]

about(q, kind, r) == {i \in 1 .. Len(q) : q[i].kind = kind /\ q[i].r = r}

NotifyOK ==
    \A r \in Request : \A i \in about(msgQ, "notify", r) :
        /\ r \in notified /\ pc[r] = "none" /\ disposals[r] = <<>>
        /\ \A j \in about(msgQ, "notify", r) : j = i

InformOK ==
    \A r \in Request : \A i \in about(msgQ, "inform", r) :
        /\ pc[r] = "done" /\ disposals[r] = <<>>
        /\ \A j \in about(msgQ, "inform", r) : j = i

PhaseOK ==
    \A r \in Request :
        /\ r \notin notified => pc[r] = "none" /\ disposals[r] = <<>>
        /\ pc[r] \in Waiting => disposals[r] = <<>> /\ result[r] = NoResult
        /\ pc[r] = "none" => result[r] = NoResult
        /\ pc[r] \in {"unlocked", "cleared"} /\ result[r] # NoResult => disposals[r] = <<>>
        /\ result[r] # NoResult => result[r].r = r
        /\ Len(disposals[r]) <= 1

SessionOK ==
    /\ \A k \in Session : rawRequest[k] # NoRequest => sessionOf(rawRequest[k]) = k
    /\ \A r \in Request : rawRequest[sessionOf(r)] = r <=> pc[r] \in Waiting

DutyOK == NotifyOK /\ InformOK /\ PhaseOK

IInv == TypeOK /\ QueuesOK /\ DutyOK /\ SessionOK /\ EmergencyIsNotJoined

(* Every request has its session. *)
LEMMA SessionOfRequest ==
    ASSUME NEW r \in Request
    PROVE  sessionOf(r) \in Session /\ r # NoRequest
BY DEF sessionOf, Session

(* What a message carries, by its kind. *)
LEMMA MessageTyped ==
    ASSUME NEW m \in MessageRec
    PROVE  /\ m.kind \in {"notify", "userResponse", "inform", "engineUp"}
           /\ m.kind = "notify" => m.r \in Request
           /\ m.kind = "userResponse" => m.id \in Nat /\ m.x \in UserResponse
           /\ m.kind = "inform" => m.r \in Request /\ m.x \in Response
BY DEF MessageRec

(* Where the messages about a request stand once one is appended, *)
LEMMA AboutAppend ==
    ASSUME QueuesOK, NEW m \in MessageRec, msgQ' = Append(msgQ, m), NEW kind, NEW r
    PROVE  about(msgQ', kind, r) = about(msgQ, kind, r) \cup
               (IF m.kind = kind /\ m.r = r THEN {Len(msgQ) + 1} ELSE {})
<1>1. /\ Len(msgQ) \in Nat
      /\ Len(msgQ') = Len(msgQ) + 1
      /\ \A i \in 1..Len(msgQ) : msgQ'[i] = msgQ[i]
      /\ msgQ'[Len(msgQ) + 1] = m
  BY AppendProperties, LenProperties DEF QueuesOK
<1> QED
  BY <1>1 DEF about

(* ... unchanged where the message is of another kind or about another request, ... *)
LEMMA AboutOther ==
    ASSUME QueuesOK, NEW m \in MessageRec, msgQ' = Append(msgQ, m), NEW kind, NEW r,
           m.kind # kind \/ m.r # r
    PROVE  about(msgQ', kind, r) = about(msgQ, kind, r)
<1>1. about(msgQ', kind, r) = about(msgQ, kind, r) \cup
          (IF m.kind = kind /\ m.r = r THEN {Len(msgQ) + 1} ELSE {})
  BY AboutAppend
<1> QED
  BY <1>1

(* ... and once the first is taken. *)
LEMMA AboutTail ==
    ASSUME QueuesOK, msgQ # <<>>, msgQ' = Tail(msgQ), NEW kind, NEW r
    PROVE  /\ \A i \in about(msgQ', kind, r) : i \in Nat \ {0} /\ i + 1 \in about(msgQ, kind, r)
           /\ 1 \in about(msgQ, kind, r) <=> Head(msgQ).kind = kind /\ Head(msgQ).r = r
<1>1. /\ Len(msgQ) \in Nat \ {0}
      /\ Len(msgQ') = Len(msgQ) - 1
      /\ \A i \in 1..Len(msgQ') : msgQ'[i] = msgQ[i + 1]
      /\ Head(msgQ) = msgQ[1]
  BY HeadTailProperties, LenProperties, EmptySeq DEF QueuesOK
<1>2. ASSUME NEW i \in about(msgQ', kind, r)
      PROVE  i \in Nat \ {0} /\ i + 1 \in about(msgQ, kind, r)
  BY <1>1, <1>2 DEF about
<1> QED
  BY <1>1, <1>2 DEF about

(* Messages of the user or of the modem change nobody's duty. *)
LEMMA PostStep ==
    ASSUME QueuesOK, DutyOK, NEW m \in MessageRec, m.kind \in {"userResponse", "engineUp"},
           msgQ' = Append(msgQ, m), UNCHANGED <<pc, result, disposals, notified>>
    PROVE  DutyOK'
<1>1. \A kind \in {"notify", "inform"} : \A r \in Request :
          about(msgQ', kind, r) = about(msgQ, kind, r)
  <2> SUFFICES ASSUME NEW kind \in {"notify", "inform"}, NEW r \in Request
               PROVE  about(msgQ', kind, r) = about(msgQ, kind, r)
    OBVIOUS
  <2>1. m.kind # kind
    OBVIOUS
  <2>2. about(msgQ', kind, r) = about(msgQ, kind, r) \cup
            (IF m.kind = kind /\ m.r = r THEN {Len(msgQ) + 1} ELSE {})
    BY AboutAppend
  <2> QED
    BY <2>1, <2>2
<1> QED
  BY <1>1 DEF DutyOK, NotifyOK, InformOK, PhaseOK

(* The first message taken, the others keep what they stand for, ... *)
LEMMA TailDuties ==
    ASSUME QueuesOK, DutyOK, msgQ # <<>>, msgQ' = Tail(msgQ), notified' = notified,
           NEW r \in Request, pc' = [pc EXCEPT ![r] = pc'[r]], TypeOK,
           \A q \in Request \ {r} : disposals'[q] = disposals[q],
           about(msgQ', "notify", r) = {}, about(msgQ', "inform", r) = {}
    PROVE  NotifyOK' /\ InformOK'
<1>1. \A q \in Request \ {r} : pc'[q] = pc[q]
  BY DEF TypeOK
<1>2. \A q \in Request : \A k \in {"notify", "inform"} :
        \A i \in about(msgQ', k, q) : i \in Nat \ {0} /\ i + 1 \in about(msgQ, k, q)
  BY AboutTail
<1>3. NotifyOK'
  BY <1>1, <1>2 DEF DutyOK, NotifyOK
<1>4. InformOK'
  BY <1>1, <1>2 DEF DutyOK, InformOK
<1> QED
  BY <1>3, <1>4
(* The outcomes of a request: answered or freed, passed over, or shown. *)
LEMMA NotifyOutcome ==
    ASSUME NEW r \in Request, NEW e \in BOOLEAN, TypeOK, QueuesOK, todo = <<>>,
           requestNiNotifyEvent(r, e)
    PROVE  \/ /\ \E d \in Disposal : dispose(r, d)
              /\ closed /\ todo' \in Seq(WriteRec)
           \/ closed /\ UNCHANGED <<disposals, todo>>
           \/ /\ openSession(sessionOf(r), r) /\ ~busy(sessionOf(r))
              /\ UNCHANGED <<disposals, todo>>
<1>1. {"ACCEPT", "DENY", "freed"} \subseteq Disposal
  BY DEF Disposal, Response, UserResponse
<1>2. ignoreNi \in Seq(WriteRec)
  <2>1. write(NI, "IGNORE", 0) \in WriteRec
    BY DEF write, WriteRec, Session, Response
  <2> QED
    BY <2>1, EmptySeq DEF ignoreNi
<1>3. todo \in Seq(WriteRec)
  BY DEF QueuesOK
<1>4. CASE requestNiNotify(r)
  BY <1>1, <1>2, <1>3, <1>4 DEF requestNiNotify, informNiResponse, free
<1>5. CASE (informNiResponse(r, "DENY") \/ informNiResponse(r, "ACCEPT")) /\ closed /\ UNCHANGED todo
  BY <1>1, <1>3, <1>5 DEF informNiResponse
<1> QED
  BY <1>4, <1>5 DEF requestNiNotifyEvent

(* Disposing of one request's data, which was there. *)
LEMMA DisposeStep ==
    ASSUME QueuesOK, NEW r \in Request, NEW d \in Disposal, dispose(r, d), disposals[r] = <<>>
    PROVE  /\ disposals' \in [Request -> Seq(Disposal)]
           /\ Len(disposals'[r]) = 1
           /\ \A q \in Request \ {r} : disposals'[q] = disposals[q]
<1>1. disposals' = [disposals EXCEPT ![r] = Append(disposals[r], d)]
  BY DEF dispose
<1>2. Append(<<>>, d) \in Seq(Disposal) /\ Len(Append(<<>>, d)) = 1
  BY EmptySeq, AppendProperties
<1> QED
  BY <1>1, <1>2 DEF QueuesOK

(* A message handled that concerns no request's duty. *)
LEMMA TailKeeps ==
    ASSUME QueuesOK, DutyOK, msgQ # <<>>, msgQ' = Tail(msgQ),
           UNCHANGED <<pc, result, disposals, notified>>
    PROVE  DutyOK'
<1>1. \A q \in Request : \A k \in {"notify", "inform"} :
        \A i \in about(msgQ', k, q) : i \in Nat \ {0} /\ i + 1 \in about(msgQ, k, q)
  BY AboutTail
<1>2. NotifyOK'
  BY <1>1 DEF DutyOK, NotifyOK
<1>3. InformOK'
  BY <1>1 DEF DutyOK, InformOK
<1>4. PhaseOK'
  BY DEF DutyOK, PhaseOK
<1> QED
  BY <1>2, <1>3, <1>4 DEF DutyOK

(* The message that announced a request was the only one, and no other is left. *)
LEMMA NotifyIsLast ==
    ASSUME QueuesOK, DutyOK, msgQ # <<>>, msgQ' = Tail(msgQ),
           Head(msgQ).kind = "notify", NEW r \in Request, Head(msgQ).r = r
    PROVE  /\ r \in notified /\ pc[r] = "none" /\ disposals[r] = <<>> /\ result[r] = NoResult
           /\ about(msgQ', "notify", r) = {} /\ about(msgQ', "inform", r) = {}
<1>1. 1 \in about(msgQ, "notify", r)
  BY AboutTail
<1>2. r \in notified /\ pc[r] = "none" /\ disposals[r] = <<>> /\ result[r] = NoResult
  BY <1>1 DEF DutyOK, NotifyOK, PhaseOK
<1>3. \A j \in about(msgQ, "notify", r) : j = 1
  BY <1>1 DEF DutyOK, NotifyOK
<1>4. about(msgQ, "inform", r) = {}
  BY <1>2 DEF DutyOK, InformOK
<1>5. \A k \in {"notify", "inform"} :
        \A i \in about(msgQ', k, r) : i \in Nat \ {0} /\ i + 1 \in about(msgQ, k, r)
  BY AboutTail
<1> QED
  BY <1>2, <1>3, <1>4, <1>5

(* ... and so was the message that hands its data to the modem. *)
LEMMA InformIsLast ==
    ASSUME QueuesOK, DutyOK, msgQ # <<>>, msgQ' = Tail(msgQ),
           Head(msgQ).kind = "inform", NEW r \in Request, Head(msgQ).r = r
    PROVE  /\ r \in notified /\ pc[r] = "done" /\ disposals[r] = <<>>
           /\ about(msgQ', "notify", r) = {} /\ about(msgQ', "inform", r) = {}
<1>1. 1 \in about(msgQ, "inform", r)
  BY AboutTail
<1>2. r \in notified /\ pc[r] = "done" /\ disposals[r] = <<>>
  BY <1>1 DEF DutyOK, InformOK, PhaseOK
<1>3. \A j \in about(msgQ, "inform", r) : j = 1
  BY <1>1 DEF DutyOK, InformOK
<1>4. about(msgQ, "notify", r) = {}
  BY <1>2 DEF DutyOK, NotifyOK
<1>5. \A k \in {"notify", "inform"} :
        \A i \in about(msgQ', k, r) : i \in Nat \ {0} /\ i + 1 \in about(msgQ, k, r)
  BY AboutTail
<1> QED
  BY <1>2, <1>3, <1>4, <1>5

(* The data of the request that the first message is about is disposed of. *)
LEMMA DisposeAtHead ==
    ASSUME TypeOK, QueuesOK, DutyOK, msgQ # <<>>, msgQ' = Tail(msgQ),
           Head(msgQ).kind \in {"notify", "inform"}, NEW r \in Request, Head(msgQ).r = r,
           NEW d \in Disposal, dispose(r, d), UNCHANGED <<pc, result, notified>>
    PROVE  DutyOK' /\ disposals' \in [Request -> Seq(Disposal)]
<1>1. /\ r \in notified /\ pc[r] \in {"none", "done"} /\ disposals[r] = <<>>
      /\ about(msgQ', "notify", r) = {} /\ about(msgQ', "inform", r) = {}
  BY NotifyIsLast, InformIsLast
<1>2. /\ disposals' \in [Request -> Seq(Disposal)]
      /\ Len(disposals'[r]) = 1
      /\ \A q \in Request \ {r} : disposals'[q] = disposals[q]
  BY <1>1, DisposeStep
<1>3. NotifyOK' /\ InformOK'
  BY <1>1, <1>2, TailDuties DEF TypeOK
<1>4. PhaseOK'
  <2>1. ASSUME NEW q \in Request \ {r}
        PROVE  /\ q \notin notified' => pc'[q] = "none" /\ disposals'[q] = <<>>
               /\ pc'[q] \in Waiting => disposals'[q] = <<>> /\ result'[q] = NoResult
               /\ pc'[q] = "none" => result'[q] = NoResult
               /\ pc'[q] \in {"unlocked", "cleared"} /\ result'[q] # NoResult
                    => disposals'[q] = <<>>
               /\ result'[q] # NoResult => result'[q].r = q
               /\ Len(disposals'[q]) <= 1
    BY <1>2, <2>1 DEF DutyOK, PhaseOK
  <2>2. /\ r \in notified' /\ pc'[r] \notin Waiting
        /\ pc'[r] \notin {"unlocked", "cleared"}
        /\ pc'[r] = "none" => result'[r] = NoResult
        /\ result'[r] # NoResult => result'[r].r = r
        /\ Len(disposals'[r]) <= 1
    BY <1>1, <1>2 DEF DutyOK, PhaseOK, Waiting
  <2> QED
    BY <2>1, <2>2 DEF PhaseOK
<1> QED
  BY <1>2, <1>3, <1>4 DEF DutyOK
(* A request shown: its session is taken, and its thread has the duty. *)
LEMMA OpenStep ==
    ASSUME IInv, msgQ # <<>>, msgQ' = Tail(msgQ), Head(msgQ).kind = "notify",
           NEW r \in Request, Head(msgQ).r = r, openSession(sessionOf(r), r),
           ~busy(sessionOf(r)), UNCHANGED <<disposals, result, notified, respRecvd, resp, fullTime,
                                            niClient, user>>
    PROVE  TypeOK' /\ DutyOK' /\ SessionOK' /\ EmergencyIsNotJoined'
<1> DEFINE k == sessionOf(r)
<1>1. TypeOK /\ QueuesOK /\ DutyOK /\ SessionOK /\ k \in Session /\ r # NoRequest
  BY SessionOfRequest DEF IInv
<1>2. /\ rawRequest' = [rawRequest EXCEPT ![k] = r]
      /\ reqIDCounter' = reqIDCounter + 1
      /\ reqID' = [reqID EXCEPT ![k] = reqIDCounter + 1]
      /\ respTimeLeft' = [respTimeLeft EXCEPT ![k] = TRUE]
      /\ pc' = [pc EXCEPT ![r] = "created"]
      /\ shown' = [shown EXCEPT ![r] = reqIDCounter + 1]
  BY DEF openSession
<1>3. rawRequest[k] = NoRequest
  BY <1>1 DEF busy, Session
<1>4. /\ r \in notified /\ pc[r] = "none" /\ disposals[r] = <<>> /\ result[r] = NoResult
      /\ about(msgQ', "notify", r) = {} /\ about(msgQ', "inform", r) = {}
  BY <1>1, NotifyIsLast
<1>5. TypeOK'
  <2>1. reqIDCounter \in Nat /\ 0..reqIDCounter \subseteq 0..reqIDCounter'
        /\ reqIDCounter + 1 \in 0..reqIDCounter'
    BY <1>1, <1>2 DEF TypeOK
  <2>2. reqID' \in [Session -> 0..reqIDCounter'] /\ shown' \in [Request -> 0..reqIDCounter']
    BY <1>1, <1>2, <2>1 DEF TypeOK
  <2>3. rawRequest' \in [Session -> Request \cup {NoRequest}]
    BY <1>1, <1>2 DEF TypeOK
  <2>4. /\ respTimeLeft' \in [Session -> BOOLEAN]
        /\ pc' \in [Request -> {"none", "created", "waiting", "expired", "unlocked",
                                "cleared", "done"}]
    BY <1>1, <1>2 DEF TypeOK
  <2> QED
    BY <1>1, <1>2, <2>1, <2>2, <2>3, <2>4 DEF TypeOK
<1>6. NotifyOK' /\ InformOK'
  <2>1. pc' = [pc EXCEPT ![r] = pc'[r]]
    BY <1>1, <1>2 DEF TypeOK
  <2> QED
    BY <1>1, <1>4, <2>1, TailDuties
<1>7. PhaseOK'
  BY <1>1, <1>2, <1>4 DEF TypeOK, DutyOK, PhaseOK
<1>8. SessionOK'
  <2>1. \A j \in Session : rawRequest'[j] # NoRequest => sessionOf(rawRequest'[j]) = j
    BY <1>1, <1>2 DEF SessionOK, TypeOK
  <2>2. ASSUME NEW q \in Request
        PROVE  rawRequest'[sessionOf(q)] = q <=> pc'[q] \in Waiting
    <3>1. CASE q = r
      BY <1>1, <1>2, <3>1 DEF TypeOK, Waiting
    <3>2. CASE q # r /\ sessionOf(q) = k
      BY <1>1, <1>2, <1>3, <3>2, SessionOfRequest DEF TypeOK, SessionOK
    <3>3. CASE q # r /\ sessionOf(q) # k
      BY <1>1, <1>2, <3>3, SessionOfRequest DEF TypeOK, SessionOK
    <3> QED
      BY <3>1, <3>2, <3>3
  <2> QED
    BY <2>1, <2>2 DEF SessionOK
<1>9. EmergencyIsNotJoined'
  <2>1. CASE k = ES
    <3>1. SUFFICES ASSUME rawRequest[NI] # NoRequest
                   PROVE  shown'[rawRequest'[NI]] < shown'[rawRequest'[ES]]
      BY <1>1, <1>2, <2>1 DEF EmergencyIsNotJoined, Session, TypeOK, ES, NI
    <3>2. /\ rawRequest'[ES] = r /\ rawRequest'[NI] = rawRequest[NI]
          /\ rawRequest[NI] \in Request /\ rawRequest[NI] # r
      BY <1>1, <1>2, <2>1, <3>1 DEF SessionOK, TypeOK, Session, ES, NI
    <3>3. shown[rawRequest[NI]] \in 0..reqIDCounter /\ reqIDCounter \in Nat
      BY <1>1, <3>2 DEF TypeOK
    <3>4. shown'[rawRequest[NI]] = shown[rawRequest[NI]] /\ shown'[r] = reqIDCounter + 1
      BY <1>1, <1>2, <3>2 DEF TypeOK
    <3> QED
      BY <3>2, <3>3, <3>4
  <2>2. CASE k = NI
    <3>1. rawRequest[ES] = NoRequest
      BY <2>2 DEF busy, ES, NI
    <3>2. rawRequest'[ES] = NoRequest
      BY <1>1, <1>2, <2>2, <3>1 DEF TypeOK, Session, ES, NI
    <3> QED
      BY <3>2 DEF EmergencyIsNotJoined, Session
  <2> QED
    BY <1>1, <2>1, <2>2 DEF Session
<1> QED
  BY <1>5, <1>6, <1>7, <1>8, <1>9 DEF DutyOK

(* The user's answer is to be written to a session. *)
LEMMA AnswerTyped ==
    ASSUME NEW id \in Nat, NEW x \in UserResponse, gnssNiResponseCommand(id, x)
    PROVE  todo' \in Seq(WriteRec)
<1>1. write(ES, x, id) \in WriteRec /\ write(NI, x, id) \in WriteRec
      /\ write(NI, "IGNORE", 0) \in WriteRec
  BY DEF write, WriteRec, Session, Response, ES, NI
<1>2. /\ <<>> \in Seq(WriteRec) /\ <<write(ES, x, id)>> \in Seq(WriteRec)
      /\ <<write(NI, x, id)>> \in Seq(WriteRec) /\ <<write(NI, "IGNORE", 0)>> \in Seq(WriteRec)
  BY <1>1, EmptySeq
<1>3. ignoreNi \in Seq(WriteRec)
  BY <1>2 DEF ignoreNi
<1> DEFINE S == IF x = "ACCEPT" THEN ignoreNi ELSE <<>>
           A == <<write(ES, x, id)>>
           B == <<write(NI, x, id)>>
<1>4. S \in Seq(WriteRec) /\ A \in Seq(WriteRec) /\ B \in Seq(WriteRec)
  BY <1>2, <1>3
<1>5. todo' \in {<<>>, S \o A, B}
  BY DEF gnssNiResponseCommand
<1> HIDE DEF S, A, B
<1>6. S \o A \in Seq(WriteRec)
  BY <1>4, ConcatProperties
<1> QED
  BY <1>2, <1>4, <1>5, <1>6

(* The adapter's thread handles a message. *)
LEMMA MessageStep ==
    ASSUME IInv, HandleMessage
    PROVE  IInv'
<1> DEFINE m == Head(msgQ)
<1>1. /\ todo = <<>> /\ msgQ # <<>> /\ msgQ' = Tail(msgQ)
      /\ TypeOK /\ QueuesOK /\ DutyOK /\ SessionOK /\ EmergencyIsNotJoined
      /\ UNCHANGED <<answer, fullTime, result, niClient, world>>
  BY DEF HandleMessage, IInv
<1>2. m \in MessageRec /\ msgQ' \in Seq(MessageRec)
  BY <1>1, HeadTailProperties DEF QueuesOK
<1>3. UNCHANGED <<respRecvd, resp, fullTime, result, niClient, notified, user>>
  BY <1>1 DEF answer, world
<1>4. closed => TypeOK' /\ SessionOK' /\ EmergencyIsNotJoined'
  BY <1>1, <1>3 DEF closed, session, TypeOK, SessionOK, EmergencyIsNotJoined
<1>5. closed => pc' = pc
  BY DEF closed
<1>6. CASE m.kind = "notify" /\ requestNiNotifyEvent(m.r, m.isInEmergency)
  <2>1. m.r \in Request /\ m.isInEmergency \in BOOLEAN
    BY <1>2, <1>6 DEF MessageRec
  <2>2. CASE \E d \in Disposal : dispose(m.r, d) /\ closed /\ todo' \in Seq(WriteRec)
    <3>1. DutyOK' /\ disposals' \in [Request -> Seq(Disposal)]
      BY <1>1, <1>3, <1>5, <1>6, <2>1, <2>2, DisposeAtHead
    <3> QED
      BY <1>2, <1>4, <2>2, <3>1 DEF IInv, QueuesOK
  <2>3. CASE closed /\ UNCHANGED <<disposals, todo>>
    <3>1. DutyOK'
      BY <1>1, <1>3, <1>5, <2>3, TailKeeps
    <3> QED
      BY <1>1, <1>2, <1>4, <2>3, <3>1 DEF IInv, QueuesOK
  <2>4. CASE /\ openSession(sessionOf(m.r), m.r) /\ ~busy(sessionOf(m.r))
             /\ UNCHANGED <<disposals, todo>>
    <3>1. TypeOK' /\ DutyOK' /\ SessionOK' /\ EmergencyIsNotJoined'
      BY <1>1, <1>3, <1>6, <2>1, <2>4, OpenStep
    <3> QED
      BY <1>1, <1>2, <2>4, <3>1 DEF IInv, QueuesOK
  <2> QED
    BY <1>1, <1>6, <2>1, <2>2, <2>3, <2>4, NotifyOutcome
<1>7. CASE /\ m.kind = "userResponse" /\ gnssNiResponseCommand(m.id, m.x)
           /\ closed /\ UNCHANGED disposals
  <2>1. todo' \in Seq(WriteRec)
    BY <1>2, <1>7, MessageTyped, AnswerTyped
  <2>2. DutyOK'
    BY <1>1, <1>3, <1>5, <1>7, TailKeeps
  <2> QED
    BY <1>1, <1>2, <1>4, <1>7, <2>1, <2>2 DEF IInv, QueuesOK
<1>8. CASE m.kind = "inform" /\ informNiResponse(m.r, m.x) /\ closed /\ UNCHANGED todo
  <2>1. m.r \in Request /\ m.x \in Disposal
    BY <1>2, <1>8, MessageTyped DEF Disposal
  <2>2. DutyOK' /\ disposals' \in [Request -> Seq(Disposal)]
    BY <1>1, <1>3, <1>5, <1>8, <2>1, DisposeAtHead DEF informNiResponse
  <2> QED
    BY <1>1, <1>2, <1>4, <1>8, <2>2 DEF IInv, QueuesOK
<1>9. CASE closed /\ UNCHANGED <<disposals, todo>>
  <2>1. DutyOK'
    BY <1>1, <1>3, <1>5, <1>9, TailKeeps
  <2> QED
    BY <1>1, <1>2, <1>4, <1>9, <2>1 DEF IInv, QueuesOK
<1> QED
  BY <1>6, <1>7, <1>8, <1>9 DEF HandleMessage

(* The adapter's thread writes an answer to a session. *)
LEMMA WriteStep ==
    ASSUME IInv, WriteAnswer
    PROVE  IInv'
<1>1. /\ todo # <<>> /\ todo' = Tail(todo)
      /\ UNCHANGED <<session, thread, niClient, msgQ, shown, world, disposals>>
      /\ resp' = [resp EXCEPT ![Head(todo).k] = Head(todo).x]
      /\ respRecvd' = [respRecvd EXCEPT ![Head(todo).k] = TRUE]
  BY DEF WriteAnswer
<1>2. todo' \in Seq(WriteRec) /\ Head(todo) \in WriteRec
  BY <1>1, HeadTailProperties DEF IInv, QueuesOK
<1>3. TypeOK'
  <2>1. resp' \in [Session -> Response] /\ respRecvd' \in [Session -> BOOLEAN]
    BY <1>1, <1>2 DEF IInv, TypeOK, WriteRec
  <2> QED
    BY <1>1, <2>1 DEF IInv, TypeOK, session, thread, world
<1>4. DutyOK' /\ SessionOK' /\ EmergencyIsNotJoined'
  BY <1>1 DEF IInv, session, thread, world, DutyOK, NotifyOK, InformOK, PhaseOK, SessionOK,
              EmergencyIsNotJoined
<1>5. QueuesOK'
  BY <1>1, <1>2 DEF IInv, QueuesOK
<1> QED
  BY <1>3, <1>4, <1>5 DEF IInv

(* A thread that goes on, within its wait or after it, keeps its duty. *)
LEMMA ThreadKeeps ==
    ASSUME IInv, NEW r \in Request, NEW l, goto(r, l),
           \/ pc[r] = "created" /\ l = "waiting"
           \/ pc[r] = "waiting" /\ l = "expired"
           \/ pc[r] = "unlocked" /\ l = "cleared",
           UNCHANGED <<rawRequest, result, msgQ, disposals, todo, shown, notified>>
    PROVE  QueuesOK' /\ DutyOK' /\ SessionOK' /\ EmergencyIsNotJoined'
<1>1. /\ pc' = [pc EXCEPT ![r] = l] /\ pc \in [Request -> {"none", "created", "waiting",
                                          "expired", "unlocked", "cleared", "done"}]
      /\ QueuesOK /\ DutyOK /\ SessionOK /\ EmergencyIsNotJoined
  BY DEF goto, IInv, TypeOK
<1>2. NotifyOK' /\ InformOK'
  BY <1>1 DEF DutyOK, NotifyOK, InformOK
<1>3. PhaseOK'
  BY <1>1 DEF DutyOK, PhaseOK, Waiting
<1>4. SessionOK'
  BY <1>1 DEF SessionOK, Waiting
<1> QED
  BY <1>1, <1>2, <1>3, <1>4 DEF QueuesOK, DutyOK, EmergencyIsNotJoined

(* Begin, Expire and ClearTime. *)
LEMMA WaitSteps ==
    ASSUME IInv, NEW r \in Request, Begin(r) \/ Expire(r) \/ ClearTime(r)
    PROVE  IInv'
<1>1. TypeOK /\ sessionOf(r) \in Session
  BY SessionOfRequest DEF IInv
<1>2. TypeOK'
  <2>1. /\ respTimeLeft' \in [Session -> BOOLEAN] /\ fullTime' \in [Request -> BOOLEAN]
        /\ pc' \in [Request -> {"none", "created", "waiting", "expired", "unlocked", "cleared",
                                "done"}]
    BY <1>1 DEF Begin, Expire, ClearTime, goto, TypeOK, session
  <2>2. UNCHANGED <<rawRequest, reqID, reqIDCounter, respRecvd, resp, result, niClient, shown, user>>
    BY DEF Begin, Expire, ClearTime, session, answer, threadOnly, world
  <2> QED
    BY <1>1, <2>1, <2>2 DEF TypeOK
<1>3. UNCHANGED <<rawRequest, result, msgQ, disposals, todo, shown, notified>>
  BY DEF Begin, Expire, ClearTime, session, threadOnly, world
<1>4. QueuesOK' /\ DutyOK' /\ SessionOK' /\ EmergencyIsNotJoined'
  BY <1>3, ThreadKeeps DEF Begin, Expire, ClearTime
<1> QED
  BY <1>2, <1>4 DEF IInv

(* The thread ends the session: the duty is its result, or is done with. *)
LEMMA TakeStep ==
    ASSUME IInv, NEW r \in Request, Take(r)
    PROVE  IInv'
<1> DEFINE k == sessionOf(r)
           x == IF pc[r] = "expired" THEN "NO_RESPONSE" ELSE resp[k]
           sent == [r |-> r, x |-> x]
<1>1. TypeOK /\ QueuesOK /\ DutyOK /\ SessionOK /\ EmergencyIsNotJoined /\ k \in Session
      /\ r # NoRequest
  BY SessionOfRequest DEF IInv
<1>2. pc[r] \in {"waiting", "expired"} /\ pc[r] \in Waiting
  BY DEF Take, ready, Waiting
<1>3. rawRequest[k] = r /\ disposals[r] = <<>> /\ result[r] = NoResult
  BY <1>1, <1>2 DEF SessionOK, DutyOK, PhaseOK
<1>4. x \in Response
  BY <1>1 DEF TypeOK, Response
<1>5. /\ resp' = [resp EXCEPT ![k] = x]
      /\ respRecvd' = [respRecvd EXCEPT ![k] = FALSE]
      /\ rawRequest' = [rawRequest EXCEPT ![k] = NoRequest]
      /\ pc' = [pc EXCEPT ![r] = "unlocked"]
      /\ UNCHANGED <<reqID, respTimeLeft, reqIDCounter, fullTime, msgQ, niClient, todo, shown,
                     notified, user>>
      /\ \/ x # "IGNORE" /\ result' = [result EXCEPT ![r] = sent] /\ UNCHANGED disposals
         \/ x = "IGNORE" /\ UNCHANGED result /\ dispose(r, "freed")
  BY <1>1, <1>3 DEF Take, sends, frees, free, goto, threadOnly, world
<1>6. /\ disposals' \in [Request -> Seq(Disposal)]
      /\ \A q \in Request \ {r} : disposals'[q] = disposals[q]
      /\ \/ result'[r] = sent /\ disposals'[r] = <<>>
         \/ result'[r] = NoResult /\ Len(disposals'[r]) = 1
      /\ \A q \in Request \ {r} : result'[q] = result[q]
  <2>1. CASE x # "IGNORE"
    BY <1>1, <1>3, <1>5, <2>1 DEF QueuesOK, TypeOK
  <2>2. CASE x = "IGNORE"
    BY <1>1, <1>3, <1>5, <2>2, DisposeStep DEF Disposal
  <2> QED
    BY <2>1, <2>2
<1>7. TypeOK'
  <2>1. resp' \in [Session -> Response] /\ respRecvd' \in [Session -> BOOLEAN]
    BY <1>1, <1>4, <1>5 DEF TypeOK
  <2>2. result' \in [Request -> [r : Request, x : Response \ {"IGNORE"}] \cup {NoResult}]
    <3>1. CASE x # "IGNORE"
      <4>1. sent \in [r : Request, x : Response \ {"IGNORE"}]
        BY <1>4, <3>1
      <4> HIDE DEF sent
      <4> QED
        BY <1>1, <1>5, <3>1, <4>1 DEF TypeOK
    <3>2. CASE x = "IGNORE"
      BY <1>1, <1>5, <3>2 DEF TypeOK
    <3> QED
      BY <3>1, <3>2
  <2>3. /\ rawRequest' \in [Session -> Request \cup {NoRequest}]
        /\ pc' \in [Request -> {"none", "created", "waiting", "expired", "unlocked", "cleared",
                                "done"}]
    BY <1>1, <1>5 DEF TypeOK
  <2> QED
    BY <1>1, <1>5, <2>1, <2>2, <2>3 DEF TypeOK
<1>8. \A q \in Request \ {r} : pc'[q] = pc[q]
  BY <1>5 DEF TypeOK
<1>9. pc'[r] = "unlocked"
  BY <1>1, <1>5 DEF TypeOK
<1>10. sent.r = r /\ sent # NoResult
  <2>1. NoResult.r = NoRequest /\ sent.r = r
    BY DEF NoResult
  <2> QED
    BY <1>1, <2>1
<1> HIDE DEF x, sent
<1>11. NotifyOK' /\ InformOK'
  <2>1. about(msgQ, "notify", r) = {} /\ about(msgQ, "inform", r) = {}
    BY <1>1, <1>2 DEF DutyOK, NotifyOK, InformOK
  <2> QED
    BY <1>1, <1>5, <1>6, <1>8, <2>1 DEF DutyOK, NotifyOK, InformOK
<1>12. PhaseOK'
  <2>1. ASSUME NEW q \in Request \ {r}
        PROVE  /\ q \notin notified' => pc'[q] = "none" /\ disposals'[q] = <<>>
               /\ pc'[q] \in Waiting => disposals'[q] = <<>> /\ result'[q] = NoResult
               /\ pc'[q] = "none" => result'[q] = NoResult
               /\ pc'[q] \in {"unlocked", "cleared"} /\ result'[q] # NoResult
                    => disposals'[q] = <<>>
               /\ result'[q] # NoResult => result'[q].r = q
               /\ Len(disposals'[q]) <= 1
    BY <1>1, <1>5, <1>6, <1>8, <2>1 DEF DutyOK, PhaseOK
  <2>2. r \in notified'
    BY <1>1, <1>2, <1>5 DEF DutyOK, PhaseOK
  <2>3. /\ result'[r] # NoResult => disposals'[r] = <<>> /\ result'[r].r = r
        /\ Len(disposals'[r]) <= 1
    <3>1. CASE result'[r] = sent /\ disposals'[r] = <<>>
      <4>1. Len(disposals'[r]) = 0
        BY <3>1, EmptySeq
      <4> QED
        BY <1>10, <3>1, <4>1
    <3>2. CASE result'[r] = NoResult /\ Len(disposals'[r]) = 1
      BY <3>2
    <3> QED
      BY <1>6, <3>1, <3>2
  <2> QED
    BY <1>9, <2>1, <2>2, <2>3 DEF PhaseOK, Waiting
<1>13. SessionOK'
  <2>1. \A j \in Session : rawRequest'[j] # NoRequest => sessionOf(rawRequest'[j]) = j
    BY <1>1, <1>5 DEF SessionOK, TypeOK
  <2>2. ASSUME NEW q \in Request
        PROVE  rawRequest'[sessionOf(q)] = q <=> pc'[q] \in Waiting
    <3>1. CASE q = r
      BY <1>1, <1>5, <1>9, <3>1 DEF TypeOK, Waiting
    <3>2. CASE q # r /\ sessionOf(q) = k
      BY <1>1, <1>3, <1>5, <1>8, <3>2, SessionOfRequest DEF TypeOK, SessionOK
    <3>3. CASE q # r /\ sessionOf(q) # k
      BY <1>1, <1>5, <1>8, <3>3, SessionOfRequest DEF TypeOK, SessionOK
    <3> QED
      BY <3>1, <3>2, <3>3
  <2> QED
    BY <2>1, <2>2 DEF SessionOK
<1>14. EmergencyIsNotJoined'
  <2>1. rawRequest'[k] = NoRequest
    BY <1>1, <1>5 DEF TypeOK
  <2> QED
    BY <1>1, <2>1 DEF EmergencyIsNotJoined
<1> QED
  BY <1>1, <1>5, <1>6, <1>7, <1>11, <1>12, <1>13, <1>14 DEF IInv, DutyOK, QueuesOK

(* The thread's last step: its result, if it has one, becomes a message. *)
LEMMA FinishStep ==
    ASSUME IInv, NEW r \in Request, Finish(r)
    PROVE  IInv'
<1>1. TypeOK /\ QueuesOK /\ DutyOK /\ SessionOK /\ EmergencyIsNotJoined /\ sessionOf(r) \in Session
  BY SessionOfRequest DEF IInv
<1>2. /\ pc[r] = "cleared" /\ pc' = [pc EXCEPT ![r] = "done"]
      /\ reqID' = [reqID EXCEPT ![sessionOf(r)] = 0]
      /\ msgQ' = IF result[r] = NoResult THEN msgQ
                 ELSE Append(msgQ, [kind |-> "inform", r |-> result[r].r, x |-> result[r].x])
      /\ UNCHANGED <<rawRequest, respTimeLeft, reqIDCounter, respRecvd, resp, fullTime, result,
                     disposals, niClient, todo, shown, notified, user>>
  BY DEF Finish, goto, answer, threadOnly, world
<1>3. TypeOK'
  <2>1. reqID' \in [Session -> 0..reqIDCounter]
    BY <1>1, <1>2 DEF TypeOK
  <2>2. pc' \in [Request -> {"none", "created", "waiting", "expired", "unlocked", "cleared", "done"}]
    BY <1>1, <1>2 DEF TypeOK
  <2> QED
    BY <1>1, <1>2, <2>1, <2>2 DEF TypeOK
<1>4. pc'[r] = "done" /\ \A q \in Request \ {r} : pc'[q] = pc[q]
  BY <1>1, <1>2 DEF TypeOK
<1>5. PhaseOK'
  BY <1>1, <1>2, <1>4 DEF DutyOK, PhaseOK, Waiting
<1>6. SessionOK'
  BY <1>1, <1>2, <1>4 DEF SessionOK, Waiting
<1>7. EmergencyIsNotJoined'
  BY <1>1, <1>2 DEF EmergencyIsNotJoined
<1>8. about(msgQ, "notify", r) = {} /\ about(msgQ, "inform", r) = {}
  BY <1>1, <1>2 DEF DutyOK, NotifyOK, InformOK
<1>9. CASE result[r] = NoResult
  <2>1. NotifyOK' /\ InformOK'
    BY <1>1, <1>2, <1>4, <1>8, <1>9 DEF DutyOK, NotifyOK, InformOK
  <2> QED
    BY <1>1, <1>2, <1>3, <1>5, <1>6, <1>7, <1>9, <2>1 DEF IInv, DutyOK, QueuesOK
<1>10. CASE result[r] # NoResult
  <2> DEFINE m == [kind |-> "inform", r |-> result[r].r, x |-> result[r].x]
  <2>1. result[r].r = r /\ result[r].x \in Response /\ disposals[r] = <<>>
    BY <1>1, <1>2, <1>10 DEF DutyOK, PhaseOK, TypeOK
  <2>2. m \in MessageRec /\ m.kind = "inform" /\ m.r = r
    BY <2>1 DEF MessageRec
  <2>3. msgQ' = Append(msgQ, m)
    BY <1>2, <1>10
  <2> HIDE DEF m
  <2>4. about(msgQ', "inform", r) = about(msgQ, "inform", r) \cup
            (IF m.kind = "inform" /\ m.r = r THEN {Len(msgQ) + 1} ELSE {})
    BY <1>1, <2>2, <2>3, AboutAppend
  <2>5. "inform" # "notify"
    OBVIOUS
  <2>6. \A q \in Request : about(msgQ', "notify", q) = about(msgQ, "notify", q)
    BY <1>1, <2>2, <2>3, <2>5, AboutOther
  <2>7. /\ \A q \in Request \ {r} : about(msgQ', "inform", q) = about(msgQ, "inform", q)
        /\ about(msgQ', "inform", r) = {Len(msgQ) + 1}
    BY <1>1, <1>8, <2>2, <2>3, <2>4, AboutOther
  <2>8. NotifyOK'
    BY <1>1, <1>2, <1>4, <1>8, <2>6 DEF DutyOK, NotifyOK
  <2>9. InformOK'
    BY <1>1, <1>2, <1>4, <2>1, <2>7 DEF DutyOK, InformOK
  <2>10. msgQ' \in Seq(MessageRec)
    BY <1>1, <2>2, <2>3, AppendProperties DEF QueuesOK
  <2> QED
    BY <1>1, <1>2, <1>3, <1>5, <1>6, <1>7, <2>8, <2>9, <2>10 DEF IInv, DutyOK, QueuesOK
<1> QED
  BY <1>9, <1>10

(* The network asks: the duty is in the message that says so. *)
LEMMA AskStep ==
    ASSUME IInv, NEW r \in Request, Notify(r)
    PROVE  IInv'
<1>1. /\ r \notin notified /\ notified' = notified \cup {r}
      /\ UNCHANGED <<session, answer, thread, niClient, todo, shown, history, user>>
      /\ TypeOK /\ QueuesOK /\ DutyOK /\ SessionOK /\ EmergencyIsNotJoined
  BY DEF Notify, post, IInv
<1>2. PICK e \in BOOLEAN :
          msgQ' = Append(msgQ, [kind |-> "notify", r |-> r, isInEmergency |-> e])
  BY DEF Notify, post
<1> DEFINE m == [kind |-> "notify", r |-> r, isInEmergency |-> e]
<1>3. m \in MessageRec /\ m.kind = "notify" /\ m.r = r
  BY DEF MessageRec
<1>4. msgQ' = Append(msgQ, m)
  BY <1>2
<1> HIDE DEF m
<1>5. about(msgQ', "notify", r) = about(msgQ, "notify", r) \cup
          (IF m.kind = "notify" /\ m.r = r THEN {Len(msgQ) + 1} ELSE {})
  BY <1>1, <1>3, <1>4, AboutAppend
<1>6. "inform" # "notify"
  OBVIOUS
<1>7. pc[r] = "none" /\ disposals[r] = <<>> /\ about(msgQ, "notify", r) = {}
  BY <1>1 DEF DutyOK, PhaseOK, NotifyOK
<1>8. /\ \A q \in Request : about(msgQ', "inform", q) = about(msgQ, "inform", q)
      /\ \A q \in Request \ {r} : about(msgQ', "notify", q) = about(msgQ, "notify", q)
      /\ about(msgQ', "notify", r) = {Len(msgQ) + 1}
  BY <1>1, <1>3, <1>4, <1>5, <1>6, <1>7, AboutOther
<1>9. NotifyOK'
  BY <1>1, <1>7, <1>8 DEF DutyOK, NotifyOK, thread, history
<1>10. InformOK'
  BY <1>1, <1>8 DEF DutyOK, InformOK, thread, history
<1>11. PhaseOK'
  BY <1>1 DEF DutyOK, PhaseOK, thread, history
<1>12. QueuesOK'
  BY <1>1, <1>3, <1>4, AppendProperties DEF QueuesOK, history
<1>13. TypeOK' /\ SessionOK' /\ EmergencyIsNotJoined'
  BY <1>1 DEF TypeOK, SessionOK, EmergencyIsNotJoined, session, answer, thread
<1> QED
  BY <1>9, <1>10, <1>11, <1>12, <1>13 DEF IInv, DutyOK

(* The user answers, or the modem is back up. *)
LEMMA PostedStep ==
    ASSUME IInv, (\E r \in Request : \E x \in UserResponse : Respond(r, x)) \/ ModemRestart
    PROVE  IInv'
<1>1. /\ UNCHANGED <<session, answer, thread, niClient, todo, shown, history, notified>>
      /\ TypeOK /\ QueuesOK /\ DutyOK /\ SessionOK /\ EmergencyIsNotJoined
  BY DEF Respond, ModemRestart, post, IInv
<1>2. PICK m \in MessageRec : m.kind \in {"userResponse", "engineUp"} /\ msgQ' = Append(msgQ, m)
  <2>1. CASE \E r \in Request : \E x \in UserResponse : Respond(r, x)
    <3>1. PICK r \in Request, x \in UserResponse : Respond(r, x)
      BY <2>1
    <3>2. shown[r] \in Nat
      BY <1>1 DEF TypeOK
    <3>3. [kind |-> "userResponse", id |-> shown[r], x |-> x] \in MessageRec
      BY <3>2 DEF MessageRec
    <3> QED
      BY <3>1, <3>3 DEF Respond, post
  <2>2. CASE ModemRestart
    <3>1. [kind |-> "engineUp"] \in MessageRec
      BY DEF MessageRec
    <3> QED
      BY <2>2, <3>1 DEF ModemRestart, post
  <2> QED
    BY <2>1, <2>2
<1>3. DutyOK'
  BY <1>1, <1>2, PostStep DEF thread, history
<1>4. QueuesOK'
  BY <1>1, <1>2, AppendProperties DEF QueuesOK, history
<1>5. user' \in [Request -> UserResponse \cup {"none"}]
  <2>1. user \in [Request -> UserResponse \cup {"none"}]
    BY <1>1 DEF TypeOK
  <2> QED
    BY <2>1 DEF Respond, ModemRestart
<1>6. TypeOK' /\ SessionOK' /\ EmergencyIsNotJoined'
  BY <1>1, <1>5 DEF TypeOK, SessionOK, EmergencyIsNotJoined, session, answer, thread
<1> QED
  BY <1>3, <1>4, <1>6 DEF IInv

(* The duty of no request is anywhere yet. *)
LEMMA InitInv == Init => IInv
<1> SUFFICES ASSUME Init PROVE IInv
  OBVIOUS
<1>1. Len(<<>>) = 0 /\ <<>> \in Seq(MessageRec) /\ <<>> \in Seq(WriteRec) /\ <<>> \in Seq(Disposal)
  BY EmptySeq
<1>2. QueuesOK
  BY <1>1 DEF Init, QueuesOK
<1>3. TypeOK
  BY DEF Init, TypeOK, Response, Session
<1>4. \A kind, r : about(msgQ, kind, r) = {}
  BY <1>1 DEF Init, about
<1>5. DutyOK
  BY <1>1, <1>4 DEF Init, DutyOK, NotifyOK, InformOK, PhaseOK, Waiting, NoResult
<1>6. SessionOK
  BY SessionOfRequest DEF Init, SessionOK, Waiting
<1>7. EmergencyIsNotJoined
  BY DEF Init, EmergencyIsNotJoined, Session
<1> QED
  BY <1>2, <1>3, <1>5, <1>6, <1>7 DEF IInv

(* Every step keeps the invariant. *)
LEMMA StepInv == IInv /\ [Next]_vars => IInv'
<1> SUFFICES ASSUME IInv, [Next]_vars PROVE IInv'
  OBVIOUS
<1>1. CASE HandleMessage
  BY <1>1, MessageStep
<1>2. CASE WriteAnswer
  BY <1>2, WriteStep
<1>3. ASSUME NEW r \in Request, Thread(r) PROVE IInv'
  BY <1>3, WaitSteps, TakeStep, FinishStep DEF Thread
<1>4. ASSUME NEW r \in Request, Notify(r) PROVE IInv'
  BY <1>4, AskStep
<1>5. CASE (\E r \in Request : \E x \in UserResponse : Respond(r, x)) \/ ModemRestart
  BY <1>5, PostedStep
<1>6. CASE ClientChange
  BY <1>6 DEF ClientChange, IInv, TypeOK, QueuesOK, DutyOK, NotifyOK, InformOK, PhaseOK, SessionOK,
              EmergencyIsNotJoined, session, answer, thread, world, history
<1>7. CASE UNCHANGED vars
  BY <1>7 DEF vars, IInv, TypeOK, QueuesOK, DutyOK, NotifyOK, InformOK, PhaseOK, SessionOK,
              EmergencyIsNotJoined
<1> QED
  BY <1>1, <1>2, <1>3, <1>4, <1>5, <1>6, <1>7 DEF Next

-----------------------------------------------------------------------------
(***************************************************************************)
(* Consent.  An ACCEPT goes from the user's answer to a message, a write   *)
(* of the adapter's thread, the session, the thread's result, its message  *)
(* and the modem; the session may by then serve another request.           *)
(***************************************************************************)
\* A request of session k was shown and accepted, at any time.
accepted(k) == \E q \in Request : saidYes(q, k)

\* Ids name requests, and a session serves the one it showed last.
IdsOK ==
    /\ \A q, r \in Request : shown[q] # 0 /\ shown[q] = shown[r] => q = r
    /\ \A r \in Request : pc[r] = "none" => shown[r] = 0
    /\ \A k \in Session : reqID[k] # 0 =>
         \E q \in Request : sessionOf(q) = k /\ shown[q] = reqID[k]
    /\ \A k \in Session : rawRequest[k] # NoRequest =>
         /\ shown[rawRequest[k]] # 0
         /\ \A q \in Request : sessionOf(q) = k => shown[q] <= shown[rawRequest[k]]

\* Whose answer a message carries, ...
rightAnswer(m) ==
    /\ m.kind = "userResponse" =>
         \E q \in Request : shown[q] # 0 /\ shown[q] = m.id /\ user[q] = m.x
    /\ m.kind = "inform" /\ m.x = "ACCEPT" => acceptedBy(sessionOf(m.r), shown[m.r])

AnswersOK == \A i \in 1 .. Len(msgQ) : rightAnswer(msgQ[i])

\* ... one on its way to a session or in it, ...
WritesOK == \A i \in 1 .. Len(todo) : todo[i].x = "ACCEPT" => accepted(todo[i].k)
RespOK == \A k \in Session : resp[k] = "ACCEPT" => accepted(k)

\* ... and one that a thread has taken from it.
ResultsOK ==
    \A r \in Request : result[r] # NoResult /\ result[r].x = "ACCEPT" =>
        acceptedBy(sessionOf(r), shown[r])

ConsentInv == IdsOK /\ AnswersOK /\ WritesOK /\ RespOK /\ ResultsOK /\ AcceptIsSomeUsers

\* No step takes back a request's id or the user's answer.
Kept ==
    \A q \in Request : /\ shown[q] # 0 => shown'[q] = shown[q]
                       /\ user[q] # "none" => user'[q] = user[q]

(* What was accepted stays so, and messages carry the answers they carried. *)
LEMMA KeptAnswers ==
    ASSUME Kept, TypeOK
    PROVE  /\ \A k \in Session : accepted(k) => accepted(k)'
           /\ \A k \in Session : \A n \in Nat : acceptedBy(k, n) => acceptedBy(k, n)'
           /\ \A r \in Request : acceptedBy(sessionOf(r), shown[r])
                                     => acceptedBy(sessionOf(r), shown[r])'
           /\ \A m \in MessageRec : rightAnswer(m) => rightAnswer(m)'
<1>1. \A q \in Request : \A k \in Session : saidYes(q, k) => saidYes(q, k)' /\ shown'[q] = shown[q]
  BY DEF Kept, saidYes
<1>2. ASSUME NEW r \in Request, acceptedBy(sessionOf(r), shown[r])
      PROVE  shown[r] # 0 /\ shown'[r] = shown[r] /\ acceptedBy(sessionOf(r), shown[r])'
  <2>1. PICK q \in Request : saidYes(q, sessionOf(r)) /\ shown[q] <= shown[r]
    BY <1>2 DEF acceptedBy
  <2>2. shown[r] # 0
    BY <2>1 DEF saidYes, TypeOK
  <2>3. shown'[r] = shown[r]
    BY <2>2 DEF Kept
  <2> QED
    BY <1>1, <2>1, <2>2, <2>3, SessionOfRequest DEF acceptedBy
<1>3. ASSUME NEW m \in MessageRec, rightAnswer(m)
      PROVE  rightAnswer(m)'
  <2>1. CASE m.kind = "userResponse"
    <3>1. m.x \in UserResponse
      BY <2>1, MessageTyped
    <3>2. PICK q \in Request : shown[q] # 0 /\ shown[q] = m.id /\ user[q] = m.x
      BY <1>3, <2>1 DEF rightAnswer
    <3>3. shown'[q] = shown[q] /\ user'[q] = user[q]
      BY <3>1, <3>2 DEF Kept, UserResponse
    <3> QED
      BY <2>1, <3>2, <3>3 DEF rightAnswer
  <2>2. CASE m.kind = "inform"
    BY <1>2, <1>3, <2>2, MessageTyped DEF rightAnswer
  <2>3. CASE m.kind \notin {"userResponse", "inform"}
    BY <2>3 DEF rightAnswer
  <2> QED
    BY <2>1, <2>2, <2>3
<1> QED
  BY <1>1, <1>2, <1>3 DEF accepted, acceptedBy

(* The messages left when the first is taken, ... *)
LEMMA AnswersTail ==
    ASSUME QueuesOK, TypeOK, AnswersOK, Kept, msgQ # <<>>, msgQ' = Tail(msgQ)
    PROVE  AnswersOK' /\ rightAnswer(Head(msgQ))
<1>1. /\ Len(msgQ) \in Nat \ {0}
      /\ Len(msgQ') = Len(msgQ) - 1
      /\ \A i \in 1..Len(msgQ') : msgQ'[i] = msgQ[i + 1]
      /\ Head(msgQ) = msgQ[1]
      /\ \A i \in 1..Len(msgQ) : msgQ[i] \in MessageRec
  BY HeadTailProperties, LenProperties, EmptySeq, ElementOfSeq DEF QueuesOK
<1>2. ASSUME NEW i \in 1..Len(msgQ')
      PROVE  rightAnswer(msgQ[i])'
  <2>1. i + 1 \in 1..Len(msgQ) /\ msgQ'[i] = msgQ[i + 1]
    BY <1>1
  <2> DEFINE m == msgQ[i + 1]
  <2>2. m \in MessageRec /\ rightAnswer(m)
    BY <1>1, <2>1 DEF AnswersOK
  <2>3. PICK c \in MessageRec : c = m
    BY <2>2
  <2>4. rightAnswer(c)'
    BY <2>2, <2>3, KeptAnswers
  <2> QED
    BY <2>1, <2>3, <2>4 DEF rightAnswer
<1> QED
  BY <1>1, <1>2 DEF AnswersOK

(* ... and those there are once one is appended. *)
LEMMA AnswersAppend ==
    ASSUME QueuesOK, TypeOK, AnswersOK, Kept,
           NEW m \in MessageRec, msgQ' = Append(msgQ, m), rightAnswer(m)'
    PROVE  AnswersOK'
<1>1. /\ Len(msgQ) \in Nat
      /\ Len(msgQ') = Len(msgQ) + 1
      /\ \A i \in 1..Len(msgQ) : msgQ'[i] = msgQ[i] /\ msgQ[i] \in MessageRec
      /\ msgQ'[Len(msgQ) + 1] = m
  BY AppendProperties, LenProperties, ElementOfSeq DEF QueuesOK
<1>2. ASSUME NEW i \in 1..Len(msgQ')
      PROVE  rightAnswer(msgQ[i])'
  <2>1. CASE i \in 1..Len(msgQ)
    <3>1. PICK c \in MessageRec : c = msgQ[i]
      BY <1>1, <2>1
    <3>2. rightAnswer(c)'
      BY <2>1, <3>1, KeptAnswers DEF AnswersOK
    <3>3. msgQ'[i] = c
      BY <1>1, <2>1, <3>1
    <3> QED
      BY <3>2, <3>3 DEF rightAnswer
  <2>2. CASE i = Len(msgQ) + 1
    <3>1. msgQ'[i] = m
      BY <1>1, <2>2
    <3> QED
      BY <3>1 DEF rightAnswer
  <2> QED
    BY <1>1, <2>1, <2>2
<1> QED
  BY <1>2 DEF AnswersOK

(* Ids and sessions of a step that shows no request. *)
LEMMA IdsKept ==
    ASSUME IdsOK, shown' = shown,
           \A r \in Request : pc'[r] = "none" => pc[r] = "none",
           \A k \in Session : /\ reqID'[k] \in {0, reqID[k]}
                              /\ rawRequest'[k] \in {NoRequest, rawRequest[k]}
    PROVE  IdsOK'
BY DEF IdsOK

(* Answers that a step leaves where they are. *)
LEMMA AnswersStay ==
    ASSUME Kept, TypeOK, QueuesOK, ConsentInv
    PROVE  /\ UNCHANGED todo => WritesOK'
           /\ UNCHANGED resp => RespOK'
           /\ UNCHANGED result => ResultsOK'
           /\ UNCHANGED disposals /\ (\A r \in Request : shown'[r] = shown[r] \/ disposals[r] = <<>>)
                => AcceptIsSomeUsers'
<1>1. /\ \A k \in Session : accepted(k) => accepted(k)'
      /\ \A r \in Request : acceptedBy(sessionOf(r), shown[r]) => acceptedBy(sessionOf(r), shown[r])'
  BY KeptAnswers
<1>2. \A i \in 1..Len(todo) : todo[i].k \in Session
  <2>1. \A i \in 1..Len(todo) : todo[i] \in WriteRec
    BY ElementOfSeq DEF QueuesOK
  <2> QED
    BY <2>1 DEF WriteRec
<1>3. ASSUME UNCHANGED todo PROVE WritesOK'
  <2> SUFFICES ASSUME NEW i \in 1..Len(todo), todo[i].x = "ACCEPT"
               PROVE  accepted(todo[i].k)'
    BY <1>3 DEF WritesOK
  <2>1. PICK k \in Session : k = todo[i].k
    BY <1>2
  <2>2. accepted(k)'
    BY <1>1, <2>1 DEF ConsentInv, WritesOK
  <2> QED
    BY <1>3, <2>1, <2>2
<1>4. ASSUME UNCHANGED resp PROVE RespOK'
  BY <1>1, <1>4 DEF ConsentInv, RespOK
<1>5. ASSUME UNCHANGED result PROVE ResultsOK'
  BY <1>1, <1>5 DEF ConsentInv, ResultsOK
<1>6. ASSUME UNCHANGED disposals,
             \A r \in Request : shown'[r] = shown[r] \/ disposals[r] = <<>>
      PROVE  AcceptIsSomeUsers'
  <2> SUFFICES ASSUME NEW r \in Request, shown'[r] # 0, disposals[r] = <<"ACCEPT">>
               PROVE  acceptedBy(sessionOf(r), shown[r])'
    BY <1>6 DEF AcceptIsSomeUsers
  <2>1. shown'[r] = shown[r]
    BY <1>6
  <2> QED
    BY <1>1, <2>1 DEF ConsentInv, AcceptIsSomeUsers
<1> QED
  BY <1>3, <1>4, <1>5, <1>6

(* Writes of the adapter's thread: none, ... *)
LEMMA IgnoreAccepts ==
    /\ \A i \in 1..Len(ignoreNi) : ignoreNi[i].x = "IGNORE"
    /\ Len(ignoreNi) \in {0, 1}
<1>1. Len(<<>>) = 0 /\ Len(<<write(NI, "IGNORE", 0)>>) = 1
      /\ <<write(NI, "IGNORE", 0)>>[1] = write(NI, "IGNORE", 0)
  OBVIOUS
<1>2. write(NI, "IGNORE", 0).x = "IGNORE"
  BY DEF write
<1> QED
  BY <1>1, <1>2 DEF ignoreNi

(* ... or the answer to the request that the session whose id it is showed. *)
LEMMA CommandAccepts ==
    ASSUME IdsOK, NEW id \in Nat, NEW x \in UserResponse, gnssNiResponseCommand(id, x),
           \E q \in Request : shown[q] # 0 /\ shown[q] = id /\ user[q] = x
    PROVE  \A i \in 1..Len(todo') : todo'[i].x = "ACCEPT" => accepted(todo'[i].k)
<1>1. ASSUME NEW k \in Session, reqID[k] = id, x = "ACCEPT"
      PROVE  accepted(k)
  <2>1. PICK q \in Request : shown[q] # 0 /\ shown[q] = id /\ user[q] = x
    OBVIOUS
  <2>2. PICK p \in Request : sessionOf(p) = k /\ shown[p] = reqID[k]
    BY <1>1, <2>1 DEF IdsOK
  <2>3. p = q
    BY <1>1, <2>1, <2>2 DEF IdsOK
  <2> QED
    BY <1>1, <2>1, <2>2, <2>3 DEF accepted, saidYes
<1>2. ES \in Session /\ NI \in Session /\ x # "IGNORE"
  BY DEF Session, UserResponse
<1> DEFINE S == IF x = "ACCEPT" THEN ignoreNi ELSE <<>>
           A == <<write(ES, x, id)>>
           B == <<write(NI, x, id)>>
<1>3. /\ Len(A) = 1 /\ A[1].x = x /\ A[1].k = ES
      /\ Len(B) = 1 /\ B[1].x = x /\ B[1].k = NI
      /\ Len(<<>>) = 0
  BY DEF write
<1>4. Len(S) \in {0, 1} /\ \A i \in 1..Len(S) : S[i].x = "IGNORE"
  BY <1>3, IgnoreAccepts
<1>5. /\ S \in Seq(WriteRec) /\ A \in Seq(WriteRec)
  <2>1. write(ES, x, id) \in WriteRec /\ write(NI, "IGNORE", 0) \in WriteRec
    BY DEF write, WriteRec, Session, Response, ES, NI
  <2> QED
    BY <2>1, EmptySeq DEF ignoreNi
<1>6. \/ todo' = <<>>
      \/ todo' = S \o A /\ reqID[ES] = id
      \/ todo' = B /\ reqID[NI] = id
  BY DEF gnssNiResponseCommand, matches
<1> HIDE DEF S, A, B
<1>7. CASE todo' = <<>>
  BY <1>3, <1>7
<1>8. CASE todo' = S \o A /\ reqID[ES] = id
  <2>1. /\ Len(S \o A) = Len(S) + Len(A)
        /\ \A i \in 1..Len(S) + Len(A) : (S \o A)[i] = IF i <= Len(S) THEN S[i] ELSE A[i - Len(S)]
    BY <1>5, ConcatProperties
  <2>2. x = "ACCEPT" => accepted(ES)
    BY <1>1, <1>2, <1>8
  <2> QED
    BY <1>2, <1>3, <1>4, <1>8, <2>1, <2>2
<1>9. CASE todo' = B /\ reqID[NI] = id
  <2>1. x = "ACCEPT" => accepted(NI)
    BY <1>1, <1>2, <1>9
  <2>2. Len(todo') = 1 /\ todo'[1].x = x /\ todo'[1].k = NI
    BY <1>3, <1>9
  <2> QED
    BY <2>1, <2>2
<1> QED
  BY <1>6, <1>7, <1>8, <1>9

(* The ACCEPT of a request never shown is nobody's consent to lack, and one of a *)
(* request shown is a user's. *)
LEMMA DisposeConsents ==
    ASSUME TypeOK, QueuesOK, ConsentInv, shown' = shown, user' = user,
           NEW r \in Request, NEW d \in Disposal, dispose(r, d), disposals[r] = <<>>,
           d = "ACCEPT" /\ shown[r] # 0 => acceptedBy(sessionOf(r), shown[r])
    PROVE  AcceptIsSomeUsers'
<1>1. \A q \in Request : acceptedBy(sessionOf(q), shown[q]) => acceptedBy(sessionOf(q), shown[q])'
  BY KeptAnswers DEF Kept
<1>2. /\ disposals' = [disposals EXCEPT ![r] = <<d>>]
      /\ disposals \in [Request -> Seq(Disposal)]
  BY DEF dispose, QueuesOK
<1>3. <<d>> = <<"ACCEPT">> => d = "ACCEPT"
  OBVIOUS
<1> QED
  BY <1>1, <1>2, <1>3 DEF ConsentInv, AcceptIsSomeUsers

(* What a notification does to the answers: it gives none to a request shown. *)
LEMMA NotifyConsents ==
    ASSUME IInv, ConsentInv, msgQ # <<>>, msgQ' = Tail(msgQ), todo = <<>>,
           Head(msgQ).kind = "notify", NEW r \in Request, Head(msgQ).r = r,
           NEW e \in BOOLEAN, requestNiNotifyEvent(r, e),
           UNCHANGED <<resp, result, user>>
    PROVE  ConsentInv'
<1>1. TypeOK /\ QueuesOK /\ DutyOK /\ IdsOK /\ AnswersOK /\ sessionOf(r) \in Session
  BY SessionOfRequest DEF IInv, ConsentInv
<1>2. pc[r] = "none" /\ disposals[r] = <<>> /\ shown[r] = 0
  BY <1>1, NotifyIsLast DEF IdsOK
<1>3. CASE closed
  <2>1. shown' = shown /\ Kept /\ UNCHANGED <<pc, reqID, rawRequest>>
    BY <1>3 DEF closed, session, Kept
  <2>2. IdsOK'
    BY <1>1, <2>1, IdsKept
  <2>3. AnswersOK' /\ RespOK' /\ ResultsOK'
    BY <1>1, <2>1, AnswersTail, AnswersStay
  <2>4. WritesOK'
    <3>1. todo' = todo \/ todo' = ignoreNi
      BY <1>3 DEF requestNiNotifyEvent, requestNiNotify, openSession, closed, session
    <3>2. CASE todo' = todo
      BY <1>1, <2>1, <3>2, AnswersStay
    <3>3. CASE todo' = ignoreNi
      BY <3>3, IgnoreAccepts DEF WritesOK
    <3> QED
      BY <3>1, <3>2, <3>3
  <2>5. AcceptIsSomeUsers'
    <3>1. UNCHANGED disposals \/ \E d \in Disposal : dispose(r, d)
      BY <1>1, NotifyOutcome
    <3>2. CASE UNCHANGED disposals
      BY <1>1, <2>1, <3>2, AnswersStay
    <3>3. CASE \E d \in Disposal : dispose(r, d)
      BY <1>1, <1>2, <2>1, <3>3, DisposeConsents
    <3> QED
      BY <3>1, <3>2, <3>3
  <2> QED
    BY <2>2, <2>3, <2>4, <2>5 DEF ConsentInv
<1>4. CASE openSession(sessionOf(r), r) /\ UNCHANGED <<disposals, todo>>
  <2> DEFINE k == sessionOf(r)
             n == reqIDCounter + 1
  <2>1. /\ rawRequest' = [rawRequest EXCEPT ![k] = r]
        /\ reqID' = [reqID EXCEPT ![k] = n]
        /\ pc' = [pc EXCEPT ![r] = "created"]
        /\ shown' = [shown EXCEPT ![r] = n]
    BY <1>4 DEF openSession
  <2>2. /\ n \in Nat /\ n # 0
        /\ \A q \in Request : shown[q] \in Nat /\ shown[q] < n
        /\ shown'[r] = n /\ \A q \in Request \ {r} : shown'[q] = shown[q]
    BY <1>1, <2>1 DEF TypeOK
  <2>3. Kept
    BY <1>2, <2>2 DEF Kept
  <2>4. AnswersOK' /\ RespOK' /\ ResultsOK' /\ WritesOK' /\ AcceptIsSomeUsers'
    BY <1>1, <1>2, <1>4, <2>2, <2>3, AnswersTail, AnswersStay
  <2>5. IdsOK'
    <3>1. \A p, q \in Request : shown'[p] # 0 /\ shown'[p] = shown'[q] => p = q
      BY <1>1, <2>2 DEF IdsOK
    <3>2. \A q \in Request : pc'[q] = "none" => shown'[q] = 0
      BY <1>1, <2>1, <2>2 DEF IdsOK, TypeOK
    <3>3. ASSUME NEW j \in Session, reqID'[j] # 0
          PROVE  \E q \in Request : sessionOf(q) = j /\ shown'[q] = reqID'[j]
      <4>1. CASE j = k
        BY <1>1, <2>1, <2>2, <4>1 DEF TypeOK
      <4>2. CASE j # k
        <5>1. reqID'[j] = reqID[j]
          BY <1>1, <2>1, <4>2 DEF TypeOK
        <5>2. PICK q \in Request : sessionOf(q) = j /\ shown[q] = reqID[j]
          BY <1>1, <3>3, <5>1 DEF IdsOK
        <5> QED
          BY <1>2, <2>2, <3>3, <5>1, <5>2
      <4> QED
        BY <4>1, <4>2
    <3>4. ASSUME NEW j \in Session, rawRequest'[j] # NoRequest
          PROVE  /\ shown'[rawRequest'[j]] # 0
                 /\ \A q \in Request : sessionOf(q) = j => shown'[q] <= shown'[rawRequest'[j]]
      <4>1. CASE j = k
        <5>1. rawRequest'[j] = r
          BY <1>1, <2>1, <4>1 DEF TypeOK
        <5> QED
          BY <2>2, <5>1
      <4>2. CASE j # k
        <5>1. rawRequest'[j] = rawRequest[j] /\ rawRequest[j] \in Request
          BY <1>1, <2>1, <3>4, <4>2 DEF TypeOK
        <5>2. /\ shown[rawRequest[j]] # 0 /\ rawRequest[j] # r
              /\ \A q \in Request : sessionOf(q) = j => shown[q] <= shown[rawRequest[j]] /\ q # r
          BY <1>1, <1>2, <3>4, <4>2, <5>1 DEF IdsOK
        <5> QED
          BY <2>2, <5>1, <5>2
      <4> QED
        BY <4>1, <4>2
    <3> QED
      BY <3>1, <3>2, <3>3, <3>4 DEF IdsOK
  <2> QED
    BY <2>4, <2>5 DEF ConsentInv
<1> QED
  BY <1>1, <1>3, <1>4, NotifyOutcome

(* The adapter's thread passes the user's answer on, and the thread's. *)
LEMMA MessageConsents ==
    ASSUME IInv, ConsentInv, HandleMessage
    PROVE  ConsentInv'
<1> DEFINE m == Head(msgQ)
<1>1. /\ todo = <<>> /\ msgQ # <<>> /\ msgQ' = Tail(msgQ)
      /\ TypeOK /\ QueuesOK /\ DutyOK /\ IdsOK /\ AnswersOK
      /\ UNCHANGED <<resp, result, user>>
  BY DEF HandleMessage, IInv, ConsentInv, answer, world
<1>2. m \in MessageRec
  BY <1>1, HeadTailProperties DEF QueuesOK
<1>3. CASE m.kind = "notify" /\ requestNiNotifyEvent(m.r, m.isInEmergency)
  <2>1. m.r \in Request /\ m.isInEmergency \in BOOLEAN
    BY <1>2, <1>3 DEF MessageRec
  <2> QED
    BY <1>1, <1>3, <2>1, NotifyConsents
<1>4. ASSUME closed
      PROVE  /\ shown' = shown /\ Kept /\ IdsOK' /\ AnswersOK' /\ RespOK' /\ ResultsOK'
             /\ rightAnswer(m)
             /\ UNCHANGED todo => WritesOK'
             /\ UNCHANGED disposals => AcceptIsSomeUsers'
  <2>1. shown' = shown /\ Kept /\ UNCHANGED <<pc, reqID, rawRequest>>
    BY <1>1, <1>4 DEF closed, session, Kept
  <2>2. IdsOK'
    BY <1>1, <2>1, IdsKept
  <2>3. AnswersOK' /\ rightAnswer(m)
    BY <1>1, <2>1, AnswersTail
  <2> QED
    BY <1>1, <2>1, <2>2, <2>3, AnswersStay
<1>5. CASE /\ m.kind = "userResponse" /\ gnssNiResponseCommand(m.id, m.x)
           /\ closed /\ UNCHANGED disposals
  <2>1. \A i \in 1..Len(todo') : todo'[i].x = "ACCEPT" => accepted(todo'[i].k)
    <3>1. m.id \in Nat /\ m.x \in UserResponse
      BY <1>2, <1>5, MessageTyped
    <3>2. \E q \in Request : shown[q] # 0 /\ shown[q] = m.id /\ user[q] = m.x
      BY <1>4, <1>5 DEF rightAnswer
    <3> QED
      BY <1>1, <1>5, <3>1, <3>2, CommandAccepts
  <2>2. WritesOK'
    BY <1>1, <1>4, <1>5, <2>1 DEF WritesOK, accepted, saidYes
  <2> QED
    BY <1>4, <1>5, <2>2 DEF ConsentInv
<1>6. CASE m.kind = "inform" /\ informNiResponse(m.r, m.x) /\ closed /\ UNCHANGED todo
  <2>1. m.r \in Request /\ m.x \in Disposal
    BY <1>2, <1>6, MessageTyped DEF Disposal
  <2>2. disposals[m.r] = <<>>
    BY <1>1, <1>6, <2>1, InformIsLast
  <2>3. m.x = "ACCEPT" => acceptedBy(sessionOf(m.r), shown[m.r])
    BY <1>4, <1>6 DEF rightAnswer
  <2>4. AcceptIsSomeUsers'
    BY <1>1, <1>4, <1>6, <2>1, <2>2, <2>3, DisposeConsents DEF informNiResponse
  <2> QED
    BY <1>4, <1>6, <2>4 DEF ConsentInv
<1>7. CASE closed /\ UNCHANGED <<disposals, todo>>
  BY <1>4, <1>7 DEF ConsentInv
<1> QED
  BY <1>3, <1>5, <1>6, <1>7 DEF HandleMessage

(* The answer written to a session is one that was given for it. *)
LEMMA WriteConsents ==
    ASSUME IInv, ConsentInv, WriteAnswer
    PROVE  ConsentInv'
<1>1. /\ todo # <<>> /\ todo' = Tail(todo)
      /\ UNCHANGED <<rawRequest, reqID, pc, result, msgQ, shown, user, disposals>>
      /\ resp' = [resp EXCEPT ![Head(todo).k] = Head(todo).x]
      /\ TypeOK /\ QueuesOK /\ Kept
  BY DEF WriteAnswer, session, thread, world, IInv, Kept
<1>2. IdsOK' /\ ResultsOK' /\ AcceptIsSomeUsers'
  BY <1>1, IdsKept, AnswersStay DEF ConsentInv
<1>3. AnswersOK'
  BY <1>1 DEF ConsentInv, AnswersOK, rightAnswer, acceptedBy, saidYes
<1>4. /\ Len(todo) \in Nat \ {0} /\ Len(todo') = Len(todo) - 1
      /\ \A i \in 1..Len(todo') : todo'[i] = todo[i + 1]
      /\ Head(todo) = todo[1]
  BY <1>1, HeadTailProperties, LenProperties, EmptySeq DEF QueuesOK
<1>5. \A k \in Session : accepted(k)' <=> accepted(k)
  BY <1>1 DEF accepted, saidYes
<1>6. Head(todo).x = "ACCEPT" => accepted(Head(todo).k)
  BY <1>4 DEF ConsentInv, WritesOK
<1>7. WritesOK'
  <2> SUFFICES ASSUME NEW i \in 1..Len(todo'), todo'[i].x = "ACCEPT"
               PROVE  \E q \in Request : saidYes(q, todo'[i].k)
    BY <1>1 DEF WritesOK, accepted, saidYes
  <2>1. i + 1 \in 1..Len(todo) /\ todo'[i] = todo[i + 1]
    BY <1>4
  <2> QED
    BY <2>1 DEF ConsentInv, WritesOK, accepted
<1>8. RespOK'
  <2> SUFFICES ASSUME NEW k \in Session, resp'[k] = "ACCEPT"
               PROVE  accepted(k)'
    BY DEF RespOK
  <2>1. accepted(k)
    <3>1. CASE k = Head(todo).k
      BY <1>1, <1>6, <3>1 DEF TypeOK
    <3>2. CASE k # Head(todo).k
      BY <1>1, <3>2 DEF TypeOK, ConsentInv, RespOK
    <3> QED
      BY <3>1, <3>2
  <2> QED
    BY <1>5, <2>1
<1> QED
  BY <1>2, <1>3, <1>7, <1>8 DEF ConsentInv

(* A thread that goes on takes no answer. *)
LEMMA WaitConsents ==
    ASSUME IInv, ConsentInv, NEW r \in Request, Begin(r) \/ Expire(r) \/ ClearTime(r)
    PROVE  ConsentInv'
<1>1. /\ UNCHANGED <<rawRequest, reqID, resp, result, msgQ, disposals, todo, shown, user>>
      /\ TypeOK /\ QueuesOK /\ Kept
      /\ \A q \in Request : pc'[q] = "none" => pc[q] = "none"
  BY DEF Begin, Expire, ClearTime, goto, session, answer, threadOnly, world, IInv, TypeOK, Kept
<1>2. IdsOK' /\ WritesOK' /\ RespOK' /\ ResultsOK' /\ AcceptIsSomeUsers'
  BY <1>1, IdsKept, AnswersStay DEF ConsentInv
<1>3. AnswersOK'
  BY <1>1 DEF ConsentInv, AnswersOK, rightAnswer, acceptedBy, saidYes
<1> QED
  BY <1>2, <1>3 DEF ConsentInv

(* What a thread takes from its session was given to a request shown there no later. *)
LEMMA TakeConsents ==
    ASSUME IInv, ConsentInv, NEW r \in Request, Take(r)
    PROVE  ConsentInv'
<1> DEFINE k == sessionOf(r)
           x == IF pc[r] = "expired" THEN "NO_RESPONSE" ELSE resp[k]
<1>1. TypeOK /\ QueuesOK /\ DutyOK /\ SessionOK /\ k \in Session /\ r # NoRequest
  BY SessionOfRequest DEF IInv
<1>2. /\ resp' = [resp EXCEPT ![k] = x]
      /\ rawRequest' = [rawRequest EXCEPT ![k] = NoRequest]
      /\ pc' = [pc EXCEPT ![r] = "unlocked"]
      /\ UNCHANGED <<reqID, msgQ, todo, shown, user>>
      /\ Kept
  BY DEF Take, goto, threadOnly, world, Kept
<1>3. rawRequest[k] = r /\ disposals[r] = <<>> /\ result[r] = NoResult
  BY <1>1 DEF Take, ready, Waiting, SessionOK, DutyOK, PhaseOK
<1>4. \/ /\ result' = [result EXCEPT ![r] = [r |-> r, x |-> x]]
         /\ UNCHANGED disposals
      \/ UNCHANGED result /\ dispose(r, "freed")
  BY <1>1, <1>3 DEF Take, sends, frees, free
<1>5. IdsOK' /\ WritesOK'
  <2>1. IdsOK'
    BY <1>1, <1>2, IdsKept DEF TypeOK, ConsentInv
  <2> QED
    BY <1>1, <1>2, <2>1, AnswersStay
<1>6. AnswersOK'
  BY <1>2 DEF ConsentInv, AnswersOK, rightAnswer, acceptedBy, saidYes
<1>7. \A j \in Session : accepted(j)' <=> accepted(j)
  BY <1>2 DEF accepted, saidYes
<1>8. RespOK'
  <2>1. x = "ACCEPT" => resp[k] = "ACCEPT"
    OBVIOUS
  <2> HIDE DEF x
  <2>2. \A j \in Session : resp'[j] = "ACCEPT" => resp[j] = "ACCEPT"
    BY <1>1, <1>2, <2>1 DEF TypeOK
  <2> QED
    BY <1>7, <2>2 DEF ConsentInv, RespOK
<1>9. x = "ACCEPT" => acceptedBy(k, shown[r])
  <2> SUFFICES ASSUME x = "ACCEPT" PROVE acceptedBy(k, shown[r])
    OBVIOUS
  <2>1. PICK q \in Request : saidYes(q, k)
    BY <1>1 DEF ConsentInv, RespOK, accepted
  <2>2. shown[q] <= shown[r]
    BY <1>1, <1>3, <2>1 DEF ConsentInv, IdsOK, saidYes
  <2> QED
    BY <2>1, <2>2 DEF acceptedBy
<1>10. \A q \in Request : acceptedBy(sessionOf(q), shown[q]) => acceptedBy(sessionOf(q), shown[q])'
  BY <1>1, <1>2, KeptAnswers
<1>11. CASE /\ result' = [result EXCEPT ![r] = [r |-> r, x |-> x]]
            /\ UNCHANGED disposals
  <2>1. /\ result'[r].x = x
        /\ \A q \in Request \ {r} : result'[q] = result[q]
    BY <1>1, <1>11 DEF TypeOK
  <2> HIDE DEF x
  <2>2. ResultsOK'
    <3> SUFFICES ASSUME NEW q \in Request, result'[q] # NoResult, result'[q].x = "ACCEPT"
                 PROVE  acceptedBy(sessionOf(q), shown[q])'
      BY DEF ResultsOK, NoResult
    <3>1. CASE q = r
      BY <1>9, <1>10, <2>1, <3>1
    <3>2. CASE q # r
      BY <1>10, <2>1, <3>2 DEF ConsentInv, ResultsOK
    <3> QED
      BY <3>1, <3>2
  <2>3. AcceptIsSomeUsers'
    BY <1>1, <1>2, <1>11, AnswersStay
  <2> QED
    BY <1>5, <1>6, <1>8, <2>2, <2>3 DEF ConsentInv
<1>12. CASE UNCHANGED result /\ dispose(r, "freed")
  <2>1. ResultsOK'
    BY <1>1, <1>2, <1>12, AnswersStay
  <2>2. AcceptIsSomeUsers'
    BY <1>1, <1>2, <1>3, <1>12, DisposeConsents DEF Disposal
  <2> QED
    BY <1>5, <1>6, <1>8, <2>1, <2>2 DEF ConsentInv
<1> QED
  BY <1>4, <1>11, <1>12

(* The thread's result becomes the message of one. *)
LEMMA FinishConsents ==
    ASSUME IInv, ConsentInv, NEW r \in Request, Finish(r)
    PROVE  ConsentInv'
<1>1. TypeOK /\ QueuesOK /\ DutyOK /\ SessionOK /\ sessionOf(r) \in Session
  BY SessionOfRequest DEF IInv
<1>2. /\ pc[r] = "cleared" /\ pc' = [pc EXCEPT ![r] = "done"]
      /\ reqID' = [reqID EXCEPT ![sessionOf(r)] = 0]
      /\ msgQ' = IF result[r] = NoResult THEN msgQ
                 ELSE Append(msgQ, [kind |-> "inform", r |-> result[r].r, x |-> result[r].x])
      /\ UNCHANGED <<rawRequest, resp, result, disposals, todo, shown, user>>
      /\ Kept
  BY DEF Finish, goto, answer, threadOnly, world, Kept
<1>3. /\ \A q \in Request : pc'[q] = "none" => pc[q] = "none"
      /\ \A j \in Session : reqID'[j] \in {0, reqID[j]}
  BY <1>1, <1>2 DEF TypeOK
<1>4. IdsOK'
  BY <1>2, <1>3, IdsKept DEF ConsentInv
<1>5. WritesOK' /\ RespOK' /\ ResultsOK' /\ AcceptIsSomeUsers'
  BY <1>1, <1>2, AnswersStay
<1>6. CASE result[r] = NoResult
  <2>1. AnswersOK'
    BY <1>2, <1>6 DEF ConsentInv, AnswersOK, rightAnswer, acceptedBy, saidYes
  <2> QED
    BY <1>4, <1>5, <2>1 DEF ConsentInv
<1>7. CASE result[r] # NoResult
  <2>1. PICK m : m = [kind |-> "inform", r |-> result[r].r, x |-> result[r].x]
    OBVIOUS
  <2>2. result[r].r = r /\ result[r].x \in Response
    BY <1>1, <1>2, <1>7 DEF DutyOK, PhaseOK, TypeOK
  <2>3. m \in MessageRec /\ m.kind = "inform" /\ m.r = r /\ m.x = result[r].x
    BY <2>1, <2>2 DEF MessageRec
  <2>4. msgQ' = Append(msgQ, m)
    BY <1>2, <1>7, <2>1
  <2>5. m.x = "ACCEPT" => acceptedBy(sessionOf(r), shown[r])
    BY <1>7, <2>3 DEF ConsentInv, ResultsOK
  <2>6. m.x = "ACCEPT" => acceptedBy(sessionOf(r), shown[r])'
    BY <1>1, <1>2, <2>5, KeptAnswers
  <2>7. rightAnswer(m)'
    BY <2>3, <2>6 DEF rightAnswer
  <2>8. AnswersOK'
    BY <1>1, <1>2, <2>3, <2>4, <2>7, AnswersAppend DEF ConsentInv
  <2> QED
    BY <1>4, <1>5, <2>8 DEF ConsentInv
<1> QED
  BY <1>6, <1>7

(* The network asks, the user answers once, or the modem is back up. *)
LEMMA PostedConsents ==
    ASSUME IInv, ConsentInv,
           \/ \E r \in Request : Notify(r) \/ \E x \in UserResponse : Respond(r, x)
           \/ ModemRestart
    PROVE  ConsentInv'
<1>1. /\ UNCHANGED <<rawRequest, reqID, resp, pc, result, todo, shown, disposals>>
      /\ TypeOK /\ QueuesOK
  BY DEF Notify, Respond, ModemRestart, post, session, answer, thread, history, IInv
<1>2. Kept
  BY <1>1 DEF Kept, Notify, Respond, ModemRestart, TypeOK
<1>3. IdsOK' /\ WritesOK' /\ RespOK' /\ ResultsOK' /\ AcceptIsSomeUsers'
  BY <1>1, <1>2, IdsKept, AnswersStay DEF ConsentInv
<1>4. ASSUME NEW m \in MessageRec, msgQ' = Append(msgQ, m), m.kind \in {"notify", "engineUp"}
      PROVE  AnswersOK'
  <2>1. rightAnswer(m)'
    BY <1>4 DEF rightAnswer
  <2> QED
    BY <1>1, <1>2, <1>4, <2>1, AnswersAppend DEF ConsentInv
<1>5. ASSUME NEW r \in Request, Notify(r) PROVE AnswersOK'
  <2>1. PICK e \in BOOLEAN :
            msgQ' = Append(msgQ, [kind |-> "notify", r |-> r, isInEmergency |-> e])
    BY <1>5 DEF Notify, post
  <2>2. [kind |-> "notify", r |-> r, isInEmergency |-> e] \in MessageRec
    BY DEF MessageRec
  <2> QED
    BY <1>4, <2>1, <2>2
<1>6. ASSUME NEW r \in Request, NEW x \in UserResponse, Respond(r, x) PROVE AnswersOK'
  <2>1. PICK m : m = [kind |-> "userResponse", id |-> shown[r], x |-> x]
    OBVIOUS
  <2>2. m \in MessageRec /\ m.kind = "userResponse" /\ m.id = shown[r] /\ m.x = x
    BY <1>1, <2>1 DEF MessageRec, TypeOK
  <2>3. msgQ' = Append(msgQ, m) /\ shown[r] # 0 /\ user' = [user EXCEPT ![r] = x]
    BY <1>6, <2>1 DEF Respond, post
  <2>4. user'[r] = x
    BY <1>1, <2>3 DEF TypeOK
  <2>5. rightAnswer(m)'
    BY <1>1, <2>2, <2>3, <2>4 DEF rightAnswer
  <2> QED
    BY <1>1, <1>2, <2>2, <2>3, <2>5, AnswersAppend DEF ConsentInv
<1>7. ASSUME ModemRestart PROVE AnswersOK'
  <2>1. [kind |-> "engineUp"] \in MessageRec /\ msgQ' = Append(msgQ, [kind |-> "engineUp"])
    BY <1>7 DEF MessageRec, ModemRestart, post
  <2> QED
    BY <1>4, <2>1
<1> QED
  BY <1>3, <1>5, <1>6, <1>7 DEF ConsentInv

(* Nobody has answered anything. *)
LEMMA InitConsents == Init => ConsentInv
<1> SUFFICES ASSUME Init PROVE ConsentInv
  OBVIOUS
<1>1. Len(<<>>) = 0 /\ <<>> # <<"ACCEPT">>
  OBVIOUS
<1>2. IdsOK
  BY DEF Init, IdsOK
<1>3. AnswersOK /\ WritesOK /\ RespOK /\ ResultsOK
  BY <1>1 DEF Init, AnswersOK, WritesOK, RespOK, ResultsOK
<1>4. AcceptIsSomeUsers
  BY DEF Init, AcceptIsSomeUsers
<1> QED
  BY <1>2, <1>3, <1>4 DEF ConsentInv

(* Every step keeps what is known of consent. *)
LEMMA StepConsents == IInv /\ ConsentInv /\ [Next]_vars => ConsentInv'
<1> SUFFICES ASSUME IInv, ConsentInv, [Next]_vars PROVE ConsentInv'
  OBVIOUS
<1>1. CASE HandleMessage
  BY <1>1, MessageConsents
<1>2. CASE WriteAnswer
  BY <1>2, WriteConsents
<1>3. ASSUME NEW r \in Request, Thread(r) PROVE ConsentInv'
  BY <1>3, WaitConsents, TakeConsents, FinishConsents DEF Thread
<1>4. CASE \/ \E r \in Request : Notify(r) \/ \E x \in UserResponse : Respond(r, x)
           \/ ModemRestart
  BY <1>4, PostedConsents
<1>5. CASE ClientChange \/ UNCHANGED vars
  BY <1>5 DEF ClientChange, vars, session, answer, thread, world, history, ConsentInv, IdsOK,
              AnswersOK, rightAnswer, WritesOK, RespOK, ResultsOK, AcceptIsSomeUsers, accepted,
              acceptedBy, saidYes
<1> QED
  BY <1>1, <1>2, <1>3, <1>4, <1>5 DEF Next

(* A session in progress and the one thread that waits on it name each other. *)
LEMMA InvGivesWhole == IInv /\ ConsentInv => SessionsAreWhole
<1> SUFFICES ASSUME IInv, ConsentInv PROVE SessionsAreWhole
  OBVIOUS
<1>1. DisposedOnce
  BY DEF IInv, DutyOK, PhaseOK, DisposedOnce
<1>2. ASSUME NEW k \in Session
      PROVE  {r \in Request : sessionOf(r) = k /\ pc[r] \in Waiting} = {rawRequest[k]} \ {NoRequest}
  <2>1. rawRequest[k] # NoRequest =>
            rawRequest[k] \in Request /\ sessionOf(rawRequest[k]) = k
    BY DEF IInv, TypeOK, SessionOK
  <2>2. \A r \in Request : rawRequest[sessionOf(r)] = r <=> pc[r] \in Waiting
    BY DEF IInv, SessionOK
  <2> QED
    BY <2>1, <2>2, SessionOfRequest
<1>3. SessionHasItsThread
  BY <1>2 DEF SessionHasItsThread, Waiting
<1> QED
  BY <1>1, <1>3 DEF SessionsAreWhole, IInv, ConsentInv

(***************************************************************************)
(* Sessions of network-initiated requests are whole: whatever the network  *)
(* asks, the user answers and the modem does, in any order, a session in   *)
(* progress has the one thread that ends it (requestNIStart), the raw data *)
(* of a request is answered or freed at most once (niThreadProc), no       *)
(* request joins an emergency, and the modem is told ACCEPT for a request  *)
(* shown only if the user accepted it or one its session showed before.    *)
(***************************************************************************)
THEOREM NiSessionsAreWhole == Spec => []SessionsAreWhole
<1>1. Init => IInv /\ ConsentInv
  BY InitInv, InitConsents
<1>2. (IInv /\ ConsentInv) /\ [Next]_vars => (IInv /\ ConsentInv)'
  BY StepInv, StepConsents
<1>3. IInv /\ ConsentInv => SessionsAreWhole
  BY InvGivesWhole
<1> QED
  BY <1>1, <1>2, <1>3, PTL DEF Spec

(***************************************************************************)
(* The device is located with the user's consent to that very request, as  *)
(* long as no session serves two: an answer is late only for a request     *)
(* whose session has ended, and with two requests of one session the next  *)
(* may get it (gnssNiResponseCommand, niThreadProc).                       *)
(***************************************************************************)
THEOREM NiAcceptIsTheUsers ==
    ASSUME \A q, r \in Request : sessionOf(q) = sessionOf(r) => q = r
    PROVE  Spec => []AcceptIsTheUsers
<1>1. SessionsAreWhole => AcceptIsTheUsers
  BY DEF SessionsAreWhole, AcceptIsSomeUsers, acceptedBy, saidYes, AcceptIsTheUsers
<1> QED
  BY <1>1, NiSessionsAreWhole, PTL
=============================================================================
