--------------------------- MODULE TrackingProofs ---------------------------
(***************************************************************************)
(* AnsweredAtMostOnce for any clients, sessions and options, with an       *)
(* engine that refuses requests and restarts and clients that are removed. *)
(* The strengthening is a ledger: of the commands a session's client made  *)
(* and was not answered, each answer still to come is one item in one of   *)
(* three queues: the command itself in the adapter's queue or among the    *)
(* pended messages, a request the engine has yet to answer, or the message *)
(* that brings its answer.  A handler takes one such item and leaves at    *)
(* most one, and none once it has reported; where no error is silent it    *)
(* leaves exactly one, or reports, and EveryCommandAnswered follows.       *)
(*                                                                         *)
(* EngineServesSessions and EngineOffWhenIdle are about the engine after   *)
(* it has answered, so the strengthening (LedInv) is about what it WILL    *)
(* run: whatever that is serves the sessions of timeBased, at every state, *)
(* and a handler asks for a list of requests that keeps it so (Served).    *)
(* StopIsFinal rests on what may save a session: its start, of which there *)
(* is one and only before the session is in a map or an answer under way   *)
(* (StartedOnce), and the callbacks of an update, which is only asked of   *)
(* the engine for a session in a map or for such a callback (Handled).     *)
(***************************************************************************)
EXTENDS Tracking, SequenceTheorems, FiniteSetTheorems, WellFoundedInduction, TLAPS

USE TrackingAssumption

ValidOption == {Clamped(o) : o \in Option}
DistanceOption == {o \in ValidOption : o.distance}
TimeOption == ValidOption \ DistanceOption
StartOption == Option \cup {o \in {NoOptions} : StartInvalid}
Removable == {c \in Client : AllowRemove}
EngineAnswer == {ok \in BOOLEAN : ok \/ EngineMayFail}
Answering == {"started", "stopped", "stoppedDistance", "updated", "switched", "restart",
              "restarted"}

\* The callbacks about distance-based sessions, if there are any.
DistanceCallback(S) ==
    {cb \in [k : {"stoppedDistance", "stoppedClient"}, s : S, o : {NoOptions}]
            \cup [k : {"switched"}, s : S, o : TimeOption]
            \cup [k : {"restart", "restarted"}, s : S, o : DistanceOption] :
        DistanceOption # {}}
CallbackRec(S) ==
    [k : {"started", "stopped"}, s : S, o : {NoOptions}]
    \cup [k : {"updated"}, s : S, o : ValidOption]
    \cup DistanceCallback(S) \cup {Silent}
CommandRec(S) ==
    [kind : {"start"}, s : S, o : StartOption]
    \cup [kind : {"update"}, s : S, o : Option \cup {NoOptions}]
MessageRec(S) ==
    CommandRec(S) \cup [kind : {"stop"}, s : S] \cup [kind : {"remove"}, c : Removable]
    \cup [kind : {"response"}, cb : CallbackRec(S) \ {Silent}, ok : EngineAnswer]
    \cup [kind : {"engineUp"}]

RequestOp == {"start", "stopFix", "startDistance", "stopDistance"}

\* A request of any options: those of several sessions may be merged in it.
RequestOK(r) ==
    /\ DOMAIN r = {"op", "s", "o", "cb"}
    /\ r.op \in RequestOp /\ r.cb \in CallbackRec(started)
    /\ r.op = "startDistance" => r.s \in started

MapOK(T) ==
    /\ T = [s \in DOMAIN T |-> T[s]]
    /\ DOMAIN T \subseteq started
    /\ \A s \in DOMAIN T : T[s] \in ValidOption

DistanceOK(D) == MapOK(D) /\ \A s \in DOMAIN D : D[s] \in DistanceOption

ListOK(R) == R \in Seq(ToSet(R)) /\ \A r \in ToSet(R) : RequestOK(r)

QueuesOK ==
    /\ msgQ \in Seq(MessageRec(started))
    /\ pending \in Seq(CommandRec(started))
    /\ ListOK(apiQ)

TypeInv ==
    /\ started \subseteq Session /\ IsFiniteSet(started)
    /\ MapOK(timeBased) /\ DistanceOK(distanceBased)
    /\ QueuesOK
    /\ removed \subseteq Removable
    /\ capsKnown \in BOOLEAN /\ up \in BOOLEAN
    /\ engine.on \in BOOLEAN /\ engineDistance \subseteq started
    /\ owed \in [Session -> Int] /\ ended \subseteq started

\* x, a message or a request, stands for an answer to a command about s.
answers(x, s) ==
    \/ "cb" \in DOMAIN x /\ x.cb.k \in Answering /\ x.cb.s = s
    \/ "cb" \notin DOMAIN x /\ x.kind \in {"start", "update", "stop"} /\ x.s = s

due(q, s) == Cardinality({i \in 1 .. Len(q) : answers(q[i], s)})

toCome(s) == due(msgQ, s) + due(pending, s) + due(apiQ, s)

\* No command has an error that the code sets and reports to nobody.
NoSilentError ==
    /\ NoCallback = {} /\ ~StartInvalid
    /\ EngineMayFail => DistanceOption = {}

LedgerOK ==
    \A s \in Session :
        /\ owed[s] >= 0
        /\ ClientOf[s] \notin removed => owed[s] >= toCome(s)
        /\ ClientOf[s] \notin removed /\ NoSilentError => owed[s] = toCome(s)

IInv == TypeInv /\ LedgerOK

-----------------------------------------------------------------------------
(***************************************************************************)
(* Sessions in the order of the map.                                       *)
(***************************************************************************)
(* A set of numbers that is not empty has a least one. *)
LEMMA LeastNumber ==
    ASSUME NEW S \in SUBSET Nat, S # {}
    PROVE  \E x \in S : \A y \in S : x <= y
<1> DEFINE R == OpToRel(<, Nat)
<1>1. PICK x \in S : \A y \in S : <<y, x>> \notin R
  <2>1. IsWellFoundedOn(R, Nat)
    BY NatLessThanWellFounded, Zenon
  <2> HIDE DEF R
  <2> QED
    BY <2>1, WFMin
<1>2. \A y \in S : ~(y < x)
  <2> SUFFICES ASSUME NEW y \in S, y < x PROVE <<y, x>> \in R
    BY <1>1, Zenon
  <2> QED
    BY Zenon DEF OpToRel
<1> QED
  BY <1>2

Enumerates(q, S) ==
    /\ q \in [1 .. Cardinality(S) -> S]
    /\ \A s \in S : \E i \in 1 .. Cardinality(S) : q[i] = s
    /\ \A i, j \in 1 .. Cardinality(S) : i < j => q[i] < q[j]

(* A finite set of numbers can be listed in order. *)
LEMMA Enumeration ==
    ASSUME NEW S \in SUBSET Nat, IsFiniteSet(S)
    PROVE  \E q : Enumerates(q, S)
<1> DEFINE Bad == {T \in FiniteSubsetsOf(S) : ~ \E q : Enumerates(q, T)}
<1>1. SUFFICES ASSUME Bad # {} PROVE FALSE
  BY DEF FiniteSubsetsOf
<1>2. PICK T \in Bad : \A U \in Bad : <<U, T>> \notin StrictSubsetOrdering(S)
  <2>1. IsWellFoundedOn(StrictSubsetOrdering(S), FiniteSubsetsOf(S))
    BY FS_StrictSubsetOrderingWellFounded
  <2> QED
    BY <1>1, <2>1, WFMin
<1>3. T \subseteq S /\ IsFiniteSet(T) /\ T \subseteq Nat
  BY DEF FiniteSubsetsOf
<1>4. T # {}
  <2>1. Enumerates(<<>>, {})
    BY FS_EmptySet DEF Enumerates
  <2> QED
    BY <2>1
<1>5. PICK x \in T : \A y \in T : x <= y
  BY <1>3, <1>4, LeastNumber
<1> DEFINE U == T \ {x}
           n == Cardinality(U)
<1>6. IsFiniteSet(U) /\ n \in Nat /\ Cardinality(T) = n + 1
  <2>1. IsFiniteSet(U) /\ n = Cardinality(T) - 1
    BY <1>3, <1>5, FS_RemoveElement
  <2>2. Cardinality(T) \in Nat /\ n \in Nat
    BY <1>3, <2>1, FS_CardinalityType
  <2> QED
    BY <2>1, <2>2
<1>7. <<U, T>> \in StrictSubsetOrdering(S) /\ U \in FiniteSubsetsOf(S)
  BY <1>3, <1>5, <1>6 DEF StrictSubsetOrdering, FiniteSubsetsOf
<1>8. PICK q : Enumerates(q, U)
  BY <1>2, <1>7
<1> HIDE DEF n
<1> DEFINE p == [i \in 1 .. n + 1 |-> IF i = 1 THEN x ELSE q[i - 1]]
<1>9. q \in [1 .. n -> U] /\ (\A s \in U : \E i \in 1 .. n : q[i] = s)
      /\ \A i, j \in 1 .. n : i < j => q[i] < q[j]
  BY <1>8 DEF Enumerates, n
<1>10. \A i \in 1 .. n + 1 : i = 1 \/ (i - 1 \in 1 .. n /\ p[i] = q[i - 1])
  BY <1>6
<1>11. p \in [1 .. n + 1 -> T]
  BY <1>6, <1>9, <1>10
<1>12. \A s \in T : \E i \in 1 .. n + 1 : p[i] = s
  <2> SUFFICES ASSUME NEW s \in T PROVE \E i \in 1 .. n + 1 : p[i] = s
    OBVIOUS
  <2>1. CASE s = x
    BY <1>6, <2>1
  <2>2. CASE s # x
    <3>1. PICK i \in 1 .. n : q[i] = s
      BY <1>9, <2>2
    <3>2. i + 1 \in 1 .. n + 1 /\ p[i + 1] = s
      BY <1>6, <3>1
    <3> QED
      BY <3>2
  <2> QED
    BY <2>1, <2>2
<1>13. \A i, j \in 1 .. n + 1 : i < j => p[i] < p[j]
  <2> SUFFICES ASSUME NEW i \in 1 .. n + 1, NEW j \in 1 .. n + 1, i < j PROVE p[i] < p[j]
    OBVIOUS
  <2>1. j - 1 \in 1 .. n /\ p[j] = q[j - 1]
    BY <1>6
  <2>2. CASE i = 1
    <3>1. p[i] = x /\ q[j - 1] \in T /\ q[j - 1] # x
      BY <1>6, <1>9, <2>1, <2>2
    <3>2. x \in Nat /\ q[j - 1] \in Nat /\ x <= q[j - 1]
      BY <1>3, <1>5, <3>1
    <3> HIDE DEF p
    <3> QED
      BY <2>1, <3>1, <3>2
  <2>3. CASE i # 1
    <3>1. i - 1 \in 1 .. n /\ p[i] = q[i - 1] /\ i - 1 < j - 1
      BY <1>6, <2>3
    <3> QED
      BY <1>9, <2>1, <3>1
  <2> QED
    BY <2>2, <2>3
<1>14. Enumerates(p, T)
  BY <1>6, <1>11, <1>12, <1>13 DEF Enumerates
<1> QED
  BY <1>14

(* So are the keys of a map. *)
LEMMA OrderedLists ==
    ASSUME NEW S \in SUBSET Session, IsFiniteSet(S)
    PROVE  /\ Cardinality(S) \in Nat
           /\ Ordered(S) \in [1 .. Cardinality(S) -> S] /\ Ordered(S) \in Seq(S)
<1>1. Cardinality(S) \in Nat /\ S \in SUBSET Nat
  BY FS_CardinalityType
<1>2. PICK q : Enumerates(q, S)
  BY <1>1, Enumeration
<1>3. q \in [1 .. Cardinality(S) -> S] /\ \A i, j \in DOMAIN q : i < j => q[i] < q[j]
  BY <1>2 DEF Enumerates
<1>4. Ordered(S) \in [1 .. Cardinality(S) -> S]
  BY <1>3 DEF Ordered
<1> QED
  BY <1>1, <1>4, SeqDef

-----------------------------------------------------------------------------
(***************************************************************************)
(* Answers still to come, counted.                                         *)
(***************************************************************************)
one(x, s) == IF answers(x, s) THEN 1 ELSE 0
shifted(B, n) == {n + j : j \in B}

(* The items of two queues one behind the other are counted together. *)
LEMMA CountShifted ==
    ASSUME NEW n \in Nat, NEW A \in SUBSET (1 .. n), NEW B \in SUBSET (Nat \ {0}), IsFiniteSet(B)
    PROVE  /\ Cardinality(A) \in Nat /\ Cardinality(B) \in Nat
           /\ Cardinality(A \cup shifted(B, n)) = Cardinality(A) + Cardinality(B)
<1> DEFINE C == shifted(B, n)
<1>1. IsFiniteSet(A) /\ IsFiniteSet(B)
  <2>1. IsFiniteSet(1 .. n)
    BY FS_Interval
  <2> QED
    BY <2>1, FS_Subset
<1>2. Cardinality(A) \in Nat /\ Cardinality(B) \in Nat
  BY <1>1, FS_CardinalityType
<1>3. ExistsBijection(B, C)
  <2> DEFINE f == [j \in B |-> n + j]
  <2>1. f \in [B -> C] /\ \A j, k \in B : f[j] = f[k] => j = k
    BY DEF shifted
  <2>2. \A c \in C : \E j \in B : f[j] = c
    BY DEF shifted
  <2> HIDE DEF f, C
  <2>3. f \in Bijection(B, C)
    BY <2>1, <2>2 DEF Bijection, Injection, Surjection, IsInjective
  <2> QED
    BY <2>3 DEF ExistsBijection
<1>4. IsFiniteSet(C) /\ Cardinality(C) = Cardinality(B)
  <2> HIDE DEF C
  <2> QED
    BY <1>1, <1>3, FS_Bijection
<1>5. A \cap C = {}
  BY DEF shifted
<1> HIDE DEF C
<1>6. Cardinality(A \cup C) = Cardinality(A) + Cardinality(C) - 0
  BY <1>1, <1>4, <1>5, FS_Union, FS_EmptySet
<1> QED
  BY <1>2, <1>4, <1>6 DEF C

(* ... whatever they are. *)
LEMMA DueConcat ==
    ASSUME NEW S, NEW p \in Seq(S), NEW q \in Seq(S), NEW s
    PROVE  due(p, s) \in Nat /\ due(q, s) \in Nat /\ due(p \o q, s) = due(p, s) + due(q, s)
<1> DEFINE A == {i \in 1 .. Len(p) : answers(p[i], s)}
           B == {i \in 1 .. Len(q) : answers(q[i], s)}
           C == {i \in 1 .. Len(p \o q) : answers((p \o q)[i], s)}
<1>1. Len(p) \in Nat /\ Len(q) \in Nat
  BY LenProperties
<1>2. /\ Len(p \o q) = Len(p) + Len(q)
      /\ \A i \in 1 .. Len(p) + Len(q) :
             (p \o q)[i] = IF i <= Len(p) THEN p[i] ELSE q[i - Len(p)]
  BY ConcatProperties
<1>3. C = A \cup shifted(B, Len(p))
  <2>1. ASSUME NEW i \in C PROVE i \in A \cup shifted(B, Len(p))
    <3>1. CASE i <= Len(p)
      BY <1>1, <1>2, <2>1, <3>1
    <3>2. CASE i > Len(p)
      <4>1. i - Len(p) \in B /\ i = Len(p) + (i - Len(p))
        BY <1>1, <1>2, <2>1, <3>2
      <4> QED
        BY <4>1 DEF shifted
    <3> QED
      BY <1>1, <1>2, <3>1, <3>2
  <2>2. A \subseteq C
    BY <1>1, <1>2
  <2>3. ASSUME NEW j \in B PROVE Len(p) + j \in C
    <3>1. Len(p) + j \in 1 .. Len(p) + Len(q) /\ ~(Len(p) + j <= Len(p))
          /\ Len(p) + j - Len(p) = j
      BY <1>1, <2>3
    <3> QED
      BY <1>2, <2>3, <3>1
  <2> HIDE DEF A, B, C
  <2> QED
    BY <2>1, <2>2, <2>3 DEF shifted
<1> HIDE DEF A, B, C
<1>4. A \in SUBSET (1 .. Len(p)) /\ B \in SUBSET (1 .. Len(q))
  BY DEF A, B
<1>5. /\ Cardinality(A) \in Nat /\ Cardinality(B) \in Nat
      /\ Cardinality(A \cup shifted(B, Len(p))) = Cardinality(A) + Cardinality(B)
  <2> DEFINE n == Len(p)
  <2>1. n \in Nat /\ A \in SUBSET (1 .. n) /\ B \in SUBSET (Nat \ {0})
    BY <1>1, <1>4
  <2>2. IsFiniteSet(B)
    <3>1. IsFiniteSet(1 .. Len(q))
      BY <1>1, FS_Interval
    <3> QED
      BY <1>4, <3>1, FS_Subset
  <2> HIDE DEF n
  <2>3. /\ Cardinality(A) \in Nat /\ Cardinality(B) \in Nat
        /\ Cardinality(A \cup shifted(B, n)) = Cardinality(A) + Cardinality(B)
    <3>1. \A D \in SUBSET (1 .. n) : \A E \in SUBSET (Nat \ {0}) :
              IsFiniteSet(E) =>
                  /\ Cardinality(D) \in Nat /\ Cardinality(E) \in Nat
                  /\ Cardinality(D \cup shifted(E, n)) = Cardinality(D) + Cardinality(E)
      BY <2>1, CountShifted, Zenon
    <3> QED
      BY <2>1, <2>2, <3>1, Zenon
  <2> QED
    BY <2>3 DEF n
<1> QED
  BY <1>3, <1>5 DEF due, A, B, C

(* None in an empty queue, one for an item that answers. *)
LEMMA DueOne ==
    ASSUME NEW s
    PROVE  due(<<>>, s) = 0 /\ \A x : due(<<x>>, s) = one(x, s) /\ one(x, s) \in {0, 1}
<1>1. due(<<>>, s) = 0
  <2>1. {i \in 1 .. Len(<<>>) : answers(<<>>[i], s)} = {}
    BY EmptySeq
  <2> QED
    BY <2>1, FS_EmptySet DEF due
<1>2. ASSUME NEW x PROVE due(<<x>>, s) = one(x, s)
  <2>1. Len(<<x>>) = 1 /\ <<x>>[1] = x /\ 1 .. 1 = {1}
    OBVIOUS
  <2> DEFINE A == {i \in 1 .. Len(<<x>>) : answers(<<x>>[i], s)}
  <2>2. A = IF answers(x, s) THEN {1} ELSE {}
    BY <2>1
  <2>3. Cardinality({1}) = 1 /\ Cardinality({}) = 0
    BY FS_Singleton, FS_EmptySet
  <2> HIDE DEF A
  <2>4. Cardinality(A) = one(x, s)
    BY <2>2, <2>3 DEF one
  <2> QED
    BY <2>4 DEF due, A
<1> QED
  BY <1>1, <1>2 DEF one

(* None where no item answers. *)
LEMMA DueNone ==
    ASSUME NEW q, NEW s, \A i \in 1 .. Len(q) : ~answers(q[i], s)
    PROVE  due(q, s) = 0
<1>1. {i \in 1 .. Len(q) : answers(q[i], s)} = {}
  OBVIOUS
<1> QED
  BY <1>1, FS_EmptySet DEF due

(* The first of a queue and the others; one more at the end. *)
LEMMA DueEnds ==
    ASSUME NEW S, NEW q \in Seq(S), NEW x \in S, NEW s
    PROVE  /\ due(q, s) \in Nat
           /\ due(Append(q, x), s) = due(q, s) + one(x, s)
           /\ q # <<>> => /\ due(Tail(q), s) \in Nat
                          /\ due(q, s) = one(Head(q), s) + due(Tail(q), s)
<1> DEFINE single(y) == <<y>>
<1>1. single(x) \in Seq(S) /\ Append(q, x) = q \o single(x)
  BY AppendIsConcat
<1>2. \A y : due(single(y), s) = one(y, s)
  BY DueOne, Zenon
<1> HIDE DEF single
<1>3. due(q, s) \in Nat /\ due(Append(q, x), s) = due(q, s) + one(x, s)
  BY <1>1, <1>2, DueConcat
<1>4. ASSUME q # <<>>
      PROVE  due(Tail(q), s) \in Nat /\ due(q, s) = one(Head(q), s) + due(Tail(q), s)
  <2> DEFINE h == Head(q)
             t == Tail(q)
  <2>1. h \in S /\ t \in Seq(S)
    BY <1>4, HeadTailProperties
  <2>2. single(h) \in Seq(S) /\ q = single(h) \o t
    BY <1>4, <2>1 DEF single
  <2> HIDE DEF h, t
  <2>3. due(t, s) \in Nat /\ due(single(h) \o t, s) = due(single(h), s) + due(t, s)
    BY <2>1, <2>2, DueConcat
  <2> QED
    BY <1>2, <2>2, <2>3 DEF h, t
<1> QED
  BY <1>3, <1>4

-----------------------------------------------------------------------------
(***************************************************************************)
(* What stands for an answer, and lists of requests.                       *)
(***************************************************************************)
(* A request or a response stands for the answer its callback gives, ... *)
LEMMA CallbackAnswers ==
    ASSUME NEW s
    PROVE  /\ \A op, t, o, cb : answers(EngineRequest(op, t, o, cb), s) <=>
                 cb.k \in Answering /\ cb.s = s
           /\ \A cb, ok : answers([kind |-> "response", cb |-> cb, ok |-> ok], s) <=>
                 cb.k \in Answering /\ cb.s = s
BY DEF answers, EngineRequest

(* ... and a message for the answer to the command that it is, or brings. *)
LEMMA MessageAnswers ==
    ASSUME NEW S, NEW m \in MessageRec(S), NEW s
    PROVE  /\ m.kind \in {"start", "update", "stop", "remove", "response", "engineUp"}
           /\ m.kind \in {"start", "update"} =>
                 m \in CommandRec(S) /\ m.s \in S /\ m.o \in Option \cup {NoOptions}
           /\ m.kind = "start" => m.o \in StartOption
           /\ m.kind \in {"start", "update", "stop"} => m.s \in S /\ (answers(m, s) <=> m.s = s)
           /\ m.kind = "remove" => m.c \in Removable /\ ~answers(m, s)
           /\ m.kind = "engineUp" => ~answers(m, s)
           /\ m.kind = "response" =>
                 /\ m.cb \in CallbackRec(S) \ {Silent} /\ m.ok \in EngineAnswer
                 /\ answers(m, s) <=> m.cb.k \in Answering /\ m.cb.s = s
<1>1. CASE m \in CommandRec(S)
  BY <1>1 DEF CommandRec, StartOption, answers
<1>2. CASE m \in [kind : {"stop"}, s : S]
  BY <1>2 DEF answers
<1>3. CASE m \in [kind : {"remove"}, c : Removable] \/ m \in [kind : {"engineUp"}]
  BY <1>3 DEF answers
<1>4. CASE m \in [kind : {"response"}, cb : CallbackRec(S) \ {Silent}, ok : EngineAnswer]
  BY <1>4 DEF answers
<1> QED
  BY <1>1, <1>2, <1>3, <1>4 DEF MessageRec

(* What a callback carries, by its kind. *)
LEMMA CallbackTyped ==
    ASSUME NEW S, NEW cb \in CallbackRec(S)
    PROVE  /\ cb.k \in Answering \cup {"stoppedClient", "silent"}
           /\ cb.k = "silent" <=> cb = Silent
           /\ cb.k # "silent" => cb.s \in S
           /\ cb.k \in {"updated", "switched", "restart", "restarted"} => cb.o \in ValidOption
           /\ cb.k \in {"restart", "restarted"} => cb.o \in DistanceOption
           /\ cb.k = "switched" => cb.o \in TimeOption
           /\ cb.k \notin {"started", "stopped", "updated", "silent"} => DistanceOption # {}
BY DEF CallbackRec, DistanceCallback, DistanceOption, TimeOption, Answering, Silent, Callback

(* What the code calls back with, ... *)
LEMMA CallbackMade ==
    ASSUME NEW S, NEW s \in S
    PROVE  /\ \A k \in {"started", "stopped"} : Callback(k, s, NoOptions) \in CallbackRec(S)
           /\ \A o \in ValidOption : Callback("updated", s, o) \in CallbackRec(S)
           /\ DistanceOption # {} =>
                 /\ \A k \in {"stoppedDistance", "stoppedClient"} :
                       Callback(k, s, NoOptions) \in CallbackRec(S)
                 /\ \A o \in TimeOption : Callback("switched", s, o) \in CallbackRec(S)
                 /\ \A k \in {"restart", "restarted"} : \A o \in DistanceOption :
                       Callback(k, s, o) \in CallbackRec(S)
           /\ Silent \in CallbackRec(S)
BY DEF CallbackRec, DistanceCallback, Callback

(* ... and a list of the one request that it is sent with. *)
LEMMA OneRequest ==
    ASSUME NEW op \in RequestOp, NEW s, NEW o, NEW cb \in CallbackRec(started),
           op # "startDistance" \/ s \in started
    PROVE  /\ ListOK(<<EngineRequest(op, s, o, cb)>>)
           /\ \A t : due(<<EngineRequest(op, s, o, cb)>>, t) =
                        IF cb.k \in Answering /\ cb.s = t THEN 1 ELSE 0
<1> DEFINE r == EngineRequest(op, s, o, cb)
<1>1. RequestOK(r)
  BY DEF RequestOK, EngineRequest
<1>2. \A t : one(r, t) = IF cb.k \in Answering /\ cb.s = t THEN 1 ELSE 0
  BY CallbackAnswers DEF one
<1> HIDE DEF r
<1>3. ToSet(<<r>>) = {r}
  BY DEF ToSet
<1>4. ListOK(<<r>>)
  BY <1>1, <1>3 DEF ListOK
<1>5. \A t : due(<<r>>, t) = one(r, t)
  BY DueOne
<1> QED
  BY <1>2, <1>4, <1>5 DEF r

(* The empty list asks for nothing. *)
LEMMA NoRequests == ListOK(<<>>) /\ \A t : due(<<>>, t) = 0
<1>1. ListOK(<<>>)
  BY EmptySeq DEF ListOK, ToSet
<1> QED
  BY <1>1, DueOne

(* Lists of requests one behind the other. *)
LEMMA ListConcat ==
    ASSUME NEW P, NEW R, ListOK(P), ListOK(R)
    PROVE  /\ ListOK(P \o R)
           /\ \A t : /\ due(P, t) \in Nat /\ due(R, t) \in Nat
                     /\ due(P \o R, t) = due(P, t) + due(R, t)
<1> DEFINE U == ToSet(P) \cup ToSet(R)
           Q == P \o R
<1>1. P \in Seq(U) /\ R \in Seq(U)
  <2>1. P \in Seq(ToSet(P)) /\ R \in Seq(ToSet(R))
    BY DEF ListOK
  <2> QED
    BY <2>1, SeqDef
<1>2. \A r \in U : RequestOK(r)
  BY DEF ListOK
<1> HIDE DEF U
<1>3. Q \in Seq(U)
  BY <1>1, ConcatProperties
<1>4. \A t : due(P, t) \in Nat /\ due(R, t) \in Nat /\ due(Q, t) = due(P, t) + due(R, t)
  BY <1>1, DueConcat
<1> HIDE DEF Q
<1>5. DOMAIN Q = 1 .. Len(Q) /\ Len(Q) \in Nat /\ \A i \in 1 .. Len(Q) : Q[i] \in U
  BY <1>3, LenProperties, ElementOfSeq
<1>6. ToSet(Q) \subseteq U
  BY <1>5 DEF ToSet
<1>7. Q \in Seq(ToSet(Q))
  <2>1. Q = [i \in 1 .. Len(Q) |-> Q[i]]
    BY <1>3, <1>5
  <2>2. \A i \in 1 .. Len(Q) : Q[i] \in ToSet(Q)
    BY <1>5 DEF ToSet
  <2>3. Q \in [1 .. Len(Q) -> ToSet(Q)]
    BY <2>1, <2>2
  <2> QED
    BY <1>5, <2>3, SeqDef
<1> QED
  BY <1>2, <1>4, <1>6, <1>7 DEF ListOK, Q

-----------------------------------------------------------------------------
(***************************************************************************)
(* Maps of sessions.                                                       *)
(***************************************************************************)
(* Options that are valid stay so, with an interval of at least the minimum. *)
LEMMA ValidOptions ==
    ASSUME NEW o \in Option
    PROVE  /\ Clamped(o) \in ValidOption
           /\ o # NoOptions
           /\ \A v \in ValidOption : v # NoOptions /\ v.interval >= MIN_TRACKING_INTERVAL
<1>1. ASSUME NEW p \in Option
      PROVE  /\ Clamped(p) \in [interval : Nat, power : Nat, distance : BOOLEAN]
             /\ Clamped(p).interval >= MIN_TRACKING_INTERVAL
  <2>1. p \in [interval : Nat, power : Nat, distance : BOOLEAN]
    OBVIOUS
  <2> QED
    BY <2>1 DEF Clamped, MIN_TRACKING_INTERVAL
<1> QED
  BY <1>1 DEF ValidOption

(* Saving and erasing a session. *)
LEMMA MapsKept ==
    ASSUME NEW T, MapOK(T), NEW s
    PROVE  /\ MapOK(Others(T, s))
           /\ s \in started => \A o \in ValidOption : MapOK(Put(T, s, o))
           /\ DistanceOK(T) => DistanceOK(Others(T, s))
           /\ DistanceOK(T) /\ s \in started =>
                 \A o \in ValidOption : isDistance(o) => DistanceOK(Put(T, s, o))
<1>1. MapOK(Others(T, s))
  BY DEF MapOK, DistanceOK, Others, Restrict
<1>2. ASSUME s \in started, NEW o \in ValidOption PROVE MapOK(Put(T, s, o))
  BY <1>2 DEF MapOK, DistanceOK, Put
<1>3. DistanceOK(T) => DistanceOK(Others(T, s))
  BY <1>1 DEF DistanceOK, Others, Restrict
<1>4. ASSUME DistanceOK(T), s \in started, NEW o \in ValidOption, isDistance(o)
      PROVE  DistanceOK(Put(T, s, o))
  <2>1. o \in DistanceOption
    BY <1>4 DEF DistanceOption, isDistance
  <2> QED
    BY <1>2, <1>4, <2>1 DEF DistanceOK, Put
<1> QED
  BY <1>1, <1>2, <1>3, <1>4

(* What is saved is valid, ... *)
LEMMA SaveKeeps ==
    ASSUME NEW T, NEW D, MapOK(T), DistanceOK(D), NEW s \in started, NEW o \in ValidOption,
           saveTrackingSession(T, D, s, o)
    PROVE  MapOK(timeBased') /\ DistanceOK(distanceBased')
BY MapsKept DEF saveTrackingSession, DistanceOK

(* ... and what is erased is gone. *)
LEMMA EraseKeeps ==
    ASSUME TypeInv, NEW s, eraseTrackingSession(s)
    PROVE  MapOK(timeBased') /\ DistanceOK(distanceBased')
BY MapsKept DEF eraseTrackingSession, TypeInv, DistanceOK

-----------------------------------------------------------------------------
(***************************************************************************)
(* Handlers: the account of message m is settled with the requests R.      *)
(***************************************************************************)
JustFor(R, s) == \A t \in Session : due(R, t) = IF t = s THEN 1 ELSE 0

Settled(m, R) ==
    /\ ListOK(R)
    /\ owed' \in [Session -> Int]
    /\ \A t \in Session :
          IF ClientOf[t] \in removed THEN owed'[t] = owed[t]
          ELSE /\ owed[t] - owed'[t] + due(R, t) <= one(m, t)
               /\ NoSilentError => owed[t] - owed'[t] + due(R, t) = one(m, t)

Outcome(m) ==
    /\ MapOK(timeBased') /\ DistanceOK(distanceBased') /\ ended' \subseteq started
    /\ \E R : apiQ' = apiQ \o R /\ Settled(m, R)

(* Nothing is reported and one request sent for the answer that is owed, *)
LEMMA SettledBySend ==
    ASSUME TypeInv, NEW m, NEW s, answers(m, s), NEW R, ListOK(R), JustFor(R, s),
           \A t \in Session : answers(m, t) <=> t = s, UNCHANGED owed
    PROVE  Settled(m, R)
<1>1. \A t \in Session : one(m, t) = IF t = s THEN 1 ELSE 0
  BY DEF one
<1>2. owed \in [Session -> Int]
  BY DEF TypeInv
<1> QED
  BY <1>1, <1>2 DEF Settled, JustFor

(* ... or its response is reported, and no request stands for it. *)
LEMMA SettledByReport ==
    ASSUME TypeInv, NEW m, NEW s \in Session, answers(m, s), NEW R, ListOK(R),
           \A t \in Session : answers(m, t) <=> t = s,
           \A t \in Session : due(R, t) = 0, reportResponse(s)
    PROVE  Settled(m, R)
<1>1. \A t \in Session : one(m, t) = IF t = s THEN 1 ELSE 0
  BY DEF one
<1>3. owed \in [Session -> Int]
  BY DEF TypeInv
<1> QED
  BY <1>1, <1>3 DEF Settled, reportResponse

(* ... or there is nothing to settle. *)
LEMMA SettledQuietly ==
    ASSUME TypeInv, NEW m, NEW R, ListOK(R), \A t \in Session : due(R, t) = 0, UNCHANGED owed,
           NoSilentError =>
              \A t \in Session : answers(m, t) => ClientOf[t] \in removed
    PROVE  Settled(m, R)
<1>1. \A t \in Session : one(m, t) \in {0, 1} /\ (~answers(m, t) => one(m, t) = 0)
  BY DEF one
<1>2. owed \in [Session -> Int]
  BY DEF TypeInv
<1> QED
  BY <1>1, <1>2 DEF Settled

(* A list that is empty, or has one request for the session. *)
ListFor(R, s) ==
    /\ ListOK(R)
    /\ R = <<>> => \A t \in Session : due(R, t) = 0
    /\ R # <<>> => JustFor(R, s)

(* So are the lists of the multiplexing functions. *)
LEMMA MultiplexLists ==
    ASSUME NEW T, MapOK(T), NEW s \in started, NEW o
    PROVE  /\ ListFor(startTimeBasedTrackingMultiplex(T, s, o), s)
           /\ s \in DOMAIN T => ListFor(updateTrackingMultiplex(T, s, o), s)
           /\ ListFor(stopTimeBasedTrackingMultiplex(T, s), s)
<1>1. ListFor(<<>>, s)
  BY NoRequests DEF ListFor
<1>2. \A p : ListFor(startTimeBasedTracking(s, p), s)
  <2> SUFFICES ASSUME NEW p PROVE ListFor(startTimeBasedTracking(s, p), s)
    OBVIOUS
  <2> DEFINE cb == Callback("started", s, NoOptions)
             R == <<EngineRequest("start", s, p, cb)>>
  <2>1. cb \in CallbackRec(started) /\ cb.k \in Answering /\ cb.s = s /\ R # <<>>
    BY CallbackMade DEF Callback, Answering
  <2> HIDE DEF cb
  <2>2. ListOK(R) /\ \A t : due(R, t) = IF s = t THEN 1 ELSE 0
    BY <2>1, OneRequest DEF RequestOp
  <2> QED
    BY <2>1, <2>2 DEF ListFor, JustFor, startTimeBasedTracking, cb
<1>3. s \in DOMAIN T => \A p : ListFor(updateTracking(s, p, T[s]), s)
  <2> SUFFICES ASSUME NEW p, s \in DOMAIN T PROVE ListFor(updateTracking(s, p, T[s]), s)
    OBVIOUS
  <2> DEFINE cb == Callback("updated", s, T[s])
             R == <<EngineRequest("start", s, p, cb)>>
  <2>1. cb \in CallbackRec(started) /\ cb.k \in Answering /\ cb.s = s /\ R # <<>>
    BY CallbackMade DEF Callback, Answering, MapOK, DistanceOK
  <2> HIDE DEF cb
  <2>2. ListOK(R) /\ \A t : due(R, t) = IF s = t THEN 1 ELSE 0
    BY <2>1, OneRequest DEF RequestOp
  <2> QED
    BY <2>1, <2>2 DEF ListFor, JustFor, updateTracking, cb
<1>4. ListFor(stopTracking(s), s)
  <2> DEFINE cb == Callback("stopped", s, NoOptions)
             R == <<EngineRequest("stopFix", s, NoOptions, cb)>>
  <2>1. cb \in CallbackRec(started) /\ cb.k \in Answering /\ cb.s = s /\ R # <<>>
    BY CallbackMade DEF Callback, Answering
  <2> HIDE DEF cb
  <2>2. ListOK(R) /\ \A t : due(R, t) = IF s = t THEN 1 ELSE 0
    BY <2>1, OneRequest DEF RequestOp
  <2> QED
    BY <2>1, <2>2 DEF ListFor, JustFor, stopTracking, cb
<1>5. ListFor(startTimeBasedTrackingMultiplex(T, s, o), s)
  BY <1>1, <1>2 DEF startTimeBasedTrackingMultiplex
<1>6. s \in DOMAIN T => ListFor(updateTrackingMultiplex(T, s, o), s)
  BY <1>1, <1>3 DEF updateTrackingMultiplex
<1>7. ListFor(stopTimeBasedTrackingMultiplex(T, s), s)
  BY <1>1, <1>2, <1>4 DEF stopTimeBasedTrackingMultiplex
<1> QED
  BY <1>5, <1>6, <1>7

(* Reported at once if nothing is to be sent. *)
LEMMA SettledByList ==
    ASSUME TypeInv, NEW m, NEW s \in Session, answers(m, s), NEW R, ListFor(R, s),
           \A t \in Session : answers(m, t) <=> t = s, reportIf(R = <<>>, s)
    PROVE  Settled(m, R)
<1>1. CASE R = <<>>
  BY <1>1, SettledByReport DEF ListFor, reportIf
<1>2. CASE R # <<>>
  BY <1>2, SettledBySend DEF ListFor, reportIf
<1> QED
  BY <1>1, <1>2

(* A request of a kind that has no list of its own. *)
LEMMA SingleRequest ==
    ASSUME NEW op \in RequestOp, NEW s \in started, NEW o, NEW cb \in CallbackRec(started)
    PROVE  /\ ListOK(<<EngineRequest(op, s, o, cb)>>) /\ <<EngineRequest(op, s, o, cb)>> # <<>>
           /\ cb.k \in Answering /\ cb.s = s =>
                 /\ JustFor(<<EngineRequest(op, s, o, cb)>>, s)
                 /\ ListFor(<<EngineRequest(op, s, o, cb)>>, s)
           /\ cb.k \notin Answering => \A t : due(<<EngineRequest(op, s, o, cb)>>, t) = 0
<1> DEFINE R == <<EngineRequest(op, s, o, cb)>>
<1>1. ListOK(R) /\ \A t : due(R, t) = IF cb.k \in Answering /\ cb.s = t THEN 1 ELSE 0
  BY OneRequest
<1>2. R # <<>>
  OBVIOUS
<1> HIDE DEF R
<1> QED
  BY <1>1, <1>2 DEF ListFor, JustFor, R

-----------------------------------------------------------------------------
(***************************************************************************)
(* The handlers, one by one.                                               *)
(***************************************************************************)
LEMMA NothingSent ==
    ASSUME TypeInv, UNCHANGED apiQ
    PROVE  apiQ' = apiQ \o <<>>
BY ConcatEmptySeq DEF TypeInv, QueuesOK, ListOK

(* startTrackingCommand's message. *)
LEMMA StartOutcome ==
    ASSUME TypeInv, NEW m \in MessageRec(started), m.kind = "start", startTracking(m)
    PROVE  Outcome(m)
<1>1. /\ m.s \in started /\ m.s \in Session /\ \A t : answers(m, t) <=> t = m.s
      /\ m.o \in StartOption /\ m.o \in Option \cup {NoOptions}
  <2>1. \A t : answers(m, t) <=> m.s = t
    BY MessageAnswers
  <2> QED
    BY <2>1, MessageAnswers DEF TypeInv
<1>2. MapOK(timeBased) /\ DistanceOK(distanceBased) /\ ended' \subseteq started
  BY DEF TypeInv, startTracking
<1>3. CASE ~hasCallback(ClientOf[m.s]) \/ m.o = NoOptions
  <2>1. UNCHANGED <<timeBased, distanceBased, apiQ, owed>>
    BY <1>3 DEF startTracking, unchangedSessions
  <2>2. NoSilentError => \A t \in Session : answers(m, t) => ClientOf[t] \in removed
    BY <1>1, <1>3 DEF NoSilentError, StartOption, hasCallback
  <2>3. Settled(m, <<>>)
    BY <2>1, <2>2, NoRequests, SettledQuietly
  <2> QED
    BY <1>2, <2>1, <2>3, NothingSent DEF Outcome
<1>4. CASE hasCallback(ClientOf[m.s]) /\ m.o # NoOptions
  <2> DEFINE o == Clamped(m.o)
             cb == Callback("started", m.s, NoOptions)
             R == IF isDistance(o) THEN <<EngineRequest("startDistance", m.s, o, cb)>>
                  ELSE startTimeBasedTrackingMultiplex(timeBased, m.s, o)
  <2>1. /\ saveTrackingSession(timeBased, distanceBased, m.s, o)
        /\ apiQ' = apiQ \o R /\ reportIf(R = <<>>, m.s)
    BY <1>4 DEF startTracking, send
  <2>2. o \in ValidOption
    BY <1>1, <1>4, ValidOptions
  <2>3. ListFor(R, m.s)
    <3>1. cb \in CallbackRec(started) /\ cb.s = m.s /\ cb.k \in Answering
      BY <1>1, CallbackMade DEF Callback, Answering
    <3> HIDE DEF cb, o
    <3>2. ListFor(<<EngineRequest("startDistance", m.s, o, cb)>>, m.s)
      BY <1>1, <3>1, SingleRequest DEF RequestOp
    <3> QED
      BY <1>1, <1>2, <3>2, MultiplexLists
  <2> HIDE DEF R, o
  <2>4. Settled(m, R)
    BY <1>1, <2>1, <2>3, SettledByList
  <2>5. MapOK(timeBased') /\ DistanceOK(distanceBased')
    BY <1>1, <1>2, <2>1, <2>2, SaveKeeps
  <2> QED
    BY <1>2, <2>1, <2>4, <2>5 DEF Outcome
<1> QED
  BY <1>3, <1>4

(* updateTrackingOptionsCommand's message. *)
LEMMA UpdateOutcome ==
    ASSUME TypeInv, NEW m \in MessageRec(started), m.kind = "update", updateTrackingOptions(m)
    PROVE  Outcome(m)
<1> DEFINE o == Clamped(m.o)
           s == m.s
<1>1. /\ s \in started /\ s \in Session /\ \A t : answers(m, t) <=> t = s
      /\ m.o \in Option \cup {NoOptions}
  <2>1. \A t : answers(m, t) <=> s = t
    BY MessageAnswers
  <2> QED
    BY <2>1, MessageAnswers DEF TypeInv
<1>2. MapOK(timeBased) /\ DistanceOK(distanceBased) /\ ended' \subseteq started
  BY DEF TypeInv, updateTrackingOptions
<1>3. CASE /\ ~(s \in DOMAIN timeBased \/ s \in DOMAIN distanceBased) \/ m.o = NoOptions
           /\ unchangedSessions /\ UNCHANGED apiQ /\ reportResponse(s)
  <2>1. Settled(m, <<>>)
    BY <1>1, <1>3, NoRequests, SettledByReport
  <2> QED
    BY <1>2, <1>3, <2>1, NothingSent DEF Outcome, unchangedSessions
<1>4. CASE m.o # NoOptions /\ s \in DOMAIN timeBased /\ switchToDistance(s, o)
  <2> DEFINE P == stopTimeBasedTrackingMultiplex(timeBased, s)
             Q == <<EngineRequest("startDistance", s, o, Silent)>>
  <2>1. /\ saveTrackingSession(Others(timeBased, s), distanceBased, s, o)
        /\ apiQ' = apiQ \o (P \o Q) /\ reportIf(P = <<>>, s)
    BY <1>4 DEF switchToDistance, send
  <2>2. o \in ValidOption
    BY <1>1, <1>4, ValidOptions
  <2>3. ListFor(P, s)
    BY <1>1, <1>2, MultiplexLists
  <2>4. ListOK(Q) /\ \A t : due(Q, t) = 0
    <3>1. Silent \in CallbackRec(started) /\ Silent.k = "silent" /\ "silent" \notin Answering
      BY <1>1, CallbackMade DEF Silent, Callback, Answering
    <3> HIDE DEF s, o
    <3> QED
      BY <1>1, <3>1, SingleRequest DEF ListFor, RequestOp
  <2> HIDE DEF P, Q, o
  <2>5. ListOK(P \o Q) /\ \A t \in Session : due(P \o Q, t) = due(P, t)
    <3>1. ListOK(P \o Q) /\ \A t : due(P, t) \in Nat /\ due(P \o Q, t) = due(P, t) + due(Q, t)
      BY <2>3, <2>4, ListConcat DEF ListFor
    <3> QED
      BY <2>4, <3>1
  <2>6. Settled(m, P \o Q)
    <3>1. CASE P = <<>>
      BY <1>1, <2>1, <2>3, <2>5, <3>1, SettledByReport DEF ListFor, reportIf
    <3>2. CASE P # <<>>
      BY <1>1, <2>1, <2>3, <2>5, <3>2, SettledBySend DEF ListFor, JustFor, reportIf
    <3> QED
      BY <3>1, <3>2
  <2>7. MapOK(timeBased') /\ DistanceOK(distanceBased')
    BY <1>1, <1>2, <2>1, <2>2, MapsKept, SaveKeeps
  <2> QED
    BY <1>2, <2>1, <2>6, <2>7 DEF Outcome
<1>5. CASE m.o # NoOptions /\ ~o.distance /\ s \in DOMAIN distanceBased /\ switchToTime(s, o)
  <2> DEFINE cb == Callback("switched", s, o)
             R == <<EngineRequest("stopDistance", s, NoOptions, cb)>>
  <2>1. eraseTrackingSession(s) /\ apiQ' = apiQ \o R /\ UNCHANGED owed
    BY <1>5 DEF switchToTime, send
  <2>2. cb \in CallbackRec(started) /\ cb.s = s /\ cb.k \in Answering
    <3>1. DistanceOption # {}
      BY <1>2, <1>5 DEF DistanceOK
    <3> QED
      BY <1>1, <1>5, <3>1, ValidOptions, CallbackMade
      DEF Callback, Answering, TimeOption, DistanceOption
  <2> HIDE DEF cb
  <2>3. ListFor(R, s) /\ JustFor(R, s)
    BY <1>1, <2>2, SingleRequest DEF RequestOp
  <2> HIDE DEF R
  <2>4. Settled(m, R)
    BY <1>1, <2>1, <2>3, SettledBySend DEF ListFor
  <2> QED
    BY <1>2, <2>1, <2>4, EraseKeeps DEF Outcome
<1>6. CASE m.o # NoOptions /\ s \in DOMAIN timeBased /\ updateTimeBased(s, o)
  <2> DEFINE R == updateTrackingMultiplex(timeBased, s, o)
  <2>1. /\ saveTrackingSession(timeBased, distanceBased, s, o)
        /\ apiQ' = apiQ \o R /\ reportIf(R = <<>>, s)
    BY <1>6 DEF updateTimeBased, send
  <2>2. o \in ValidOption
    BY <1>1, <1>6, ValidOptions
  <2>3. ListFor(R, s)
    BY <1>1, <1>2, <1>6, MultiplexLists
  <2> HIDE DEF R, o
  <2>4. Settled(m, R)
    BY <1>1, <2>1, <2>3, SettledByList
  <2> QED
    BY <1>1, <1>2, <2>1, <2>2, <2>4, SaveKeeps DEF Outcome
<1>7. CASE m.o # NoOptions /\ o.distance /\ restartDistance(s, o)
  <2> DEFINE cb == Callback("restart", s, o)
             R == <<EngineRequest("stopDistance", s, NoOptions, cb)>>
  <2>1. apiQ' = apiQ \o R /\ UNCHANGED <<timeBased, distanceBased, owed>>
    BY <1>7 DEF restartDistance, send, unchangedSessions
  <2>2. cb \in CallbackRec(started) /\ cb.s = s /\ cb.k \in Answering
    <3>1. o \in DistanceOption
      BY <1>1, <1>7, ValidOptions DEF DistanceOption
    <3> QED
      BY <1>1, <3>1, CallbackMade DEF Callback, Answering
  <2> HIDE DEF cb
  <2>3. ListFor(R, s) /\ JustFor(R, s)
    BY <1>1, <2>2, SingleRequest DEF RequestOp
  <2> HIDE DEF R
  <2>4. Settled(m, R)
    BY <1>1, <2>1, <2>3, SettledBySend DEF ListFor
  <2> QED
    BY <1>2, <2>1, <2>4 DEF Outcome
<1> QED
  BY <1>3, <1>4, <1>5, <1>6, <1>7 DEF updateTrackingOptions

(* stopTrackingCommand's message. *)
LEMMA StopOutcome ==
    ASSUME TypeInv, NEW m \in MessageRec(started), m.kind = "stop", stop(m)
    PROVE  Outcome(m)
<1> DEFINE s == m.s
<1>1. s \in started /\ s \in Session /\ \A t : answers(m, t) <=> t = s
  <2>1. \A t : answers(m, t) <=> s = t
    BY MessageAnswers
  <2> QED
    BY <2>1, MessageAnswers DEF TypeInv
<1>2. MapOK(timeBased) /\ DistanceOK(distanceBased) /\ ended' \subseteq started
  BY <1>1 DEF TypeInv, stop
<1>3. CASE /\ apiQ' = apiQ \o stopTimeBasedTrackingMultiplex(timeBased, s)
           /\ reportIf(stopTimeBasedTrackingMultiplex(timeBased, s) = <<>>, s)
           /\ eraseTrackingSession(s)
  <2> DEFINE R == stopTimeBasedTrackingMultiplex(timeBased, s)
  <2>1. ListFor(R, s)
    BY <1>1, <1>2, MultiplexLists
  <2>2. Settled(m, R)
    BY <1>1, <1>3, <2>1, SettledByList
  <2> QED
    BY <1>2, <1>3, <2>2, EraseKeeps DEF Outcome
<1>4. CASE /\ s \in DOMAIN distanceBased
           /\ send(<<EngineRequest("stopDistance", s, NoOptions, Callback("stoppedDistance", s, NoOptions))>>)
           /\ unchangedSessions /\ UNCHANGED owed
  <2> DEFINE cb == Callback("stoppedDistance", s, NoOptions)
             R == <<EngineRequest("stopDistance", s, NoOptions, cb)>>
  <2>1. apiQ' = apiQ \o R /\ UNCHANGED <<timeBased, distanceBased, owed>>
    BY <1>4 DEF send, unchangedSessions
  <2>2. cb \in CallbackRec(started) /\ cb.s = s /\ cb.k \in Answering
    <3>1. DistanceOption # {}
      BY <1>2, <1>4 DEF DistanceOK
    <3> QED
      BY <1>1, <3>1, CallbackMade DEF Callback, Answering
  <2> HIDE DEF cb
  <2>3. ListFor(R, s) /\ JustFor(R, s)
    BY <1>1, <2>2, SingleRequest DEF RequestOp
  <2> HIDE DEF R
  <2>4. Settled(m, R)
    BY <1>1, <2>1, <2>3, SettledBySend DEF ListFor
  <2> QED
    BY <1>2, <2>1, <2>4 DEF Outcome
<1>5. CASE reportResponse(s) /\ unchangedSessions /\ UNCHANGED apiQ
  <2>1. Settled(m, <<>>)
    BY <1>1, <1>5, NoRequests, SettledByReport
  <2> QED
    BY <1>2, <1>5, <2>1, NothingSent DEF Outcome, unchangedSessions
<1> QED
  BY <1>3, <1>4, <1>5 DEF stop, send

(* The engine's answers. *)
LEMMA ResponseOutcome ==
    ASSUME TypeInv, NEW m \in MessageRec(started), m.kind = "response", onResponse(m.cb, m.ok)
    PROVE  Outcome(m)
<1> DEFINE cb == m.cb
           s == cb.s
<1>1. /\ cb \in CallbackRec(started) /\ cb.k # "silent" /\ s \in started /\ s \in Session
      /\ cb.k \in Answering => \A t : answers(m, t) <=> t = s
      /\ cb.k \notin Answering => \A t : ~answers(m, t)
      /\ cb.k \in {"updated", "switched", "restart", "restarted"} => cb.o \in ValidOption
      /\ cb.k \in {"restart", "restarted"} => cb.o \in DistanceOption
      /\ m.ok \in EngineAnswer
  <2>1. /\ cb \in CallbackRec(started) /\ cb # Silent /\ m.ok \in EngineAnswer
        /\ \A t : answers(m, t) <=> cb.k \in Answering /\ s = t
    BY MessageAnswers
  <2>2. /\ cb.k # "silent" /\ s \in started
        /\ cb.k \in {"updated", "switched", "restart", "restarted"} => cb.o \in ValidOption
        /\ cb.k \in {"restart", "restarted"} => cb.o \in DistanceOption
    BY <2>1, CallbackTyped
  <2> QED
    BY <2>1, <2>2 DEF TypeInv
<1>2. MapOK(timeBased) /\ DistanceOK(distanceBased) /\ ended \subseteq started
  BY DEF TypeInv
<1>3. CASE /\ cb.k \in Answering /\ reportResponse(s) /\ UNCHANGED apiQ
           /\ ended' \in {ended, ended \cup {s}}
           /\ \/ unchangedSessions
              \/ eraseTrackingSession(s)
              \/ /\ cb.k \in {"updated", "restarted"}
                 /\ saveTrackingSession(timeBased, distanceBased, s, cb.o)
  <2>1. Settled(m, <<>>)
    BY <1>1, <1>3, NoRequests, SettledByReport
  <2>2. MapOK(timeBased') /\ DistanceOK(distanceBased')
    BY <1>1, <1>2, <1>3, SaveKeeps, EraseKeeps DEF unchangedSessions
  <2> QED
    BY <1>1, <1>2, <1>3, <2>1, <2>2, NothingSent DEF Outcome
<1>4. CASE /\ cb.k = "switched" /\ onSwitched(cb, m.ok)
  <2> DEFINE R == startTimeBasedTrackingMultiplex(timeBased, s, cb.o)
  <2>1. /\ saveTrackingSession(timeBased, distanceBased, s, cb.o)
        /\ apiQ' = apiQ \o R /\ reportIf(R = <<>>, s) /\ ended' = ended
    BY <1>4 DEF onSwitched, send
  <2>2. ListFor(R, s)
    BY <1>1, <1>2, MultiplexLists
  <2>3. "switched" \in Answering
    BY DEF Answering
  <2> HIDE DEF R
  <2>4. Settled(m, R)
    BY <1>1, <1>4, <2>1, <2>2, <2>3, SettledByList
  <2> QED
    BY <1>1, <1>2, <1>4, <2>1, <2>4, SaveKeeps DEF Outcome
<1>5. CASE cb.k = "restart" /\ onRestart(cb, m.ok)
  <2>1. UNCHANGED <<timeBased, distanceBased, owed, ended>>
    BY <1>5 DEF onRestart, unchangedSessions
  <2>2. CASE m.ok
    <3> DEFINE c == Callback("restarted", s, cb.o)
               R == <<EngineRequest("startDistance", s, cb.o, c)>>
    <3>1. apiQ' = apiQ \o R
      BY <1>5, <2>2 DEF onRestart, send
    <3>2. c \in CallbackRec(started) /\ c.s = s /\ c.k \in Answering /\ "restart" \in Answering
      BY <1>1, <1>5, CallbackMade DEF Callback, Answering
    <3> HIDE DEF c
    <3>3. ListFor(R, s) /\ JustFor(R, s)
      BY <1>1, <3>2, SingleRequest DEF RequestOp
    <3> HIDE DEF R
    <3>4. Settled(m, R)
      BY <1>1, <1>5, <2>1, <3>2, <3>3, SettledBySend DEF ListFor
    <3> QED
      BY <1>2, <2>1, <3>1, <3>4 DEF Outcome
  <2>3. CASE ~m.ok
    <3>1. UNCHANGED apiQ
      BY <1>5, <2>3 DEF onRestart
    <3>2. ~NoSilentError
      BY <1>1, <1>5, <2>3 DEF NoSilentError, EngineAnswer
    <3>3. Settled(m, <<>>)
      BY <2>1, <3>2, NoRequests, SettledQuietly
    <3> QED
      BY <1>2, <2>1, <3>1, <3>3, NothingSent DEF Outcome
  <2> QED
    BY <2>2, <2>3
<1>6. CASE cb.k = "stoppedClient" /\ onStoppedDistance(cb, m.ok)
  <2>1. /\ UNCHANGED <<owed, apiQ>> /\ ended' \in {ended, ended \cup {s}}
        /\ unchangedSessions \/ eraseTrackingSession(s)
    BY <1>6 DEF onStoppedDistance
  <2>2. Settled(m, <<>>)
    <3>1. \A t : ~answers(m, t)
      BY <1>1, <1>6 DEF Answering
    <3> QED
      BY <2>1, <3>1, NoRequests, SettledQuietly
  <2>3. MapOK(timeBased') /\ DistanceOK(distanceBased')
    BY <1>2, <2>1, EraseKeeps DEF unchangedSessions
  <2> QED
    BY <1>1, <1>2, <2>1, <2>2, <2>3, NothingSent DEF Outcome
<1>7. CASE \/ cb.k = "started" /\ onStarted(cb, m.ok)
           \/ cb.k = "updated" /\ onUpdated(cb, m.ok)
           \/ cb.k = "stopped" /\ onStopped(cb, m.ok)
           \/ cb.k = "restarted" /\ onRestarted(cb, m.ok)
           \/ cb.k = "stoppedDistance" /\ onStoppedDistance(cb, m.ok)
  BY <1>3, <1>7 DEF onStarted, onUpdated, onStopped, onRestarted, onStoppedDistance, Answering
<1> QED
  BY <1>1, <1>4, <1>5, <1>6, <1>7 DEF onResponse

-----------------------------------------------------------------------------
(***************************************************************************)
(* Steps.                                                                  *)
(***************************************************************************)
(* A message whose account is settled keeps the ledger. *)
LEMMA SettledStep ==
    ASSUME IInv, msgQ # <<>>, msgQ' = Tail(msgQ), Outcome(Head(msgQ)),
           UNCHANGED <<pending, removed, started>>
    PROVE  LedgerOK' /\ QueuesOK' /\ owed' \in [Session -> Int]
<1> DEFINE m == Head(msgQ)
<1>1. PICK R : apiQ' = apiQ \o R /\ Settled(m, R)
  BY DEF Outcome
<1>2. TypeInv /\ LedgerOK /\ QueuesOK
  BY DEF IInv, TypeInv
<1>3. m \in MessageRec(started) /\ msgQ' \in Seq(MessageRec(started))
  BY <1>2, HeadTailProperties DEF QueuesOK
<1>4. ListOK(apiQ) /\ ListOK(R)
  BY <1>1, <1>2 DEF QueuesOK, Settled
<1>5. ListOK(apiQ \o R) /\ \A t : /\ due(apiQ, t) \in Nat /\ due(R, t) \in Nat
                                  /\ due(apiQ \o R, t) = due(apiQ, t) + due(R, t)
  BY <1>4, ListConcat
<1>6. QueuesOK'
  BY <1>1, <1>2, <1>3, <1>5 DEF QueuesOK, ListOK, RequestOK
<1>7. owed' \in [Session -> Int] /\ owed \in [Session -> Int]
  BY <1>1, <1>2 DEF Settled, TypeInv
<1>8. ASSUME NEW t \in Session
      PROVE  /\ due(msgQ, t) = one(m, t) + due(msgQ', t)
             /\ due(msgQ', t) \in Nat /\ due(pending, t) \in Nat
             /\ one(m, t) \in {0, 1}
  <2>1. msgQ \in Seq(MessageRec(started)) /\ pending \in Seq(CommandRec(started))
    BY <1>2 DEF QueuesOK
  <2>2. due(Tail(msgQ), t) \in Nat /\ due(msgQ, t) = one(m, t) + due(Tail(msgQ), t)
    BY <1>3, <2>1, DueEnds
  <2>3. due(pending, t) \in Nat
    BY <2>1, DueConcat
  <2> QED
    BY <2>2, <2>3 DEF one
<1> HIDE DEF m
<1>9. LedgerOK'
  <2> SUFFICES ASSUME NEW t \in Session
               PROVE  /\ owed'[t] >= 0
                      /\ ClientOf[t] \notin removed' =>
                            /\ owed'[t] >= due(msgQ', t) + due(pending', t) + due(apiQ', t)
                            /\ NoSilentError =>
                                 owed'[t] = due(msgQ', t) + due(pending', t) + due(apiQ', t)
    BY DEF LedgerOK, toCome
  <2>1. CASE ClientOf[t] \in removed
    BY <1>1, <1>2, <2>1 DEF Settled, LedgerOK
  <2>2. CASE ClientOf[t] \notin removed
    <3>1. /\ owed[t] - owed'[t] + due(R, t) <= one(m, t)
          /\ NoSilentError => owed[t] - owed'[t] + due(R, t) = one(m, t)
      BY <1>1, <2>2 DEF Settled
    <3>2. /\ owed[t] >= due(msgQ, t) + due(pending, t) + due(apiQ, t)
          /\ NoSilentError => owed[t] = due(msgQ, t) + due(pending, t) + due(apiQ, t)
      BY <1>2, <2>2 DEF LedgerOK, toCome
    <3>3. due(pending', t) = due(pending, t) /\ due(apiQ', t) = due(apiQ, t) + due(R, t)
      BY <1>1, <1>5
    <3>4. owed[t] \in Int /\ owed'[t] \in Int
      BY <1>7
    <3>5. /\ due(msgQ, t) = one(m, t) + due(msgQ', t)
          /\ due(msgQ', t) \in Nat /\ due(pending, t) \in Nat /\ one(m, t) \in {0, 1}
          /\ due(apiQ, t) \in Nat /\ due(R, t) \in Nat
      BY <1>5, <1>8
    <3>6. /\ owed'[t] >= due(msgQ', t) + due(pending, t) + due(apiQ, t) + due(R, t)
          /\ NoSilentError => owed'[t] = due(msgQ', t) + due(pending, t) + due(apiQ, t) + due(R, t)
      <4> DEFINE q == due(msgQ', t)
                 w == due(pending, t)
                 a == due(apiQ, t)
                 d == due(R, t)
                 n == one(m, t)
                 x == owed[t]
                 y == owed'[t]
      <4>1. /\ q \in Nat /\ w \in Nat /\ a \in Nat /\ d \in Nat /\ n \in Nat
            /\ x \in Int /\ y \in Int
        BY <3>4, <3>5
      <4>2. /\ x >= (n + q) + w + a /\ x - y + d <= n
            /\ NoSilentError => x = (n + q) + w + a /\ x - y + d = n
        BY <3>1, <3>2, <3>5
      <4> HIDE DEF q, w, a, d, n, x, y
      <4>3. y >= q + w + a + d /\ (NoSilentError => y = q + w + a + d)
        BY <4>1, <4>2
      <4> QED
        BY <4>3 DEF q, w, a, d, y
    <3> QED
      BY <3>3, <3>4, <3>5, <3>6
  <2> QED
    BY <2>1, <2>2
<1> QED
  BY <1>6, <1>7, <1>9

(* The message is put with those that wait for the engine's capabilities. *)
LEMMA PendStep ==
    ASSUME IInv, msgQ # <<>>, msgQ' = Tail(msgQ), Head(msgQ).kind \in {"start", "update"},
           pending' = Append(pending, Head(msgQ)), UNCHANGED <<removed, started, owed, apiQ>>
    PROVE  LedgerOK' /\ QueuesOK'
<1> DEFINE m == Head(msgQ)
<1>1. TypeInv /\ LedgerOK /\ QueuesOK /\ owed \in [Session -> Int]
  BY DEF IInv, TypeInv
<1>2. m \in MessageRec(started) /\ msgQ' \in Seq(MessageRec(started))
  BY <1>1, HeadTailProperties DEF QueuesOK
<1>3. m \in CommandRec(started)
  BY <1>2, MessageAnswers
<1>4. QueuesOK'
  BY <1>1, <1>2, <1>3, AppendProperties DEF QueuesOK, ListOK, RequestOK
<1>5. \A t \in Session :
          /\ due(msgQ, t) = one(m, t) + due(msgQ', t) /\ due(msgQ', t) \in Nat
          /\ due(pending', t) = due(pending, t) + one(m, t)
          /\ due(pending, t) \in Nat /\ one(m, t) \in {0, 1} /\ due(apiQ, t) \in Nat
  <2>1. msgQ \in Seq(MessageRec(started)) /\ pending \in Seq(CommandRec(started))
        /\ apiQ \in Seq(ToSet(apiQ))
    BY <1>1 DEF QueuesOK, ListOK
  <2> QED
    BY <1>2, <1>3, <2>1, DueEnds, DueConcat DEF one
<1> HIDE DEF m
<1>6. LedgerOK'
  BY <1>1, <1>5 DEF LedgerOK, toCome
<1> QED
  BY <1>4, <1>6

(* A list built request by request. *)
LEMMA BuiltList ==
    ASSUME NEW n \in Nat, NEW q, DOMAIN q = 1 .. n, q = [i \in 1 .. n |-> q[i]],
           \A i \in 1 .. n : RequestOK(q[i])
    PROVE  ListOK(q) /\ Len(q) = n
<1>1. \A i \in 1 .. n : q[i] \in ToSet(q)
  BY DEF ToSet
<1>2. q \in Seq(ToSet(q)) /\ Len(q) = n
  BY <1>1, SeqDef
<1>3. \A r \in ToSet(q) : RequestOK(r)
  BY DEF ToSet
<1> QED
  BY <1>2, <1>3 DEF ListOK

(* The first request of a list for a session is about that session. *)
LEMMA HeadOfList ==
    ASSUME NEW L, NEW s, ListFor(L, s), L # <<>>
    PROVE  RequestOK(Head(L)) /\ \A t \in Session : answers(Head(L), t) => t = s
<1>1. L \in Seq(ToSet(L)) /\ \A r \in ToSet(L) : RequestOK(r)
  BY DEF ListFor, ListOK
<1>2. Head(L) \in ToSet(L)
  BY <1>1, HeadTailProperties
<1>3. ASSUME NEW t \in Session, answers(Head(L), t) PROVE t = s
  <2>1. due(L, t) = one(Head(L), t) + due(Tail(L), t) /\ due(Tail(L), t) \in Nat
    BY <1>1, <1>2, DueEnds
  <2>2. one(Head(L), t) = 1
    BY <1>3 DEF one
  <2>3. due(L, t) = IF t = s THEN 1 ELSE 0
    BY DEF ListFor, JustFor
  <2> QED
    BY <2>1, <2>2, <2>3
<1> QED
  BY <1>1, <1>2, <1>3

(* Removing a client asks the engine only about the client's own sessions. *)
LEMMA RemoveSends ==
    ASSUME TypeInv, NEW m, removeClient(m)
    PROVE  \E R : /\ ListOK(R) /\ apiQ' = apiQ \o R
                  /\ \A t \in Session : ClientOf[t] # m.c => due(R, t) = 0
<1> DEFINE mine(T) == {s \in DOMAIN T : ClientOf[s] = m.c}
           stop1(s) == stopTimeBasedTrackingMultiplex(timeBased, s)
           A == {s \in mine(timeBased) : stop1(s) # <<>>}
           B == mine(distanceBased)
           a == Ordered(A)
           b == Ordered(B)
           stopB(s) == EngineRequest("stopDistance", s, NoOptions, Callback("stoppedClient", s, NoOptions))
           P == [i \in DOMAIN a |-> Head(stop1(a[i]))]
           Q == [i \in DOMAIN b |-> stopB(b[i])]
<1>1. apiQ' = apiQ \o (P \o Q)
  BY DEF removeClient, send
<1>2. /\ DOMAIN timeBased \subseteq started /\ DOMAIN distanceBased \subseteq started
      /\ started \subseteq Session /\ IsFiniteSet(started) /\ MapOK(timeBased)
      /\ DOMAIN distanceBased # {} => DistanceOption # {}
  BY DEF TypeInv, MapOK, DistanceOK
<1>3. A \subseteq started /\ B \subseteq started /\ IsFiniteSet(A) /\ IsFiniteSet(B)
  BY <1>2, FS_Subset
<1>4. /\ Cardinality(A) \in Nat /\ a \in [1 .. Cardinality(A) -> A]
      /\ Cardinality(B) \in Nat /\ b \in [1 .. Cardinality(B) -> B]
  <2> HIDE DEF A, B
  <2> QED
    BY <1>2, <1>3, OrderedLists
<1>5. \A s \in A : /\ RequestOK(Head(stop1(s))) /\ ClientOf[s] = m.c
                   /\ \A t \in Session : answers(Head(stop1(s)), t) => t = s
  <2> SUFFICES ASSUME NEW s \in A
               PROVE  /\ RequestOK(Head(stop1(s))) /\ ClientOf[s] = m.c
                      /\ \A t \in Session : answers(Head(stop1(s)), t) => t = s
    OBVIOUS
  <2>1. ListFor(stop1(s), s) /\ stop1(s) # <<>>
    BY <1>2, <1>3, MultiplexLists
  <2> HIDE DEF stop1
  <2> QED
    BY <2>1, HeadOfList
<1>6. \A s \in B : RequestOK(stopB(s)) /\ \A t : ~answers(stopB(s), t)
  <2> SUFFICES ASSUME NEW s \in B PROVE RequestOK(stopB(s)) /\ \A t : ~answers(stopB(s), t)
    OBVIOUS
  <2> DEFINE cb == Callback("stoppedClient", s, NoOptions)
  <2>1. cb \in CallbackRec(started) /\ cb.k = "stoppedClient"
    BY <1>2, <1>3, CallbackMade DEF Callback
  <2>2. cb.k \notin Answering
    BY <2>1 DEF Answering
  <2> HIDE DEF cb
  <2>3. \A t : ~answers(EngineRequest("stopDistance", s, NoOptions, cb), t)
    BY <2>2, CallbackAnswers
  <2>4. RequestOK(EngineRequest("stopDistance", s, NoOptions, cb))
    BY <2>1 DEF RequestOK, EngineRequest, RequestOp
  <2> QED
    BY <2>3, <2>4 DEF cb
<1> HIDE DEF A, B, a, b, stop1, stopB
<1>7. /\ DOMAIN P = 1 .. Cardinality(A) /\ \A i \in DOMAIN P : a[i] \in A /\ P[i] = Head(stop1(a[i]))
      /\ DOMAIN Q = 1 .. Cardinality(B) /\ \A i \in DOMAIN Q : b[i] \in B /\ Q[i] = stopB(b[i])
      /\ P = [i \in 1 .. Cardinality(A) |-> P[i]] /\ Q = [i \in 1 .. Cardinality(B) |-> Q[i]]
  BY <1>4
<1> HIDE DEF P, Q
<1>8. ListOK(P) /\ Len(P) = Cardinality(A)
  BY <1>4, <1>5, <1>7, BuiltList
<1>9. ListOK(Q) /\ Len(Q) = Cardinality(B)
  BY <1>4, <1>6, <1>7, BuiltList
<1>10. \A t \in Session : ClientOf[t] # m.c => due(P, t) = 0
  <2> SUFFICES ASSUME NEW t \in Session, ClientOf[t] # m.c PROVE due(P, t) = 0
    OBVIOUS
  <2>1. ASSUME NEW i \in 1 .. Len(P) PROVE ~answers(P[i], t)
    <3>1. a[i] \in A /\ P[i] = Head(stop1(a[i]))
      BY <1>7, <1>8, <2>1
    <3>2. ClientOf[a[i]] = m.c /\ (answers(Head(stop1(a[i])), t) => t = a[i])
      BY <1>5, <3>1
    <3> QED
      BY <3>1, <3>2
  <2> QED
    BY <2>1, DueNone
<1>11. \A t \in Session : due(Q, t) = 0
  <2> SUFFICES ASSUME NEW t \in Session PROVE due(Q, t) = 0
    OBVIOUS
  <2>1. ASSUME NEW i \in 1 .. Len(Q) PROVE ~answers(Q[i], t)
    <3>1. b[i] \in B /\ Q[i] = stopB(b[i])
      BY <1>7, <1>9, <2>1
    <3>2. ~answers(stopB(b[i]), t)
      BY <1>6, <3>1
    <3> QED
      BY <3>1, <3>2
  <2> QED
    BY <2>1, DueNone
<1>12. ListOK(P \o Q) /\ \A t : due(P, t) \in Nat /\ due(P \o Q, t) = due(P, t) + due(Q, t)
  BY <1>8, <1>9, ListConcat
<1>13. \A t \in Session : ClientOf[t] # m.c => due(P \o Q, t) = 0
  BY <1>10, <1>11, <1>12
<1> QED
  BY <1>1, <1>12, <1>13

(* The sessions are restarted with requests that report to nobody. *)
LEMMA RestartSends ==
    ASSUME TypeInv, restartSessions
    PROVE  \E R : ListOK(R) /\ apiQ' = apiQ \o R /\ \A t \in Session : due(R, t) = 0
<1> DEFINE best == [SmallestInterval(timeBased) EXCEPT !.power = HighestPower(timeBased)]
           A == IF timeBased = <<>> THEN <<>> ELSE <<EngineRequest("start", 0, best, Silent)>>
           b == Ordered(DOMAIN distanceBased)
           again(s) == EngineRequest("startDistance", s, distanceBased[s], Silent)
           B == [i \in DOMAIN b |-> again(b[i])]
<1>1. apiQ' = apiQ \o (A \o B)
  BY DEF restartSessions, send
<1>2. /\ Silent \in CallbackRec(started) /\ Silent.k = "silent" /\ Silent.k \notin Answering
  BY DEF CallbackRec, Silent, Callback, Answering
<1>3. ListOK(A) /\ \A t : due(A, t) = 0
  <2> HIDE DEF best
  <2>1. /\ ListOK(<<EngineRequest("start", 0, best, Silent)>>)
        /\ \A t : due(<<EngineRequest("start", 0, best, Silent)>>, t) = 0
    BY <1>2, OneRequest DEF RequestOp
  <2> QED
    BY <2>1, NoRequests
<1>4. /\ DOMAIN distanceBased \in SUBSET Session /\ IsFiniteSet(DOMAIN distanceBased)
      /\ DOMAIN distanceBased \subseteq started
  BY FS_Subset DEF TypeInv, MapOK, DistanceOK
<1> DEFINE n == Cardinality(DOMAIN distanceBased)
<1>5. n \in Nat /\ b \in [1 .. n -> DOMAIN distanceBased]
  BY <1>4, OrderedLists
<1>6. \A s \in started : RequestOK(again(s)) /\ \A t : ~answers(again(s), t)
  <2>1. \A s \in started : RequestOK(again(s))
    BY <1>2 DEF RequestOK, EngineRequest, RequestOp
  <2>2. \A s, t : ~answers(again(s), t)
    BY <1>2, CallbackAnswers
  <2> QED
    BY <2>1, <2>2
<1> HIDE DEF n, b, again, A
<1>7. /\ DOMAIN B = 1 .. n /\ B = [i \in 1 .. n |-> B[i]]
      /\ \A i \in 1 .. n : B[i] = again(b[i]) /\ b[i] \in started
  BY <1>4, <1>5
<1> HIDE DEF B
<1>8. ListOK(B) /\ Len(B) = n
  BY <1>5, <1>6, <1>7, BuiltList
<1>9. \A t : due(B, t) = 0
  <2> SUFFICES ASSUME NEW t PROVE due(B, t) = 0
    OBVIOUS
  <2>1. ASSUME NEW i \in 1 .. Len(B) PROVE ~answers(B[i], t)
    <3>1. b[i] \in started /\ B[i] = again(b[i])
      BY <1>7, <1>8, <2>1
    <3>2. ~answers(again(b[i]), t)
      BY <1>6, <3>1
    <3> QED
      BY <3>1, <3>2
  <2> QED
    BY <2>1, DueNone
<1>10. ListOK(A \o B) /\ \A t : due(A \o B, t) = due(A, t) + due(B, t)
  BY <1>3, <1>8, ListConcat
<1>11. \A t \in Session : due(A \o B, t) = 0
  BY <1>3, <1>9, <1>10
<1> QED
  BY <1>1, <1>10, <1>11

(* The client is removed: its commands are no longer counted. *)
LEMMA RemoveStep ==
    ASSUME IInv, msgQ # <<>>, msgQ' = Tail(msgQ), Head(msgQ).kind = "remove",
           removeClient(Head(msgQ)), UNCHANGED started
    PROVE  LedgerOK' /\ QueuesOK'
<1> DEFINE m == Head(msgQ)
<1>1. TypeInv /\ LedgerOK /\ QueuesOK /\ owed \in [Session -> Int]
  BY DEF IInv, TypeInv
<1>2. m \in MessageRec(started) /\ msgQ' \in Seq(MessageRec(started))
  BY <1>1, HeadTailProperties DEF QueuesOK
<1>3. removed' = removed \cup {m.c} /\ UNCHANGED <<owed, pending>>
  BY DEF removeClient
<1>4. PICK R : /\ ListOK(R) /\ apiQ' = apiQ \o R
               /\ \A t \in Session : ClientOf[t] # m.c => due(R, t) = 0
  BY <1>1, RemoveSends
<1>5. ListOK(apiQ') /\ \A t : due(apiQ, t) \in Nat /\ due(apiQ', t) = due(apiQ, t) + due(R, t)
  BY <1>1, <1>4, ListConcat DEF QueuesOK
<1>6. QueuesOK'
  BY <1>1, <1>2, <1>3, <1>5 DEF QueuesOK, ListOK, RequestOK
<1>7. \A t \in Session : /\ due(msgQ, t) = one(m, t) + due(msgQ', t) /\ due(msgQ', t) \in Nat
                         /\ one(m, t) = 0 /\ due(pending, t) \in Nat
  <2>1. msgQ \in Seq(MessageRec(started)) /\ pending \in Seq(CommandRec(started))
    BY <1>1 DEF QueuesOK
  <2>2. \A t : ~answers(m, t)
    BY <1>2, MessageAnswers
  <2> QED
    BY <1>2, <2>1, <2>2, DueEnds, DueConcat DEF one
<1> HIDE DEF m
<1>8. LedgerOK'
  <2> SUFFICES ASSUME NEW t \in Session
               PROVE  /\ owed[t] >= 0
                      /\ ClientOf[t] \notin removed' =>
                            /\ owed[t] >= due(msgQ', t) + due(pending, t) + due(apiQ', t)
                            /\ NoSilentError =>
                                 owed[t] = due(msgQ', t) + due(pending, t) + due(apiQ', t)
    BY <1>3 DEF LedgerOK, toCome
  <2>1. owed[t] >= 0
    BY <1>1 DEF LedgerOK
  <2>2. ASSUME ClientOf[t] \notin removed'
        PROVE  /\ owed[t] >= due(msgQ', t) + due(pending, t) + due(apiQ', t)
               /\ NoSilentError => owed[t] = due(msgQ', t) + due(pending, t) + due(apiQ', t)
    <3>1. ClientOf[t] \notin removed /\ ClientOf[t] # m.c
      BY <1>3, <2>2
    <3>2. /\ owed[t] >= due(msgQ, t) + due(pending, t) + due(apiQ, t)
          /\ NoSilentError => owed[t] = due(msgQ, t) + due(pending, t) + due(apiQ, t)
      BY <1>1, <3>1 DEF LedgerOK, toCome
    <3>3. due(apiQ', t) = due(apiQ, t) /\ due(apiQ, t) \in Nat
      BY <1>4, <1>5, <3>1
    <3>4. /\ due(msgQ, t) = one(m, t) + due(msgQ', t) /\ due(msgQ', t) \in Nat
          /\ one(m, t) = 0 /\ due(pending, t) \in Nat
      BY <1>7
    <3>5. owed[t] \in Int
      BY <1>1
    <3> QED
      BY <3>2, <3>3, <3>4, <3>5
  <2> QED
    BY <2>1, <2>2
<1> QED
  BY <1>6, <1>8

(* The engine is up: what was pended goes behind the other messages. *)
LEMMA UpStep ==
    ASSUME IInv, msgQ # <<>>, Head(msgQ).kind = "engineUp", engineUpEvent,
           msgQ' = Tail(msgQ) \o pending, UNCHANGED started
    PROVE  LedgerOK' /\ QueuesOK'
<1> DEFINE m == Head(msgQ)
           tl == Tail(msgQ)
<1>1. TypeInv /\ LedgerOK /\ QueuesOK /\ owed \in [Session -> Int]
  BY DEF IInv, TypeInv
<1>2. m \in MessageRec(started) /\ tl \in Seq(MessageRec(started))
  BY <1>1, HeadTailProperties DEF QueuesOK
<1>3. pending' = <<>> /\ UNCHANGED <<owed, removed>> /\ restartSessions
  BY DEF engineUpEvent
<1>4. PICK R : ListOK(R) /\ apiQ' = apiQ \o R /\ \A t \in Session : due(R, t) = 0
  BY <1>1, <1>3, RestartSends
<1>5. ListOK(apiQ') /\ \A t : due(apiQ, t) \in Nat /\ due(apiQ', t) = due(apiQ, t) + due(R, t)
  BY <1>1, <1>4, ListConcat DEF QueuesOK
<1>6. pending \in Seq(MessageRec(started)) /\ msgQ \in Seq(MessageRec(started))
  <2>1. pending \in Seq(CommandRec(started)) /\ msgQ \in Seq(MessageRec(started))
    BY <1>1 DEF QueuesOK
  <2>2. CommandRec(started) \subseteq MessageRec(started)
    BY DEF MessageRec
  <2> QED
    BY <2>1, <2>2, SeqDef
<1>7. \A t \in Session : /\ due(msgQ, t) = one(m, t) + due(tl, t) /\ due(tl, t) \in Nat
                         /\ one(m, t) = 0 /\ due(pending, t) \in Nat
  <2>1. \A t : ~answers(m, t)
    BY <1>2, MessageAnswers
  <2> QED
    BY <1>2, <1>6, <2>1, DueEnds, DueConcat DEF one
<1> HIDE DEF m, tl
<1>8. msgQ' \in Seq(MessageRec(started)) /\ \A t : due(msgQ', t) = due(tl, t) + due(pending, t)
  <2>1. msgQ' = tl \o pending
    BY DEF tl
  <2>2. tl \o pending \in Seq(MessageRec(started))
    BY <1>2, <1>6, ConcatProperties
  <2>3. \A t : due(tl \o pending, t) = due(tl, t) + due(pending, t)
    BY <1>2, <1>6, DueConcat
  <2> QED
    BY <2>1, <2>2, <2>3
<1>9. QueuesOK'
  <2>1. pending' \in Seq(CommandRec(started))
    BY <1>3, EmptySeq
  <2> QED
    BY <1>5, <1>8, <2>1 DEF QueuesOK, ListOK, RequestOK
<1>10. \A t : due(pending', t) = 0
  BY <1>3, DueOne
<1>11. LedgerOK'
  <2> SUFFICES ASSUME NEW t \in Session
               PROVE  /\ owed[t] >= 0
                      /\ ClientOf[t] \notin removed =>
                            /\ owed[t] >= due(msgQ', t) + due(pending', t) + due(apiQ', t)
                            /\ NoSilentError => owed[t] = due(msgQ', t) + due(pending', t) + due(apiQ', t)
    BY <1>3 DEF LedgerOK, toCome
  <2>1. /\ owed[t] >= 0 /\ owed[t] \in Int
        /\ ClientOf[t] \notin removed =>
              /\ owed[t] >= due(msgQ, t) + due(pending, t) + due(apiQ, t)
              /\ NoSilentError => owed[t] = due(msgQ, t) + due(pending, t) + due(apiQ, t)
    BY <1>1 DEF LedgerOK, toCome
  <2>2. due(apiQ', t) = due(apiQ, t) /\ due(apiQ, t) \in Nat
    BY <1>4, <1>5
  <2>3. /\ due(msgQ', t) = due(tl, t) + due(pending, t) /\ due(pending', t) = 0
        /\ due(msgQ, t) = one(m, t) + due(tl, t) /\ due(tl, t) \in Nat
        /\ one(m, t) = 0 /\ due(pending, t) \in Nat
    BY <1>7, <1>8, <1>10
  <2> QED
    BY <2>1, <2>2, <2>3
<1> QED
  BY <1>9, <1>11

(* The adapter's thread handles a message. *)
LEMMA MessageStep ==
    ASSUME IInv, HandleMessage
    PROVE  IInv'
<1> DEFINE m == Head(msgQ)
<1>1. /\ msgQ # <<>> /\ Handler(m) /\ UNCHANGED <<up, engine, engineDistance, started>>
      /\ msgQ' = Tail(msgQ) \o (IF m.kind = "engineUp" THEN pending ELSE <<>>)
  BY DEF HandleMessage, world, client
<1>2. TypeInv /\ QueuesOK /\ m \in MessageRec(started) /\ Tail(msgQ) \in Seq(MessageRec(started))
  BY <1>1, HeadTailProperties DEF IInv, TypeInv, QueuesOK
<1>3. m.kind # "engineUp" => msgQ' = Tail(msgQ)
  BY <1>1, <1>2, ConcatEmptySeq
<1>4. ASSUME MapOK(timeBased'), DistanceOK(distanceBased'), ended' \subseteq started,
             removed' \subseteq Removable, capsKnown' \in BOOLEAN, owed' \in [Session -> Int],
             QueuesOK', LedgerOK'
      PROVE  IInv'
  BY <1>1, <1>2, <1>4 DEF IInv, TypeInv, MapOK, DistanceOK
<1>5. ASSUME Outcome(m), UNCHANGED <<pending, removed, capsKnown>>, m.kind # "engineUp"
      PROVE  IInv'
  <2>1. LedgerOK' /\ QueuesOK' /\ owed' \in [Session -> Int]
    BY <1>1, <1>3, <1>5, SettledStep
  <2>2. MapOK(timeBased') /\ DistanceOK(distanceBased') /\ ended' \subseteq started
    BY <1>5 DEF Outcome
  <2> QED
    BY <1>2, <1>4, <1>5, <2>1, <2>2 DEF TypeInv
<1>6. CASE m.kind \in {"start", "update"} /\ pend(m)
  <2>1. pending' = Append(pending, m)
        /\ UNCHANGED <<timeBased, distanceBased, apiQ, owed, ended, capsKnown, removed>>
    BY <1>6 DEF pend, unchangedSessions
  <2>2. LedgerOK' /\ QueuesOK'
    BY <1>1, <1>3, <1>6, <2>1, PendStep
  <2> QED
    BY <1>2, <1>4, <2>1, <2>2 DEF TypeInv
<1>7. CASE m.kind = "start" /\ startTracking(m)
  BY <1>2, <1>5, <1>7, StartOutcome DEF startTracking
<1>8. CASE m.kind = "update" /\ updateTrackingOptions(m)
  BY <1>2, <1>5, <1>8, UpdateOutcome DEF updateTrackingOptions
<1>9. CASE m.kind = "stop" /\ stop(m)
  BY <1>2, <1>5, <1>9, StopOutcome DEF stop
<1>10. CASE m.kind = "remove" /\ removeClient(m)
  <2>1. LedgerOK' /\ QueuesOK'
    BY <1>1, <1>3, <1>10, RemoveStep
  <2>2. /\ UNCHANGED <<timeBased, distanceBased, owed, capsKnown>> /\ removed' = removed \cup {m.c}
        /\ ended' = ended \cup {s \in started : ClientOf[s] = m.c}
    BY <1>10 DEF removeClient, unchangedSessions
  <2>3. m.c \in Removable
    BY <1>2, <1>10, MessageAnswers
  <2> QED
    BY <1>2, <1>4, <2>1, <2>2, <2>3 DEF TypeInv
<1>11. CASE m.kind = "response" /\ onResponse(m.cb, m.ok)
  BY <1>2, <1>5, <1>11, ResponseOutcome DEF onResponse
<1>12. CASE m.kind = "engineUp" /\ engineUpEvent
  <2>1. LedgerOK' /\ QueuesOK'
    BY <1>1, <1>12, UpStep
  <2>2. UNCHANGED <<timeBased, distanceBased, removed, owed, ended>> /\ capsKnown' = TRUE
    BY <1>12 DEF engineUpEvent, unchangedSessions
  <2> QED
    BY <1>2, <1>4, <2>1, <2>2 DEF TypeInv
<1> QED
  BY <1>1, <1>6, <1>7, <1>8, <1>9, <1>10, <1>11, <1>12 DEF Handler

(* What is well typed stays so as sessions are started. *)
LEMMA MoreStarted ==
    ASSUME TypeInv, started \subseteq started'
    PROVE  /\ MessageRec(started) \subseteq MessageRec(started')
           /\ pending \in Seq(CommandRec(started')) /\ msgQ \in Seq(MessageRec(started'))
           /\ \A r : RequestOK(r) => RequestOK(r)'
           /\ UNCHANGED <<timeBased, distanceBased>> => MapOK(timeBased)' /\ DistanceOK(distanceBased)'
<1>1. CallbackRec(started) \subseteq CallbackRec(started')
  BY DEF CallbackRec, DistanceCallback
<1>2. CommandRec(started) \subseteq CommandRec(started')
  BY DEF CommandRec
<1>3. MessageRec(started) \subseteq MessageRec(started')
  BY <1>1, <1>2 DEF MessageRec
<1>4. pending \in Seq(CommandRec(started')) /\ msgQ \in Seq(MessageRec(started'))
  <2>1. pending \in Seq(CommandRec(started)) /\ msgQ \in Seq(MessageRec(started))
    BY DEF TypeInv, QueuesOK
  <2> QED
    BY <1>2, <1>3, <2>1, SeqDef
<1>5. \A r : RequestOK(r) => RequestOK(r)'
  BY <1>1 DEF RequestOK
<1>6. UNCHANGED <<timeBased, distanceBased>> => MapOK(timeBased)' /\ DistanceOK(distanceBased)'
  BY DEF TypeInv, MapOK, DistanceOK
<1> QED
  BY <1>3, <1>4, <1>5, <1>6

(* A client's command, whose answer is owed if it is one. *)
LEMMA CommandStep ==
    ASSUME IInv, NEW m \in MessageRec(started'), Command(m),
           started' = started \/ \E s \in Session : started' = started \cup {s},
           \/ owed' = owed /\ m.kind = "remove"
           \/ \E s \in Session : expectResponse(s) /\ m.kind \in {"start", "update", "stop"} /\ m.s = s
    PROVE  IInv'
<1>1. /\ TypeInv /\ QueuesOK /\ LedgerOK /\ owed \in [Session -> Int]
      /\ msgQ' = Append(msgQ, m)
      /\ UNCHANGED <<timeBased, distanceBased, removed, capsKnown, pending, apiQ, up, engine,
                     engineDistance, ended>>
  BY DEF IInv, TypeInv, Command, adapter, world
<1>2. started \subseteq started' /\ started' \subseteq Session /\ IsFiniteSet(started')
  <2>1. started \subseteq Session /\ IsFiniteSet(started)
    BY <1>1 DEF TypeInv
  <2>2. \A s : IsFiniteSet(started \cup {s})
    BY <2>1, FS_AddElement, Zenon
  <2> QED
    BY <2>1, <2>2
<1>3. /\ pending \in Seq(CommandRec(started')) /\ msgQ \in Seq(MessageRec(started'))
      /\ \A r : RequestOK(r) => RequestOK(r)'
      /\ MapOK(timeBased)' /\ DistanceOK(distanceBased)'
  BY <1>1, <1>2, MoreStarted
<1>4. QueuesOK'
  <2>1. msgQ' \in Seq(MessageRec(started')) /\ pending' \in Seq(CommandRec(started'))
    BY <1>1, <1>3, AppendProperties
  <2>2. ListOK(apiQ)'
    BY <1>1, <1>3 DEF QueuesOK, ListOK
  <2> QED
    BY <2>1, <2>2 DEF QueuesOK
<1>5. owed' \in [Session -> Int]
  BY <1>1 DEF expectResponse
<1>6. TypeInv'
  BY <1>1, <1>2, <1>3, <1>4, <1>5 DEF TypeInv
<1>7. \A t \in Session : owed'[t] = owed[t] + one(m, t) /\ one(m, t) \in {0, 1}
  <2> SUFFICES ASSUME NEW t \in Session
               PROVE  owed'[t] = owed[t] + one(m, t) /\ one(m, t) \in {0, 1}
    OBVIOUS
  <2>1. /\ m.kind \in {"start", "update", "stop"} => (answers(m, t) <=> m.s = t)
        /\ m.kind = "remove" => ~answers(m, t)
    BY MessageAnswers
  <2>2. owed[t] \in Int
    BY <1>1
  <2>3. CASE owed' = owed /\ m.kind = "remove"
    BY <2>1, <2>2, <2>3 DEF one
  <2>4. CASE \E s \in Session : expectResponse(s) /\ m.kind \in {"start", "update", "stop"} /\ m.s = s
    <3>1. PICK s \in Session : expectResponse(s) /\ m.s = s
      BY <2>4
    <3>2. owed'[t] = IF t = s THEN owed[t] + 1 ELSE owed[t]
      BY <1>1, <3>1 DEF expectResponse
    <3>3. one(m, t) = IF t = s THEN 1 ELSE 0
      BY <2>1, <2>4, <3>1 DEF one
    <3> QED
      BY <2>2, <3>2, <3>3
  <2> QED
    BY <2>3, <2>4
<1>8. \A t : due(msgQ', t) = due(msgQ, t) + one(m, t) /\ due(msgQ, t) \in Nat
  BY <1>1, <1>3, DueEnds
<1>9. \A t : due(pending, t) \in Nat /\ due(apiQ, t) \in Nat
  BY <1>1, DueConcat DEF QueuesOK, ListOK
<1>10. LedgerOK'
  <2> SUFFICES ASSUME NEW t \in Session
               PROVE  /\ owed'[t] >= 0
                      /\ ClientOf[t] \notin removed =>
                            /\ owed'[t] >= due(msgQ', t) + due(pending, t) + due(apiQ, t)
                            /\ NoSilentError => owed'[t] = due(msgQ', t) + due(pending, t) + due(apiQ, t)
    BY <1>1 DEF LedgerOK, toCome
  <2>1. /\ owed[t] >= 0 /\ owed[t] \in Int /\ owed'[t] \in Int
        /\ ClientOf[t] \notin removed =>
              /\ owed[t] >= due(msgQ, t) + due(pending, t) + due(apiQ, t)
              /\ NoSilentError => owed[t] = due(msgQ, t) + due(pending, t) + due(apiQ, t)
    BY <1>1, <1>5 DEF LedgerOK, toCome
  <2>2. owed'[t] = owed[t] + one(m, t) /\ one(m, t) \in {0, 1}
    BY <1>7
  <2>3. /\ due(msgQ', t) = due(msgQ, t) + one(m, t) /\ due(msgQ, t) \in Nat
        /\ due(pending, t) \in Nat /\ due(apiQ, t) \in Nat
    BY <1>8, <1>9
  <2> QED
    BY <2>1, <2>2, <2>3
<1> QED
  BY <1>6, <1>10 DEF IInv

(* The commands of clients. *)
LEMMA ClientStep ==
    ASSUME IInv,
           \/ \E s \in Session :
                \/ \E o \in Option \cup {NoOptions} :
                     startTrackingCommand(s, o) \/ updateTrackingOptionsCommand(s, o)
                \/ stopTrackingCommand(s)
           \/ \E c \in Client : removeClientCommand(c)
    PROVE  IInv'
<1>1. ASSUME NEW s \in Session, NEW o \in Option \cup {NoOptions}, startTrackingCommand(s, o)
      PROVE  IInv'
  <2> DEFINE m == [kind |-> "start", s |-> s, o |-> o]
  <2>1. /\ started' = started \cup {s} /\ expectResponse(s) /\ Command(m)
    BY <1>1 DEF startTrackingCommand
  <2>2. m \in MessageRec(started') /\ m.kind = "start" /\ m.s = s
    <3>1. o \in StartOption
      BY <1>1 DEF startTrackingCommand, StartOption
    <3> QED
      BY <2>1, <3>1 DEF MessageRec, CommandRec
  <2> HIDE DEF m
  <2> QED
    BY <2>1, <2>2, CommandStep
<1>2. ASSUME NEW s \in Session, NEW o \in Option \cup {NoOptions}, updateTrackingOptionsCommand(s, o)
      PROVE  IInv'
  <2> DEFINE m == [kind |-> "update", s |-> s, o |-> o]
  <2>1. started' = started /\ expectResponse(s) /\ Command(m) /\ s \in started
    BY <1>2 DEF updateTrackingOptionsCommand, ownSession
  <2>2. m \in MessageRec(started') /\ m.kind = "update" /\ m.s = s
    BY <2>1 DEF MessageRec, CommandRec
  <2> HIDE DEF m
  <2> QED
    BY <2>1, <2>2, CommandStep
<1>3. ASSUME NEW s \in Session, stopTrackingCommand(s)
      PROVE  IInv'
  <2> DEFINE m == [kind |-> "stop", s |-> s]
  <2>1. started' = started /\ expectResponse(s) /\ Command(m) /\ s \in started
    BY <1>3 DEF stopTrackingCommand, ownSession
  <2>2. m \in MessageRec(started') /\ m.kind = "stop" /\ m.s = s
    BY <2>1 DEF MessageRec
  <2> HIDE DEF m
  <2> QED
    BY <2>1, <2>2, CommandStep
<1>4. ASSUME NEW c \in Client, removeClientCommand(c)
      PROVE  IInv'
  <2> DEFINE m == [kind |-> "remove", c |-> c]
  <2>1. started' = started /\ owed' = owed /\ Command(m)
    BY <1>4 DEF removeClientCommand
  <2>2. m \in MessageRec(started') /\ m.kind = "remove"
    BY <1>4 DEF MessageRec, removeClientCommand, Removable
  <2> HIDE DEF m
  <2> QED
    BY <2>1, <2>2, CommandStep
<1> QED
  BY <1>1, <1>2, <1>3, <1>4

(* The engine answers the first request with a message, or silently. *)
LEMMA EngineStep ==
    ASSUME IInv, NEW ok \in BOOLEAN, Engine(ok)
    PROVE  IInv'
<1> DEFINE r == Head(apiQ)
           m == [kind |-> "response", cb |-> r.cb, ok |-> ok]
<1>1. /\ TypeInv /\ QueuesOK /\ LedgerOK /\ owed \in [Session -> Int]
      /\ apiQ # <<>> /\ apiQ' = Tail(apiQ)
      /\ UNCHANGED <<timeBased, distanceBased, removed, capsKnown, pending, up, started, owed, ended>>
      /\ msgQ' = IF r.cb = Silent THEN msgQ ELSE Append(msgQ, m)
  BY DEF IInv, TypeInv, Engine, adapter, client
<1>2. ListOK(apiQ) /\ msgQ \in Seq(MessageRec(started)) /\ pending \in Seq(CommandRec(started))
  BY <1>1 DEF QueuesOK
<1>3. r \in ToSet(apiQ) /\ Tail(apiQ) \in Seq(ToSet(apiQ))
  BY <1>1, <1>2, HeadTailProperties DEF ListOK
<1>4. RequestOK(r)
  BY <1>2, <1>3 DEF ListOK
<1>5. ListOK(Tail(apiQ))
  <2> DEFINE q == Tail(apiQ)
             n == Len(q)
  <2>1. /\ n \in Nat /\ DOMAIN q = 1 .. n
        /\ \A i \in 1 .. n : q[i] \in ToSet(apiQ)
        /\ q = [i \in 1 .. n |-> q[i]]
    BY <1>3, LenProperties, ElementOfSeq
  <2>2. \A i \in 1 .. n : RequestOK(q[i])
    BY <1>2, <2>1 DEF ListOK
  <2> HIDE DEF q, n
  <2>3. ListOK(q)
    BY <2>1, <2>2, BuiltList
  <2> QED
    BY <2>3 DEF q
<1>6. \A t : /\ due(apiQ, t) = one(r, t) + due(apiQ', t) /\ due(apiQ', t) \in Nat
             /\ one(r, t) \in {0, 1}
  BY <1>1, <1>2, <1>3, DueEnds DEF one, ListOK
<1>7. \A t : one(m, t) = one(r, t)
  <2>1. \A t : answers(m, t) <=> r.cb.k \in Answering /\ r.cb.s = t
    BY CallbackAnswers
  <2>2. \A t : answers(r, t) <=> r.cb.k \in Answering /\ r.cb.s = t
    BY <1>4 DEF RequestOK, answers
  <2> QED
    BY <2>1, <2>2 DEF one
<1>8. r.cb # Silent => m \in MessageRec(started)
  <2>1. ok \in EngineAnswer
    BY DEF Engine, EngineAnswer
  <2> QED
    BY <1>4, <2>1 DEF RequestOK, MessageRec
<1>9. \A t : one(m, t) \in {0, 1}
  BY DEF one
<1> HIDE DEF m
<1>10. /\ msgQ' \in Seq(MessageRec(started))
       /\ \A t : /\ due(msgQ', t) = due(msgQ, t) + one(r, t)
                 /\ due(msgQ, t) \in Nat /\ due(msgQ', t) \in Nat
  <2>1. CASE r.cb = Silent
    <3>1. \A t : due(msgQ, t) \in Nat
      BY <1>2, DueConcat
    <3>2. \A t : one(r, t) = 0
      BY <1>4, <2>1 DEF RequestOK, one, answers, Silent, Callback, Answering
    <3> HIDE DEF r
    <3> QED
      BY <1>1, <1>2, <2>1, <3>1, <3>2
  <2>2. CASE r.cb # Silent
    <3>1. \A t : due(msgQ', t) = due(msgQ, t) + one(m, t) /\ due(msgQ, t) \in Nat
      BY <1>1, <1>2, <1>8, <2>2, DueEnds
    <3>2. msgQ' \in Seq(MessageRec(started))
      BY <1>1, <1>2, <1>8, <2>2, AppendProperties
    <3> QED
      BY <1>7, <1>9, <3>1, <3>2
  <2> QED
    BY <2>1, <2>2
<1>11. engineDistance' \subseteq started /\ engine'.on \in BOOLEAN
  <2>1. r.op = "startDistance" => r.s \in started
    BY <1>4 DEF RequestOK
  <2>2. engineDistance \subseteq started /\ engine.on \in BOOLEAN
    BY <1>1 DEF TypeInv
  <2>3. EngineOff.on = FALSE /\ EngineOn(r.o).on = TRUE
    BY DEF EngineOff, EngineOn
  <2>4. engine' \in {EngineOn(r.o), EngineOff, engine}
    BY DEF Engine
  <2>5. engineDistance' \in {engineDistance, engineDistance \ {r.s}}
        \/ (r.op = "startDistance" /\ engineDistance' = engineDistance \cup {r.s})
    BY DEF Engine
  <2> HIDE DEF r
  <2> QED
    BY <2>1, <2>2, <2>3, <2>4, <2>5
<1>12. QueuesOK'
  BY <1>1, <1>2, <1>5, <1>10 DEF QueuesOK, ListOK, RequestOK
<1>13. TypeInv'
  BY <1>1, <1>11, <1>12 DEF TypeInv, MapOK, DistanceOK
<1>14. \A t : due(pending, t) \in Nat
  BY <1>2, DueConcat
<1>15. LedgerOK'
  <2> SUFFICES ASSUME NEW t \in Session
               PROVE  /\ owed[t] >= 0
                      /\ ClientOf[t] \notin removed =>
                            /\ owed[t] >= due(msgQ', t) + due(pending, t) + due(apiQ', t)
                            /\ NoSilentError => owed[t] = due(msgQ', t) + due(pending, t) + due(apiQ', t)
    BY <1>1 DEF LedgerOK, toCome
  <2>1. /\ owed[t] >= 0 /\ owed[t] \in Int
        /\ ClientOf[t] \notin removed =>
              /\ owed[t] >= due(msgQ, t) + due(pending, t) + due(apiQ, t)
              /\ NoSilentError => owed[t] = due(msgQ, t) + due(pending, t) + due(apiQ, t)
    BY <1>1 DEF LedgerOK, toCome
  <2>2. /\ due(apiQ, t) = one(r, t) + due(apiQ', t) /\ due(apiQ', t) \in Nat
        /\ one(r, t) \in {0, 1} /\ due(pending, t) \in Nat
        /\ due(msgQ', t) = due(msgQ, t) + one(r, t)
        /\ due(msgQ, t) \in Nat /\ due(msgQ', t) \in Nat
    BY <1>6, <1>10, <1>14
  <2> HIDE DEF r
  <2> QED
    BY <2>1, <2>2
<1> QED
  BY <1>13, <1>15 DEF IInv

(* The engine comes up, which a message says, or goes down. *)
LEMMA UpDownStep ==
    ASSUME IInv, EngineUp \/ EngineDown
    PROVE  IInv'
<1>1. /\ TypeInv /\ QueuesOK /\ LedgerOK
      /\ UNCHANGED <<timeBased, distanceBased, removed, capsKnown, pending, apiQ, started, owed, ended>>
      /\ up' \in BOOLEAN /\ engine' \in {engine, EngineOff}
      /\ engineDistance' \in {engineDistance, {}}
  BY DEF IInv, TypeInv, EngineUp, EngineDown, adapter, client
<1>2. /\ msgQ' \in Seq(MessageRec(started))
      /\ \A t : due(msgQ', t) = due(msgQ, t)
  <2>1. CASE EngineDown
    BY <1>1, <2>1 DEF EngineDown, QueuesOK
  <2>2. CASE EngineUp
    <3> DEFINE m == [kind |-> "engineUp"]
    <3>1. m \in MessageRec(started) /\ msgQ' = Append(msgQ, m) /\ m.kind = "engineUp"
      BY <2>2 DEF MessageRec, EngineUp
    <3> HIDE DEF m
    <3>2. msgQ \in Seq(MessageRec(started))
      BY <1>1 DEF QueuesOK
    <3>3. \A t : one(m, t) = 0
      BY <3>1, MessageAnswers DEF one
    <3>4. \A t : due(Append(msgQ, m), t) = due(msgQ, t) + one(m, t) /\ due(msgQ, t) \in Nat
      BY <3>1, <3>2, DueEnds
    <3>5. \A t : due(msgQ', t) = due(msgQ, t)
      BY <3>1, <3>3, <3>4
    <3> QED
      BY <3>1, <3>2, <3>5, AppendProperties
  <2> QED
    BY <2>1, <2>2
<1>3. engine'.on \in BOOLEAN /\ engineDistance' \subseteq started
  <2>1. EngineOff.on = FALSE
    BY DEF EngineOff
  <2>2. engine.on \in BOOLEAN /\ engineDistance \subseteq started
    BY <1>1 DEF TypeInv
  <2> QED
    BY <1>1, <2>1, <2>2
<1>4. TypeInv'
  BY <1>1, <1>2, <1>3 DEF TypeInv, QueuesOK, ListOK, RequestOK, MapOK, DistanceOK
<1>5. LedgerOK'
  BY <1>1, <1>2 DEF LedgerOK, toCome
<1> QED
  BY <1>4, <1>5 DEF IInv

(* Nothing is owed yet. *)
LEMMA InitInv == Init => IInv
<1> SUFFICES ASSUME Init PROVE IInv
  OBVIOUS
<1>1. ListOK(<<>>) /\ \A t : due(<<>>, t) = 0
  BY NoRequests
<1>2. MapOK(<<>>) /\ DistanceOK(<<>>)
  <2>1. DOMAIN <<>> = {} /\ <<>> = [s \in DOMAIN <<>> |-> <<>>[s]]
    OBVIOUS
  <2> QED
    BY <2>1 DEF MapOK, DistanceOK
<1>3. QueuesOK
  BY <1>1, EmptySeq DEF Init, QueuesOK
<1>4. owed \in [Session -> Int] /\ \A s \in Session : owed[s] = 0
  BY DEF Init
<1>5. TypeInv
  BY <1>2, <1>3, <1>4, FS_EmptySet DEF Init, TypeInv, EngineOff
<1>6. LedgerOK
  BY <1>1, <1>4 DEF Init, LedgerOK, toCome
<1> QED
  BY <1>5, <1>6 DEF IInv

(* Every step keeps the ledger. *)
LEMMA StepInv == IInv /\ [Next]_vars => IInv'
<1> SUFFICES ASSUME IInv, [Next]_vars PROVE IInv'
  OBVIOUS
<1>1. CASE HandleMessage
  BY <1>1, MessageStep
<1>2. CASE \/ \E s \in Session :
                \/ \E o \in Option \cup {NoOptions} :
                     startTrackingCommand(s, o) \/ updateTrackingOptionsCommand(s, o)
                \/ stopTrackingCommand(s)
           \/ \E c \in Client : removeClientCommand(c)
  BY <1>2, ClientStep
<1>3. CASE \E ok \in BOOLEAN : Engine(ok)
  BY <1>3, EngineStep
<1>4. CASE EngineUp \/ EngineDown
  BY <1>4, UpDownStep
<1>5. CASE UNCHANGED vars
  BY <1>5 DEF vars, IInv, TypeInv, LedgerOK, toCome, QueuesOK, ListOK, RequestOK, MapOK, DistanceOK
<1> QED
  BY <1>1, <1>2, <1>3, <1>4, <1>5 DEF Next

(* The maps hold valid options. *)
LEMMA InvGivesType == IInv => TypeOK
<1> SUFFICES ASSUME IInv PROVE TypeOK
  OBVIOUS
<1>1. \A v \in ValidOption : v # NoOptions /\ v.interval >= MIN_TRACKING_INTERVAL
  BY ValidOptions DEF ValidOption
<1>2. TypeInv /\ MapOK(timeBased) /\ MapOK(distanceBased)
  BY DEF IInv, TypeInv, DistanceOK
<1>3. \A T \in {timeBased, distanceBased} :
        /\ DOMAIN T \subseteq started
        /\ \A s \in DOMAIN T : T[s] # NoOptions /\ T[s].interval >= MIN_TRACKING_INTERVAL
  BY <1>1, <1>2 DEF MapOK
<1> QED
  BY <1>2, <1>3 DEF TypeInv, TypeOK, Removable

(***************************************************************************)
(* The session maps hold only valid options of sessions a client started,  *)
(* with an interval of at least the minimum: saveTrackingSession is never  *)
(* called with others, whatever callback it is called from.  Each message  *)
(* carries what its handler reads, and so does each pended command: the    *)
(* session, one that was started, and the options.  Each request is one of *)
(* the engine's operations with the callback that its answer will run, of  *)
(* a started session and with the options it saves or asks for.            *)
(***************************************************************************)
THEOREM TrackingInvariant == Spec => [](TypeOK /\ QueuesOK)
<1>1. Init => IInv
  BY InitInv
<1>2. IInv /\ [Next]_vars => IInv'
  BY StepInv
<1>3. IInv => TypeOK /\ QueuesOK
  BY InvGivesType DEF IInv, TypeInv
<1> QED
  BY <1>1, <1>2, <1>3, PTL DEF Spec

(***************************************************************************)
(* No command is answered twice, by whichever of the handlers and          *)
(* callbacks of startTrackingCommand, updateTrackingOptionsCommand,        *)
(* stopTrackingCommand and their requests, with an engine that refuses     *)
(* requests and restarts and clients that go while answers are under way.  *)
(***************************************************************************)
THEOREM TrackingAnsweredAtMostOnce == Spec => []AnsweredAtMostOnce
<1>1. Init => IInv
  BY InitInv
<1>2. IInv /\ [Next]_vars => IInv'
  BY StepInv
<1>3. IInv => AnsweredAtMostOnce
  BY DEF IInv, LedgerOK, AnsweredAtMostOnce
<1> QED
  BY <1>1, <1>2, <1>3, PTL DEF Spec

(***************************************************************************)
(* Every command is answered: where no error is set and reported to nobody *)
(* (by startTracking for options of size 0 or a client without a callback, *)
(* or when the stop of restartDistanceBasedTracking is refused), the       *)
(* ledger balances, so when nothing is under way nothing is owed to a      *)
(* client that is still there, whatever commands, updates, removals and    *)
(* engine restarts came before.                                            *)
(***************************************************************************)
THEOREM TrackingEveryCommandAnswered ==
    ASSUME NoSilentError
    PROVE  Spec => []EveryCommandAnswered
<1>1. Init => IInv
  BY InitInv
<1>2. IInv /\ [Next]_vars => IInv'
  BY StepInv
<1>3. IInv => EveryCommandAnswered
  <2> SUFFICES ASSUME IInv, Quiescent, NEW s \in Session, live(s) PROVE owed[s] <= 0
    BY DEF EveryCommandAnswered
  <2>1. \A t : due(<<>>, t) = 0
    BY DueOne
  <2>2. msgQ = <<>> /\ pending = <<>> /\ apiQ = <<>>
    BY DEF Quiescent
  <2>3. owed[s] = due(msgQ, s) + due(pending, s) + due(apiQ, s)
    BY NoSilentError DEF IInv, LedgerOK, live, toCome
  <2> QED
    BY <2>1, <2>2, <2>3
<1> QED
  BY <1>1, <1>2, <1>3, PTL DEF Spec
-----------------------------------------------------------------------------
(***************************************************************************)
(* What the engine will run once it has answered what it was asked.        *)
(***************************************************************************)
EngineOp(r) == r.op \in {"start", "stopFix"}
Result(r) == IF r.op = "start" THEN EngineOn(r.o) ELSE EngineOff

\* The requests R leave the time-based session as it is, ...
NoneIn(R) == \A i \in 1 .. Len(R) : ~EngineOp(R[i])
\* ... or the last that does not leaves it as v.
LastIn(R, v) ==
    \E i \in 1 .. Len(R) :
        /\ EngineOp(R[i]) /\ v = Result(R[i])
        /\ \A j \in 1 .. Len(R) : i < j => ~EngineOp(R[j])

\* An engine that runs e runs v once it has answered R.
WillRun(e, R, v) == (v = e /\ NoneIn(R)) \/ LastIn(R, v)

\* v is fast enough for every session of T.
Serves(v, T) == \A s \in DOMAIN T : v.on /\ v.interval \in Nat /\ v.interval <= T[s].interval

(* Of requests one behind the other, those behind count. *)
LEMMA LastOfConcat ==
    ASSUME NEW S, NEW P \in Seq(S), NEW R \in Seq(S), NEW v
    PROVE  /\ NoneIn(P \o R) => NoneIn(P) /\ NoneIn(R)
           /\ LastIn(P \o R, v) => LastIn(R, v) \/ (NoneIn(R) /\ LastIn(P, v))
<1>1. Len(P) \in Nat /\ Len(R) \in Nat
  BY LenProperties
<1>2. /\ Len(P \o R) = Len(P) + Len(R)
      /\ \A i \in 1 .. Len(P) + Len(R) :
             (P \o R)[i] = IF i <= Len(P) THEN P[i] ELSE R[i - Len(P)]
  BY ConcatProperties
<1> DEFINE Q == P \o R
<1>3. \A i \in 1 .. Len(P) : i \in 1 .. Len(Q) /\ Q[i] = P[i]
  BY <1>1, <1>2
<1>4. \A i \in 1 .. Len(R) : Len(P) + i \in 1 .. Len(Q) /\ Q[Len(P) + i] = R[i]
  <2> SUFFICES ASSUME NEW i \in 1 .. Len(R)
               PROVE  Len(P) + i \in 1 .. Len(Q) /\ Q[Len(P) + i] = R[i]
    OBVIOUS
  <2>1. Len(P) + i \in 1 .. Len(P) + Len(R) /\ ~(Len(P) + i <= Len(P)) /\ (Len(P) + i) - Len(P) = i
    BY <1>1
  <2> QED
    BY <1>2, <2>1
<1>5. \A i \in 1 .. Len(Q) : i \in 1 .. Len(P) \/ (i - Len(P) \in 1 .. Len(R) /\ Len(P) + (i - Len(P)) = i)
  BY <1>1, <1>2
<1> HIDE DEF Q
<1>6. NoneIn(Q) => NoneIn(P) /\ NoneIn(R)
  BY <1>3, <1>4 DEF NoneIn
<1>7. ASSUME LastIn(Q, v) PROVE LastIn(R, v) \/ (NoneIn(R) /\ LastIn(P, v))
  <2>1. PICK i \in 1 .. Len(Q) : /\ EngineOp(Q[i]) /\ v = Result(Q[i])
                                 /\ \A j \in 1 .. Len(Q) : i < j => ~EngineOp(Q[j])
    BY <1>7 DEF LastIn
  <2>2. CASE i \in 1 .. Len(P)
    <3>1. \A j \in 1 .. Len(R) : ~EngineOp(R[j])
      <4> SUFFICES ASSUME NEW j \in 1 .. Len(R) PROVE ~EngineOp(R[j])
        OBVIOUS
      <4>1. i < Len(P) + j
        BY <1>1, <2>2
      <4> QED
        BY <1>4, <2>1, <4>1
    <3>2. LastIn(P, v)
      BY <1>3, <2>1, <2>2 DEF LastIn
    <3> QED
      BY <3>1, <3>2 DEF NoneIn
  <2>3. CASE i \notin 1 .. Len(P)
    <3> DEFINE k == i - Len(P)
    <3>1. k \in 1 .. Len(R) /\ Len(P) + k = i
      BY <1>5, <2>3
    <3> HIDE DEF k
    <3>2. EngineOp(R[k]) /\ v = Result(R[k])
      BY <1>4, <2>1, <3>1
    <3>3. ASSUME NEW j \in 1 .. Len(R), k < j PROVE ~EngineOp(R[j])
      <4>1. i < Len(P) + j
        BY <1>1, <3>1, <3>3
      <4> QED
        BY <1>4, <2>1, <4>1
    <3> QED
      BY <3>1, <3>2, <3>3 DEF LastIn
  <2> QED
    BY <2>2, <2>3
<1> QED
  BY <1>6, <1>7 DEF Q

(* What is asked of the engine now decides, or nothing is. *)
LEMMA WillRunAppended ==
    ASSUME NEW S, NEW P \in Seq(S), NEW R \in Seq(S), NEW e, NEW v, WillRun(e, P \o R, v)
    PROVE  LastIn(R, v) \/ (NoneIn(R) /\ WillRun(e, P, v))
BY LastOfConcat DEF WillRun

(* The engine answers the first request. *)
LEMMA WillRunAnswered ==
    ASSUME NEW S, NEW R \in Seq(S), R # <<>>, NEW e, NEW v,
           WillRun(IF EngineOp(Head(R)) THEN Result(Head(R)) ELSE e, Tail(R), v)
    PROVE  WillRun(e, R, v)
<1> DEFINE h == Head(R)
           t == Tail(R)
<1>1. /\ Len(R) \in Nat \ {0} /\ h = R[1] /\ Len(t) = Len(R) - 1
      /\ \A i \in 1 .. Len(t) : t[i] = R[i + 1]
  BY HeadTailProperties, LenProperties, EmptySeq
<1>2. \A i \in 1 .. Len(R) : i = 1 \/ (i - 1 \in 1 .. Len(t) /\ R[i] = t[i - 1])
  <2> SUFFICES ASSUME NEW i \in 1 .. Len(R), i # 1 PROVE i - 1 \in 1 .. Len(t) /\ R[i] = t[i - 1]
    OBVIOUS
  <2>1. i - 1 \in 1 .. Len(t) /\ (i - 1) + 1 = i
    BY <1>1
  <2> QED
    BY <1>1, <2>1
<1> HIDE DEF h, t
<1>3. CASE NoneIn(t) /\ EngineOp(h) /\ v = Result(h)
  <2>1. 1 \in 1 .. Len(R) /\ \A j \in 1 .. Len(R) : 1 < j => ~EngineOp(R[j])
    BY <1>1, <1>2, <1>3 DEF NoneIn
  <2> QED
    BY <1>1, <1>3, <2>1 DEF WillRun, LastIn
<1>4. CASE NoneIn(t) /\ ~EngineOp(h) /\ v = e
  BY <1>1, <1>2, <1>4 DEF WillRun, NoneIn
<1>5. CASE LastIn(t, v)
  <2>1. PICK i \in 1 .. Len(t) : /\ EngineOp(t[i]) /\ v = Result(t[i])
                                 /\ \A j \in 1 .. Len(t) : i < j => ~EngineOp(t[j])
    BY <1>5 DEF LastIn
  <2>2. i + 1 \in 1 .. Len(R) /\ R[i + 1] = t[i]
    BY <1>1, <2>1
  <2>3. ASSUME NEW j \in 1 .. Len(R), i + 1 < j PROVE ~EngineOp(R[j])
    <3>1. j - 1 \in 1 .. Len(t) /\ R[j] = t[j - 1] /\ i < j - 1
      BY <1>1, <1>2, <2>1, <2>3
    <3> QED
      BY <2>1, <3>1
  <2> QED
    BY <2>1, <2>2, <2>3 DEF WillRun, LastIn
<1> QED
  BY <1>3, <1>4, <1>5 DEF WillRun, h, t

(* No request, and a list of one. *)
LEMMA LastOfOne ==
    /\ NoneIn(<<>>) /\ \A v : ~LastIn(<<>>, v)
    /\ \A r : /\ NoneIn(<<r>>) <=> ~EngineOp(r)
              /\ \A v : LastIn(<<r>>, v) => EngineOp(r) /\ v = Result(r)
<1>1. NoneIn(<<>>) /\ \A v : ~LastIn(<<>>, v)
  BY DEF NoneIn, LastIn
<1>2. \A r : Len(<<r>>) = 1 /\ <<r>>[1] = r /\ 1 .. 1 = {1}
  OBVIOUS
<1> QED
  BY <1>1, <1>2 DEF NoneIn, LastIn

-----------------------------------------------------------------------------
(***************************************************************************)
(* The multiplexing functions ask for what serves the sessions.            *)
(***************************************************************************)
(* A map of no sessions. *)
LEMMA EmptyMap ==
    ASSUME NEW T, MapOK(T)
    PROVE  T = <<>> <=> DOMAIN T = {}
<1>1. ASSUME DOMAIN T = {} PROVE T = <<>>
  <2>1. T = [s \in {} |-> T[s]]
    BY <1>1 DEF MapOK
  <2>2. T \in [1 .. 0 -> {}]
    BY <2>1
  <2>3. T \in Seq({}) /\ Len(T) = 0
    BY <2>2, SeqDef
  <2> QED
    BY <2>3, EmptySeq
<1> QED
  BY <1>1

(* Valid options are records. *)
LEMMA ValidRecords ==
    \A v \in ValidOption : v \in [interval : Nat, power : Nat, distance : BOOLEAN]
<1>1. \A p \in Option : p \in [interval : Nat, power : Nat, distance : BOOLEAN]
  OBVIOUS
<1>2. \A p \in Option : Clamped(p) \in [interval : Nat, power : Nat, distance : BOOLEAN]
  BY <1>1 DEF Clamped, MIN_TRACKING_INTERVAL
<1> QED
  BY <1>2 DEF ValidOption

(* The smallest interval is one of the map's, and no greater than any. *)
LEMMA SmallestLeast ==
    ASSUME TypeInv, NEW T, MapOK(T), T # <<>>
    PROVE  /\ SmallestInterval(T) \in ValidOption
           /\ \E c \in DOMAIN T : SmallestInterval(T) = T[c]
           /\ \A s \in DOMAIN T : SmallestInterval(T).interval <= T[s].interval
<1>1. DOMAIN T # {} /\ DOMAIN T \subseteq Nat /\ \A s \in DOMAIN T : T[s] \in ValidOption
  BY EmptyMap DEF TypeInv, MapOK
<1>2. \A v \in ValidOption : v.interval \in Nat
  BY ValidRecords
<1> DEFINE I == {T[s].interval : s \in DOMAIN T}
<1>3. I \in SUBSET Nat /\ I # {}
  BY <1>1, <1>2
<1>4. PICK x \in I : \A y \in I : x <= y
  BY <1>3, LeastNumber
<1> DEFINE J == {s \in DOMAIN T : T[s].interval = x}
<1>5. J \in SUBSET Nat /\ J # {}
  BY <1>1, <1>4
<1>6. PICK s \in J : \A t \in J : s <= t
  BY <1>5, LeastNumber
<1>7. \A t \in DOMAIN T : \/ T[s].interval < T[t].interval
                          \/ T[s].interval = T[t].interval /\ s <= t
  <2> SUFFICES ASSUME NEW t \in DOMAIN T
               PROVE  \/ T[s].interval < T[t].interval
                      \/ T[s].interval = T[t].interval /\ s <= t
    OBVIOUS
  <2>1. T[s].interval = x /\ x \in Nat /\ T[t].interval \in Nat /\ x <= T[t].interval
    BY <1>1, <1>2, <1>3, <1>4, <1>6
  <2>2. T[t].interval = x => s <= t
    BY <1>6
  <2> QED
    BY <2>1, <2>2
<1> DEFINE First(c) == \A t \in DOMAIN T : \/ T[c].interval < T[t].interval
                                           \/ T[c].interval = T[t].interval /\ c <= t
           c == CHOOSE c \in DOMAIN T : First(c)
<1>8. c \in DOMAIN T /\ First(c)
  <2>1. \E d \in DOMAIN T : First(d)
    BY <1>6, <1>7
  <2> HIDE DEF First
  <2> QED
    BY <2>1
<1>9. SmallestInterval(T) = T[c]
  BY DEF SmallestInterval
<1> HIDE DEF c
<1>10. \A t \in DOMAIN T : T[c].interval <= T[t].interval
  BY <1>1, <1>2, <1>8
<1> QED
  BY <1>1, <1>8, <1>9, <1>10

\* A list of requests that serves the sessions U in place of T.
Turns(R, T, U) ==
    /\ NoneIn(R) =>
          /\ \A v : Serves(v, T) => Serves(v, U)
          /\ U = <<>> => T = <<>>
    /\ \A v : LastIn(R, v) => Serves(v, U) /\ (U = <<>> => ~v.on)

(* The options of several sessions, merged. *)
LEMMA MergedServes ==
    ASSUME TypeInv, NEW T, MapOK(T), T # <<>>, NEW o \in ValidOption
    PROVE  /\ Merge(o, T).interval <= o.interval /\ Merge(o, T).interval \in Nat
           /\ \A s \in DOMAIN T : Merge(o, T).interval <= T[s].interval
           /\ ~Smaller(o, T) => SmallestInterval(T).interval <= o.interval
           /\ o.interval \in Nat
           /\ \A s \in DOMAIN T : T[s].interval \in Nat
<1> DEFINE b == SmallestInterval(T)
<1>2. /\ b \in [interval : Nat, power : Nat, distance : BOOLEAN]
      /\ o \in [interval : Nat, power : Nat, distance : BOOLEAN]
      /\ \A s \in DOMAIN T : T[s].interval \in Nat /\ b.interval <= T[s].interval
  BY ValidRecords, SmallestLeast DEF MapOK
<1> HIDE DEF b
<1>3. Merge(o, T).interval = IF o.interval < b.interval THEN o.interval ELSE b.interval
  BY <1>2 DEF Merge, b
<1>4. ~Smaller(o, T) => ~(o.interval < b.interval)
  BY DEF Smaller, b
<1>5. o.interval \in Nat /\ b.interval \in Nat
  BY <1>2
<1> QED
  BY <1>2, <1>3, <1>4, <1>5 DEF b

(* A list of one request to start, with an interval no session is below. *)
LEMMA OneStartTurns ==
    ASSUME NEW T, NEW U, NEW s, NEW o, NEW cb, U # <<>>, o.interval \in Nat,
           \A t \in DOMAIN U : o.interval <= U[t].interval
    PROVE  Turns(<<EngineRequest("start", s, o, cb)>>, T, U)
<1> DEFINE r == EngineRequest("start", s, o, cb)
<1>1. EngineOp(r) /\ Result(r).on = TRUE /\ Result(r).interval = o.interval
  BY DEF EngineOp, Result, EngineRequest, EngineOn
<1> HIDE DEF r
<1>2. Turns(<<r>>, T, U)
  BY <1>1, LastOfOne DEF Turns, Serves
<1> QED
  BY <1>2 DEF r

(* No list for a session that asks for no more than there is. *)
LEMMA NoListTurns ==
    ASSUME NEW T, NEW U, U = <<>> => T = <<>>, \A v : Serves(v, T) => Serves(v, U)
    PROVE  Turns(<<>>, T, U)
BY LastOfOne DEF Turns

(* A session joins the others, ... *)
LEMMA StartTurns ==
    ASSUME TypeInv, NEW T, MapOK(T), NEW s \in started, NEW o \in ValidOption
    PROVE  Turns(startTimeBasedTrackingMultiplex(T, s, o), T, Put(T, s, o))
<1> DEFINE U == Put(T, s, o)
<1>1. /\ DOMAIN U = DOMAIN T \cup {s} /\ U[s] = o
      /\ \A t \in DOMAIN T : t # s => U[t] = T[t]
      /\ \A t \in DOMAIN U : t = s \/ t \in DOMAIN T
  BY DEF Put
<1>2. U # <<>>
  BY <1>1
<1> HIDE DEF U
<1>3. CASE T = <<>>
  <2>1. \A t \in DOMAIN U : U[t] = o
    BY <1>1, <1>3, EmptyMap
  <2>2. o.interval \in Nat
    BY ValidRecords
  <2>3. \A t \in DOMAIN U : o.interval <= U[t].interval
    BY <2>1, <2>2
  <2> QED
    BY <1>2, <1>3, <2>2, <2>3, OneStartTurns DEF startTimeBasedTrackingMultiplex, startTimeBasedTracking, U
<1>4. CASE T # <<>> /\ Smaller(o, T)
  <2>1. \A t \in DOMAIN U : Merge(o, T).interval <= U[t].interval
    BY <1>1, <1>4, MergedServes
  <2> QED
    BY <1>2, <1>4, <2>1, MergedServes, OneStartTurns DEF startTimeBasedTrackingMultiplex, startTimeBasedTracking, U
<1>5. CASE T # <<>> /\ ~Smaller(o, T)
  <2>1. ASSUME NEW v, Serves(v, T) PROVE Serves(v, U)
    <3>1. PICK c \in DOMAIN T : SmallestInterval(T) = T[c]
      BY <1>5, SmallestLeast
    <3>2. v.on /\ v.interval \in Nat /\ v.interval <= T[c].interval /\ T[c].interval <= o.interval
      BY <1>5, <2>1, <3>1, MergedServes DEF Serves
    <3> QED
      BY <1>1, <2>1, <3>2, MergedServes DEF Serves
  <2> QED
    BY <1>2, <1>5, <2>1, NoListTurns DEF startTimeBasedTrackingMultiplex, U
<1> QED
  BY <1>3, <1>4, <1>5

(* ... changes what it asks for, ... *)
LEMMA UpdateTurns ==
    ASSUME TypeInv, NEW T, MapOK(T), NEW s \in DOMAIN T, NEW o \in ValidOption
    PROVE  Turns(updateTrackingMultiplex(T, s, o), T, Put(T, s, o))
<1> DEFINE U == Put(T, s, o)
           W == Others(T, s)
<1>1. /\ DOMAIN U = DOMAIN T /\ U[s] = o /\ \A t \in DOMAIN T : t # s => U[t] = T[t]
      /\ DOMAIN W = DOMAIN T \ {s} /\ \A t \in DOMAIN W : W[t] = T[t]
  BY DEF Put, Others, Restrict
<1>2. U # <<>> /\ MapOK(W)
  BY <1>1, MapsKept
<1>3. o.interval \in Nat
  BY ValidRecords
<1>4. W = <<>> <=> DOMAIN T = {s}
  BY <1>1, <1>2, EmptyMap
<1> HIDE DEF U, W
<1>5. CASE T[s].interval = o.interval /\ T[s].power = o.power
  <2>1. ASSUME NEW v, Serves(v, T) PROVE Serves(v, U)
    BY <1>1, <1>5, <2>1 DEF Serves
  <2> QED
    BY <1>2, <1>5, <2>1, NoListTurns DEF updateTrackingMultiplex, U
<1>6. CASE /\ ~(T[s].interval = o.interval /\ T[s].power = o.power)
           /\ DOMAIN T = {s}
  <2>1. \A t \in DOMAIN U : o.interval <= U[t].interval
    BY <1>1, <1>3, <1>6
  <2> QED
    BY <1>2, <1>3, <1>6, <2>1, OneStartTurns DEF updateTrackingMultiplex, updateTracking, U
<1>7. CASE /\ ~(T[s].interval = o.interval /\ T[s].power = o.power)
           /\ DOMAIN T # {s} /\ Smaller(o, W)
  <2>1. /\ \A t \in DOMAIN U : Merge(o, W).interval <= U[t].interval
        /\ Merge(o, W).interval \in Nat
    BY <1>1, <1>2, <1>4, <1>7, MergedServes
  <2> QED
    BY <1>2, <1>7, <2>1, OneStartTurns DEF updateTrackingMultiplex, updateTracking, U, W
<1>8. CASE /\ ~(T[s].interval = o.interval /\ T[s].power = o.power)
           /\ DOMAIN T # {s} /\ ~Smaller(o, W)
  <2>1. ASSUME NEW v, Serves(v, T) PROVE Serves(v, U)
    <3>1. PICK c \in DOMAIN W : SmallestInterval(W) = W[c]
      BY <1>2, <1>4, <1>8, SmallestLeast
    <3>2. W[c].interval \in Nat /\ W[c].interval <= o.interval
      BY <1>2, <1>4, <1>8, <3>1, MergedServes
    <3>3. v.on /\ v.interval \in Nat /\ v.interval <= W[c].interval
      BY <1>1, <2>1, <3>1 DEF Serves
    <3>4. v.interval <= o.interval
      BY <1>3, <3>2, <3>3
    <3> QED
      BY <1>1, <2>1, <3>3, <3>4 DEF Serves
  <2> QED
    BY <1>2, <1>8, <2>1, NoListTurns DEF updateTrackingMultiplex, U, W
<1> QED
  BY <1>5, <1>6, <1>7, <1>8

(* ... or leaves them. *)
LEMMA StopTurns ==
    ASSUME TypeInv, NEW T, MapOK(T), NEW s \in DOMAIN T
    PROVE  Turns(stopTimeBasedTrackingMultiplex(T, s), T, Others(T, s))
<1> DEFINE W == Others(T, s)
<1>1. DOMAIN W = DOMAIN T \ {s} /\ \A t \in DOMAIN W : W[t] = T[t]
  BY DEF Others, Restrict
<1>2. MapOK(W)
  BY MapsKept
<1>3. Cardinality(DOMAIN T) = 1 <=> DOMAIN T = {s}
  <2>1. IsFiniteSet(DOMAIN T)
    BY FS_Subset DEF TypeInv, MapOK
  <2>2. Cardinality(DOMAIN T) = 1 <=> \E t : DOMAIN T = {t}
    BY <2>1, FS_Singleton, Zenon
  <2> QED
    BY <2>2
<1>4. W = <<>> <=> DOMAIN T = {s}
  BY <1>1, <1>2, EmptyMap
<1> HIDE DEF W
<1>5. CASE DOMAIN T = {s}
  <2> DEFINE r == EngineRequest("stopFix", s, NoOptions, Callback("stopped", s, NoOptions))
  <2>1. EngineOp(r) /\ Result(r).on = FALSE
    BY DEF EngineOp, Result, EngineRequest, EngineOff
  <2>2. stopTimeBasedTrackingMultiplex(T, s) = <<r>>
    BY <1>3, <1>5 DEF stopTimeBasedTrackingMultiplex, stopTracking
  <2>3. \A v : Serves(v, W)
    BY <1>1, <1>5 DEF Serves
  <2> HIDE DEF r
  <2>4. Turns(<<r>>, T, W)
    BY <2>1, <2>3, LastOfOne DEF Turns
  <2> QED
    BY <2>2, <2>4 DEF W
<1>6. CASE DOMAIN T # {s} /\ Smaller(T[s], W)
  <2> DEFINE o == [SmallestInterval(W) EXCEPT !.power = SmallestPower(W)]
  <2>1. /\ SmallestInterval(W) \in [interval : Nat, power : Nat, distance : BOOLEAN]
        /\ \A t \in DOMAIN W : SmallestInterval(W).interval <= W[t].interval
    BY <1>2, <1>4, <1>6, SmallestLeast, ValidRecords
  <2>2. o.interval = SmallestInterval(W).interval
    BY <2>1
  <2>3. stopTimeBasedTrackingMultiplex(T, s) = startTimeBasedTracking(s, o)
    BY <1>3, <1>6 DEF stopTimeBasedTrackingMultiplex, W
  <2> HIDE DEF o
  <2> QED
    BY <1>4, <1>6, <2>1, <2>2, <2>3, OneStartTurns DEF startTimeBasedTracking, W
<1>7. CASE DOMAIN T # {s} /\ ~Smaller(T[s], W)
  <2>1. ASSUME NEW v, Serves(v, T) PROVE Serves(v, W)
    BY <1>1, <2>1 DEF Serves
  <2> QED
    BY <1>3, <1>4, <1>7, <2>1, NoListTurns DEF stopTimeBasedTrackingMultiplex, W
<1> QED
  BY <1>5, <1>6, <1>7

(* A list goes on with requests that leave the time-based session alone. *)
LEMMA TurnsOn ==
    ASSUME NEW P, NEW R, NEW T, NEW U, ListOK(P), ListOK(R), NoneIn(R), Turns(P, T, U)
    PROVE  Turns(P \o R, T, U)
<1> DEFINE S == ToSet(P) \cup ToSet(R)
<1>1. P \in Seq(S) /\ R \in Seq(S)
  <2>1. P \in Seq(ToSet(P)) /\ R \in Seq(ToSet(R))
    BY DEF ListOK
  <2> QED
    BY <2>1, SeqDef
<1> HIDE DEF S
<1>2. /\ NoneIn(P \o R) => NoneIn(P)
      /\ \A v : LastIn(P \o R, v) => LastIn(R, v) \/ LastIn(P, v)
  BY <1>1, LastOfConcat
<1>3. \A v : ~LastIn(R, v)
  BY DEF NoneIn, LastIn
<1> QED
  BY <1>2, <1>3 DEF Turns

-----------------------------------------------------------------------------
(***************************************************************************)
(* The handlers leave the sessions served.                                 *)
(***************************************************************************)
\* No engine refuses a request, no client is removed, and no session asks
\* for a distance of an engine that cannot track it.
Steady == ~EngineMayFail /\ ~AllowRemove /\ (DistanceSupported \/ DistanceOption = {})

\* What a handler asks of the engine serves the sessions it leaves; none but
\* those about distances leave no session without a request.
Served ==
    \E R : /\ ListOK(R) /\ apiQ' = apiQ \o R
           /\ NoneIn(R) =>
                 /\ \A v : Serves(v, timeBased) => Serves(v, timeBased')
                 /\ DistanceOption = {} /\ timeBased' = <<>> => timeBased = <<>>
           /\ \A v : LastIn(R, v) => Serves(v, timeBased') /\ (timeBased' = <<>> => ~v.on)

(* A handler that asks for a list of the multiplexing functions. *)
LEMMA ServedByList ==
    ASSUME NEW R, ListOK(R), apiQ' = apiQ \o R, Turns(R, timeBased, timeBased')
    PROVE  Served
BY DEF Served, Turns

(* A handler that asks nothing and changes no time-based session, ... *)
LEMMA ServedQuietly ==
    ASSUME TypeInv, UNCHANGED <<timeBased, apiQ>>
    PROVE  Served
<1>1. apiQ' = apiQ \o <<>> /\ ListOK(<<>>)
  BY NothingSent, NoRequests
<1> QED
  BY <1>1, LastOfOne DEF Served

(* ... or is about a distance-based session. *)
LEMMA ServedByDistance ==
    ASSUME NEW R, ListOK(R), apiQ' = apiQ \o R, NoneIn(R),
           \/ UNCHANGED timeBased
           \/ DistanceOption # {} /\ \E s : timeBased' = Others(timeBased, s)
    PROVE  Served
<1>1. \A v : ~LastIn(R, v)
  BY DEF NoneIn, LastIn
<1>2. ASSUME NEW s, NEW v, Serves(v, timeBased) PROVE Serves(v, Others(timeBased, s))
  BY <1>2 DEF Serves, Others, Restrict
<1> QED
  BY <1>1, <1>2 DEF Served

(* startTracking: the new session joins those of its kind. *)
LEMMA StartServed ==
    ASSUME TypeInv, NEW m \in MessageRec(started), m.kind = "start", startTracking(m)
    PROVE  Served
<1>1. m.s \in started /\ m.o \in Option \cup {NoOptions} /\ MapOK(timeBased)
  BY MessageAnswers DEF TypeInv
<1>2. CASE ~hasCallback(ClientOf[m.s]) \/ m.o = NoOptions
  BY <1>2, ServedQuietly DEF startTracking, unchangedSessions
<1>3. CASE hasCallback(ClientOf[m.s]) /\ m.o # NoOptions
  <2> DEFINE o == Clamped(m.o)
             cb == Callback("started", m.s, NoOptions)
             r == EngineRequest("startDistance", m.s, o, cb)
             R == startTimeBasedTrackingMultiplex(timeBased, m.s, o)
  <2>1. /\ saveTrackingSession(timeBased, distanceBased, m.s, o)
        /\ apiQ' = apiQ \o (IF isDistance(o) THEN <<r>> ELSE R)
    BY <1>3 DEF startTracking, send
  <2>2. o \in ValidOption
    BY <1>1, <1>3, ValidOptions
  <2>3. CASE isDistance(o)
    <3>1. ~EngineOp(r)
      BY DEF EngineOp, EngineRequest
    <3>2. cb \in CallbackRec(started)
      BY <1>1, CallbackMade
    <3> HIDE DEF o, cb
    <3>3. ListOK(<<r>>)
      BY <1>1, <3>2, SingleRequest DEF RequestOp
    <3> HIDE DEF r
    <3>4. NoneIn(<<r>>) /\ UNCHANGED timeBased /\ apiQ' = apiQ \o <<r>>
      BY <2>1, <2>3, <3>1, LastOfOne DEF saveTrackingSession
    <3> QED
      BY <3>3, <3>4, ServedByDistance
  <2>4. CASE ~isDistance(o)
    <3>1. timeBased' = Put(timeBased, m.s, o) /\ apiQ' = apiQ \o R
      BY <2>1, <2>4 DEF saveTrackingSession
    <3> HIDE DEF o
    <3>2. ListOK(R)
      BY <1>1, MultiplexLists DEF ListFor
    <3>3. Turns(R, timeBased, Put(timeBased, m.s, o))
      BY <1>1, <2>2, StartTurns
    <3> QED
      BY <3>1, <3>2, <3>3, ServedByList
  <2> QED
    BY <2>3, <2>4
<1> QED
  BY <1>2, <1>3

(* updateTrackingOptions: the session's options change, or its kind does. *)
LEMMA UpdateServed ==
    ASSUME TypeInv, Steady, NEW m \in MessageRec(started), m.kind = "update", updateTrackingOptions(m)
    PROVE  Served
<1> DEFINE o == Clamped(m.o)
           s == m.s
<1>1. s \in started /\ m.o \in Option \cup {NoOptions} /\ MapOK(timeBased) /\ DistanceOK(distanceBased)
  BY MessageAnswers DEF TypeInv
<1>2. m.o # NoOptions => o \in ValidOption
  BY <1>1, ValidOptions
<1>3. CASE unchangedSessions /\ UNCHANGED apiQ
  BY <1>3, ServedQuietly DEF unchangedSessions
<1>4. CASE m.o # NoOptions /\ s \in DOMAIN timeBased /\ o.distance /\ switchToDistance(s, o)
  <2> DEFINE P == stopTimeBasedTrackingMultiplex(timeBased, s)
             r == EngineRequest("startDistance", s, o, Silent)
  <2>1. isDistance(o)
    BY <1>2, <1>4 DEF isDistance, Steady, DistanceOption
  <2>2. timeBased' = Others(timeBased, s) /\ apiQ' = apiQ \o (P \o <<r>>)
    BY <1>4, <2>1 DEF switchToDistance, send, saveTrackingSession
  <2>3. ~EngineOp(r)
    BY DEF EngineOp, EngineRequest
  <2>4. ListOK(P) /\ Turns(P, timeBased, Others(timeBased, s))
    BY <1>1, <1>4, MultiplexLists, StopTurns DEF ListFor
  <2>5. Silent \in CallbackRec(started)
    BY DEF CallbackRec
  <2> HIDE DEF o, P
  <2>6. ListOK(<<r>>)
    BY <1>1, <2>5, SingleRequest DEF RequestOp
  <2> HIDE DEF r
  <2>7. NoneIn(<<r>>)
    BY <2>3, LastOfOne
  <2>8. ListOK(P \o <<r>>) /\ Turns(P \o <<r>>, timeBased, Others(timeBased, s))
    BY <2>4, <2>6, <2>7, ListConcat, TurnsOn
  <2> QED
    BY <2>2, <2>8, ServedByList
<1>5. CASE m.o # NoOptions /\ ~o.distance /\ s \in DOMAIN distanceBased /\ switchToTime(s, o)
  <2> DEFINE cb == Callback("switched", s, o)
             r == EngineRequest("stopDistance", s, NoOptions, cb)
  <2>1. timeBased' = Others(timeBased, s) /\ apiQ' = apiQ \o <<r>>
    BY <1>5 DEF switchToTime, send, eraseTrackingSession
  <2>2. ~EngineOp(r)
    BY DEF EngineOp, EngineRequest
  <2>3. DistanceOption # {}
    BY <1>1, <1>5 DEF DistanceOK
  <2>4. cb \in CallbackRec(started)
    BY <1>1, <1>2, <1>5, <2>3, CallbackMade DEF TimeOption, DistanceOption
  <2> HIDE DEF cb
  <2>5. ListOK(<<r>>)
    BY <1>1, <2>4, SingleRequest DEF RequestOp
  <2> HIDE DEF r
  <2>6. NoneIn(<<r>>)
    BY <2>2, LastOfOne
  <2> QED
    BY <2>1, <2>3, <2>5, <2>6, ServedByDistance
<1>6. CASE m.o # NoOptions /\ s \in DOMAIN timeBased /\ ~o.distance /\ updateTimeBased(s, o)
  <2> DEFINE R == updateTrackingMultiplex(timeBased, s, o)
  <2>1. timeBased' = Put(timeBased, s, o) /\ apiQ' = apiQ \o R
    BY <1>6 DEF updateTimeBased, send, saveTrackingSession, isDistance
  <2> HIDE DEF o
  <2>2. ListOK(R)
    BY <1>1, <1>6, MultiplexLists DEF ListFor
  <2>3. Turns(R, timeBased, Put(timeBased, s, o))
    BY <1>1, <1>2, <1>6, UpdateTurns
  <2> QED
    BY <2>1, <2>2, <2>3, ServedByList
<1>7. CASE m.o # NoOptions /\ s \in DOMAIN distanceBased /\ o.distance /\ restartDistance(s, o)
  <2> DEFINE cb == Callback("restart", s, o)
             r == EngineRequest("stopDistance", s, NoOptions, cb)
  <2>1. UNCHANGED timeBased /\ apiQ' = apiQ \o <<r>>
    BY <1>7 DEF restartDistance, send, unchangedSessions
  <2>2. ~EngineOp(r)
    BY DEF EngineOp, EngineRequest
  <2>3. o \in DistanceOption
    BY <1>2, <1>7 DEF DistanceOption
  <2>4. cb \in CallbackRec(started)
    BY <1>1, <2>3, CallbackMade
  <2> HIDE DEF cb
  <2>5. ListOK(<<r>>)
    BY <1>1, <2>4, SingleRequest DEF RequestOp
  <2> HIDE DEF r
  <2>6. NoneIn(<<r>>)
    BY <2>2, LastOfOne
  <2> QED
    BY <2>1, <2>5, <2>6, ServedByDistance
<1> QED
  BY <1>3, <1>4, <1>5, <1>6, <1>7 DEF updateTrackingOptions

(* stop: the session leaves the map it is in. *)
LEMMA StopServed ==
    ASSUME TypeInv, NEW m \in MessageRec(started), m.kind = "stop", stop(m)
    PROVE  Served
<1> DEFINE s == m.s
<1>1. s \in started /\ MapOK(timeBased) /\ DistanceOK(distanceBased)
  BY MessageAnswers DEF TypeInv
<1>2. CASE /\ s \in DOMAIN timeBased
           /\ apiQ' = apiQ \o stopTimeBasedTrackingMultiplex(timeBased, s)
           /\ eraseTrackingSession(s)
  <2>1. timeBased' = Others(timeBased, s)
    BY <1>2 DEF eraseTrackingSession
  <2>2. /\ ListOK(stopTimeBasedTrackingMultiplex(timeBased, s))
        /\ Turns(stopTimeBasedTrackingMultiplex(timeBased, s), timeBased, Others(timeBased, s))
    BY <1>1, <1>2, MultiplexLists, StopTurns DEF ListFor
  <2> QED
    BY <1>2, <2>1, <2>2, ServedByList
<1>3. CASE /\ s \in DOMAIN distanceBased /\ unchangedSessions
           /\ apiQ' = apiQ \o <<EngineRequest("stopDistance", s, NoOptions, Callback("stoppedDistance", s, NoOptions))>>
  <2> DEFINE cb == Callback("stoppedDistance", s, NoOptions)
             r == EngineRequest("stopDistance", s, NoOptions, cb)
  <2>1. ~EngineOp(r)
    BY DEF EngineOp, EngineRequest
  <2>2. cb \in CallbackRec(started)
    BY <1>1, <1>3, CallbackMade DEF DistanceOK
  <2>3. apiQ' = apiQ \o <<r>> /\ UNCHANGED timeBased
    BY <1>3 DEF unchangedSessions
  <2> HIDE DEF cb
  <2>4. ListOK(<<r>>)
    BY <1>1, <2>2, SingleRequest DEF RequestOp
  <2> HIDE DEF r
  <2>5. NoneIn(<<r>>)
    BY <2>1, LastOfOne
  <2> QED
    BY <2>3, <2>4, <2>5, ServedByDistance
<1>4. CASE unchangedSessions /\ UNCHANGED apiQ
  BY <1>4, ServedQuietly DEF unchangedSessions
<1> QED
  BY <1>2, <1>3, <1>4 DEF stop, send

(* An answer of the engine: the callback switches the session, or asks again. *)
LEMMA ResponseServed ==
    ASSUME TypeInv, Steady, NEW m \in MessageRec(started), m.kind = "response",
           onResponse(m.cb, m.ok)
    PROVE  Served
<1> DEFINE cb == m.cb
           s == cb.s
<1>1. /\ MapOK(timeBased) /\ m.ok /\ cb.k # "silent" /\ s \in started
      /\ cb.k = "switched" => cb.o \in TimeOption
      /\ cb.k \in {"restart", "restarted"} => cb.o \in DistanceOption
      /\ cb.k \notin {"started", "stopped", "updated", "silent"} => DistanceOption # {}
  <2>1. cb \in CallbackRec(started) /\ cb # Silent /\ m.ok \in EngineAnswer
    BY MessageAnswers
  <2> QED
    BY <2>1, CallbackTyped DEF EngineAnswer, Steady, TypeInv
<1>2. CASE UNCHANGED <<timeBased, apiQ>>
  BY <1>2, ServedQuietly
<1>3. CASE cb.k = "switched" /\ onSwitched(cb, m.ok)
  <2> DEFINE R == startTimeBasedTrackingMultiplex(timeBased, s, cb.o)
  <2>1. cb.o \in ValidOption /\ ~isDistance(cb.o)
    BY <1>1, <1>3 DEF TimeOption, DistanceOption, isDistance
  <2>2. timeBased' = Put(timeBased, s, cb.o) /\ apiQ' = apiQ \o R
    BY <1>3, <2>1 DEF onSwitched, saveTrackingSession, send
  <2>3. ListOK(R)
    BY <1>1, MultiplexLists DEF ListFor
  <2>4. Turns(R, timeBased, Put(timeBased, s, cb.o))
    BY <1>1, <2>1, StartTurns
  <2> QED
    BY <2>2, <2>3, <2>4, ServedByList
<1>4. CASE cb.k = "restart" /\ onRestart(cb, m.ok)
  <2> DEFINE c == Callback("restarted", s, cb.o)
             r == EngineRequest("startDistance", s, cb.o, c)
  <2>1. UNCHANGED timeBased /\ apiQ' = apiQ \o <<r>>
    BY <1>1, <1>4 DEF onRestart, send, unchangedSessions
  <2>2. ~EngineOp(r)
    BY DEF EngineOp, EngineRequest
  <2>3. c \in CallbackRec(started)
    BY <1>1, <1>4, CallbackMade
  <2> HIDE DEF c
  <2>4. ListOK(<<r>>)
    BY <1>1, <2>3, SingleRequest DEF RequestOp
  <2> HIDE DEF r
  <2>5. NoneIn(<<r>>)
    BY <2>2, LastOfOne
  <2> QED
    BY <2>1, <2>4, <2>5, ServedByDistance
<1>5. CASE cb.k = "restarted" /\ onRestarted(cb, m.ok)
  <2>1. isDistance(cb.o)
    BY <1>1, <1>5 DEF isDistance, DistanceOption, Steady
  <2>2. UNCHANGED <<timeBased, apiQ>>
    BY <1>1, <1>5, <2>1 DEF onRestarted, saveTrackingSession
  <2> QED
    BY <1>2, <2>2
<1>6. CASE cb.k \in {"stoppedDistance", "stoppedClient"} /\ onStoppedDistance(cb, m.ok)
  <2>1. timeBased' = Others(timeBased, s) /\ UNCHANGED apiQ /\ DistanceOption # {}
    BY <1>1, <1>6 DEF onStoppedDistance, eraseTrackingSession
  <2>2. apiQ' = apiQ \o <<>> /\ ListOK(<<>>) /\ NoneIn(<<>>)
    BY <2>1, NothingSent, NoRequests, LastOfOne
  <2> QED
    BY <2>1, <2>2, ServedByDistance
<1>7. CASE \/ cb.k = "started" /\ onStarted(cb, m.ok)
           \/ cb.k = "updated" /\ onUpdated(cb, m.ok)
           \/ cb.k = "stopped" /\ onStopped(cb, m.ok)
  BY <1>1, <1>2, <1>7 DEF onStarted, onUpdated, onStopped, unchangedSessions
<1> QED
  BY <1>1, <1>3, <1>4, <1>5, <1>6, <1>7 DEF onResponse

(* The sessions are restarted: the engine is asked for what serves them. *)
LEMMA RestartServes ==
    ASSUME TypeInv, restartSessions, UNCHANGED timeBased
    PROVE  \E R : /\ ListOK(R) /\ apiQ' = apiQ \o R
                  /\ NoneIn(R) => timeBased = <<>>
                  /\ \A v : LastIn(R, v) => timeBased # <<>> /\ Serves(v, timeBased)
<1> DEFINE best == [SmallestInterval(timeBased) EXCEPT !.power = HighestPower(timeBased)]
           r == EngineRequest("start", 0, best, Silent)
           A == IF timeBased = <<>> THEN <<>> ELSE <<r>>
           b == Ordered(DOMAIN distanceBased)
           again(s) == EngineRequest("startDistance", s, distanceBased[s], Silent)
           B == [i \in DOMAIN b |-> again(b[i])]
           n == Cardinality(DOMAIN distanceBased)
<1>1. apiQ' = apiQ \o (A \o B)
  BY DEF restartSessions, send
<1>2. Silent \in CallbackRec(started) /\ MapOK(timeBased)
  BY DEF CallbackRec, TypeInv
<1>3. /\ ListOK(A)
      /\ NoneIn(A) => timeBased = <<>>
      /\ \A v : LastIn(A, v) => timeBased # <<>> /\ Serves(v, timeBased)
  <2>1. CASE timeBased = <<>>
    BY <2>1, NoRequests, LastOfOne
  <2>2. CASE timeBased # <<>>
    <3>1. /\ SmallestInterval(timeBased) \in [interval : Nat, power : Nat, distance : BOOLEAN]
          /\ \A s \in DOMAIN timeBased : SmallestInterval(timeBased).interval <= timeBased[s].interval
      BY <1>2, <2>2, SmallestLeast, ValidRecords
    <3>2. best.interval = SmallestInterval(timeBased).interval
      BY <3>1
    <3> HIDE DEF best
    <3>3. EngineOp(r) /\ Result(r).on = TRUE /\ Result(r).interval = best.interval
      BY DEF EngineOp, Result, EngineRequest, EngineOn
    <3>4. ListOK(<<r>>)
      BY <1>2, OneRequest DEF RequestOp
    <3>5. Serves(Result(r), timeBased)
      BY <3>1, <3>2, <3>3 DEF Serves
    <3> HIDE DEF r
    <3> QED
      BY <2>2, <3>3, <3>4, <3>5, LastOfOne
  <2> HIDE DEF A
  <2> QED
    BY <2>1, <2>2
<1>4. /\ DOMAIN distanceBased \in SUBSET Session /\ IsFiniteSet(DOMAIN distanceBased)
      /\ DOMAIN distanceBased \subseteq started
  BY FS_Subset DEF TypeInv, MapOK, DistanceOK
<1>5. n \in Nat /\ b \in [1 .. n -> DOMAIN distanceBased]
  BY <1>4, OrderedLists
<1>6. \A s \in started : RequestOK(again(s)) /\ ~EngineOp(again(s))
  BY <1>2 DEF RequestOK, EngineRequest, EngineOp, RequestOp
<1> HIDE DEF n, b, again, A
<1>7. /\ DOMAIN B = 1 .. n /\ B = [i \in 1 .. n |-> B[i]]
      /\ \A i \in 1 .. n : B[i] = again(b[i]) /\ b[i] \in started
  BY <1>4, <1>5
<1> HIDE DEF B
<1>8. ListOK(B) /\ Len(B) = n
  BY <1>5, <1>6, <1>7, BuiltList
<1>9. NoneIn(B)
  BY <1>6, <1>7, <1>8 DEF NoneIn
<1>10. ListOK(A \o B)
  BY <1>3, <1>8, ListConcat
<1> DEFINE S == ToSet(A) \cup ToSet(B)
<1>11. A \in Seq(S) /\ B \in Seq(S)
  <2>1. A \in Seq(ToSet(A)) /\ B \in Seq(ToSet(B))
    BY <1>3, <1>8 DEF ListOK
  <2> QED
    BY <2>1, SeqDef
<1> HIDE DEF S
<1>12. /\ NoneIn(A \o B) => NoneIn(A)
       /\ \A v : LastIn(A \o B, v) => LastIn(B, v) \/ LastIn(A, v)
  BY <1>11, LastOfConcat
<1>13. \A v : ~LastIn(B, v)
  BY <1>9 DEF NoneIn, LastIn
<1> QED
  BY <1>1, <1>3, <1>10, <1>12, <1>13

-----------------------------------------------------------------------------
(***************************************************************************)
(* The engine will serve the sessions, unless it is about to be restarted. *)
(***************************************************************************)
restarting == ~up \/ \E i \in 1 .. Len(msgQ) : msgQ[i].kind = "engineUp"

LedInv ==
    \A v : WillRun(engine, apiQ, v) =>
        /\ restarting \/ Serves(v, timeBased)
        /\ DistanceOption = {} /\ timeBased = <<>> => ~v.on

(* An event that is queued, not handled, stays queued. *)
LEMMA StillRestarting ==
    ASSUME TypeInv, msgQ # <<>>, Head(msgQ).kind # "engineUp", msgQ' = Tail(msgQ), up' = up, restarting
    PROVE  restarting'
<1>1. CASE ~up
  BY <1>1 DEF restarting
<1>2. CASE \E i \in 1 .. Len(msgQ) : msgQ[i].kind = "engineUp"
  <2>1. PICK i \in 1 .. Len(msgQ) : msgQ[i].kind = "engineUp"
    BY <1>2
  <2>2. /\ Head(msgQ) = msgQ[1] /\ Len(msgQ) \in Nat /\ Len(Tail(msgQ)) = Len(msgQ) - 1
        /\ \A j \in 1 .. Len(Tail(msgQ)) : Tail(msgQ)[j] = msgQ[j + 1]
    BY HeadTailProperties, LenProperties DEF TypeInv, QueuesOK
  <2>3. i # 1
    BY <2>1, <2>2
  <2>4. i - 1 \in 1 .. Len(Tail(msgQ)) /\ (i - 1) + 1 = i
    BY <2>1, <2>2, <2>3
  <2>5. Tail(msgQ)[i - 1].kind = "engineUp"
    BY <2>1, <2>2, <2>4
  <2> QED
    BY <2>4, <2>5 DEF restarting
<1> QED
  BY <1>1, <1>2 DEF restarting

(* Requests of the adapter. *)
LEMMA LedRequests ==
    ASSUME NEW R, ListOK(apiQ), ListOK(R), apiQ' = apiQ \o R, UNCHANGED engine, NEW v,
           WillRun(engine', apiQ', v)
    PROVE  LastIn(R, v) \/ (NoneIn(R) /\ WillRun(engine, apiQ, v))
<1> DEFINE S == ToSet(apiQ) \cup ToSet(R)
<1>1. apiQ \in Seq(S) /\ R \in Seq(S)
  <2>1. apiQ \in Seq(ToSet(apiQ)) /\ R \in Seq(ToSet(R))
    BY DEF ListOK
  <2> QED
    BY <2>1, SeqDef
<1> HIDE DEF S
<1>2. WillRun(engine, apiQ \o R, v)
  OBVIOUS
<1> QED
  BY <1>1, <1>2, WillRunAppended

(* A message handled keeps LedInv: each handler is Served. *)
LEMMA LedMessage ==
    ASSUME TypeInv, Steady, LedInv, HandleMessage
    PROVE  LedInv'
<1> DEFINE m == Head(msgQ)
<1>1. /\ msgQ # <<>> /\ Handler(m) /\ UNCHANGED <<up, engine>>
      /\ msgQ' = Tail(msgQ) \o (IF m.kind = "engineUp" THEN pending ELSE <<>>)
  BY DEF HandleMessage, world, client
<1>2. /\ m \in MessageRec(started) /\ Tail(msgQ) \in Seq(MessageRec(started)) /\ ListOK(apiQ)
      /\ MapOK(timeBased)
  BY <1>1, HeadTailProperties DEF TypeInv, QueuesOK
<1>3. ASSUME Served, m.kind # "engineUp" PROVE LedInv'
  <2>1. PICK R : /\ ListOK(R) /\ apiQ' = apiQ \o R
                 /\ NoneIn(R) =>
                       /\ \A v : Serves(v, timeBased) => Serves(v, timeBased')
                       /\ DistanceOption = {} /\ timeBased' = <<>> => timeBased = <<>>
                 /\ \A v : LastIn(R, v) => Serves(v, timeBased') /\ (timeBased' = <<>> => ~v.on)
    BY <1>3 DEF Served
  <2>2. restarting => restarting'
    BY <1>1, <1>2, <1>3, StillRestarting, ConcatEmptySeq
  <2> SUFFICES ASSUME NEW v, WillRun(engine', apiQ', v)
               PROVE  /\ restarting' \/ Serves(v, timeBased')
                      /\ DistanceOption = {} /\ timeBased' = <<>> => ~v.on
    BY DEF LedInv
  <2>3. LastIn(R, v) \/ (NoneIn(R) /\ WillRun(engine, apiQ, v))
    BY <1>1, <1>2, <2>1, LedRequests
  <2>4. CASE LastIn(R, v)
    BY <2>1, <2>4
  <2>5. CASE NoneIn(R) /\ WillRun(engine, apiQ, v)
    <3>1. /\ restarting \/ Serves(v, timeBased)
          /\ DistanceOption = {} /\ timeBased = <<>> => ~v.on
      BY <2>5 DEF LedInv
    <3> QED
      BY <2>1, <2>2, <2>5, <3>1
  <2> QED
    BY <2>3, <2>4, <2>5
<1>4. CASE m.kind \in {"start", "update"} /\ pend(m)
  BY <1>3, <1>4, ServedQuietly DEF pend, unchangedSessions
<1>5. CASE m.kind = "start" /\ startTracking(m)
  BY <1>2, <1>3, <1>5, StartServed
<1>6. CASE m.kind = "update" /\ updateTrackingOptions(m)
  BY <1>2, <1>3, <1>6, UpdateServed
<1>7. CASE m.kind = "stop" /\ stop(m)
  BY <1>2, <1>3, <1>7, StopServed
<1>8. m.kind # "remove"
  <2>1. Removable = {}
    BY DEF Steady, Removable
  <2> QED
    BY <1>2, <2>1, MessageAnswers
<1>9. CASE m.kind = "response" /\ onResponse(m.cb, m.ok)
  BY <1>2, <1>3, <1>9, ResponseServed
<1>10. CASE m.kind = "engineUp" /\ engineUpEvent
  <2>1. UNCHANGED timeBased /\ restartSessions
    BY <1>10 DEF engineUpEvent, unchangedSessions
  <2>2. PICK R : /\ ListOK(R) /\ apiQ' = apiQ \o R
                 /\ NoneIn(R) => timeBased = <<>>
                 /\ \A v : LastIn(R, v) => timeBased # <<>> /\ Serves(v, timeBased)
    BY <2>1, RestartServes
  <2> SUFFICES ASSUME NEW v, WillRun(engine', apiQ', v)
               PROVE  /\ restarting' \/ Serves(v, timeBased')
                      /\ DistanceOption = {} /\ timeBased' = <<>> => ~v.on
    BY DEF LedInv
  <2>3. LastIn(R, v) \/ (NoneIn(R) /\ WillRun(engine, apiQ, v))
    BY <1>1, <1>2, <2>2, LedRequests
  <2>4. CASE LastIn(R, v)
    BY <2>1, <2>2, <2>4
  <2>5. CASE NoneIn(R) /\ WillRun(engine, apiQ, v)
    <3>1. timeBased = <<>> /\ Serves(v, timeBased)
      BY <1>2, <2>2, <2>5, EmptyMap DEF Serves
    <3>2. DistanceOption = {} => ~v.on
      BY <2>5, <3>1 DEF LedInv
    <3> QED
      BY <2>1, <3>1, <3>2
  <2> QED
    BY <2>3, <2>4, <2>5
<1> QED
  BY <1>1, <1>4, <1>5, <1>6, <1>7, <1>8, <1>9, <1>10 DEF Handler

(* A message at the end leaves those before it. *)
LEMMA QueuedStays ==
    ASSUME NEW S, NEW q \in Seq(S), NEW x
    PROVE  /\ Len(Append(q, x)) = Len(q) + 1 /\ Len(q) \in Nat
           /\ \A i \in 1 .. Len(q) : i \in 1 .. Len(Append(q, x)) /\ Append(q, x)[i] = q[i]
           /\ Append(q, x)[Len(q) + 1] = x
<1>1. q \in Seq(S \cup {x}) /\ x \in S \cup {x}
  BY SeqDef
<1>2. Len(Append(q, x)) = Len(q) + 1 /\ Len(q) \in Nat
  BY <1>1, AppendProperties, LenProperties
<1>3. \A i \in 1 .. Len(q) + 1 : Append(q, x)[i] = IF i <= Len(q) THEN q[i] ELSE x
  BY <1>1, AppendProperties
<1> QED
  BY <1>2, <1>3

(* The engine and the clients. *)
LEMMA LedEngine ==
    ASSUME TypeInv, Steady, LedInv, NEW ok \in BOOLEAN, Engine(ok)
    PROVE  LedInv'
<1> DEFINE r == Head(apiQ)
<1>1. /\ apiQ # <<>> /\ apiQ' = Tail(apiQ) /\ UNCHANGED <<timeBased, up>> /\ ok = TRUE
      /\ apiQ \in Seq(ToSet(apiQ)) /\ msgQ \in Seq(MessageRec(started))
  BY DEF Engine, Steady, adapter, TypeInv, QueuesOK, ListOK
<1>2. engine' = IF EngineOp(r) THEN Result(r) ELSE engine
  BY <1>1 DEF Engine, EngineOp, Result
<1>3. restarting => restarting'
  <2>1. msgQ' = msgQ \/ \E x : msgQ' = Append(msgQ, x)
    BY DEF Engine
  <2>2. CASE msgQ' = msgQ
    BY <1>1, <2>2 DEF restarting
  <2>3. ASSUME NEW x, msgQ' = Append(msgQ, x) PROVE restarting => restarting'
    BY <1>1, <2>3, QueuedStays DEF restarting
  <2> QED
    BY <2>1, <2>2, <2>3
<1> SUFFICES ASSUME NEW v, WillRun(engine', apiQ', v)
             PROVE  /\ restarting' \/ Serves(v, timeBased')
                    /\ DistanceOption = {} /\ timeBased' = <<>> => ~v.on
  BY DEF LedInv
<1>4. WillRun(engine, apiQ, v)
  BY <1>1, <1>2, WillRunAnswered
<1>5. /\ restarting \/ Serves(v, timeBased)
      /\ DistanceOption = {} /\ timeBased = <<>> => ~v.on
  BY <1>4 DEF LedInv
<1> QED
  BY <1>1, <1>3, <1>5

(* The other steps keep LedInv: the clients' calls, the engine starting and stopping. *)
LEMMA LedOthers ==
    ASSUME TypeInv, LedInv,
           \/ \E s \in Session :
                \/ \E o \in Option \cup {NoOptions} :
                     startTrackingCommand(s, o) \/ updateTrackingOptionsCommand(s, o)
                \/ stopTrackingCommand(s)
           \/ \E c \in Client : removeClientCommand(c)
           \/ EngineUp \/ EngineDown \/ UNCHANGED vars
    PROVE  LedInv'
<1>1. msgQ \in Seq(MessageRec(started))
  BY DEF TypeInv, QueuesOK
<1>2. ASSUME UNCHANGED <<timeBased, apiQ, engine>>, restarting => restarting' PROVE LedInv'
  BY <1>2 DEF LedInv
<1>3. ASSUME NEW x, msgQ' = Append(msgQ, x), UNCHANGED <<timeBased, apiQ, engine, up>> PROVE LedInv'
  BY <1>1, <1>2, <1>3, QueuedStays DEF restarting
<1>4. CASE \E m : Command(m)
  BY <1>3, <1>4 DEF Command, adapter, world
<1>5. CASE EngineUp
  <2> DEFINE x == [kind |-> "engineUp"]
  <2>1. msgQ' = Append(msgQ, x) /\ UNCHANGED <<timeBased, apiQ, engine>> /\ x.kind = "engineUp"
    BY <1>5 DEF EngineUp, adapter
  <2> HIDE DEF x
  <2>2. Len(msgQ) + 1 \in 1 .. Len(msgQ') /\ msgQ'[Len(msgQ) + 1].kind = "engineUp"
    BY <1>1, <2>1, QueuedStays
  <2>3. restarting'
    BY <2>2 DEF restarting
  <2> QED
    BY <1>2, <2>1, <2>3
<1>6. CASE EngineDown
  <2>1. up' = FALSE /\ engine' = EngineOff /\ UNCHANGED <<timeBased, apiQ>>
    BY <1>6 DEF EngineDown, adapter
  <2> SUFFICES ASSUME NEW v, WillRun(engine', apiQ', v)
               PROVE  DistanceOption = {} /\ timeBased' = <<>> => ~v.on
    BY <2>1 DEF LedInv, restarting
  <2>2. v = EngineOff \/ WillRun(engine, apiQ, v)
    BY <2>1 DEF WillRun
  <2> QED
    BY <2>1, <2>2 DEF LedInv, EngineOff
<1>7. CASE UNCHANGED vars
  BY <1>2, <1>7 DEF vars, restarting
<1> QED
  BY <1>4, <1>5, <1>6, <1>7
  DEF startTrackingCommand, updateTrackingOptionsCommand, stopTrackingCommand, removeClientCommand

(* With nothing under way the engine runs what it will run. *)
LEMMA LedSettled ==
    ASSUME TypeInv, Steady, LedInv, Quiescent
    PROVE  /\ Serves(engine, timeBased)
           /\ DistanceOption = {} /\ timeBased = <<>> => ~engine.on
<1>1. up /\ msgQ = <<>> /\ apiQ = <<>>
  BY DEF Quiescent
<1>2. WillRun(engine, apiQ, engine)
  BY <1>1, LastOfOne DEF WillRun
<1>3. ~restarting
  BY <1>1 DEF restarting
<1> QED
  BY <1>2, <1>3 DEF LedInv

(* LedInv holds with the type invariant. *)
LEMMA LedAlways ==
    ASSUME Steady
    PROVE  Spec => [](TypeInv /\ LedInv)
<1>1. Init => IInv /\ LedInv
  <2>1. ASSUME Init PROVE LedInv
    <3>1. apiQ = <<>> /\ ~up /\ engine.on = FALSE
      BY <2>1 DEF Init, EngineOff
    <3>2. \A v : WillRun(engine, apiQ, v) => v = engine
      BY <3>1, LastOfOne DEF WillRun
    <3> QED
      BY <3>1, <3>2 DEF LedInv, restarting
  <2> QED
    BY <2>1, InitInv
<1>2. IInv /\ LedInv /\ [Next]_vars => IInv' /\ LedInv'
  <2> SUFFICES ASSUME IInv, LedInv, [Next]_vars PROVE LedInv'
    BY StepInv
  <2>1. TypeInv
    BY DEF IInv
  <2>2. CASE HandleMessage
    BY <2>1, <2>2, LedMessage, Steady
  <2>3. CASE \E ok \in BOOLEAN : Engine(ok)
    BY <2>1, <2>3, LedEngine, Steady
  <2>4. CASE \/ \E s \in Session :
                  \/ \E o \in Option \cup {NoOptions} :
                       startTrackingCommand(s, o) \/ updateTrackingOptionsCommand(s, o)
                  \/ stopTrackingCommand(s)
             \/ \E c \in Client : removeClientCommand(c)
             \/ EngineUp \/ EngineDown \/ UNCHANGED vars
    BY <2>1, <2>4, LedOthers
  <2> QED
    BY <2>2, <2>3, <2>4 DEF Next
<1>3. IInv => TypeInv
  BY DEF IInv
<1> QED
  BY <1>1, <1>2, <1>3, PTL DEF Spec

(***************************************************************************)
(* The engine runs at least as often as every time-based session asks:     *)
(* startTimeBasedTrackingMultiplex, updateTrackingMultiplex,               *)
(* stopTimeBasedTrackingMultiplex, the callbacks that start sessions and   *)
(* restartSessions, in any order, of any sessions and options, across      *)
(* engine restarts.                                                        *)
(***************************************************************************)
THEOREM TrackingEngineServesSessions ==
    ASSUME Steady
    PROVE  Spec => []EngineServesSessions
<1>1. Spec => [](TypeInv /\ LedInv)
  BY LedAlways, Steady
<1>2. TypeInv /\ LedInv => EngineServesSessions
  BY Steady, LedSettled DEF EngineServesSessions, Serves
<1> QED
  BY <1>1, <1>2, PTL

(***************************************************************************)
(* ... and not for nobody: where no session asks for a distance, the       *)
(* engine is off once the last session is stopped.                         *)
(***************************************************************************)
THEOREM TrackingEngineOffWhenIdle ==
    ASSUME Steady, DistanceOption = {}
    PROVE  Spec => []EngineOffWhenIdle
<1>1. Spec => [](TypeInv /\ LedInv)
  BY LedAlways, Steady
<1>2. TypeInv /\ LedInv => EngineOffWhenIdle
  <2> SUFFICES ASSUME TypeInv, LedInv, Quiescent, \A s \in DOMAIN timeBased : ~live(s)
               PROVE  ~engine.on
    BY DEF EngineOffWhenIdle
  <2>1. removed = {} /\ MapOK(timeBased)
    BY Steady DEF TypeInv, Removable, Steady
  <2>2. DOMAIN timeBased = {}
    BY <2>1 DEF live
  <2>3. timeBased = <<>>
    BY <2>1, <2>2, EmptyMap
  <2> QED
    BY <2>3, Steady, LedSettled
<1> QED
  BY <1>1, <1>2, PTL

-----------------------------------------------------------------------------
(***************************************************************************)
(* What of the queues may save a session.                                  *)
(***************************************************************************)
AtMostOne(q, s) == \A i, j \in 1 .. Len(q) : starts(q[i], s) /\ starts(q[j], s) => i = j
startsIn(q, s) == \E x \in ToSet(q) : starts(x, s)

\* A session is started by one message, and is in no map and no answer before.
StartedOnce ==
    \A s \in Session :
        /\ AtMostOne(msgQ, s) /\ AtMostOne(pending, s)
        /\ ~(startsIn(msgQ, s) /\ startsIn(pending, s))
        /\ startAhead(s) => ~inMap(s) /\ ~answerAhead(s)

\* Of the requests R only those about sessions of C lead to a save.
SavesOnly(R, C) == R \in Seq(ToSet(R)) /\ \A x \in ToSet(R) : \A t : saves(x, t) => t \in C

(* The items of a queue, by their places. *)
LEMMA Items ==
    ASSUME NEW S, NEW q \in Seq(S)
    PROVE  /\ Len(q) \in Nat
           /\ \A i \in 1 .. Len(q) : q[i] \in S /\ q[i] \in ToSet(q)
           /\ \A x : x \in ToSet(q) <=> \E i \in 1 .. Len(q) : x = q[i]
BY LenProperties, ElementOfSeq DEF ToSet

(* One more at the end, ... *)
LEMMA ItemsAppended ==
    ASSUME NEW S, NEW q \in Seq(S), NEW x \in S
    PROVE  /\ ToSet(Append(q, x)) = ToSet(q) \cup {x}
           /\ \A s : AtMostOne(q, s) /\ (starts(x, s) => ~startsIn(q, s)) => AtMostOne(Append(q, x), s)
<1> DEFINE p == Append(q, x)
<1>1. /\ p \in Seq(S) /\ Len(p) = Len(q) + 1 /\ Len(q) \in Nat /\ p[Len(q) + 1] = x
      /\ \A i \in 1 .. Len(q) : p[i] = q[i]
  BY AppendProperties, LenProperties
<1> HIDE DEF p
<1>2. ASSUME NEW i \in 1 .. Len(p) PROVE i \in 1 .. Len(q) \/ i = Len(q) + 1
  BY <1>1
<1>3. \A i \in 1 .. Len(q) : i \in 1 .. Len(p)
  BY <1>1
<1>4. Len(q) + 1 \in 1 .. Len(p)
  BY <1>1
<1>5. \A y : y \in ToSet(p) <=> \E i \in 1 .. Len(p) : y = p[i]
  BY <1>1, Items
<1>6. \A y : y \in ToSet(q) <=> \E i \in 1 .. Len(q) : y = q[i]
  BY Items
<1>7. ToSet(p) = ToSet(q) \cup {x}
  <2>1. \A y \in ToSet(p) : y \in ToSet(q) \cup {x}
    BY <1>1, <1>2, <1>5, <1>6
  <2>2. \A y \in ToSet(q) \cup {x} : y \in ToSet(p)
    BY <1>1, <1>3, <1>4, <1>5, <1>6
  <2> QED
    BY <2>1, <2>2
<1>8. ASSUME NEW s, AtMostOne(q, s), starts(x, s) => ~startsIn(q, s) PROVE AtMostOne(p, s)
  <2> SUFFICES ASSUME NEW i \in 1 .. Len(p), NEW j \in 1 .. Len(p), starts(p[i], s), starts(p[j], s)
               PROVE  i = j
    BY DEF AtMostOne
  <2>1. \A k \in 1 .. Len(q) : q[k] \in ToSet(q)
    BY <1>6
  <2>2. CASE i \in 1 .. Len(q) /\ j \in 1 .. Len(q)
    BY <1>1, <1>8, <2>2 DEF AtMostOne
  <2>3. CASE i = Len(q) + 1 /\ j = Len(q) + 1
    BY <2>3
  <2>4. CASE i \in 1 .. Len(q) /\ j = Len(q) + 1
    BY <1>1, <1>8, <2>1, <2>4 DEF startsIn
  <2>5. CASE i = Len(q) + 1 /\ j \in 1 .. Len(q)
    BY <1>1, <1>8, <2>1, <2>5 DEF startsIn
  <2> QED
    BY <1>2, <2>2, <2>3, <2>4, <2>5
<1> QED
  BY <1>7, <1>8 DEF p

(* ... a queue behind another, ... *)
LEMMA ItemsConcat ==
    ASSUME NEW S, NEW p \in Seq(S), NEW q \in Seq(S)
    PROVE  /\ ToSet(p \o q) = ToSet(p) \cup ToSet(q)
           /\ \A s : AtMostOne(p, s) /\ AtMostOne(q, s) /\ ~(startsIn(p, s) /\ startsIn(q, s))
                     => AtMostOne(p \o q, s)
<1> DEFINE r == p \o q
           n == Len(p)
<1>1. /\ r \in Seq(S) /\ Len(r) = n + Len(q) /\ n \in Nat /\ Len(q) \in Nat
      /\ \A i \in 1 .. n + Len(q) : r[i] = IF i <= n THEN p[i] ELSE q[i - n]
  BY ConcatProperties, LenProperties
<1>2. /\ \A x : x \in ToSet(p) <=> \E i \in 1 .. n : x = p[i]
      /\ \A x : x \in ToSet(q) <=> \E i \in 1 .. Len(q) : x = q[i]
  BY Items
<1> HIDE DEF r, n
<1>3. \A x : x \in ToSet(r) <=> \E i \in 1 .. Len(r) : x = r[i]
  BY <1>1, Items
<1>4. ASSUME NEW i \in 1 .. Len(r)
      PROVE  \/ i \in 1 .. n /\ r[i] = p[i]
             \/ i - n \in 1 .. Len(q) /\ r[i] = q[i - n] /\ i > n
  BY <1>1
<1>5. \A i \in 1 .. n : i \in 1 .. Len(r) /\ r[i] = p[i]
  BY <1>1
<1>6. \A i \in 1 .. Len(q) : i + n \in 1 .. Len(r) /\ r[i + n] = q[i]
  BY <1>1
<1>7. ToSet(r) = ToSet(p) \cup ToSet(q)
  <2>1. \A x \in ToSet(r) : x \in ToSet(p) \cup ToSet(q)
    BY <1>2, <1>3, <1>4
  <2>2. \A x \in ToSet(p) : x \in ToSet(r)
    BY <1>2, <1>3, <1>5
  <2>3. ASSUME NEW x \in ToSet(q) PROVE x \in ToSet(r)
    <3>1. PICK i \in 1 .. Len(q) : x = q[i]
      BY <1>2, <2>3
    <3>2. i + n \in 1 .. Len(r) /\ x = r[i + n]
      BY <1>6, <3>1
    <3> QED
      BY <1>3, <3>2
  <2> QED
    BY <2>1, <2>2, <2>3
<1>8. ASSUME NEW s, AtMostOne(p, s), AtMostOne(q, s), ~(startsIn(p, s) /\ startsIn(q, s))
      PROVE  AtMostOne(r, s)
  <2> SUFFICES ASSUME NEW i \in 1 .. Len(r), NEW j \in 1 .. Len(r), starts(r[i], s), starts(r[j], s)
               PROVE  i = j
    BY DEF AtMostOne
  <2>1. /\ \A k \in 1 .. n : p[k] \in ToSet(p)
        /\ \A k \in 1 .. Len(q) : q[k] \in ToSet(q)
    BY <1>2
  <2>2. CASE i \in 1 .. n /\ r[i] = p[i] /\ j \in 1 .. n /\ r[j] = p[j]
    BY <1>8, <2>2 DEF AtMostOne, n
  <2>3. CASE i - n \in 1 .. Len(q) /\ r[i] = q[i - n] /\ j - n \in 1 .. Len(q) /\ r[j] = q[j - n]
    <3>1. i - n = j - n
      BY <1>8, <2>3 DEF AtMostOne
    <3> QED
      BY <1>1, <3>1
  <2>4. CASE i \in 1 .. n /\ r[i] = p[i] /\ j - n \in 1 .. Len(q) /\ r[j] = q[j - n]
    BY <1>8, <2>1, <2>4 DEF startsIn
  <2>5. CASE i - n \in 1 .. Len(q) /\ r[i] = q[i - n] /\ j \in 1 .. n /\ r[j] = p[j]
    BY <1>8, <2>1, <2>5 DEF startsIn
  <2> QED
    BY <1>4, <2>2, <2>3, <2>4, <2>5
<1> QED
  BY <1>7, <1>8 DEF r

(* ... and the first taken away. *)
LEMMA ItemsLeft ==
    ASSUME NEW S, NEW q \in Seq(S), q # <<>>
    PROVE  /\ Head(q) \in S /\ Tail(q) \in Seq(S)
           /\ ToSet(q) = {Head(q)} \cup ToSet(Tail(q))
           /\ \A s : AtMostOne(q, s) =>
                 AtMostOne(Tail(q), s) /\ (starts(Head(q), s) => ~startsIn(Tail(q), s))
<1> DEFINE p == Tail(q)
<1>1. /\ p \in Seq(S) /\ Head(q) = q[1] /\ Head(q) \in S /\ Len(q) \in Nat /\ Len(q) >= 1
      /\ Len(p) = Len(q) - 1 /\ \A i \in 1 .. Len(p) : p[i] = q[i + 1]
  BY HeadTailProperties, LenProperties, EmptySeq
<1> HIDE DEF p
<1>2. /\ \A x : x \in ToSet(q) <=> \E i \in 1 .. Len(q) : x = q[i]
      /\ \A x : x \in ToSet(p) <=> \E i \in 1 .. Len(p) : x = p[i]
  BY <1>1, Items
<1>3. 1 \in 1 .. Len(q) /\ \A i \in 1 .. Len(p) : i + 1 \in 1 .. Len(q) /\ i + 1 # 1
  BY <1>1
<1>4. ASSUME NEW i \in 1 .. Len(q) PROVE i = 1 \/ (i - 1 \in 1 .. Len(p) /\ q[i] = p[i - 1])
  BY <1>1
<1>5. ToSet(q) = {Head(q)} \cup ToSet(p)
  <2>1. \A x \in ToSet(q) : x \in {Head(q)} \cup ToSet(p)
    BY <1>1, <1>2, <1>4
  <2>2. \A x \in {Head(q)} \cup ToSet(p) : x \in ToSet(q)
    BY <1>1, <1>2, <1>3
  <2> QED
    BY <2>1, <2>2
<1>6. ASSUME NEW s, AtMostOne(q, s)
      PROVE  AtMostOne(p, s) /\ (starts(Head(q), s) => ~startsIn(p, s))
  <2>1. ASSUME NEW i \in 1 .. Len(p), NEW j \in 1 .. Len(p), starts(p[i], s), starts(p[j], s)
        PROVE  i = j
    <3>1. i + 1 = j + 1
      BY <1>1, <1>3, <1>6, <2>1 DEF AtMostOne
    <3> QED
      BY <3>1
  <2>2. ASSUME starts(Head(q), s), NEW i \in 1 .. Len(p), starts(p[i], s) PROVE FALSE
    BY <1>1, <1>3, <1>6, <2>2 DEF AtMostOne
  <2> QED
    BY <1>2, <2>1, <2>2 DEF AtMostOne, startsIn
<1> QED
  BY <1>1, <1>5, <1>6 DEF p

(***************************************************************************)
(* Requests that lead to a save, and what a message does.                  *)
(***************************************************************************)

(* A request leads to a save of the session its callback is about. *)
LEMMA RequestSaves ==
    ASSUME NEW op, NEW s, NEW o, NEW k, NEW u, NEW c, NEW t
    PROVE  saves(EngineRequest(op, s, o, Callback(k, u, c)), t) <=>
              u = t /\ k \in {"updated", "switched", "restart", "restarted"}
BY DEF saves, EngineRequest, Callback

(* Lists of no request and of one. *)
LEMMA SaveLists ==
    /\ \A C : SavesOnly(<<>>, C)
    /\ \A r, C : (\A t : saves(r, t) => t \in C) => SavesOnly(<<r>>, C)
<1>1. ToSet(<<>>) = {}
  BY EmptySeq DEF ToSet
<1>2. \A r : ToSet(<<r>>) = {r} /\ <<r>> \in Seq({r})
  BY DEF ToSet
<1> QED
  BY <1>1, <1>2, EmptySeq DEF SavesOnly

(* Lists of requests one behind the other. *)
LEMMA SaveConcat ==
    ASSUME NEW P, NEW R, NEW C, SavesOnly(P, C), SavesOnly(R, C)
    PROVE  SavesOnly(P \o R, C)
<1> DEFINE U == ToSet(P) \cup ToSet(R)
           Q == P \o R
<1>1. P \in Seq(U) /\ R \in Seq(U)
  <2>1. P \in Seq(ToSet(P)) /\ R \in Seq(ToSet(R))
    BY DEF SavesOnly
  <2> QED
    BY <2>1, SeqDef
<1>2. Q \in Seq(U) /\ ToSet(Q) = U
  <2> HIDE DEF U
  <2>1. ToSet(P \o R) = ToSet(P) \cup ToSet(R)
    BY <1>1, ItemsConcat
  <2> QED
    BY <1>1, <2>1, ConcatProperties DEF U
<1> QED
  BY <1>2 DEF SavesOnly

\* A list built request by request leads to no save if none of them does.
LEMMA SaveBuilt ==
    ASSUME NEW n \in Nat, NEW q, q = [i \in 1 .. n |-> q[i]], \A i \in 1 .. n : \A t : ~saves(q[i], t)
    PROVE  SavesOnly(q, {})
<1>1. DOMAIN q = 1 .. n
  OBVIOUS
<1>2. \A i \in 1 .. n : q[i] \in ToSet(q)
  BY <1>1 DEF ToSet
<1>3. q \in Seq(ToSet(q))
  BY <1>2, SeqDef
<1>4. \A x \in ToSet(q) : \E i \in 1 .. n : x = q[i]
  BY <1>1 DEF ToSet
<1> QED
  BY <1>3, <1>4 DEF SavesOnly

(* What leads to saves only of C does so only of more than C. *)
LEMMA MoreSaved ==
    ASSUME NEW R, NEW C, NEW D, SavesOnly(R, C), C \subseteq D
    PROVE  SavesOnly(R, D)
BY DEF SavesOnly

(* Of the multiplexing functions only an update asks for an answer that saves. *)
LEMMA MultiplexSaves ==
    ASSUME NEW T, NEW s, NEW o
    PROVE  /\ SavesOnly(startTimeBasedTrackingMultiplex(T, s, o), {})
           /\ SavesOnly(stopTimeBasedTrackingMultiplex(T, s), {})
           /\ SavesOnly(updateTrackingMultiplex(T, s, o), {s})
<1>1. \A p : SavesOnly(startTimeBasedTracking(s, p), {})
  <2> SUFFICES ASSUME NEW p PROVE SavesOnly(startTimeBasedTracking(s, p), {})
    OBVIOUS
  <2> DEFINE r == EngineRequest("start", s, p, Callback("started", s, NoOptions))
  <2>1. \A t : ~saves(r, t)
    BY RequestSaves
  <2> HIDE DEF r
  <2>2. SavesOnly(<<r>>, {})
    BY <2>1, SaveLists
  <2> QED
    BY <2>2 DEF startTimeBasedTracking, r
<1>2. SavesOnly(stopTracking(s), {})
  <2> DEFINE r == EngineRequest("stopFix", s, NoOptions, Callback("stopped", s, NoOptions))
  <2>1. \A t : ~saves(r, t)
    BY RequestSaves
  <2> HIDE DEF r
  <2>2. SavesOnly(<<r>>, {})
    BY <2>1, SaveLists
  <2> QED
    BY <2>2 DEF stopTracking, r
<1>3. \A p, old : SavesOnly(updateTracking(s, p, old), {s})
  <2> SUFFICES ASSUME NEW p, NEW old PROVE SavesOnly(updateTracking(s, p, old), {s})
    OBVIOUS
  <2> DEFINE r == EngineRequest("start", s, p, Callback("updated", s, old))
  <2>1. \A t : saves(r, t) => t \in {s}
    BY RequestSaves
  <2> HIDE DEF r
  <2>2. SavesOnly(<<r>>, {s})
    BY <2>1, SaveLists
  <2> QED
    BY <2>2 DEF updateTracking, r
<1>4. SavesOnly(startTimeBasedTrackingMultiplex(T, s, o), {})
  BY <1>1, SaveLists DEF startTimeBasedTrackingMultiplex
<1>5. SavesOnly(stopTimeBasedTrackingMultiplex(T, s), {})
  BY <1>1, <1>2, SaveLists DEF stopTimeBasedTrackingMultiplex
<1>6. SavesOnly(updateTrackingMultiplex(T, s, o), {s})
  BY <1>3, SaveLists DEF updateTrackingMultiplex
<1> QED
  BY <1>4, <1>5, <1>6

\* Handling m saves, and asks for what saves, only the session that m starts,
\* whose answer m is, or that is in a map.
Handled(m) ==
    /\ \A t \in Session : inMap(t)' => inMap(t) \/ starts(m, t) \/ saves(m, t)
    /\ \E R : apiQ' = apiQ \o R /\ SavesOnly(R, {t \in Session : inMap(t) \/ saves(m, t)})

(* A handler that sends nothing is held to what it saves. *)
LEMMA NothingMore ==
    ASSUME TypeInv, NEW m, UNCHANGED apiQ, \A t \in Session : inMap(t)' => inMap(t) \/ starts(m, t) \/ saves(m, t)
    PROVE  Handled(m)
<1>1. apiQ' = apiQ \o <<>>
  BY NothingSent
<1> QED
  BY <1>1, SaveLists DEF Handled

(* Saving adds its session to the maps, erasing takes it out of one. *)
LEMMA SavedOrErased ==
    /\ \A T, D, s, o, t : saveTrackingSession(T, D, s, o) =>
          (inMap(t)' => t = s \/ t \in DOMAIN T \cup DOMAIN D)
    /\ \A s, t : eraseTrackingSession(s) =>
          /\ inMap(t)' => inMap(t)
          /\ ~(s \in DOMAIN timeBased \cap DOMAIN distanceBased) => ~inMap(s)'
    /\ \A t : unchangedSessions => (inMap(t)' <=> inMap(t))
<1>1. ASSUME NEW T, NEW D, NEW s, NEW o, NEW t, saveTrackingSession(T, D, s, o), inMap(t)'
      PROVE  t = s \/ t \in DOMAIN T \cup DOMAIN D
  BY <1>1 DEF saveTrackingSession, Put, inMap
<1>2. ASSUME NEW s, NEW t, eraseTrackingSession(s)
      PROVE  /\ inMap(t)' => inMap(t)
             /\ ~(s \in DOMAIN timeBased \cap DOMAIN distanceBased) => ~inMap(s)'
  BY <1>2 DEF eraseTrackingSession, Others, Restrict, inMap
<1>3. ASSUME NEW t, unchangedSessions PROVE inMap(t)' <=> inMap(t)
  BY <1>3 DEF unchangedSessions, inMap
<1> QED
  BY <1>1, <1>2, <1>3

(* startTrackingCommand's message, ... *)
LEMMA StartHandled ==
    ASSUME TypeInv, NEW m \in MessageRec(started), m.kind = "start", startTracking(m)
    PROVE  Handled(m)
<1>1. m.s \in Session /\ \A t : starts(m, t) <=> t = m.s
  <2>1. m \in CommandRec(started)
    BY MessageAnswers
  <2> QED
    BY <2>1 DEF CommandRec, starts, TypeInv
<1>2. CASE ~hasCallback(ClientOf[m.s]) \/ m.o = NoOptions
  <2>1. UNCHANGED <<timeBased, distanceBased, apiQ>>
    BY <1>2 DEF startTracking, unchangedSessions
  <2> QED
    BY <2>1, NothingMore DEF inMap
<1>3. CASE hasCallback(ClientOf[m.s]) /\ m.o # NoOptions
  <2> DEFINE o == Clamped(m.o)
             r == EngineRequest("startDistance", m.s, o, Callback("started", m.s, NoOptions))
             R == IF isDistance(o) THEN <<r>> ELSE startTimeBasedTrackingMultiplex(timeBased, m.s, o)
  <2>1. saveTrackingSession(timeBased, distanceBased, m.s, o) /\ apiQ' = apiQ \o R
    BY <1>3 DEF startTracking, send
  <2>2. \A t : inMap(t)' => inMap(t) \/ starts(m, t)
    <3> HIDE DEF o
    <3> QED
      BY <1>1, <2>1, SavedOrErased DEF inMap
  <2>3. SavesOnly(R, {})
    <3>1. \A t : ~saves(r, t)
      BY RequestSaves
    <3> HIDE DEF r, o
    <3> QED
      BY <3>1, SaveLists, MultiplexSaves
  <2> HIDE DEF R, o
  <2> QED
    BY <2>1, <2>2, <2>3, MoreSaved DEF Handled
<1> QED
  BY <1>2, <1>3

(* ... updateTrackingOptionsCommand's, ... *)
LEMMA UpdateHandled ==
    ASSUME TypeInv, NEW m \in MessageRec(started), m.kind = "update", updateTrackingOptions(m)
    PROVE  Handled(m)
<1> DEFINE o == Clamped(m.o)
           s == m.s
           C == {t \in Session : inMap(t) \/ saves(m, t)}
<1>1. s \in Session
  BY MessageAnswers DEF TypeInv
<1>2. CASE unchangedSessions /\ UNCHANGED apiQ
  BY <1>2, NothingMore, SavedOrErased
<1>3. CASE s \in DOMAIN timeBased /\ switchToDistance(s, o)
  <2> DEFINE P == stopTimeBasedTrackingMultiplex(timeBased, s)
             r == EngineRequest("startDistance", s, o, Silent)
  <2>1. /\ saveTrackingSession(Others(timeBased, s), distanceBased, s, o)
        /\ apiQ' = apiQ \o (P \o <<r>>)
    BY <1>3 DEF switchToDistance, send
  <2>2. \A t : ~saves(r, t)
    BY RequestSaves DEF Silent
  <2>3. \A t : inMap(t)' => inMap(t)
    <3>1. DOMAIN Others(timeBased, s) \subseteq DOMAIN timeBased
      BY DEF Others, Restrict
    <3> HIDE DEF o
    <3> QED
      BY <1>3, <2>1, <3>1, SavedOrErased DEF inMap
  <2> HIDE DEF r, o
  <2>4. SavesOnly(P, {})
    BY MultiplexSaves
  <2>5. SavesOnly(<<r>>, {})
    BY <2>2, SaveLists
  <2> HIDE DEF P
  <2>6. SavesOnly(P \o <<r>>, {})
    BY <2>4, <2>5, SaveConcat
  <2> QED
    BY <2>1, <2>3, <2>6, MoreSaved DEF Handled
<1>4. CASE s \in DOMAIN distanceBased /\ switchToTime(s, o)
  <2> DEFINE r == EngineRequest("stopDistance", s, NoOptions, Callback("switched", s, o))
  <2>1. eraseTrackingSession(s) /\ apiQ' = apiQ \o <<r>>
    BY <1>4 DEF switchToTime, send
  <2>2. \A t : saves(r, t) => t \in C
    BY <1>1, <1>4, RequestSaves DEF inMap
  <2> HIDE DEF r, C
  <2>3. SavesOnly(<<r>>, C)
    BY <2>2, SaveLists
  <2> QED
    BY <2>1, <2>3, SavedOrErased DEF Handled, C
<1>5. CASE s \in DOMAIN timeBased /\ updateTimeBased(s, o)
  <2> DEFINE R == updateTrackingMultiplex(timeBased, s, o)
  <2>1. saveTrackingSession(timeBased, distanceBased, s, o) /\ apiQ' = apiQ \o R
    BY <1>5 DEF updateTimeBased, send
  <2>2. {s} \subseteq C
    BY <1>1, <1>5 DEF inMap
  <2>3. SavesOnly(R, {s})
    BY MultiplexSaves
  <2> HIDE DEF C, R, o
  <2>4. SavesOnly(R, C)
    BY <2>2, <2>3, MoreSaved
  <2>5. \A t : inMap(t)' => inMap(t)
    BY <1>5, <2>1, SavedOrErased DEF inMap
  <2> QED
    BY <2>1, <2>4, <2>5 DEF Handled, C
<1>6. CASE s \in DOMAIN distanceBased /\ restartDistance(s, o)
  <2> DEFINE r == EngineRequest("stopDistance", s, NoOptions, Callback("restart", s, o))
  <2>1. unchangedSessions /\ apiQ' = apiQ \o <<r>>
    BY <1>6 DEF restartDistance, send
  <2>2. \A t : saves(r, t) => t \in C
    BY <1>1, <1>6, RequestSaves DEF inMap
  <2> HIDE DEF r, C
  <2>3. SavesOnly(<<r>>, C)
    BY <2>2, SaveLists
  <2> QED
    BY <2>1, <2>3, SavedOrErased DEF Handled, C
<1> QED
  BY <1>2, <1>3, <1>4, <1>5, <1>6 DEF updateTrackingOptions

(* ... stopTrackingCommand's, ... *)
LEMMA StopHandled ==
    ASSUME TypeInv, NEW m \in MessageRec(started), m.kind = "stop", stop(m)
    PROVE  /\ Handled(m)
           /\ \E R : apiQ' = apiQ \o R /\ SavesOnly(R, {})
           /\ \A t \in ended' \ ended : inMap(t) /\ t \notin DOMAIN timeBased \cap DOMAIN distanceBased => ~inMap(t)'
<1> DEFINE s == m.s
<1>1. CASE /\ s \in DOMAIN timeBased
           /\ apiQ' = apiQ \o stopTimeBasedTrackingMultiplex(timeBased, s)
           /\ eraseTrackingSession(s) /\ ended' = ended \cup {s}
  <2> DEFINE R == stopTimeBasedTrackingMultiplex(timeBased, s)
  <2>1. SavesOnly(R, {}) /\ apiQ' = apiQ \o R
    BY <1>1, MultiplexSaves
  <2> HIDE DEF R
  <2>2. Handled(m)
    BY <1>1, <2>1, MoreSaved, SavedOrErased DEF Handled
  <2>3. \A t \in ended' \ ended : inMap(t) /\ t \notin DOMAIN timeBased \cap DOMAIN distanceBased => ~inMap(t)'
    BY <1>1, SavedOrErased
  <2> QED
    BY <2>1, <2>2, <2>3
<1>2. CASE /\ send(<<EngineRequest("stopDistance", s, NoOptions, Callback("stoppedDistance", s, NoOptions))>>)
           /\ unchangedSessions /\ ended' = ended
  <2> DEFINE r == EngineRequest("stopDistance", s, NoOptions, Callback("stoppedDistance", s, NoOptions))
  <2>1. apiQ' = apiQ \o <<r>> /\ \A t : ~saves(r, t)
    BY <1>2, RequestSaves DEF send
  <2> HIDE DEF r
  <2>2. SavesOnly(<<r>>, {})
    BY <2>1, SaveLists
  <2>3. Handled(m)
    BY <1>2, <2>1, <2>2, MoreSaved, SavedOrErased DEF Handled
  <2> QED
    BY <1>2, <2>1, <2>2, <2>3
<1>3. CASE /\ s \notin DOMAIN timeBased \cup DOMAIN distanceBased /\ ended' = ended \cup {s}
           /\ unchangedSessions /\ UNCHANGED apiQ
  <2>1. Handled(m) /\ apiQ' = apiQ \o <<>> /\ SavesOnly(<<>>, {})
    BY <1>3, NothingMore, NothingSent, SaveLists, SavedOrErased
  <2>2. \A t \in ended' \ ended : ~inMap(t)
    BY <1>3 DEF inMap
  <2> QED
    BY <2>1, <2>2
<1> QED
  BY <1>1, <1>2, <1>3 DEF stop, send

(* ... the removal of a client, ... *)
LEMMA RemoveHandled ==
    ASSUME TypeInv, NEW m, removeClient(m)
    PROVE  Handled(m)
<1> DEFINE mine(T) == {s \in DOMAIN T : ClientOf[s] = m.c}
           stop1(s) == stopTimeBasedTrackingMultiplex(timeBased, s)
           A == {s \in mine(timeBased) : stop1(s) # <<>>}
           B == mine(distanceBased)
           a == Ordered(A)
           b == Ordered(B)
           stopB(s) == EngineRequest("stopDistance", s, NoOptions, Callback("stoppedClient", s, NoOptions))
           P == [i \in DOMAIN a |-> Head(stop1(a[i]))]
           Q == [i \in DOMAIN b |-> stopB(b[i])]
<1>1. apiQ' = apiQ \o (P \o Q) /\ unchangedSessions
  BY DEF removeClient, send
<1>2. /\ DOMAIN timeBased \subseteq started /\ DOMAIN distanceBased \subseteq started
      /\ started \subseteq Session /\ IsFiniteSet(started)
  BY DEF TypeInv, MapOK, DistanceOK
<1>3. A \subseteq started /\ B \subseteq started /\ IsFiniteSet(A) /\ IsFiniteSet(B)
  BY <1>2, FS_Subset
<1>4. /\ Cardinality(A) \in Nat /\ a \in [1 .. Cardinality(A) -> A]
      /\ Cardinality(B) \in Nat /\ b \in [1 .. Cardinality(B) -> B]
  <2> HIDE DEF A, B
  <2> QED
    BY <1>2, <1>3, OrderedLists
<1>5. \A s \in A : \A t : ~saves(Head(stop1(s)), t)
  <2> SUFFICES ASSUME NEW s \in A PROVE \A t : ~saves(Head(stop1(s)), t)
    OBVIOUS
  <2>1. SavesOnly(stop1(s), {}) /\ stop1(s) # <<>>
    BY MultiplexSaves
  <2> HIDE DEF stop1, A
  <2>2. stop1(s) \in Seq(ToSet(stop1(s)))
    BY <2>1 DEF SavesOnly
  <2>3. Head(stop1(s)) \in ToSet(stop1(s))
    BY <2>1, <2>2, HeadTailProperties
  <2> QED
    BY <2>1, <2>3 DEF SavesOnly
<1>6. \A s, t : ~saves(stopB(s), t)
  BY RequestSaves
<1> HIDE DEF A, B, a, b, stop1, stopB
<1>7. /\ \A i \in 1 .. Cardinality(A) : P[i] = Head(stop1(a[i])) /\ a[i] \in A
      /\ \A i \in 1 .. Cardinality(B) : Q[i] = stopB(b[i])
      /\ P = [i \in 1 .. Cardinality(A) |-> P[i]] /\ Q = [i \in 1 .. Cardinality(B) |-> Q[i]]
  BY <1>4
<1> HIDE DEF P, Q
<1>8. SavesOnly(P, {})
  <2> DEFINE n == Cardinality(A)
  <2>1. ASSUME NEW i \in 1 .. n, NEW t PROVE ~saves(P[i], t)
    <3>1. P[i] = Head(stop1(a[i])) /\ a[i] \in A
      BY <1>7
    <3>2. ~saves(Head(stop1(a[i])), t)
      BY <1>5, <3>1
    <3> QED
      BY <3>1, <3>2
  <2>2. n \in Nat /\ P = [i \in 1 .. n |-> P[i]]
    BY <1>4, <1>7
  <2> HIDE DEF n
  <2> QED
    BY <2>1, <2>2, SaveBuilt
<1>9. SavesOnly(Q, {})
  <2> DEFINE n == Cardinality(B)
  <2>1. n \in Nat /\ Q = [i \in 1 .. n |-> Q[i]] /\ \A i \in 1 .. n : \A t : ~saves(Q[i], t)
    BY <1>4, <1>6, <1>7
  <2> HIDE DEF n
  <2> QED
    BY <2>1, SaveBuilt
<1>10. SavesOnly(P \o Q, {})
  BY <1>8, <1>9, SaveConcat
<1> QED
  BY <1>1, <1>10, MoreSaved, SavedOrErased DEF Handled

(* ... the engine's answers, ... *)
LEMMA ResponseHandled ==
    ASSUME TypeInv, NEW m \in MessageRec(started), m.kind = "response", onResponse(m.cb, m.ok)
    PROVE  /\ Handled(m)
           /\ \A t \in ended' \ ended :
                 /\ UNCHANGED apiQ
                 /\ inMap(t) /\ t \notin DOMAIN timeBased \cap DOMAIN distanceBased => ~inMap(t)'
<1> DEFINE cb == m.cb
           s == cb.s
           C == {t \in Session : inMap(t) \/ saves(m, t)}
<1>1. /\ cb.k # "silent" /\ s \in Session
      /\ \A t : saves(m, t) <=> s = t /\ cb.k \in {"updated", "switched", "restart", "restarted"}
  <2>1. cb \in CallbackRec(started) /\ cb # Silent
    BY MessageAnswers
  <2>2. m \in [kind : {"response"}, cb : CallbackRec(started) \ {Silent}, ok : EngineAnswer]
    BY DEF MessageRec, CommandRec
  <2>3. cb.k # "silent" /\ s \in started
    BY <2>1, CallbackTyped
  <2> QED
    BY <2>2, <2>3 DEF saves, TypeInv
<1>2. CASE /\ UNCHANGED <<apiQ, ended>>
           /\ \/ unchangedSessions \/ eraseTrackingSession(s)
              \/ /\ cb.k \in {"updated", "restarted"}
                 /\ saveTrackingSession(timeBased, distanceBased, s, cb.o)
  <2>1. \A t : inMap(t)' => inMap(t) \/ saves(m, t)
    <3>1. CASE unchangedSessions \/ eraseTrackingSession(s)
      BY <3>1, SavedOrErased
    <3>2. CASE cb.k \in {"updated", "restarted"} /\ saveTrackingSession(timeBased, distanceBased, s, cb.o)
      BY <1>1, <3>2, SavedOrErased DEF inMap
    <3> QED
      BY <1>2, <3>1, <3>2
  <2> QED
    BY <1>2, <2>1, NothingMore
<1>3. CASE cb.k = "switched" /\ onSwitched(cb, m.ok)
  <2> DEFINE R == startTimeBasedTrackingMultiplex(timeBased, s, cb.o)
  <2>1. saveTrackingSession(timeBased, distanceBased, s, cb.o) /\ apiQ' = apiQ \o R /\ ended' = ended
    BY <1>3 DEF onSwitched, send
  <2>2. SavesOnly(R, {})
    BY MultiplexSaves
  <2> HIDE DEF R
  <2>3. \A t : inMap(t)' => inMap(t) \/ saves(m, t)
    BY <1>1, <1>3, <2>1, SavedOrErased DEF inMap
  <2> QED
    BY <2>1, <2>2, <2>3, MoreSaved DEF Handled
<1>4. CASE cb.k = "restart" /\ onRestart(cb, m.ok) /\ m.ok
  <2> DEFINE r == EngineRequest("startDistance", s, cb.o, Callback("restarted", s, cb.o))
  <2>1. unchangedSessions /\ apiQ' = apiQ \o <<r>> /\ ended' = ended
    BY <1>4 DEF onRestart, send
  <2>2. \A t : saves(r, t) => t \in C
    BY <1>1, <1>4, RequestSaves
  <2> HIDE DEF r, C
  <2>3. SavesOnly(<<r>>, C)
    BY <2>2, SaveLists
  <2> QED
    BY <2>1, <2>3, SavedOrErased DEF Handled, C
<1>5. CASE onStoppedDistance(cb, m.ok)
  <2>1. /\ UNCHANGED apiQ
        /\ \/ unchangedSessions /\ ended' = ended
           \/ eraseTrackingSession(s) /\ ended' = ended \cup {s}
    BY <1>5 DEF onStoppedDistance
  <2>2. Handled(m)
    BY <2>1, NothingMore, SavedOrErased
  <2>3. \A t \in ended' \ ended : inMap(t) /\ t \notin DOMAIN timeBased \cap DOMAIN distanceBased => ~inMap(t)'
    BY <2>1, SavedOrErased
  <2> QED
    BY <2>1, <2>2, <2>3
<1>6. CASE \/ cb.k = "started" /\ onStarted(cb, m.ok)
           \/ cb.k = "updated" /\ onUpdated(cb, m.ok)
           \/ cb.k = "stopped" /\ onStopped(cb, m.ok)
           \/ cb.k = "restarted" /\ onRestarted(cb, m.ok)
           \/ cb.k = "restart" /\ onRestart(cb, m.ok) /\ ~m.ok
  BY <1>2, <1>6 DEF onStarted, onUpdated, onStopped, onRestarted, onRestart
<1> QED
  BY <1>1, <1>3, <1>4, <1>5, <1>6 DEF onResponse

(* ... and the engine's coming up. *)
LEMMA UpHandled ==
    ASSUME TypeInv, NEW m, engineUpEvent
    PROVE  Handled(m)
<1> DEFINE best == [SmallestInterval(timeBased) EXCEPT !.power = HighestPower(timeBased)]
           first == EngineRequest("start", 0, best, Silent)
           A == IF timeBased = <<>> THEN <<>> ELSE <<first>>
           b == Ordered(DOMAIN distanceBased)
           again(s) == EngineRequest("startDistance", s, distanceBased[s], Silent)
           B == [i \in DOMAIN b |-> again(b[i])]
           n == Cardinality(DOMAIN distanceBased)
<1>1. apiQ' = apiQ \o (A \o B) /\ unchangedSessions
  BY DEF engineUpEvent, restartSessions, send
<1>2. (\A t : ~saves(first, t)) /\ \A s, t : ~saves(again(s), t)
  BY RequestSaves DEF Silent
<1>3. n \in Nat /\ b \in [1 .. n -> DOMAIN distanceBased]
  <2>1. DOMAIN distanceBased \in SUBSET Session /\ IsFiniteSet(DOMAIN distanceBased)
    BY FS_Subset DEF TypeInv, MapOK, DistanceOK
  <2> QED
    BY <2>1, OrderedLists
<1> HIDE DEF first, again, b, n
<1>4. SavesOnly(A, {})
  BY <1>2, SaveLists
<1>5. B = [i \in 1 .. n |-> B[i]] /\ \A i \in 1 .. n : B[i] = again(b[i])
  BY <1>3
<1> HIDE DEF A, B
<1>6. SavesOnly(B, {})
  BY <1>2, <1>3, <1>5, SaveBuilt
<1>7. SavesOnly(A \o B, {})
  BY <1>4, <1>6, SaveConcat
<1> QED
  BY <1>1, <1>7, MoreSaved, SavedOrErased DEF Handled

-----------------------------------------------------------------------------
(***************************************************************************)
(* Steps.                                                                  *)
(***************************************************************************)
\* What a handled message leaves of the queues.
Drawn(m) ==
    \A t \in Session :
        /\ AtMostOne(msgQ', t) /\ AtMostOne(pending', t)
        /\ ~(startsIn(msgQ', t) /\ startsIn(pending', t))
        /\ startAhead(t)' => startAhead(t)
        /\ starts(m, t) /\ pending' # Append(pending, m) => ~startAhead(t)'
        /\ \A x \in ToSet(msgQ') : saves(x, t) => x \in ToSet(msgQ)

(* The first message is handled, or pended, or brings the pended ones back. *)
LEMMA Taken ==
    ASSUME TypeInv, StartedOnce, msgQ # <<>>,
           \/ msgQ' = Tail(msgQ) /\ pending' = pending
           \/ msgQ' = Tail(msgQ) /\ pending' = Append(pending, Head(msgQ)) /\ Head(msgQ) \in CommandRec(started)
           \/ msgQ' = Tail(msgQ) \o pending /\ pending' = <<>>
    PROVE  /\ Drawn(Head(msgQ))
           /\ Head(msgQ) \in MessageRec(started) /\ Head(msgQ) \in ToSet(msgQ)
<1> DEFINE m == Head(msgQ)
           q == Tail(msgQ)
<1>1. /\ msgQ \in Seq(MessageRec(started)) /\ pending \in Seq(CommandRec(started))
      /\ pending \in Seq(MessageRec(started))
  <2>1. msgQ \in Seq(MessageRec(started)) /\ pending \in Seq(CommandRec(started))
    BY DEF TypeInv, QueuesOK
  <2>2. CommandRec(started) \subseteq MessageRec(started)
    BY DEF MessageRec
  <2> QED
    BY <2>1, <2>2, SeqDef
<1>2. /\ m \in MessageRec(started) /\ q \in Seq(MessageRec(started))
      /\ ToSet(msgQ) = {m} \cup ToSet(q)
      /\ \A t : AtMostOne(msgQ, t) =>
            AtMostOne(q, t) /\ (starts(m, t) => ~startsIn(q, t))
  BY <1>1, ItemsLeft
<1> HIDE DEF m, q
<1>3. \A t \in Session :
          /\ AtMostOne(msgQ, t) /\ AtMostOne(pending, t) /\ AtMostOne(q, t)
          /\ ~(startsIn(msgQ, t) /\ startsIn(pending, t))
          /\ startsIn(msgQ, t) <=> starts(m, t) \/ startsIn(q, t)
          /\ ~(starts(m, t) /\ startsIn(q, t))
          /\ startAhead(t) <=> startsIn(msgQ, t) \/ startsIn(pending, t)
  BY <1>2 DEF StartedOnce, startsIn, startAhead
<1>4. \A t : startAhead(t)' <=> startsIn(msgQ', t) \/ startsIn(pending', t)
  BY DEF startsIn, startAhead
<1>5. ASSUME msgQ' = q, pending' = pending PROVE Drawn(m)
  <2>1. \A x \in ToSet(msgQ') : x \in ToSet(msgQ)
    BY <1>2, <1>5
  <2>2. \A t \in Session :
            /\ AtMostOne(msgQ', t) /\ AtMostOne(pending', t)
            /\ startsIn(msgQ', t) <=> startsIn(q, t)
            /\ startsIn(pending', t) <=> startsIn(pending, t)
    BY <1>3, <1>5 DEF AtMostOne
  <2>3. \A t \in Session : startsIn(msgQ', t) => startsIn(msgQ, t)
    BY <1>3, <2>2
  <2>4. \A t \in Session : ~(startsIn(msgQ', t) /\ startsIn(pending', t))
    BY <1>3, <2>2, <2>3
  <2>5. \A t \in Session : startAhead(t)' => startAhead(t)
    BY <1>3, <1>4, <2>2, <2>3
  <2>6. \A t \in Session : starts(m, t) => ~startAhead(t)'
    BY <1>3, <1>4, <2>2
  <2> QED
    BY <2>1, <2>2, <2>4, <2>5, <2>6 DEF Drawn
<1>6. ASSUME msgQ' = q, pending' = Append(pending, m), m \in CommandRec(started) PROVE Drawn(m)
  <2>1. ToSet(pending') = ToSet(pending) \cup {m}
        /\ \A t : AtMostOne(pending, t) /\ (starts(m, t) => ~startsIn(pending, t)) => AtMostOne(pending', t)
    BY <1>1, <1>6, ItemsAppended
  <2>2. \A t : startsIn(pending', t) <=> startsIn(pending, t) \/ starts(m, t)
    BY <2>1 DEF startsIn
  <2> QED
    BY <1>2, <1>3, <1>4, <1>6, <2>1, <2>2 DEF Drawn
<1>7. ASSUME msgQ' = q \o pending, pending' = <<>> PROVE Drawn(m)
  <2>1. /\ ToSet(msgQ') = ToSet(q) \cup ToSet(pending)
        /\ \A t : AtMostOne(q, t) /\ AtMostOne(pending, t) /\ ~(startsIn(q, t) /\ startsIn(pending, t))
                  => AtMostOne(msgQ', t)
    BY <1>1, <1>2, <1>7, ItemsConcat
  <2>2. \A t : startsIn(msgQ', t) <=> startsIn(q, t) \/ startsIn(pending, t)
    BY <2>1 DEF startsIn
  <2>3. \A t : AtMostOne(pending', t) /\ ~startsIn(pending', t)
    <3>1. Len(<<>>) = 0 /\ ToSet(<<>>) = {}
      BY EmptySeq DEF ToSet
    <3> QED
      BY <1>7, <3>1 DEF AtMostOne, startsIn
  <2>4. \A x \in ToSet(pending) : \A t : ~saves(x, t)
    <3>1. \A x \in ToSet(pending) : x \in CommandRec(started)
      BY <1>1, Items
    <3> QED
      BY <3>1 DEF CommandRec, saves
  <2>5. \A x \in ToSet(msgQ') : \A t : saves(x, t) => x \in ToSet(msgQ)
    BY <1>2, <2>1, <2>4
  <2>6. \A t \in Session : AtMostOne(msgQ', t) /\ AtMostOne(pending', t)
    BY <1>3, <2>1, <2>3
  <2> QED
    BY <1>3, <1>4, <2>2, <2>3, <2>5, <2>6 DEF Drawn
<1> QED
  BY <1>2, <1>5, <1>6, <1>7 DEF m, q

\* What a step keeps: sessions are started once, and who is out stays out.
Stays ==
    /\ StartedOnce'
    /\ \A t \in Session : outForGood(t) => outForGood(t)'

(* So no handler brings back a session that is out. *)
LEMMA HandledStays ==
    ASSUME TypeInv, StartedOnce, NEW m \in ToSet(msgQ), Drawn(m), Handled(m), UNCHANGED started,
           \A t \in Session : starts(m, t) => pending' # Append(pending, m)
    PROVE  Stays
<1>1. PICK R : apiQ' = apiQ \o R /\ SavesOnly(R, {t \in Session : inMap(t) \/ saves(m, t)})
  BY DEF Handled
<1>2. ToSet(apiQ') = ToSet(apiQ) \cup ToSet(R)
  <2> DEFINE U == ToSet(apiQ) \cup ToSet(R)
  <2>1. apiQ \in Seq(ToSet(apiQ)) /\ R \in Seq(ToSet(R))
    BY <1>1 DEF TypeInv, QueuesOK, ListOK, SavesOnly
  <2>2. apiQ \in Seq(U) /\ R \in Seq(U)
    BY <2>1, SeqDef
  <2> HIDE DEF U
  <2> QED
    BY <1>1, <2>2, ItemsConcat
<1>3. ASSUME NEW t \in Session, ~inMap(t), ~answerAhead(t), ~starts(m, t)
      PROVE  ~inMap(t)' /\ ~answerAhead(t)'
  <2>1. ~saves(m, t)
    BY <1>3 DEF answerAhead
  <2>2. \A x \in ToSet(R) : ~saves(x, t)
    BY <1>1, <1>3, <2>1 DEF SavesOnly
  <2>3. ~inMap(t)'
    BY <1>3, <2>1 DEF Handled
  <2>4. \A x \in ToSet(msgQ') : ~saves(x, t)
    BY <1>3 DEF Drawn, answerAhead
  <2> QED
    BY <1>2, <1>3, <2>2, <2>3, <2>4 DEF answerAhead
<1>4. ASSUME NEW t \in Session PROVE startAhead(t)' => ~inMap(t)' /\ ~answerAhead(t)'
  <2> SUFFICES ASSUME startAhead(t)' PROVE ~inMap(t)' /\ ~answerAhead(t)'
    OBVIOUS
  <2>1. startAhead(t) /\ ~starts(m, t)
    BY DEF Drawn
  <2> QED
    BY <1>3, <2>1 DEF StartedOnce
<1>5. StartedOnce'
  BY <1>4 DEF StartedOnce, Drawn, startsIn, AtMostOne
<1>6. ASSUME NEW t \in Session, outForGood(t) PROVE outForGood(t)'
  <2>1. ~starts(m, t)
    BY <1>6 DEF outForGood, startAhead
  <2> QED
    BY <1>3, <1>6, <2>1 DEF outForGood, Drawn
<1> QED
  BY <1>5, <1>6 DEF Stays

(* A message that is handled. *)
LEMMA MessageStays ==
    ASSUME TypeInv, StartedOnce, HandleMessage
    PROVE  Stays
<1> DEFINE m == Head(msgQ)
<1>1. /\ msgQ # <<>> /\ Handler(m) /\ UNCHANGED started
      /\ msgQ' = Tail(msgQ) \o (IF m.kind = "engineUp" THEN pending ELSE <<>>)
  BY DEF HandleMessage, client
<1>2. m \in MessageRec(started) /\ Tail(msgQ) \in Seq(MessageRec(started)) /\ pending \in Seq(CommandRec(started))
  BY <1>1, HeadTailProperties DEF TypeInv, QueuesOK
<1>3. m.kind # "engineUp" => msgQ' = Tail(msgQ)
  BY <1>1, <1>2, ConcatEmptySeq
<1>4. pending # Append(pending, m)
  <2>1. Len(Append(pending, m)) = Len(pending) + 1 /\ Len(pending) \in Nat
    <3>1. pending \in Seq(MessageRec(started))
      <4>1. CommandRec(started) \subseteq MessageRec(started)
        BY DEF MessageRec
      <4> QED
        BY <1>2, <4>1, SeqDef
    <3> QED
      BY <1>2, <3>1, AppendProperties, LenProperties
  <2> QED
    BY <2>1
<1>5. ASSUME Handled(m), msgQ' = Tail(msgQ), UNCHANGED pending PROVE Stays
  <2>1. Drawn(m) /\ m \in ToSet(msgQ)
    BY <1>1, <1>5, Taken
  <2> QED
    BY <1>1, <1>4, <1>5, <2>1, HandledStays
<1>6. CASE m.kind \in {"start", "update"} /\ pend(m)
  <2>1. /\ pending' = Append(pending, m) /\ m \in CommandRec(started) /\ msgQ' = Tail(msgQ)
        /\ UNCHANGED <<timeBased, distanceBased, apiQ, started>>
    BY <1>1, <1>2, <1>3, <1>6, MessageAnswers DEF pend, unchangedSessions
  <2>2. Drawn(m)
    BY <1>1, <2>1, Taken
  <2>3. \A t : inMap(t)' <=> inMap(t)
    BY <2>1 DEF inMap
  <2>4. \A t \in Session : answerAhead(t)' => answerAhead(t)
    BY <2>1, <2>2 DEF Drawn, answerAhead
  <2>5. StartedOnce'
    BY <2>2, <2>3, <2>4 DEF StartedOnce, Drawn, startsIn, AtMostOne
  <2> QED
    BY <2>1, <2>2, <2>3, <2>4, <2>5 DEF Stays, outForGood, Drawn
<1>7. CASE m.kind = "start" /\ startTracking(m)
  BY <1>2, <1>3, <1>5, <1>7, StartHandled DEF startTracking
<1>8. CASE m.kind = "update" /\ updateTrackingOptions(m)
  BY <1>2, <1>3, <1>5, <1>8, UpdateHandled DEF updateTrackingOptions
<1>9. CASE m.kind = "stop" /\ stop(m)
  BY <1>2, <1>3, <1>5, <1>9, StopHandled DEF stop
<1>10. CASE m.kind = "remove" /\ removeClient(m)
  BY <1>3, <1>5, <1>10, RemoveHandled DEF removeClient
<1>11. CASE m.kind = "response" /\ onResponse(m.cb, m.ok)
  BY <1>2, <1>3, <1>5, <1>11, ResponseHandled DEF onResponse
<1>12. CASE m.kind = "engineUp" /\ engineUpEvent
  <2>1. msgQ' = Tail(msgQ) \o pending /\ pending' = <<>> /\ Handled(m)
    BY <1>1, <1>12, UpHandled DEF engineUpEvent
  <2>2. Drawn(m) /\ m \in ToSet(msgQ)
    BY <1>1, <2>1, Taken
  <2>3. \A t : ~starts(m, t)
    BY <1>12 DEF starts
  <2> QED
    BY <1>1, <2>1, <2>2, <2>3, HandledStays
<1> QED
  BY <1>1, <1>6, <1>7, <1>8, <1>9, <1>10, <1>11, <1>12 DEF Handler

(* A message that comes: it starts what was not started, or brings what was asked. *)
LEMMA QueuedStaysOut ==
    ASSUME TypeInv, StartedOnce, NEW x \in MessageRec(started'), msgQ' = Append(msgQ, x),
           UNCHANGED <<timeBased, distanceBased, pending>>, started \subseteq started',
           \A t : starts(x, t) => t \notin started,
           \A t : (saves(x, t) \/ \E y \in ToSet(apiQ') : saves(y, t)) => \E y \in ToSet(apiQ) : saves(y, t)
    PROVE  Stays
<1>1. /\ msgQ \in Seq(MessageRec(started)) /\ pending \in Seq(CommandRec(started))
      /\ msgQ \in Seq(MessageRec(started')) /\ started \subseteq Session
  BY MoreStarted DEF TypeInv, QueuesOK
<1>2. /\ ToSet(msgQ') = ToSet(msgQ) \cup {x}
      /\ \A t : AtMostOne(msgQ, t) /\ (starts(x, t) => ~startsIn(msgQ, t)) => AtMostOne(msgQ', t)
  BY <1>1, ItemsAppended
<1>3. ASSUME NEW t, t \notin started
      PROVE  ~startsIn(msgQ, t) /\ ~startsIn(pending, t) /\ ~inMap(t) /\ ~answerAhead(t)
  <2>1. \A y \in ToSet(msgQ) : y \in MessageRec(started)
    BY <1>1, Items
  <2>2. \A y \in ToSet(pending) : y \in MessageRec(started)
    <3>1. \A y \in ToSet(pending) : y \in CommandRec(started)
      BY <1>1, Items
    <3> QED
      BY <3>1 DEF MessageRec
  <2>3. ASSUME NEW y \in MessageRec(started) PROVE ~starts(y, t) /\ ~saves(y, t)
    <3>1. y.kind = "start" => y.s \in started
      BY MessageAnswers
    <3>2. ASSUME "cb" \in DOMAIN y PROVE ~saves(y, t)
      <4>1. y \in [kind : {"response"}, cb : CallbackRec(started) \ {Silent}, ok : EngineAnswer]
        BY <3>2 DEF MessageRec, CommandRec
      <4>2. y.cb \in CallbackRec(started) /\ y.cb # Silent
        BY <4>1
      <4>3. y.cb.s \in started
        BY <4>2, CallbackTyped
      <4> QED
        BY <1>3, <4>3 DEF saves
    <3> QED
      BY <1>3, <3>1, <3>2 DEF starts, saves
  <2>4. ASSUME NEW y \in ToSet(apiQ) PROVE ~saves(y, t)
    <3>1. y.cb \in CallbackRec(started)
      BY <2>4 DEF TypeInv, QueuesOK, ListOK, RequestOK
    <3>2. y.cb.k # "silent" => y.cb.s \in started
      BY <3>1, CallbackTyped
    <3> QED
      BY <1>3, <3>2 DEF saves
  <2>5. ~inMap(t)
    BY <1>3 DEF inMap, TypeInv, MapOK, DistanceOK
  <2> QED
    BY <2>1, <2>2, <2>3, <2>4, <2>5 DEF startsIn, answerAhead
<1>4. \A t : inMap(t)' <=> inMap(t)
  BY DEF inMap
<1>5. \A t : answerAhead(t)' => answerAhead(t)
  BY <1>2 DEF answerAhead
<1>6. \A t : /\ startsIn(msgQ', t) <=> startsIn(msgQ, t) \/ starts(x, t)
             /\ startAhead(t)' <=> startsIn(msgQ', t) \/ startsIn(pending, t)
             /\ startAhead(t) <=> startsIn(msgQ, t) \/ startsIn(pending, t)
  BY <1>2 DEF startsIn, startAhead
<1>7. \A t : starts(x, t) => /\ ~startsIn(msgQ, t) /\ ~startsIn(pending, t)
                             /\ ~inMap(t) /\ ~answerAhead(t)
  BY <1>3
<1>8. \A t \in Session : /\ AtMostOne(msgQ, t) /\ AtMostOne(pending, t)
                         /\ ~(startsIn(msgQ, t) /\ startsIn(pending, t))
                         /\ startAhead(t) => ~inMap(t) /\ ~answerAhead(t)
  BY DEF StartedOnce
<1>9. \A t \in Session : /\ AtMostOne(msgQ', t) /\ AtMostOne(pending', t)
                         /\ ~(startsIn(msgQ', t) /\ startsIn(pending', t))
                         /\ startAhead(t)' => ~inMap(t)' /\ ~answerAhead(t)'
  BY <1>2, <1>4, <1>5, <1>6, <1>7, <1>8
<1>10. StartedOnce'
  BY <1>9 DEF StartedOnce, startsIn, AtMostOne
<1>11. ASSUME NEW t \in Session, outForGood(t) PROVE outForGood(t)'
  <2>1. t \in started /\ ~inMap(t) /\ ~startAhead(t) /\ ~answerAhead(t)
    BY <1>11 DEF outForGood
  <2>2. ~starts(x, t)
    BY <2>1
  <2>3. ~startAhead(t)'
    BY <1>6, <2>1, <2>2
  <2> QED
    BY <1>4, <1>5, <2>1, <2>3 DEF outForGood
<1> QED
  BY <1>10, <1>11 DEF Stays

(* The steps of the clients and of the engine. *)
LEMMA OthersStay ==
    ASSUME TypeInv, TypeInv', StartedOnce,
           \/ \E s \in Session :
                \/ \E o \in Option \cup {NoOptions} :
                     startTrackingCommand(s, o) \/ updateTrackingOptionsCommand(s, o)
                \/ stopTrackingCommand(s)
           \/ \E c \in Client : removeClientCommand(c)
           \/ \E ok \in BOOLEAN : Engine(ok)
           \/ EngineUp \/ EngineDown \/ UNCHANGED vars
    PROVE  Stays
<1>1. ASSUME UNCHANGED <<msgQ, timeBased, distanceBased, pending, started>>,
             \A y \in ToSet(apiQ') : y \in ToSet(apiQ)
      PROVE  Stays
  <2>1. \A t : inMap(t)' <=> inMap(t)
    BY <1>1 DEF inMap
  <2>2. \A t : startAhead(t)' <=> startAhead(t)
    BY <1>1 DEF startAhead
  <2>3. \A t : answerAhead(t)' => answerAhead(t)
    BY <1>1 DEF answerAhead
  <2>4. StartedOnce'
    BY <1>1, <2>1, <2>2, <2>3 DEF StartedOnce, startsIn, AtMostOne
  <2> QED
    BY <1>1, <2>1, <2>2, <2>3, <2>4 DEF Stays, outForGood
<1>2. ASSUME NEW x, msgQ' = Append(msgQ, x)
      PROVE  x \in MessageRec(started')
  <2>1. /\ msgQ \in Seq(MessageRec(started)) /\ msgQ' \in Seq(MessageRec(started'))
    BY DEF TypeInv, QueuesOK
  <2>2. /\ Len(msgQ) \in Nat /\ Len(msgQ') = Len(msgQ) + 1 /\ msgQ'[Len(msgQ) + 1] = x
    BY <1>2, <2>1, QueuedStays
  <2> QED
    BY <2>1, <2>2, ElementOfSeq
<1>3. ASSUME NEW x, Command(x), \A t : starts(x, t) => t \notin started, \A t : ~saves(x, t),
             started \subseteq started'
      PROVE  Stays
  <2>1. msgQ' = Append(msgQ, x) /\ UNCHANGED <<timeBased, distanceBased, pending, apiQ>>
    BY <1>3 DEF Command, adapter
  <2> QED
    BY <1>2, <1>3, <2>1, QueuedStaysOut
<1>4. ASSUME NEW s \in Session, NEW o, startTrackingCommand(s, o) PROVE Stays
  <2> DEFINE x == [kind |-> "start", s |-> s, o |-> o]
  <2>1. /\ Command(x) /\ \A t : starts(x, t) => t \notin started
        /\ \A t : ~saves(x, t)
        /\ started \subseteq started'
    BY <1>4 DEF startTrackingCommand, starts, saves
  <2> HIDE DEF x
  <2> QED
    BY <1>3, <2>1
<1>5. ASSUME NEW s \in Session, NEW o, updateTrackingOptionsCommand(s, o) PROVE Stays
  <2> DEFINE x == [kind |-> "update", s |-> s, o |-> o]
  <2>1. /\ Command(x) /\ \A t : ~starts(x, t) /\ ~saves(x, t)
        /\ started \subseteq started'
    BY <1>5 DEF updateTrackingOptionsCommand, starts, saves
  <2> HIDE DEF x
  <2> QED
    BY <1>3, <2>1
<1>6. ASSUME NEW s \in Session, stopTrackingCommand(s) PROVE Stays
  <2> DEFINE x == [kind |-> "stop", s |-> s]
  <2>1. /\ Command(x) /\ \A t : ~starts(x, t) /\ ~saves(x, t)
        /\ started \subseteq started'
    BY <1>6 DEF stopTrackingCommand, starts, saves
  <2> HIDE DEF x
  <2> QED
    BY <1>3, <2>1
<1>7. ASSUME NEW c \in Client, removeClientCommand(c) PROVE Stays
  <2> DEFINE x == [kind |-> "remove", c |-> c]
  <2>1. /\ Command(x) /\ \A t : ~starts(x, t) /\ ~saves(x, t)
        /\ started \subseteq started'
    BY <1>7 DEF removeClientCommand, starts, saves
  <2> HIDE DEF x
  <2> QED
    BY <1>3, <2>1
<1>8. ASSUME NEW ok \in BOOLEAN, Engine(ok) PROVE Stays
  <2> DEFINE r == Head(apiQ)
             x == [kind |-> "response", cb |-> r.cb, ok |-> ok]
  <2>1. /\ msgQ' = msgQ \/ msgQ' = Append(msgQ, x)
        /\ UNCHANGED <<timeBased, distanceBased, pending, started>>
        /\ apiQ # <<>> /\ apiQ' = Tail(apiQ)
    BY <1>8 DEF Engine, adapter, client
  <2>2. ToSet(apiQ) = {r} \cup ToSet(apiQ')
    BY <2>1, ItemsLeft DEF TypeInv, QueuesOK, ListOK
  <2>3. RequestOK(r)
    BY <2>2 DEF TypeInv, QueuesOK, ListOK
  <2>4. \A t : saves(x, t) => saves(r, t)
    BY <2>3 DEF saves, RequestOK
  <2>5. \A t : ~starts(x, t)
    BY DEF starts
  <2> HIDE DEF r, x
  <2>6. CASE msgQ' = msgQ
    BY <1>1, <2>1, <2>2, <2>6
  <2>7. CASE msgQ' = Append(msgQ, x)
    BY <1>2, <2>1, <2>2, <2>4, <2>5, <2>7, QueuedStaysOut
  <2> QED
    BY <2>1, <2>6, <2>7
<1>9. CASE EngineUp
  <2> DEFINE x == [kind |-> "engineUp"]
  <2>1. /\ msgQ' = Append(msgQ, x) /\ UNCHANGED <<timeBased, distanceBased, pending, apiQ, started>>
        /\ \A t : ~starts(x, t) /\ ~saves(x, t)
    BY <1>9 DEF EngineUp, adapter, client, starts, saves
  <2> HIDE DEF x
  <2> QED
    BY <1>2, <2>1, QueuedStaysOut
<1>10. CASE EngineDown \/ UNCHANGED vars
  BY <1>1, <1>10 DEF EngineDown, adapter, client, vars
<1> QED
  BY <1>4, <1>5, <1>6, <1>7, <1>8, <1>9, <1>10

(* A stop that takes effect with no answer to an update under way. *)
LEMMA StopEnds ==
    ASSUME TypeInv, StartedOnce, HandleMessage,
           NEW t \in Session, inMap(t), t \notin DOMAIN timeBased \cap DOMAIN distanceBased,
           t \in ended' \ ended, ClientOf[t] \notin removed', ~answerAhead(t)
    PROVE  outForGood(t)'
<1> DEFINE m == Head(msgQ)
<1>1. /\ msgQ # <<>> /\ Handler(m) /\ UNCHANGED started
      /\ msgQ' = Tail(msgQ) \o (IF m.kind = "engineUp" THEN pending ELSE <<>>)
  BY DEF HandleMessage, client
<1>2. m \in MessageRec(started) /\ Tail(msgQ) \in Seq(MessageRec(started))
  BY <1>1, HeadTailProperties DEF TypeInv, QueuesOK
<1>3. t \in started
  BY DEF inMap, TypeInv, MapOK, DistanceOK
<1>4. ~startAhead(t)
  BY DEF StartedOnce
<1>5. \/ m.kind = "stop" /\ stop(m)
      \/ m.kind = "response" /\ onResponse(m.cb, m.ok)
  <2>1. ~(m.kind = "remove" /\ removeClient(m))
    BY DEF removeClient
  <2> QED
    BY <1>1, <2>1 DEF Handler, pend, startTracking, updateTrackingOptions, engineUpEvent
<1>6. msgQ' = Tail(msgQ) /\ pending' = pending
  BY <1>1, <1>2, <1>5, ConcatEmptySeq DEF stop, onResponse
<1>7. Drawn(m)
  BY <1>1, <1>6, Taken
<1>8. ~inMap(t)' /\ \E R : apiQ' = apiQ \o R /\ SavesOnly(R, {})
  <2>1. CASE m.kind = "stop" /\ stop(m)
    BY <1>2, <2>1, StopHandled
  <2>2. CASE m.kind = "response" /\ onResponse(m.cb, m.ok)
    <3>1. UNCHANGED apiQ /\ ~inMap(t)'
      BY <1>2, <2>2, ResponseHandled
    <3> QED
      BY <3>1, NothingSent, SaveLists
  <2> QED
    BY <1>5, <2>1, <2>2
<1>9. \A y \in ToSet(apiQ') : ~saves(y, t)
  <2>1. PICK R : apiQ' = apiQ \o R /\ SavesOnly(R, {})
    BY <1>8
  <2> DEFINE U == ToSet(apiQ) \cup ToSet(R)
  <2>2. apiQ \in Seq(ToSet(apiQ)) /\ R \in Seq(ToSet(R))
    BY <2>1 DEF TypeInv, QueuesOK, ListOK, SavesOnly
  <2>3. apiQ \in Seq(U) /\ R \in Seq(U)
    BY <2>2, SeqDef
  <2> HIDE DEF U
  <2>4. ToSet(apiQ') = ToSet(apiQ) \cup ToSet(R)
    BY <2>1, <2>3, ItemsConcat
  <2> QED
    BY <2>1, <2>4 DEF SavesOnly, answerAhead
<1>10. ~startAhead(t)' /\ ~answerAhead(t)'
  BY <1>4, <1>7, <1>9 DEF Drawn, answerAhead
<1> QED
  BY <1>1, <1>3, <1>8, <1>10 DEF outForGood

(***************************************************************************)
(* A stop is final, for any clients, sessions, options and bounds, with    *)
(* refusals, restarts and removed clients: where no answer to an update is *)
(* under way, the stop of stopTrackingCommand or its callback leaves       *)
(* nothing that could bring the session back, and nothing ever does.       *)
(***************************************************************************)
THEOREM TrackingStopIsFinal == Spec => StopIsFinal
<1> DEFINE Final ==
        \A s \in Session :
            /\ outForGood(s) => outForGood(s)'
            /\ /\ inMap(s) /\ s \notin DOMAIN timeBased \cap DOMAIN distanceBased
               /\ s \in ended' \ ended /\ live(s)'
               /\ ~answerAhead(s)
               => outForGood(s)'
<1>1. Init => IInv /\ StartedOnce
  <2> SUFFICES ASSUME Init PROVE StartedOnce
    BY InitInv
  <2>1. msgQ = <<>> /\ pending = <<>>
    BY DEF Init
  <2>2. ToSet(<<>>) = {} /\ Len(<<>>) = 0
    BY EmptySeq DEF ToSet
  <2> QED
    BY <2>1, <2>2 DEF StartedOnce, AtMostOne, startsIn, startAhead
<1>2. IInv /\ StartedOnce /\ [Next]_vars => IInv' /\ StartedOnce' /\ [Final]_vars
  <2> SUFFICES ASSUME IInv, StartedOnce, [Next]_vars PROVE StartedOnce' /\ Final
    BY StepInv
  <2>1. TypeInv /\ TypeInv'
    BY StepInv DEF IInv
  <2>2. CASE HandleMessage
    <3>1. Stays
      BY <2>1, <2>2, MessageStays
    <3>2. ASSUME NEW s \in Session, inMap(s), s \notin DOMAIN timeBased \cap DOMAIN distanceBased,
                 s \in ended' \ ended, live(s)', ~answerAhead(s)
          PROVE  outForGood(s)'
      <4>1. ClientOf[s] \notin removed'
        BY <3>2 DEF live
      <4> QED
        BY <2>1, <2>2, <3>2, <4>1, StopEnds
    <3> QED
      BY <3>1, <3>2 DEF Stays
  <2>3. CASE \/ \E s \in Session :
                  \/ \E o \in Option \cup {NoOptions} :
                       startTrackingCommand(s, o) \/ updateTrackingOptionsCommand(s, o)
                  \/ stopTrackingCommand(s)
             \/ \E c \in Client : removeClientCommand(c)
             \/ \E ok \in BOOLEAN : Engine(ok)
             \/ EngineUp \/ EngineDown \/ UNCHANGED vars
    <3>1. Stays
      BY <2>1, <2>3, OthersStay
    <3>2. ended' = ended
      BY <2>3 DEF startTrackingCommand, updateTrackingOptionsCommand, stopTrackingCommand,
                  removeClientCommand, Command, Engine, EngineUp, EngineDown, vars
    <3> QED
      BY <3>1, <3>2 DEF Stays
  <2> QED
    BY <2>2, <2>3 DEF Next
<1> QED
  BY <1>1, <1>2, PTL DEF Spec, StopIsFinal
=============================================================================
