---------------------------- MODULE MsgQueueProofs ----------------------------
(***************************************************************************)
(* A message queue is first in, first out, for any senders and any number  *)
(* of messages: its doubly linked list, with the steps of the senders, the *)
(* thread and whoever destroys the task interleaved, implements Fifo.      *)
(*                                                                         *)
(* First the list alone.  Holds says at which addresses, in which order,   *)
(* a list has its elements; a walk from either end finds just these, and   *)
(* linked_list_add and linked_list_remove change the order as Append and   *)
(* Tail do.  Then the task: TaskInv says when the queue has been closed,   *)
(* who has yet to release the delegate, and that a thread that destroys    *)
(* its own task does nothing else meanwhile.                               *)
(***************************************************************************)
EXTENDS MsgQueue, FiniteSetTheorems, SequenceTheorems, WellFoundedInduction, TLAPS

\* What may be in the list: where another thread destroys, nobody sends the message.
Posted == {m \in Message : OwnerDestroys => m # Kill}

Address == Nat \ {Null}
Element == [next : Nat, prev : Nat, data : Posted]
at(s, k) == IF k \in 1 .. Len(s) THEN s[k] ELSE Null

\* l holds its elements at the addresses s, the oldest first.
Holds(l, s) ==
    /\ s \in Seq(Address)
    /\ IsFiniteSet(DOMAIN l.elems) /\ Cardinality(DOMAIN l.elems) = Len(s)
    /\ DOMAIN l.elems = {s[k] : k \in 1 .. Len(s)}
    /\ \A j, k \in 1 .. Len(s) : s[j] = s[k] => j = k
    /\ \A a \in DOMAIN l.elems : l.elems[a] \in Element
    /\ l.tail = at(s, 1) /\ l.head = at(s, Len(s))
    /\ \A k \in 1 .. Len(s) :
         l.elems[s[k]].prev = at(s, k + 1) /\ l.elems[s[k]].next = at(s, k - 1)

(* What a walk is. *)
LEMMA WayIsWalked ==
    ASSUME NEW l, NEW back, NEW g,
           g = [n \in Nat |-> IF n = 0 THEN <<>> ELSE further(l, back)[g[n - 1]]],
           \A h : h = [n \in Nat |-> IF n = 0 THEN <<>> ELSE further(l, back)[h[n - 1]]] => h = g
    PROVE  way(l, back) = g[Cardinality(DOMAIN l.elems) + 1]
<1> DEFINE f == CHOOSE h : h = [n \in Nat |-> IF n = 0 THEN <<>> ELSE further(l, back)[h[n - 1]]]
<1>1. f = [n \in Nat |-> IF n = 0 THEN <<>> ELSE further(l, back)[f[n - 1]]]
  OBVIOUS
<1>2. f = g
  BY <1>1
<1>3. way(l, back) = f[Cardinality(DOMAIN l.elems) + 1]
  BY DEF way
<1> QED
  BY <1>2, <1>3

(***************************************************************************)
(* Walking the list.                                                       *)
(***************************************************************************)
\* s is the way through l from one end to the other.
Leads(l, s, back) ==
    /\ s \in Seq(Nat)
    /\ \A k \in 1 .. Len(s) : s[k] \in DOMAIN l.elems
    /\ (IF back THEN l.tail ELSE l.head) = at(s, 1)
    /\ \A k \in 1 .. Len(s) : link(l, s[k], back) = at(s, k + 1)
    /\ Null \notin DOMAIN l.elems

(* One step along the way. *)
LEMMA FurtherOnTheWay ==
    ASSUME NEW l, NEW s, NEW back, Leads(l, s, back), NEW n \in 0 .. Len(s)
    PROVE  further(l, back)[SubSeq(s, 1, n)] =
               IF n = Len(s) THEN SubSeq(s, 1, n) ELSE SubSeq(s, 1, n + 1)
<1> DEFINE w == SubSeq(s, 1, n)
<1>1. s \in Seq(Nat) /\ Len(s) \in Nat /\ \A k \in 1 .. Len(s) : s[k] \in DOMAIN l.elems
  BY DEF Leads
<1>2. w \in Seq(Nat) /\ Len(w) = n /\ \A k \in 1 .. n : w[k] = s[k]
  BY <1>1
<1>3. (w = <<>>) <=> n = 0
  BY <1>2
<1>4. stepFrom(l, w, back) = at(s, n + 1)
  <2>1. CASE n = 0
    BY <2>1, <1>3 DEF stepFrom, Leads
  <2>2. CASE n # 0
    <3>1. n \in 1 .. Len(s) /\ w[Len(w)] = s[n]
      BY <2>2, <1>2
    <3> QED
      BY <3>1, <2>2, <1>3 DEF stepFrom, Leads
  <2> QED
    BY <2>1, <2>2
<1>5. further(l, back)[w] = IF at(s, n + 1) \in DOMAIN l.elems THEN Append(w, at(s, n + 1)) ELSE w
  BY <1>2, <1>4 DEF further
<1> HIDE DEF w
<1>6. CASE n = Len(s)
  <2>1. at(s, n + 1) = Null
    BY <1>6, <1>1 DEF at
  <2> QED
    BY <2>1, <1>5, <1>6 DEF Leads, w
<1>7. CASE n # Len(s)
  <2>1. n + 1 \in 1 .. Len(s) /\ at(s, n + 1) = s[n + 1]
    BY <1>7, <1>1 DEF at
  <2>2. Append(w, s[n + 1]) = SubSeq(s, 1, n + 1)
    <3> DEFINE t == SubSeq(s, 1, n + 1)
               u == Append(w, s[n + 1])
    <3>1. t \in Seq(Nat) /\ Len(t) = n + 1 /\ \A k \in 1 .. n + 1 : t[k] = s[k]
      BY <2>1, <1>1
    <3>2. s[n + 1] \in Nat
      BY <2>1, <1>1
    <3>3. u \in Seq(Nat) /\ Len(u) = n + 1 /\ u[n + 1] = s[n + 1]
          /\ \A k \in 1 .. n : u[k] = w[k]
      BY <3>2, <1>2
    <3>4. \A k \in 1 .. n + 1 : u[k] = t[k]
      <4> SUFFICES ASSUME NEW k \in 1 .. n + 1 PROVE u[k] = t[k]
        OBVIOUS
      <4> HIDE DEF u, t
      <4>1. CASE k = n + 1
        BY <4>1, <3>1, <3>3
      <4>2. CASE k # n + 1
        <5>1. k \in 1 .. n
          BY <4>2
        <5> QED
          BY <5>1, <3>1, <3>3, <1>2
      <4> QED
        BY <4>1, <4>2
    <3> HIDE DEF u, t
    <3>5. u = t
      BY <3>1, <3>3, <3>4, SeqEqual
    <3> QED
      BY <3>5 DEF u, t
  <2> QED
    BY <2>1, <2>2, <1>1, <1>5, <1>7 DEF w
<1> QED
  BY <1>6, <1>7

(* A set of numbers that is not empty has a least one. *)
LEMMA LeastNumber ==
    ASSUME NEW S \in SUBSET Nat, S # {}
    PROVE  \E x \in S : \A y \in S : x <= y
<1> DEFINE R == OpToRel(<, Nat)
<1>1. PICK x \in S : \A y \in S : <<y, x>> \notin R
  <2>1. IsWellFoundedOn(R, Nat)
    BY NatLessThanWellFounded, Zenon
  <2> HIDE DEF R
  <2> QED
    BY <2>1, WFMin
<1>2. \A y \in S : ~(y < x)
  <2> SUFFICES ASSUME NEW y \in S, y < x PROVE <<y, x>> \in R
    BY <1>1, Zenon
  <2> QED
    BY Zenon DEF OpToRel
<1> QED
  BY <1>2

(* The walk finds the way. *)
LEMMA WalkFindsTheWay ==
    ASSUME NEW l, NEW s, NEW back, Leads(l, s, back), Cardinality(DOMAIN l.elems) = Len(s)
    PROVE  way(l, back) = s
<1> DEFINE p(n) == IF n < Len(s) THEN n ELSE Len(s)
           F(h) == [n \in Nat |-> IF n = 0 THEN <<>> ELSE further(l, back)[h[n - 1]]]
           g == [n \in Nat |-> SubSeq(s, 1, p(n))]
<1>1. s \in Seq(Nat) /\ Len(s) \in Nat
  BY DEF Leads
<1>2. \A n \in Nat : p(n) \in 0 .. Len(s)
  BY <1>1
<1>3. \A n \in Nat \ {0} : g[n] = further(l, back)[g[n - 1]]
  <2> SUFFICES ASSUME NEW n \in Nat \ {0} PROVE g[n] = further(l, back)[g[n - 1]]
    OBVIOUS
  <2>1. n - 1 \in Nat /\ p(n - 1) \in 0 .. Len(s)
    BY <1>2
  <2>2. further(l, back)[SubSeq(s, 1, p(n - 1))] =
            IF p(n - 1) = Len(s) THEN SubSeq(s, 1, p(n - 1)) ELSE SubSeq(s, 1, p(n - 1) + 1)
    <3> HIDE DEF p
    <3> QED
      BY <2>1, FurtherOnTheWay
  <2>3. p(n) = IF p(n - 1) = Len(s) THEN p(n - 1) ELSE p(n - 1) + 1
    BY <1>1
  <2> HIDE DEF p
  <2> QED
    BY <2>1, <2>2, <2>3
<1>4. g[0] = <<>>
  BY <1>1
<1>5. g = F(g)
  <2> HIDE DEF g
  <2>1. \A n \in Nat : F(g)[n] = g[n]
    BY <1>3, <1>4
  <2>2. g = [n \in Nat |-> g[n]]
    BY DEF g
  <2>3. F(g) = [n \in Nat |-> F(g)[n]]
    OBVIOUS
  <2> QED
    BY <2>1, <2>2, <2>3, Zenon
<1>6. ASSUME NEW h, h = F(h) PROVE h = g
  <2>1. h[0] = <<>> /\ \A n \in Nat \ {0} : h[n] = further(l, back)[h[n - 1]]
    BY <1>6
  <2> HIDE DEF g
  <2>2. \A n \in Nat : h[n] = g[n]
    <3> DEFINE S == {n \in Nat : h[n] # g[n]}
    <3> SUFFICES ASSUME S # {} PROVE FALSE
      OBVIOUS
    <3>1. PICK x \in S : \A y \in S : x <= y
      BY LeastNumber
    <3>2. x # 0
      BY <2>1, <1>4
    <3>3. x - 1 \in Nat /\ x - 1 \notin S
      BY <3>1, <3>2
    <3> QED
      BY <3>2, <3>3, <2>1, <1>3
  <2>3. h = [n \in Nat |-> h[n]]
    <3>1. h = [n \in Nat |-> F(h)[n]]
      BY <1>6
    <3> QED
      BY <3>1
  <2>4. g = [n \in Nat |-> g[n]]
    BY DEF g
  <2> QED
    BY <2>2, <2>3, <2>4, Zenon
<1>7. way(l, back) = g[Len(s) + 1]
  <2> HIDE DEF g
  <2>1. g = [n \in Nat |-> IF n = 0 THEN <<>> ELSE further(l, back)[g[n - 1]]]
    BY <1>5
  <2>2. \A h : h = [n \in Nat |-> IF n = 0 THEN <<>> ELSE further(l, back)[h[n - 1]]] => h = g
    BY <1>6
  <2>3. way(l, back) = g[Cardinality(DOMAIN l.elems) + 1]
    BY <2>1, <2>2, WayIsWalked, ZenonT(30)
  <2> QED
    BY <2>3
<1>8. g[Len(s) + 1] = SubSeq(s, 1, Len(s))
  BY <1>1
<1>9. SubSeq(s, 1, Len(s)) = s
  BY <1>1, SubSeqFull
<1> QED
  BY <1>7, <1>8, <1>9

(* From the tail the oldest comes first, from the head the newest. *)
LEMMA WaysOfList ==
    ASSUME NEW l, NEW s, Holds(l, s)
    PROVE  way(l, TRUE) = s /\ way(l, FALSE) = Reverse(s) /\ Len(Reverse(s)) = Len(s)
<1>1. s \in Seq(Nat) /\ Len(s) \in Nat /\ (\A k \in 1 .. Len(s) : s[k] \in Nat /\ s[k] # Null)
  <2>1. s \in Seq(Address)
    BY Zenon DEF Holds
  <2> QED
    BY <2>1 DEF Address
<1>2. Null \notin DOMAIN l.elems /\ \A k \in 1 .. Len(s) : s[k] \in DOMAIN l.elems
  BY <1>1, Zenon DEF Holds
<1>3. Leads(l, s, TRUE)
  BY <1>1, <1>2, Zenon DEF Leads, Holds, link
<1> DEFINE r == Reverse(s)
<1>4. r \in Seq(Nat) /\ Len(r) = Len(s) /\ \A k \in 1 .. Len(s) : r[k] = s[Len(s) - k + 1]
  BY <1>1 DEF Reverse
<1> HIDE DEF r
<1>5. at(r, 1) = at(s, Len(s))
  BY <1>1, <1>4 DEF at
<1>6. ASSUME NEW k \in 1 .. Len(r) PROVE link(l, r[k], FALSE) = at(r, k + 1)
  <2> DEFINE j == Len(s) - k + 1
  <2>1. j \in 1 .. Len(s) /\ r[k] = s[j]
    BY <1>1, <1>4
  <2>2. l.elems[s[j]].next = at(s, j - 1)
    BY <2>1, Zenon DEF Holds
  <2>3. at(s, j - 1) = at(r, k + 1)
    <3>1. CASE k = Len(s)
      BY <3>1, <1>1, <1>4 DEF at
    <3>2. CASE k # Len(s)
      <4>1. k + 1 \in 1 .. Len(s) /\ j - 1 \in 1 .. Len(s) /\ Len(s) - (k + 1) + 1 = j - 1
        BY <3>2, <1>1, <1>4
      <4>2. r[k + 1] = s[j - 1]
        BY <4>1, <1>4
      <4> QED
        BY <4>1, <4>2, <1>4 DEF at
    <3> QED
      BY <3>1, <3>2
  <2> QED
    BY <2>1, <2>2, <2>3 DEF link
<1>7. \A k \in 1 .. Len(r) : r[k] \in DOMAIN l.elems
  <2> SUFFICES ASSUME NEW k \in 1 .. Len(r) PROVE r[k] \in DOMAIN l.elems
    OBVIOUS
  <2>1. Len(s) - k + 1 \in 1 .. Len(s)
    BY <1>1, <1>4
  <2> QED
    BY <2>1, <1>2, <1>4
<1>8. Leads(l, r, FALSE)
  <2>1. l.head = at(r, 1)
    BY <1>5, Zenon DEF Holds
  <2> QED
    BY <2>1, <1>2, <1>4, <1>6, <1>7, Zenon DEF Leads
<1>9. Cardinality(DOMAIN l.elems) = Len(s)
  BY Zenon DEF Holds
<1>10. way(l, TRUE) = s
  BY <1>3, <1>9, WalkFindsTheWay
<1>11. way(l, FALSE) = r
  BY <1>4, <1>8, <1>9, WalkFindsTheWay
<1> QED
  BY <1>4, <1>10, <1>11 DEF r

(***************************************************************************)
(* Adding and removing.                                                    *)
(***************************************************************************)
(* Among n + 1 addresses one is free. *)
LEMMA FreshAddress ==
    ASSUME NEW S, IsFiniteSet(S)
    PROVE  \E x \in 1 .. (Cardinality(S) + 1) : x \notin S
<1> DEFINE n == Cardinality(S)
<1>1. n \in Nat
  BY FS_CardinalityType
<1> HIDE DEF n
<1>2. IsFiniteSet(1 .. n + 1) /\ Cardinality(1 .. n + 1) = n + 1
  BY <1>1, FS_Interval
<1>3. ASSUME 1 .. n + 1 \subseteq S PROVE FALSE
  <2>1. Cardinality(1 .. n + 1) <= n
    BY <1>3, FS_Subset, Zenon DEF n
  <2> QED
    BY <2>1, <1>1, <1>2
<1> QED
  BY <1>3 DEF n

(* A new element is the last to be taken. *)
LEMMA AddHolds ==
    ASSUME NEW l, NEW s, Holds(l, s), NEW m \in Posted
    PROVE  \E a \in Address :
             /\ Holds(linked_list_add(l, m), Append(s, a))
             /\ linked_list_add(l, m).elems[a].data = m
             /\ \A k \in 1 .. Len(s) :
                  linked_list_add(l, m).elems[s[k]].data = l.elems[s[k]].data
<1> DEFINE D == DOMAIN l.elems
           a == CHOOSE x \in 1 .. (Cardinality(D) + 1) : x \notin D
           n == Len(s)
           new == [next |-> l.head, prev |-> Null, data |-> m]
           E == [x \in D \cup {a} |->
                    IF x = a THEN new
                    ELSE IF x = l.head THEN [l.elems[x] EXCEPT !.prev = a] ELSE l.elems[x]]
           t == Append(s, a)
<1>1. /\ s \in Seq(Address) /\ n \in Nat /\ IsFiniteSet(D) /\ Cardinality(D) = n
      /\ D = {s[k] : k \in 1 .. n}
      /\ \A k \in 1 .. n : s[k] \in D /\ s[k] \in Address
  <2>1. s \in Seq(Address) /\ IsFiniteSet(D) /\ Cardinality(D) = n /\ D = {s[k] : k \in 1 .. n}
    BY Zenon DEF Holds
  <2>2. n \in Nat /\ \A k \in 1 .. n : s[k] \in Address
    <3>1. s \in Seq(Address)
      BY <2>1, Zenon
    <3> HIDE DEF D, a, new, E, t
    <3> QED
      BY <3>1, LenProperties, ElementOfSeq
  <2> QED
    BY <2>1, <2>2, Zenon
<1>2. \A j, k \in 1 .. n : s[j] = s[k] => j = k
  BY Zenon DEF Holds
<1>3. \A x \in D : l.elems[x] \in Element
  BY Zenon DEF Holds
<1>4. l.tail = at(s, 1) /\ l.head = at(s, n)
  BY Zenon DEF Holds
<1>5. \A k \in 1 .. n : l.elems[s[k]].prev = at(s, k + 1) /\ l.elems[s[k]].next = at(s, k - 1)
  BY Zenon DEF Holds
<1>6. a \in 1 .. n + 1 /\ a \notin D
  <2>1. \E x \in 1 .. (Cardinality(D) + 1) : x \notin D
    BY <1>1, FreshAddress, Zenon
  <2> QED
    BY <2>1, <1>1, Zenon
<1>7. linked_list_add(l, m) =
          [head |-> a, tail |-> IF l.head = Null THEN a ELSE l.tail, elems |-> E]
  BY DEF linked_list_add
<1> HIDE DEF a
<1>8. a \in Address
  <2>1. n \in Nat
    BY <1>1, Zenon
  <2> HIDE DEF n
  <2> QED
    BY <2>1, <1>6 DEF Address, Null
<1>9. t \in Seq(Address) /\ Len(t) = n + 1 /\ t[n + 1] = a /\ \A k \in 1 .. n : t[k] = s[k]
  <2>1. s \in Seq(Address)
    BY <1>1, Zenon
  <2> QED
    BY <2>1, <1>8
<1> HIDE DEF t, new, n
<1>10. l.head \in Nat /\ new \in Element
  <2>1. at(s, n) \in Nat
    BY <1>1, Zenon DEF at, Address, Null, n
  <2> QED
    BY <2>1, <1>4 DEF new, Element, Null
<1>11. \A k \in 1 .. n : s[k] # a /\ s[k] # Null
  BY <1>1, <1>6 DEF Address
<1>12. \A k \in 1 .. n : s[k] = l.head <=> k = n
  <2> SUFFICES ASSUME NEW k \in 1 .. n PROVE s[k] = l.head <=> k = n
    OBVIOUS
  <2>1. n \in 1 .. n /\ l.head = s[n]
    <3>1. n \in 1 .. n
      BY <1>1
    <3> QED
      BY <3>1, <1>4 DEF at, n
  <2> QED
    BY <2>1, <1>2
<1>13. E[a] = new
  OBVIOUS
<1>14. \A k \in 1 .. n :
         E[s[k]] = IF k = n THEN [l.elems[s[k]] EXCEPT !.prev = a] ELSE l.elems[s[k]]
  BY <1>1, <1>11, <1>12
<1>15. \A k \in 1 .. n :
         /\ E[s[k]] \in Element /\ E[s[k]].data = l.elems[s[k]].data
         /\ E[s[k]].next = l.elems[s[k]].next
         /\ E[s[k]].prev = IF k = n THEN a ELSE l.elems[s[k]].prev
  <2> SUFFICES ASSUME NEW k \in 1 .. n
               PROVE  /\ E[s[k]] \in Element /\ E[s[k]].data = l.elems[s[k]].data
                      /\ E[s[k]].next = l.elems[s[k]].next
                      /\ E[s[k]].prev = IF k = n THEN a ELSE l.elems[s[k]].prev
    OBVIOUS
  <2>1. l.elems[s[k]] \in Element
    BY <1>1, <1>3
  <2>2. a \in Nat
    BY <1>8 DEF Address
  <2> HIDE DEF E
  <2> QED
    BY <1>14, <2>1, <2>2 DEF Element
<1>16. D \cup {a} = {t[k] : k \in 1 .. n + 1}
  <2>1. \A k \in 1 .. n + 1 : t[k] \in D \cup {a}
    <3> SUFFICES ASSUME NEW k \in 1 .. n + 1 PROVE t[k] \in D \cup {a}
      OBVIOUS
    <3>1. k = n + 1 \/ k \in 1 .. n
      BY <1>1
    <3> QED
      BY <3>1, <1>1, <1>9
  <2>2. ASSUME NEW x \in D PROVE \E k \in 1 .. n + 1 : x = t[k]
    <3>1. PICK k \in 1 .. n : x = s[k]
      BY <1>1
    <3>2. k \in 1 .. n + 1
      BY <1>1
    <3> QED
      BY <3>1, <3>2, <1>9
  <2>3. n + 1 \in 1 .. n + 1
    BY <1>1
  <2> QED
    BY <2>1, <2>2, <2>3, <1>9
<1>17. \A j, k \in 1 .. n + 1 : t[j] = t[k] => j = k
  <2> SUFFICES ASSUME NEW j \in 1 .. n + 1, NEW k \in 1 .. n + 1, t[j] = t[k] PROVE j = k
    OBVIOUS
  <2>1. (j = n + 1 \/ j \in 1 .. n) /\ (k = n + 1 \/ k \in 1 .. n)
    BY <1>1
  <2> QED
    BY <2>1, <1>2, <1>9, <1>11
<1>18. IsFiniteSet(D \cup {a}) /\ Cardinality(D \cup {a}) = n + 1
  BY <1>1, <1>6, FS_AddElement
<1>19. (IF l.head = Null THEN a ELSE l.tail) = at(t, 1) /\ at(t, n + 1) = a
  <2>1. 1 \in 1 .. n + 1 /\ n + 1 \in 1 .. n + 1
    BY <1>1
  <2>2. CASE n = 0
    BY <2>1, <2>2, <1>4, <1>9 DEF at, n
  <2>3. CASE n # 0
    <3>1. 1 \in 1 .. n /\ n \in 1 .. n
      BY <2>3, <1>1
    <3>2. l.head # Null /\ l.tail = s[1]
      BY <3>1, <1>4, <1>11 DEF at, n
    <3> QED
      BY <3>1, <3>2, <2>1, <1>9 DEF at
  <2> QED
    BY <2>2, <2>3
<1>20. ASSUME NEW k \in 1 .. n + 1
       PROVE  E[t[k]].prev = at(t, k + 1) /\ E[t[k]].next = at(t, k - 1)
  <2>1. CASE k = n + 1
    <3>1. at(t, k + 1) = Null
      BY <2>1, <1>1, <1>9 DEF at
    <3>2. at(t, k - 1) = at(s, n)
      <4>1. CASE n = 0
        BY <4>1, <2>1, <1>9 DEF at, n
      <4>2. CASE n # 0
        <5>1. n \in 1 .. n /\ n \in 1 .. n + 1 /\ k - 1 = n
          BY <4>2, <2>1, <1>1
        <5> QED
          BY <5>1, <1>9 DEF at, n
      <4> QED
        BY <4>1, <4>2
    <3> HIDE DEF E
    <3> QED
      BY <2>1, <3>1, <3>2, <1>4, <1>9, <1>13 DEF new
  <2>2. CASE k # n + 1
    <3>1. k \in 1 .. n /\ t[k] = s[k] /\ k + 1 \in 1 .. n + 1
      BY <2>2, <1>1, <1>9
    <3>2. at(t, k + 1) = IF k = n THEN a ELSE at(s, k + 1)
      <4>1. CASE k = n
        BY <4>1, <3>1, <1>9 DEF at
      <4>2. CASE k # n
        <5>1. k + 1 \in 1 .. n
          BY <4>2, <3>1, <1>1
        <5> QED
          BY <5>1, <3>1, <4>2, <1>9 DEF at, n
      <4> QED
        BY <4>1, <4>2
    <3>3. at(t, k - 1) = at(s, k - 1)
      <4>1. CASE k = 1
        BY <4>1, <1>9 DEF at
      <4>2. CASE k # 1
        <5>1. k - 1 \in 1 .. n /\ k - 1 \in 1 .. n + 1
          BY <4>2, <3>1, <1>1
        <5> QED
          BY <5>1, <1>9 DEF at, n
      <4> QED
        BY <4>1, <4>2
    <3> HIDE DEF E
    <3> QED
      BY <3>1, <3>2, <3>3, <1>5, <1>15
  <2> QED
    BY <2>1, <2>2
<1>21. \A x \in D \cup {a} : E[x] \in Element
  <2> SUFFICES ASSUME NEW x \in D \cup {a} PROVE E[x] \in Element
    BY Zenon
  <2>1. x = a \/ \E k \in 1 .. n : x = s[k]
    BY <1>1
  <2> HIDE DEF E
  <2> QED
    BY <2>1, <1>10, <1>13, <1>15
<1>22. DOMAIN E = D \cup {a}
  OBVIOUS
<1> DEFINE l2 == [head |-> a, tail |-> IF l.head = Null THEN a ELSE l.tail, elems |-> E]
<1> HIDE DEF E, D
<1>23. Holds(l2, t)
  BY <1>9, <1>16, <1>17, <1>18, <1>19, <1>20, <1>21, <1>22, Zenon DEF Holds
<1>24. l2.elems[a].data = m /\ \A k \in 1 .. n : l2.elems[s[k]].data = l.elems[s[k]].data
  BY <1>13, <1>15 DEF new
<1>25. linked_list_add(l, m) = l2
  BY <1>7
<1> HIDE DEF l2
<1> QED
  BY <1>8, <1>23, <1>24, <1>25 DEF t, n

(* The oldest element is taken, and the others stay as they are. *)
LEMMA RemoveHolds ==
    ASSUME NEW l, NEW s, Holds(l, s), s # <<>>
    PROVE  /\ Holds(linked_list_remove(l), Tail(s))
           /\ \A k \in 2 .. Len(s) :
                linked_list_remove(l).elems[s[k]].data = l.elems[s[k]].data
<1> DEFINE D == DOMAIN l.elems
           n == Len(s)
           o == l.tail
           p == l.elems[o].prev
           E == [x \in D \ {o} |->
                    IF x = p THEN [l.elems[x] EXCEPT !.next = Null] ELSE l.elems[x]]
           t == Tail(s)
<1>1. /\ s \in Seq(Address) /\ n \in Nat /\ n # 0 /\ IsFiniteSet(D) /\ Cardinality(D) = n
      /\ D = {s[k] : k \in 1 .. n}
      /\ \A k \in 1 .. n : s[k] \in D /\ s[k] \in Address
  <2>1. s \in Seq(Address) /\ IsFiniteSet(D) /\ Cardinality(D) = n /\ D = {s[k] : k \in 1 .. n}
    BY Zenon DEF Holds
  <2>2. n \in Nat /\ n # 0 /\ \A k \in 1 .. n : s[k] \in Address
    <3>1. s \in Seq(Address)
      BY <2>1, Zenon
    <3> HIDE DEF D, E, t
    <3>2. Len(s) # 0
      BY <3>1, EmptySeq
    <3> QED
      BY <3>1, <3>2, LenProperties, ElementOfSeq
  <2> QED
    BY <2>1, <2>2, Zenon
<1>2. \A j, k \in 1 .. n : s[j] = s[k] => j = k
  BY Zenon DEF Holds
<1>3. \A x \in D : l.elems[x] \in Element
  BY Zenon DEF Holds
<1>4. l.tail = at(s, 1) /\ l.head = at(s, n)
  BY Zenon DEF Holds
<1>5. \A k \in 1 .. n : l.elems[s[k]].prev = at(s, k + 1) /\ l.elems[s[k]].next = at(s, k - 1)
  BY Zenon DEF Holds
<1>6. linked_list_remove(l) =
          [head |-> IF p = Null THEN Null ELSE l.head, tail |-> p, elems |-> E]
  <2> DEFINE rest == Restrict(l.elems, D \ {o})
             E2 == [x \in DOMAIN rest |->
                       IF x = p THEN [rest[x] EXCEPT !.next = Null] ELSE rest[x]]
  <2>1. DOMAIN rest = D \ {o} /\ \A x \in D \ {o} : rest[x] = l.elems[x]
    BY DEF Restrict
  <2>2. E2 = E
    <3> HIDE DEF rest, p, o, D
    <3> QED
      BY <2>1
  <2>3. linked_list_remove(l) =
            [head |-> IF p = Null THEN Null ELSE l.head, tail |-> p, elems |-> E2]
    BY DEF linked_list_remove
  <2> QED
    BY <2>2, <2>3, Zenon
<1>7. 1 \in 1 .. n /\ o = s[1] /\ p = at(s, 2)
  <2>1. 1 \in 1 .. n
    <3>1. n \in Nat /\ n # 0
      BY <1>1, Zenon
    <3> HIDE DEF n
    <3> QED
      BY <3>1
  <2>2. o = s[1]
    BY <2>1, <1>4 DEF at
  <2>3. l.elems[s[1]].prev = at(s, 1 + 1)
    BY <2>1, <1>5
  <2> QED
    BY <2>1, <2>2, <2>3
<1>8. t \in Seq(Address) /\ Len(t) = n - 1 /\ \A k \in 1 .. n - 1 : t[k] = s[k + 1]
  <2>1. s \in Seq(Address) /\ s # <<>>
    BY <1>1, Zenon
  <2> HIDE DEF D, o, p, E
  <2> QED
    BY <2>1, HeadTailProperties
<1> HIDE DEF o, p, t, n
<1>9. \A k \in 2 .. n : k \in 1 .. n /\ s[k] \in D \ {o} /\ (s[k] = p <=> k = 2)
  <2> SUFFICES ASSUME NEW k \in 2 .. n
               PROVE  k \in 1 .. n /\ s[k] \in D \ {o} /\ (s[k] = p <=> k = 2)
    OBVIOUS
  <2>1. k \in 1 .. n /\ 2 \in 1 .. n
    BY <1>1
  <2>2. p = s[2]
    BY <2>1, <1>7 DEF at, n
  <2>3. k # 1
    OBVIOUS
  <2> QED
    BY <2>1, <2>2, <2>3, <1>1, <1>2, <1>7
<1>10. \A k \in 2 .. n :
         E[s[k]] = IF k = 2 THEN [l.elems[s[k]] EXCEPT !.next = Null] ELSE l.elems[s[k]]
  BY <1>9
<1>11. \A k \in 2 .. n :
         /\ E[s[k]] \in Element /\ E[s[k]].data = l.elems[s[k]].data
         /\ E[s[k]].prev = l.elems[s[k]].prev
         /\ E[s[k]].next = IF k = 2 THEN Null ELSE l.elems[s[k]].next
  <2> SUFFICES ASSUME NEW k \in 2 .. n
               PROVE  /\ E[s[k]] \in Element /\ E[s[k]].data = l.elems[s[k]].data
                      /\ E[s[k]].prev = l.elems[s[k]].prev
                      /\ E[s[k]].next = IF k = 2 THEN Null ELSE l.elems[s[k]].next
    OBVIOUS
  <2>1. l.elems[s[k]] \in Element
    BY <1>1, <1>3, <1>9
  <2>2. Null \in Nat
    BY DEF Null
  <2> HIDE DEF E
  <2> QED
    BY <1>10, <2>1, <2>2 DEF Element
<1>12. D \ {o} = {t[k] : k \in 1 .. n - 1}
  <2>1. \A k \in 1 .. n - 1 : t[k] \in D \ {o}
    <3> SUFFICES ASSUME NEW k \in 1 .. n - 1 PROVE t[k] \in D \ {o}
      OBVIOUS
    <3>1. k + 1 \in 2 .. n
      BY <1>1
    <3> QED
      BY <3>1, <1>8, <1>9
  <2>2. ASSUME NEW x \in D \ {o} PROVE \E k \in 1 .. n - 1 : x = t[k]
    <3>1. PICK k \in 1 .. n : x = s[k]
      BY <1>1
    <3>2. k # 1
      BY <3>1, <1>7
    <3>3. k - 1 \in 1 .. n - 1 /\ (k - 1) + 1 = k
      BY <3>2, <1>1
    <3>4. t[k - 1] = s[k]
      BY <3>3, <1>8
    <3> QED
      BY <3>1, <3>3, <3>4
  <2> QED
    BY <2>1, <2>2
<1>13. \A j, k \in 1 .. n - 1 : t[j] = t[k] => j = k
  <2> SUFFICES ASSUME NEW j \in 1 .. n - 1, NEW k \in 1 .. n - 1, t[j] = t[k] PROVE j = k
    OBVIOUS
  <2>1. j + 1 \in 1 .. n /\ k + 1 \in 1 .. n /\ s[j + 1] = s[k + 1]
    BY <1>1, <1>8
  <2>2. j + 1 = k + 1
    BY <2>1, <1>2
  <2> QED
    BY <2>2
<1>14. IsFiniteSet(D \ {o}) /\ Cardinality(D \ {o}) = n - 1
  BY <1>1, <1>7, FS_RemoveElement
<1>15. \A k \in 1 .. n : at(t, k) = at(s, k + 1)
  <2> SUFFICES ASSUME NEW k \in 1 .. n PROVE at(t, k) = at(s, k + 1)
    OBVIOUS
  <2>1. CASE k = n
    BY <2>1, <1>1, <1>8 DEF at, n
  <2>2. CASE k # n
    <3>1. k \in 1 .. n - 1 /\ k + 1 \in 1 .. n
      BY <2>2, <1>1
    <3> QED
      BY <3>1, <1>8 DEF at, n
  <2> QED
    BY <2>1, <2>2
<1>16. p = at(t, 1) /\ (IF p = Null THEN Null ELSE l.head) = at(t, n - 1)
  <2>1. p = at(t, 1)
    BY <1>7, <1>15
  <2>2. CASE n = 1
    <3>1. p = Null /\ at(t, n - 1) = Null
      BY <2>2, <1>7, <1>8 DEF at, n
    <3> QED
      BY <2>1, <3>1
  <2>3. CASE n # 1
    <3>1. 2 \in 1 .. n /\ n - 1 \in 1 .. n /\ (n - 1) + 1 = n
      BY <2>3, <1>1
    <3>2. p = s[2] /\ s[2] # Null
      BY <3>1, <1>1, <1>7 DEF at, n, Address
    <3>3. at(t, n - 1) = at(s, n)
      BY <3>1, <1>15
    <3> QED
      BY <2>1, <3>2, <3>3, <1>4
  <2> QED
    BY <2>2, <2>3
<1>17. ASSUME NEW k \in 1 .. n - 1
       PROVE  E[t[k]].prev = at(t, k + 1) /\ E[t[k]].next = at(t, k - 1)
  <2>1. k + 1 \in 2 .. n /\ k + 1 \in 1 .. n /\ t[k] = s[k + 1]
    BY <1>1, <1>8
  <2>2. l.elems[s[k + 1]].prev = at(s, (k + 1) + 1) /\ l.elems[s[k + 1]].next = at(s, (k + 1) - 1)
    BY <2>1, <1>5
  <2>3. at(t, k + 1) = at(s, (k + 1) + 1)
    BY <2>1, <1>15
  <2>4. CASE k = 1
    <3>1. at(t, k - 1) = Null
      BY <2>4, <1>8 DEF at
    <3> HIDE DEF E
    <3> QED
      BY <2>1, <2>2, <2>3, <2>4, <3>1, <1>11
  <2>5. CASE k # 1
    <3>1. k - 1 \in 1 .. n /\ (k + 1) - 1 = (k - 1) + 1 /\ k + 1 # 2
      BY <2>5, <1>1
    <3>2. at(t, k - 1) = at(s, (k + 1) - 1)
      BY <3>1, <1>15
    <3> HIDE DEF E
    <3> QED
      BY <2>1, <2>2, <2>3, <3>1, <3>2, <1>11
  <2> QED
    BY <2>4, <2>5
<1>18. \A x \in D \ {o} : E[x] \in Element
  <2> SUFFICES ASSUME NEW x \in D \ {o} PROVE E[x] \in Element
    BY Zenon
  <2>1. PICK k \in 1 .. n - 1 : x = t[k]
    BY <1>12
  <2>2. k + 1 \in 2 .. n /\ x = s[k + 1]
    BY <2>1, <1>1, <1>8
  <2> HIDE DEF E
  <2> QED
    BY <2>2, <1>11
<1>19. DOMAIN E = D \ {o}
  OBVIOUS
<1> DEFINE l2 == [head |-> IF p = Null THEN Null ELSE l.head, tail |-> p, elems |-> E]
<1> HIDE DEF E, D
<1>20. Holds(l2, t)
  BY <1>8, <1>12, <1>13, <1>14, <1>16, <1>17, <1>18, <1>19, Zenon DEF Holds
<1>21. \A k \in 2 .. n : l2.elems[s[k]].data = l.elems[s[k]].data
  BY <1>11
<1>22. linked_list_remove(l) = l2
  BY <1>6
<1> HIDE DEF l2
<1> QED
  BY <1>20, <1>21, <1>22 DEF t, n

(***************************************************************************)
(* The list as a queue.                                                    *)
(***************************************************************************)
Whole(l) == \E s : Holds(l, s)

(* A list is whole both ways. *)
LEMMA WholeBothWays ==
    ASSUME NEW l, Whole(l)
    PROVE  /\ way(l, FALSE) = Reverse(way(l, TRUE))
           /\ Len(way(l, FALSE)) = Cardinality(DOMAIN l.elems)
<1>1. PICK s : Holds(l, s)
  BY DEF Whole
<1>2. way(l, TRUE) = s /\ way(l, FALSE) = Reverse(s) /\ Len(Reverse(s)) = Len(s)
  BY <1>1, WaysOfList
<1> QED
  BY <1>1, <1>2, Zenon DEF Holds

(* What the messages of a list are. *)
LEMMA MessagesHeld ==
    ASSUME NEW l, NEW s, Holds(l, s)
    PROVE  /\ messagesOn(l) = [k \in 1 .. Len(s) |-> l.elems[s[k]].data]
           /\ messagesOn(l) \in Seq(Posted)
           /\ Len(messagesOn(l)) = Len(s) /\ Len(s) \in Nat
           /\ Data(l) \subseteq Posted
<1>1. messagesOn(l) = [k \in 1 .. Len(s) |-> l.elems[s[k]].data]
  BY WaysOfList, Zenon DEF messagesOn
<1>2. Len(s) \in Nat
  <2>1. s \in Seq(Address)
    BY DEF Holds
  <2> QED
    BY <2>1
<1>3. \A a \in DOMAIN l.elems : l.elems[a].data \in Posted
  BY Zenon DEF Holds, Element
<1>4. \A k \in 1 .. Len(s) : l.elems[s[k]].data \in Posted
  BY <1>3, Zenon DEF Holds
<1> QED
  BY <1>1, <1>2, <1>3, <1>4 DEF Data

(* An empty list holds no messages. *)
LEMMA EmptyList ==
    LET l == [head |-> Null, tail |-> Null, elems |-> <<>>]
    IN  Whole(l) /\ messagesOn(l) = <<>>
<1> DEFINE l == [head |-> Null, tail |-> Null, elems |-> <<>>]
<1>1. DOMAIN l.elems = {} /\ IsFiniteSet({}) /\ Cardinality({}) = 0
  BY FS_EmptySet
<1>2. Holds(l, <<>>)
  BY <1>1 DEF Holds, at, Null
<1>3. messagesOn(l) \in Seq(Posted) /\ Len(messagesOn(l)) = 0
  BY <1>2, MessagesHeld
<1> QED
  BY <1>2, <1>3 DEF Whole

(* A message added is the last. *)
LEMMA AddAppends ==
    ASSUME NEW l, Whole(l), NEW m \in Posted
    PROVE  /\ Whole(linked_list_add(l, m))
           /\ messagesOn(linked_list_add(l, m)) = Append(messagesOn(l), m)
<1>1. PICK s : Holds(l, s)
  BY DEF Whole
<1> DEFINE l2 == linked_list_add(l, m)
<1>2. PICK a \in Address :
         /\ Holds(l2, Append(s, a)) /\ l2.elems[a].data = m
         /\ \A k \in 1 .. Len(s) : l2.elems[s[k]].data = l.elems[s[k]].data
  BY <1>1, AddHolds
<1> DEFINE t == Append(s, a)
           q == messagesOn(l)
           u == messagesOn(l2)
<1>3. s \in Seq(Address) /\ Len(s) \in Nat
  <2>1. s \in Seq(Address)
    BY <1>1, Zenon DEF Holds
  <2> QED
    BY <2>1
<1>4. Len(t) = Len(s) + 1 /\ t[Len(s) + 1] = a /\ \A k \in 1 .. Len(s) : t[k] = s[k]
  BY <1>3
<1>5. q \in Seq(Posted) /\ Len(q) = Len(s) /\ q = [k \in 1 .. Len(s) |-> l.elems[s[k]].data]
  BY <1>1, MessagesHeld
<1>6. u \in Seq(Posted) /\ Len(u) = Len(t) /\ u = [k \in 1 .. Len(t) |-> l2.elems[t[k]].data]
  BY <1>2, MessagesHeld
<1> HIDE DEF l2, t, q, u
<1>7. Append(q, m) \in Seq(Posted) /\ Len(Append(q, m)) = Len(s) + 1
      /\ Append(q, m)[Len(s) + 1] = m /\ \A k \in 1 .. Len(s) : Append(q, m)[k] = q[k]
  BY <1>5
<1>8. \A k \in 1 .. Len(s) + 1 : u[k] = Append(q, m)[k]
  <2> SUFFICES ASSUME NEW k \in 1 .. Len(s) + 1 PROVE u[k] = Append(q, m)[k]
    OBVIOUS
  <2>1. u[k] = l2.elems[t[k]].data
    BY <1>4, <1>6
  <2>2. CASE k = Len(s) + 1
    BY <2>1, <2>2, <1>2, <1>4, <1>7
  <2>3. CASE k # Len(s) + 1
    <3>1. k \in 1 .. Len(s)
      BY <2>3, <1>3
    <3>2. q[k] = l.elems[s[k]].data
      BY <3>1, <1>5
    <3> QED
      BY <2>1, <3>1, <3>2, <1>2, <1>4, <1>7
  <2> QED
    BY <2>2, <2>3
<1>9. u = Append(q, m)
  BY <1>4, <1>6, <1>7, <1>8, SeqEqual, Zenon
<1>10. Whole(l2)
  BY <1>2 DEF Whole, t
<1> QED
  BY <1>9, <1>10 DEF l2, q, u

(* The message removed is the first. *)
LEMMA RemoveTakes ==
    ASSUME NEW l, Whole(l), ~linked_list_empty(l)
    PROVE  /\ Whole(linked_list_remove(l))
           /\ messagesOn(l) # <<>>
           /\ messagesOn(linked_list_remove(l)) = Tail(messagesOn(l))
           /\ l.elems[l.tail].data \in Posted
<1>1. PICK s : Holds(l, s)
  BY DEF Whole
<1> DEFINE l2 == linked_list_remove(l)
           t == Tail(s)
           q == messagesOn(l)
           u == messagesOn(l2)
<1>2. s \in Seq(Address) /\ Len(s) \in Nat /\ s # <<>>
  <2>1. s \in Seq(Address) /\ l.head = at(s, Len(s))
    BY <1>1, Zenon DEF Holds
  <2>2. at(<<>>, Len(<<>>)) = Null
    BY DEF at
  <2>3. Len(s) \in Nat
    BY <2>1
  <2> QED
    BY <2>1, <2>2, <2>3 DEF linked_list_empty
<1>3. Holds(l2, t) /\ \A k \in 2 .. Len(s) : l2.elems[s[k]].data = l.elems[s[k]].data
  BY <1>1, <1>2, RemoveHolds
<1>4. Len(s) # 0 /\ Len(t) = Len(s) - 1 /\ \A k \in 1 .. Len(s) - 1 : t[k] = s[k + 1]
  BY <1>2, HeadTailProperties, EmptySeq
<1>5. q \in Seq(Posted) /\ Len(q) = Len(s) /\ q = [k \in 1 .. Len(s) |-> l.elems[s[k]].data]
  BY <1>1, MessagesHeld
<1>6. u \in Seq(Posted) /\ Len(u) = Len(t) /\ u = [k \in 1 .. Len(t) |-> l2.elems[t[k]].data]
  BY <1>3, MessagesHeld
<1>7. l.elems[l.tail].data \in Posted
  <2>1. 1 \in 1 .. Len(s) /\ l.tail = s[1]
    <3>1. l.tail = at(s, 1)
      BY <1>1, Zenon DEF Holds
    <3>2. 1 \in 1 .. Len(s)
      BY <1>2, <1>4
    <3> QED
      BY <3>1, <3>2 DEF at
  <2>2. l.elems[s[1]].data = q[1]
    BY <2>1, <1>5
  <2> HIDE DEF q
  <2> QED
    BY <2>1, <2>2, <1>5
<1> HIDE DEF l2, t, q, u
<1>8. q # <<>>
  BY <1>4, <1>5
<1>9. Tail(q) \in Seq(Posted) /\ Len(Tail(q)) = Len(s) - 1
      /\ \A k \in 1 .. Len(s) - 1 : Tail(q)[k] = q[k + 1]
  BY <1>5, <1>8, HeadTailProperties
<1>10. \A k \in 1 .. Len(s) - 1 : u[k] = Tail(q)[k]
  <2> SUFFICES ASSUME NEW k \in 1 .. Len(s) - 1 PROVE u[k] = Tail(q)[k]
    OBVIOUS
  <2>1. k + 1 \in 2 .. Len(s) /\ k + 1 \in 1 .. Len(s)
    BY <1>2
  <2>2. u[k] = l2.elems[t[k]].data
    BY <1>4, <1>6
  <2>3. q[k + 1] = l.elems[s[k + 1]].data
    BY <2>1, <1>5
  <2> QED
    BY <2>1, <2>2, <2>3, <1>3, <1>4, <1>9
<1>11. u = Tail(q)
  BY <1>4, <1>6, <1>9, <1>10, SeqEqual
<1>12. Whole(l2)
  BY <1>3 DEF Whole
<1> QED
  BY <1>7, <1>8, <1>11, <1>12 DEF l2, q, u

(***************************************************************************)
(* The task.                                                               *)
(***************************************************************************)
Typed ==
    /\ Whole(list)
    /\ unblocked \in BOOLEAN /\ task \in {"alive", "deleted"}
    /\ worker \in {"loop", "receive", "waiting", "proc", "destroys", "end", "release", "ended"}
    /\ owner \in {"idle", "unblock", "forget", "stop", "join", "release", "done"}
    /\ sent \in [Sender \cup {"kill"} -> Nat]
    /\ delegate \in [runnable : BOOLEAN, joinable : {Joinable, FALSE}, refs : 0 .. 2,
                     alive : BOOLEAN]
    /\ handled \in Seq(Message) /\ flushed \subseteq Message /\ refused \subseteq Message
    /\ worker = "proc" => message \in Posted

\* The thread comes to its end only when the queue has been closed.
Closing ==
    /\ worker \in {"end", "release", "ended"} => unblocked
    /\ owner \notin {"idle", "unblock"} => unblocked
    /\ ~delegate.runnable => unblocked

\* The delegate's count is of those that have yet to release it.
Shared ==
    /\ delegate.refs = (IF owner = "done" THEN 0 ELSE 1) + (IF worker = "ended" THEN 0 ELSE 1)
    /\ delegate.alive <=> delegate.refs # 0
    /\ OwnerDestroys => worker # "destroys"
    /\ "delegate" \notin stray

\* When the thread destroys its own task, it does nothing else meanwhile.
Destroying == {"unblock", "forget", "stop", "join", "release"}
Alone ==
    ~OwnerDestroys =>
      /\ owner \in Destroying <=> worker = "destroys"
      /\ owner = "idle" => ~unblocked
      /\ unblocked => worker \notin {"waiting", "proc"}
      /\ task = "deleted" => worker \in {"release", "ended"}
      /\ stray = {}

TaskInv == Typed /\ Closing /\ Shared /\ Alone

(* It holds at first. *)
LEMMA TaskInvInit == Init => TaskInv
<1> SUFFICES ASSUME Init PROVE TaskInv
  OBVIOUS
<1>1. Whole(list)
  BY EmptyList DEF Init
<1>2. delegate \in [runnable : BOOLEAN, joinable : {Joinable, FALSE}, refs : 0 .. 2,
                   alive : BOOLEAN]
      /\ delegate.refs = 2 /\ delegate.alive = TRUE /\ delegate.runnable = TRUE
  BY DEF Init
<1>3. handled \in Seq(Message) /\ sent \in [Sender \cup {"kill"} -> Nat]
  BY DEF Init
<1>4. Typed
  BY <1>1, <1>2, <1>3 DEF Init, Typed
<1>5. Closing
  BY <1>2 DEF Init, Closing
<1>6. Shared
  <2>1. owner = "idle" /\ worker = "loop" /\ stray = {}
    BY DEF Init
  <2> QED
    BY <1>2, <2>1 DEF Shared
<1>7. Alone
  BY DEF Init, Alone, Destroying
<1> QED
  BY <1>4, <1>5, <1>6, <1>7 DEF TaskInv

(* A message on its way is one that the queue may hold. *)
LEMMA SentIsPosted ==
    ASSUME TaskInv, NEW p \in Sender \cup {"kill"},
           sent[p] < (IF p = "kill" THEN 1 ELSE MaxSent), p = "kill" => ~OwnerDestroys
    PROVE  [from |-> p, n |-> sent[p] + 1] \in Posted
<1>1. sent[p] \in Nat
  BY DEF TaskInv, Typed
<1>2. CASE p = "kill"
  <2>1. sent[p] + 1 = 1
    BY <1>1, <1>2
  <2> QED
    BY <2>1, <1>2 DEF Posted, Message, Kill
<1>3. CASE p # "kill"
  <2>1. p \in Sender /\ sent[p] + 1 \in 1 .. MaxSent
    BY <1>1, <1>3, MsgQueueAssumption
  <2> QED
    BY <2>1, <1>3 DEF Posted, Message, Kill
<1> QED
  BY <1>2, <1>3

(* Who releases the delegate is counted no more. *)
LEMMA ReleaseCounts ==
    ASSUME Typed, Shared, delegate.alive
    PROVE  /\ Release(delegate) \in [runnable : BOOLEAN, joinable : {Joinable, FALSE},
                                     refs : 0 .. 2, alive : BOOLEAN]
           /\ Release(delegate).runnable = delegate.runnable
           /\ Release(delegate).refs = delegate.refs - 1
           /\ Release(delegate).alive <=> delegate.refs - 1 # 0
<1> DEFINE d == delegate
<1>1. d \in [runnable : BOOLEAN, joinable : {Joinable, FALSE}, refs : 0 .. 2, alive : BOOLEAN]
  BY DEF Typed
<1>2. d.refs \in 1 .. 2 /\ d.alive = TRUE
  BY <1>1 DEF Shared
<1>3. Release(d) = [d EXCEPT !.refs = d.refs - 1, !.alive = (d.refs - 1 # 0)]
  BY <1>1, <1>2 DEF Release
<1>4. d.refs - 1 \in 0 .. 2 /\ (d.refs - 1 # 0) \in BOOLEAN
  BY <1>2
<1> HIDE DEF d
<1>5. Release(d).alive <=> d.refs - 1 # 0
  BY <1>1, <1>3
<1>6. Release(d).refs = d.refs - 1 /\ Release(d).runnable = d.runnable
  BY <1>1, <1>3
<1>7. Release(d) \in [runnable : BOOLEAN, joinable : {Joinable, FALSE}, refs : 0 .. 2,
                     alive : BOOLEAN]
  BY <1>1, <1>3, <1>4
<1> QED
  BY <1>5, <1>6, <1>7 DEF d

(* Every step keeps it. *)
LEMMA TaskInvStep ==
    ASSUME TaskInv, [Next]_vars
    PROVE  TaskInv'
<1> USE DEF TaskInv
<1>1. CASE Loop
  BY <1>1 DEF Loop, Typed, Closing, Shared, Alone, Destroying
<1>2. ASSUME ~linked_list_empty(list), message' = list.elems[list.tail].data,
             list' = linked_list_remove(list)
      PROVE  Whole(list') /\ message' \in Posted
  BY <1>2, RemoveTakes DEF Typed
<1>3. CASE msg_q_rcv
  <2>1. Whole(list') /\ (worker' = "proc" => message' \in Posted)
    BY <1>2, <1>3 DEF msg_q_rcv, Typed
  <2> QED
    BY <1>3, <2>1 DEF msg_q_rcv, Refuses, Typed, Closing, Shared, Alone, Destroying
<1>4. CASE Awake
  <2>1. Whole(list') /\ (worker' = "proc" => message' \in Posted)
    BY <1>2, <1>4 DEF Awake, Typed
  <2> QED
    BY <1>4, <2>1 DEF Awake, Typed, Closing, Shared, Alone, Destroying
<1>5. CASE Proc
  <2>1. message \in Message /\ (OwnerDestroys => message # Kill)
    BY <1>5 DEF Proc, Typed, Posted
  <2>2. handled' \in Seq(Message)
    BY <2>1, <1>5 DEF Proc, Typed
  <2>3. owner # "done" \/ message # Kill
    BY <2>1, <1>5 DEF Proc, Closing, Alone
  <2> QED
    BY <1>5, <2>1, <2>2, <2>3 DEF Proc, Typed, Closing, Shared, Alone, Destroying
<1>6. CASE EndOfThread
  <2>1. Whole(list')
    BY <1>6, EmptyList DEF EndOfThread
  <2>2. flushed' \subseteq Message
    <3>1. PICK s : Holds(list, s)
      BY DEF Typed, Whole
    <3>2. Data(list) \subseteq Message
      BY <3>1, MessagesHeld DEF Posted
    <3> QED
      BY <3>2, <1>6 DEF EndOfThread, Typed
  <2>3. delegate.alive
    BY <1>6 DEF EndOfThread, Typed, Shared
  <2> QED
    BY <1>6, <2>1, <2>2, <2>3 DEF EndOfThread, Uses, Typed, Closing, Shared, Alone, Destroying
<1>7. CASE WorkerReleases
  <2>1. delegate.alive
    BY <1>7 DEF WorkerReleases, Typed, Shared
  <2>2. delegate' = Release(delegate) /\ stray' = stray
    BY <1>7, <2>1 DEF WorkerReleases, Uses
  <2>3. Typed' /\ Closing' /\ Alone'
    BY <1>7, <2>1, <2>2, ReleaseCounts DEF WorkerReleases, Typed, Closing, Alone, Destroying
  <2>4. Shared'
    <3>1. worker = "release" /\ worker' = "ended" /\ owner' = owner
          /\ (OwnerDestroys => worker' # "destroys")
      BY <1>7 DEF WorkerReleases, Shared
    <3>2. delegate.refs \in Int /\ delegate'.refs = delegate.refs - 1
          /\ (delegate'.alive <=> delegate.refs - 1 # 0)
      <4>1. delegate.refs \in Int
        BY DEF Typed
      <4>2. delegate'.refs = Release(delegate).refs /\ delegate'.alive = Release(delegate).alive
        BY <2>2
      <4>3. Release(delegate).refs = delegate.refs - 1
            /\ (Release(delegate).alive <=> delegate.refs - 1 # 0)
        BY <2>1, ReleaseCounts
      <4> QED
        BY <4>1, <4>2, <4>3
    <3> QED
      BY <2>2, <3>1, <3>2 DEF Shared
  <2> QED
    BY <2>3, <2>4
<1>8. CASE msg_q_unblock
  BY <1>8 DEF msg_q_unblock, Typed, Closing, Shared, Alone, Destroying
<1>9. CASE ForgetThread
  BY <1>9 DEF ForgetThread, Uses, Typed, Closing, Shared, Alone, Destroying
<1>10. CASE Stop
  <2>1. delegate.alive
    BY <1>10 DEF Stop, Typed, Shared
  <2> QED
    BY <1>10, <2>1 DEF Stop, Uses, Typed, Closing, Shared, Alone, Destroying
<1>11. CASE Join
  BY <1>11 DEF Join, Typed, Closing, Shared, Alone, Destroying
<1>12. CASE OwnerReleases
  <2>1. delegate.alive
    BY <1>12 DEF OwnerReleases, Typed, Shared
  <2>2. delegate' = Release(delegate) /\ stray' = stray
    BY <1>12, <2>1 DEF OwnerReleases, Uses
  <2>3. Typed' /\ Closing' /\ Alone'
    BY <1>12, <2>1, <2>2, ReleaseCounts
    DEF OwnerReleases, Typed, Closing, Alone, Destroying
  <2>4. Shared'
    <3>1. owner = "release" /\ owner' = "done" /\ (worker' = "ended" <=> worker = "ended")
          /\ (OwnerDestroys => worker' # "destroys")
      BY <1>12 DEF OwnerReleases, Shared
    <3>2. delegate.refs \in Int /\ delegate'.refs = delegate.refs - 1
          /\ (delegate'.alive <=> delegate.refs - 1 # 0)
      <4>1. delegate.refs \in Int
        BY DEF Typed
      <4>2. delegate'.refs = Release(delegate).refs /\ delegate'.alive = Release(delegate).alive
        BY <2>2
      <4>3. Release(delegate).refs = delegate.refs - 1
            /\ (Release(delegate).alive <=> delegate.refs - 1 # 0)
        BY <2>1, ReleaseCounts
      <4> QED
        BY <4>1, <4>2, <4>3
    <3> QED
      BY <2>2, <3>1, <3>2 DEF Shared
  <2> QED
    BY <2>3, <2>4
<1>13. CASE Destroy
  BY <1>13 DEF Destroy, Typed, Closing, Shared, Alone, Destroying
<1>14. ASSUME NEW p \in Sender \cup {"kill"}, sendMsg(p) PROVE TaskInv'
  <2> DEFINE m == [from |-> p, n |-> sent[p] + 1]
  <2>1. m \in Posted /\ m \in Message
    BY <1>14, SentIsPosted DEF sendMsg, Posted
  <2>2. Whole(list')
    BY <1>14, <2>1, AddAppends DEF sendMsg, msg_q_snd, Typed
  <2>3. refused' \subseteq Message
    BY <1>14, <2>1 DEF sendMsg, msg_q_snd, Typed
  <2>4. sent' \in [Sender \cup {"kill"} -> Nat]
    BY <1>14 DEF sendMsg, Typed
  <2>5. /\ unblocked' = unblocked /\ task' = task /\ stray' = stray /\ worker' = worker
        /\ delegate' = delegate /\ owner' = owner /\ handled' = handled /\ flushed' = flushed
        /\ message' = message
    BY <1>14 DEF sendMsg
  <2>6. Typed'
    <3>1. /\ handled' \in Seq(Message) /\ flushed' \subseteq Message
          /\ worker' = "proc" => message' \in Posted
      BY <2>5 DEF Typed
    <3>2. /\ unblocked' \in BOOLEAN /\ delegate' \in [runnable : BOOLEAN, joinable : {Joinable, FALSE},
                                                     refs : 0 .. 2, alive : BOOLEAN]
      BY <2>5, Zenon DEF Typed
    <3>3. /\ task' \in {"alive", "deleted"}
          /\ worker' \in {"loop", "receive", "waiting", "proc", "destroys", "end", "release", "ended"}
          /\ owner' \in {"idle", "unblock", "forget", "stop", "join", "release", "done"}
      BY <2>5 DEF Typed
    <3> QED
      BY <2>2, <2>3, <2>4, <3>1, <3>2, <3>3, Zenon DEF Typed
  <2>7. Closing' /\ Shared' /\ Alone'
    BY <2>5, Zenon DEF Closing, Shared, Alone
  <2> QED
    BY <2>6, <2>7
<1>15. CASE UNCHANGED vars
  <2>1. /\ Whole(list)' /\ unblocked' = unblocked /\ task' = task /\ worker' = worker
        /\ delegate' = delegate /\ owner' = owner /\ sent' = sent /\ refused' = refused
        /\ handled' = handled /\ flushed' = flushed /\ message' = message
    BY <1>15, Zenon DEF vars, Typed
  <2>2. Closing' /\ Shared' /\ Alone'
    BY <1>15, Zenon DEF vars, Closing, Shared, Alone
  <2>3. Typed'
    BY <2>1 DEF Typed
  <2> QED
    BY <2>2, <2>3
<1> QED
  BY <1>1, <1>3, <1>4, <1>5, <1>6, <1>7, <1>8, <1>9, <1>10, <1>11, <1>12, <1>13, <1>14, <1>15
  DEF Next, Step

(* It always holds. *)
LEMMA TaskInvAlways == Spec => []TaskInv
<1>1. TaskInv /\ [Next]_vars => TaskInv'
  BY TaskInvStep
<1> QED
  BY <1>1, TaskInvInit, PTL DEF Spec

(***************************************************************************)
(* What is proved of it.                                                   *)
(***************************************************************************)
(* The queue's list can be walked both ways and nothing is lost from it,   *)
(* whatever is sent and taken (linked_list_add, linked_list_remove, and    *)
(* the flush by EndOfThread), and only messages are handled or flushed.    *)
THEOREM MsgQueueListIsWhole == Spec => [](TypeOK /\ ListIsWhole)
<1>1. ASSUME TaskInv PROVE TypeOK
  <2>1. PICK s : Holds(list, s)
    BY <1>1 DEF TaskInv, Typed, Whole
  <2>2. \A a \in DOMAIN list.elems : list.elems[a].data \in Message
    BY <2>1, Zenon DEF Holds, Element, Posted
  <2>3. ToSet(handled) \subseteq Message
    BY <1>1 DEF TaskInv, Typed, ToSet
  <2> QED
    BY <1>1, <2>2, <2>3 DEF TaskInv, Typed, TypeOK
<1>2. ASSUME TaskInv PROVE ListIsWhole
  BY <1>2, WholeBothWays DEF TaskInv, Typed, ListIsWhole
<1>3. TaskInv => TypeOK /\ ListIsWhole
  BY <1>1, <1>2
<1> QED
  BY <1>3, TaskInvAlways, PTL

(* The queue, kept in a doubly linked list and shared by senders, thread   *)
(* and destroyer, does what the abstract queue does: each step of any of   *)
(* them is one of its steps or leaves it alone (msg_q_snd, msg_q_rcv,      *)
(* msg_q_unblock, msg_q_destroy).                                          *)
THEOREM MsgQueueIsFifo == Spec => IsFifo
<1>1. Init => Queue!Init
  BY EmptyList DEF Init, Queue!Init, fromTail
<1>2. ASSUME TaskInv, [Next]_vars
      PROVE  [Queue!Next]_<<fromTail, unblocked>>
  <2>1. ASSUME ~linked_list_empty(list), list' = linked_list_remove(list),
               unblocked' = unblocked
        PROVE  Queue!Receive
    BY <1>2, <2>1, RemoveTakes DEF TaskInv, Typed, Queue!Receive, fromTail
  <2>2. CASE msg_q_rcv
    <3>1. CASE list' = list
      BY <2>2, <3>1 DEF msg_q_rcv, fromTail
    <3>2. CASE list' # list
      BY <2>1, <2>2, <3>2 DEF msg_q_rcv, Queue!Next
    <3> QED
      BY <3>1, <3>2
  <2>3. CASE Awake
    <3>1. CASE list' = list
      BY <2>3, <3>1 DEF Awake, fromTail
    <3>2. CASE list' # list
      BY <2>1, <2>3, <3>2 DEF Awake, Queue!Next
    <3> QED
      BY <3>1, <3>2
  <2>4. CASE EndOfThread
    <3>1. unblocked /\ unblocked' = unblocked
      BY <1>2, <2>4 DEF TaskInv, Closing, EndOfThread
    <3>2. messagesOn(list') = <<>>
      BY <2>4, EmptyList DEF EndOfThread
    <3> QED
      BY <3>1, <3>2 DEF Queue!Next, Queue!Discard, fromTail
  <2>5. CASE msg_q_unblock
    <3>1. unblocked \in BOOLEAN /\ unblocked' = TRUE /\ list' = list
      BY <1>2, <2>5 DEF TaskInv, Typed, msg_q_unblock
    <3> QED
      BY <3>1 DEF Queue!Next, Queue!Close, fromTail
  <2>6. ASSUME NEW p \in Sender \cup {"kill"}, sendMsg(p)
        PROVE  [Queue!Next]_<<fromTail, unblocked>>
    <3> DEFINE m == [from |-> p, n |-> sent[p] + 1]
    <3>1. m \in Posted /\ m \in Message
      BY <1>2, <2>6, SentIsPosted DEF sendMsg, Posted
    <3>2. CASE unblocked
      BY <2>6, <3>2 DEF sendMsg, msg_q_snd, fromTail
    <3>3. CASE ~unblocked
      <4>1. list' = linked_list_add(list, m) /\ unblocked' = unblocked
        BY <2>6, <3>3 DEF sendMsg, msg_q_snd
      <4>2. messagesOn(list') = Append(messagesOn(list), m)
        BY <1>2, <3>1, <4>1, AddAppends DEF TaskInv, Typed
      <4> HIDE DEF m
      <4>3. Queue!Send(m)
        BY <3>3, <4>1, <4>2 DEF Queue!Send, fromTail
      <4> QED
        BY <3>1, <4>3 DEF Queue!Next
    <3> QED
      BY <3>2, <3>3
  <2>7. CASE list' = list /\ unblocked' = unblocked
    BY <2>7 DEF fromTail
  <2>8. CASE Loop \/ Proc \/ WorkerReleases \/ ForgetThread \/ Stop \/ Join \/ OwnerReleases
             \/ Destroy \/ UNCHANGED vars
    <3>1. list' = list /\ unblocked' = unblocked
      BY <2>8 DEF Loop, Proc, WorkerReleases, ForgetThread, Stop, Join, OwnerReleases,
                  Destroy, vars
    <3> QED
      BY <2>7, <3>1
  <2> QED
    BY <1>2, <2>2, <2>3, <2>4, <2>5, <2>6, <2>8 DEF Next, Step
<1>3. TaskInv /\ [Next]_vars => [Queue!Next]_<<fromTail, unblocked>>
  BY <1>2
<1> QED
  BY <1>1, <1>3, TaskInvAlways, PTL DEF Spec, IsFifo, Queue!Spec

(* The delegate is shared by the thread and its owner, and neither uses it *)
(* after the other has deleted it, whoever destroys the task and whichever *)
(* of them is done first (LocThreadDelegate::destroy).                     *)
THEOREM MsgQueueDelegateIsShared == Spec => []("delegate" \notin stray)
<1>1. TaskInv => "delegate" \notin stray
  BY DEF TaskInv, Shared
<1> QED
  BY <1>1, TaskInvAlways, PTL

(* A task that only its own thread destroys is not used after its thread   *)
(* has deleted it, nor is the delegate (MsgTask::destroy).                 *)
THEOREM MsgQueueNoStrayUse ==
    ASSUME ~OwnerDestroys
    PROVE  Spec => []NoStrayUse
<1>1. TaskInv => NoStrayUse
  BY DEF TaskInv, Alone, NoStrayUse
<1> QED
  BY <1>1, TaskInvAlways, PTL
=============================================================================
