------------------------------- MODULE LocHeap -------------------------------
(***************************************************************************)
(* LocHeap.cpp: a tree of nodes, each outranked by none below it, that     *)
(* push() fills on its lighter side and pop() empties by swapping data     *)
(* down to a leaf. It implements PriorityQueue.                            *)
(***************************************************************************)
EXTENDS Integers, FiniteSets

CONSTANTS
  Item,    \* what is ranked
  Rank,    \* its rank: LocTimerDelegate's is its time, sooner first
  NoItem

VARIABLES tree, answer
vars == <<tree, answer>>

Null == [size |-> 0]
leaf(x) == [size |-> 1, data |-> x, left |-> Null, right |-> Null]
isNode(t) == t # Null

RECURSIVE data(_)
data(t) == IF isNode(t) THEN {t.data} \cup data(t.left) \cup data(t.right) ELSE {}

outRanks(x, y) == Rank[x] < Rank[y]

Init == tree = Null /\ answer = NoItem

\* The higher of the two stays, the other drops into the lighter subtree.
RECURSIVE pushed(_, _)
\* Mutant: the item always drops, whatever its rank.
RECURSIVE DroppedBelow(_, _)
DroppedBelow(t, x) ==
  IF ~isNode(t) THEN leaf(x)
  ELSE IF isNode(t.left) => isNode(t.right) /\ t.right.size < t.left.size
       THEN [t EXCEPT !.size = @ + 1, !.right = DroppedBelow(@, x)]
       ELSE [t EXCEPT !.size = @ + 1, !.left = DroppedBelow(@, x)]
pushed(t, x) ==
  IF ~isNode(t) THEN leaf(x)
  ELSE LET stays == IF outRanks(x, t.data) THEN x ELSE t.data
           drops == IF outRanks(x, t.data) THEN t.data ELSE x
           toLeft == ~isNode(t.left) \/ (isNode(t.right) /\ t.left.size =< t.right.size)
       IN IF toLeft
          THEN [t EXCEPT !.data = stays, !.size = @ + 1, !.left = pushed(@, drops)]
          ELSE [t EXCEPT !.data = stays, !.size = @ + 1, !.right = pushed(@, drops)]

\* The subtree whose top takes the place of the one that is popped.
\* Mutant: the left one if there is one.
LeftFirst(t) == IF isNode(t.left) THEN "left" ELSE "right"
subTop(t) ==
  IF ~isNode(t.left) THEN "right"
  ELSE IF ~isNode(t.right) THEN "left"
  ELSE IF outRanks(t.left.data, t.right.data) THEN "left" ELSE "right"

\* The tree without the data of its top.
RECURSIVE popped(_)
popped(t) ==
  IF isNode(t.left) \/ isNode(t.right)
  THEN [t EXCEPT !.data = t[subTop(t)].data, !.size = @ - 1, ![subTop(t)] = popped(@)]
  ELSE Null

\* A search by address, not below a node that ranks lower than the item; the
\* tree is given back as it was when the item is not found.
RECURSIVE removed(_, _)
\* Mutant: the sizes above the node are kept.
RECURSIVE SizesKept(_, _)
SizesKept(t, x) ==
  IF ~isNode(t) THEN t
  ELSE IF t.data = x THEN popped(t)
  ELSE IF outRanks(x, t.data) THEN t
  ELSE IF SizesKept(t.left, x) # t.left THEN [t EXCEPT !.left = SizesKept(@, x)]
  ELSE [t EXCEPT !.right = SizesKept(@, x)]
removed(t, x) ==
  IF ~isNode(t) THEN t
  ELSE IF t.data = x THEN popped(t)
  ELSE IF outRanks(x, t.data) THEN t
  ELSE LET l == removed(t.left, x) r == removed(t.right, x)
       IN IF l # t.left THEN [t EXCEPT !.size = @ - 1, !.left = l]
          ELSE IF r # t.right THEN [t EXCEPT !.size = @ - 1, !.right = r]
          ELSE t

push(x) ==
  /\ x \notin data(tree)
  /\ tree' = pushed(tree, x) /\ answer' = NoItem

peek ==
  /\ answer' = IF isNode(tree) THEN tree.data ELSE NoItem
  /\ UNCHANGED tree

pop ==
  IF isNode(tree) THEN tree' = popped(tree) /\ answer' = tree.data
  ELSE answer' = NoItem /\ UNCHANGED tree

remove(x) ==
  /\ tree' = removed(tree, x)
  /\ answer' = IF tree' # tree THEN x ELSE NoItem

Next ==
  \/ \E x \in Item : push(x) \/ remove(x)
  \/ peek \/ pop

Spec == Init /\ [][Next]_vars

-----------------------------------------------------------------------------
\* What checkNodes() asks of a tree, which only a debug build evaluates: no
\* node outranks the one above it, and every size is that of the subtree.
RECURSIVE checkNodes(_)
checkNodes(t) ==
  isNode(t) =>
    /\ \A s \in {t.left, t.right} : isNode(s) => ~outRanks(s.data, t.data) /\ checkNodes(s)
    /\ t.size = 1 + t.left.size + t.right.size

\* After any series of operations the tree is in order (push, pop, remove and
\* their recursions), and every item is in it once.
TreeIsInOrder == checkNodes(tree) /\ tree.size = Cardinality(data(tree))

Abstract == INSTANCE PriorityQueue WITH held <- data(tree)

\* The heap is a priority queue: peek() and pop() give an item that none
\* outranks, remove() finds an item wherever it is in the tree, and no
\* operation loses another item (LocHeap.cpp).
IsPriorityQueue == Abstract!Spec
=============================================================================
