---------------------------- MODULE PriorityQueue ----------------------------
(***************************************************************************)
(* What LocHeap promises and LocTimer relies on: a collection of items     *)
(* that gives back one that no other outranks, and takes out any item by   *)
(* its address.                                                            *)
(***************************************************************************)
CONSTANTS Item, Rank, NoItem   \* a lower number ranks higher
VARIABLES held, answer         \* the items, and what the last operation returned

LOCAL INSTANCE Naturals

Init == held = {} /\ answer = NoItem

Highest == {x \in held : \A y \in held : Rank[x] =< Rank[y]}

Push == \E x \in Item \ held : held' = held \cup {x} /\ answer' = NoItem

Pop ==
  IF held = {} THEN answer' = NoItem /\ UNCHANGED held
  ELSE \E x \in Highest : held' = held \ {x} /\ answer' = x

Peek ==
  /\ answer' \in IF held = {} THEN {NoItem} ELSE Highest
  /\ UNCHANGED held

Remove ==
  \E x \in Item : held' = held \ {x} /\ answer' = IF x \in held THEN x ELSE NoItem

Spec == Init /\ [][Push \/ Pop \/ Peek \/ Remove]_<<held, answer>>
=============================================================================
