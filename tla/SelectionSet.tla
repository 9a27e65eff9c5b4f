----------------------------- MODULE SelectionSet -----------------------------
(* What a selection list promises: a set of chosen items, changed by one tap   *)
(* at a time, each of which adds or removes one item of the list on screen.    *)
EXTENDS Naturals

CONSTANT Item

VARIABLES
  listed,   \* the items on screen
  chosen    \* the items that are chosen

Init == listed = {} /\ chosen \in SUBSET Item

Show(items) == listed' = items /\ UNCHANGED chosen
Add(item) == item \in listed \ chosen /\ chosen' = chosen \cup {item}
Remove(item) == item \in listed \cap chosen /\ chosen' = chosen \ {item}

Next ==
  \/ \E items \in SUBSET Item : Show(items)
  \/ \E item \in Item : (Add(item) \/ Remove(item)) /\ UNCHANGED listed

Spec == Init /\ [][Next]_<<listed, chosen>>
=============================================================================
