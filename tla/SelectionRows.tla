----------------------------- MODULE SelectionRows -----------------------------
(***************************************************************************)
(* The lists in which interests, participants and projects are selected.   *)
(* The selected items are an array that the list shares with its form;     *)
(* every row keeps, besides, its own flag, set when the row appears and    *)
(* toggled by each tap.  The flag decides whether a tap appends the item   *)
(* or removes its first occurrence, and the removal unwraps the index of   *)
(* an item that it takes to be there.                                      *)
(*                                                                         *)
(* A row lives as long as its item stays in the list.  When the list names *)
(* an item twice, each occurrence has a row of its own.                    *)
(***************************************************************************)
EXTENDS Naturals, Sequences, SequencesExt

CONSTANTS
  Item,     \* interests, emails or project names
  Lists,    \* the values itemsArray may get
  Absent,   \* the flag of a row that does not exist
  MaxOld    \* bound on the items selected before the form is opened

ASSUME SelectionAssumption ==
  /\ Lists \subseteq Seq(Item)
  /\ Absent \notin BOOLEAN
  /\ MaxOld \in Nat

VARIABLES
  itemsArray,     \* the list on screen
  selectedArray,  \* the selected items, shared with the form
  isSelected,     \* isSelected[item][k]: the flag of the item's k-th row
  trapped         \* the app was stopped by the unwrapping of nil

vars == <<itemsArray, selectedArray, isSelected, trapped>>

MaxCopies == 2

Copies(list, item) == Cardinality({i \in 1..Len(list) : list[i] = item})

NoDuplicates(list) == \A i, j \in 1..Len(list) : list[i] = list[j] => i = j
Selected(item) == \E i \in 1..Len(selectedArray) : selectedArray[i] = item

\* The form is opened on a profile's array, or on an empty one.
Init ==
  /\ itemsArray = <<>>
  /\ selectedArray \in {s \in UNION {[1..n -> Item] : n \in 0..MaxOld} : NoDuplicates(s)}
  /\ isSelected = [item \in Item |-> [k \in 1..MaxCopies |-> Absent]]
  /\ trapped = FALSE

\* The "plus" button fills the list: rows of new items appear, and look once
\* whether they are selected; the others keep their flag.  Where the list names
\* an item twice each of the two rows is taken to have a flag of its own, which
\* SwiftUI leaves undefined for ForEach with repeated ids.
OpenList(list) ==
  /\ ~trapped
  /\ itemsArray' = list
  /\ isSelected' = [item \in Item |-> [k \in 1..MaxCopies |->
       IF k > Copies(list, item) THEN Absent
       ELSE IF isSelected[item][k] = Absent THEN Selected(item)
       ELSE isSelected[item][k]]]
  /\ UNCHANGED <<selectedArray, trapped>>

\* A tap on a row that is not marked.
Select(item, k) ==
  /\ ~trapped
  /\ isSelected[item][k] = FALSE
  /\ isSelected' = [isSelected EXCEPT ![item][k] = TRUE]
  /\ selectedArray' = Append(selectedArray, item)
  /\ UNCHANGED <<itemsArray, trapped>>

\* Mistake: the last item is removed, whichever it is.
DeselectLast(item, k) ==
  /\ ~trapped
  /\ isSelected[item][k] = TRUE
  /\ isSelected' = [isSelected EXCEPT ![item][k] = FALSE]
  /\ selectedArray # <<>>
  /\ selectedArray' = Front(selectedArray)
  /\ UNCHANGED <<itemsArray, trapped>>

\* A tap on a marked row: remove(at: firstIndex(of: content)!).
Deselect(item, k) ==
  /\ ~trapped
  /\ isSelected[item][k] = TRUE
  /\ isSelected' = [isSelected EXCEPT ![item][k] = FALSE]
  /\ IF Selected(item)
       THEN /\ selectedArray' = RemoveFirst(selectedArray, item)
            /\ UNCHANGED trapped
       ELSE /\ trapped' = TRUE
            /\ UNCHANGED selectedArray
  /\ UNCHANGED itemsArray

Next ==
  \/ \E list \in Lists : OpenList(list)
  \/ \E item \in Item, k \in 1..MaxCopies : Select(item, k) \/ Deselect(item, k)

Spec == Init /\ [][Next]_vars

-----------------------------------------------------------------------------
(* Properties *)

\* As long as a list names nothing twice, every listed item has one row, its
\* check mark tells whether the item is selected, and nothing is selected twice,
\* although mark and array are kept apart, lists change and rows come and go
\* between the taps.
MarksTellSelection ==
  /\ NoDuplicates(selectedArray)
  /\ \A item \in Item, k \in 1..MaxCopies :
       isSelected[item][k] = IF k = 1 /\ Contains(itemsArray, item)
                               THEN Selected(item) ELSE Absent

\* The index that a deselection unwraps exists.
NeverTraps == ~trapped

Chosen == {selectedArray[i] : i \in 1..Len(selectedArray)}
Listed == {itemsArray[i] : i \in 1..Len(itemsArray)}

Promise == INSTANCE SelectionSet WITH listed <- Listed, chosen <- Chosen

\* Rows, flags and array together behave as a set of chosen items.
IsASelectionSet == Promise!Spec
=============================================================================
