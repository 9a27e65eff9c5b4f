---------------------------- MODULE SelectionProofs ----------------------------
(* Proofs about the selection lists and the pages: as long as no list names an *)
(* item twice, marks and array agree, no unwrapping fails, and the whole       *)
(* behaves as the set that SelectionSet promises; the lists of interests name  *)
(* none twice; and the pages agree about whatever the listeners report.        *)
EXTENDS Pages, InductionLemmas, FiniteSetTheorems, SequenceTheorems

\* So it is with interests (InterestsOnce), with users as long as no address has
\* two spellings, and with projects as long as no two have one name.
ListsNameOnce == \A list \in Lists : NoDuplicates(list)

\* What rows and array do where it is so, whoever fills the lists.
OnceNext ==
  \/ \E list \in Seq(Item) : NoDuplicates(list) /\ OpenList(list)
  \/ \E item \in Item, k \in 1..MaxCopies : Select(item, k) \/ Deselect(item, k)
OnceSpec == Init /\ [][OnceNext]_vars

SelectionTypes ==
  /\ itemsArray \in Seq(Item)
  /\ selectedArray \in Seq(Item)
  /\ isSelected \in [Item -> [1..MaxCopies -> BOOLEAN \cup {Absent}]]

\* The flags say which rows are marked only where each item has one row.
SelectionInv ==
  /\ SelectionTypes
  /\ NoDuplicates(itemsArray)
  /\ MarksTellSelection
  /\ NeverTraps

-----------------------------------------------------------------------------
(* Lists *)

LEMMA CopiesOnce ==
  ASSUME NEW list \in Seq(Item), NoDuplicates(list), NEW item
  PROVE  Copies(list, item) = IF Contains(list, item) THEN 1 ELSE 0
<1> DEFINE At == {i \in 1..Len(list) : list[i] = item}
<1>1. CASE Contains(list, item)
  <2>1. PICK i \in 1..Len(list) : list[i] = item
    BY <1>1 DEF Contains
  <2>2. At = {i}
    BY <2>1 DEF NoDuplicates
  <2> QED
    BY <1>1, <2>2, FS_Singleton DEF Copies
<1>2. CASE ~Contains(list, item)
  <2>1. At = {}
    BY <1>2 DEF Contains
  <2> QED
    BY <1>2, <2>1, FS_EmptySet DEF Copies
<1> QED
  BY <1>1, <1>2

LEMMA AppendedOnce ==
  ASSUME NEW s \in Seq(Item), NoDuplicates(s), NEW item \in Item,
         ~\E i \in 1..Len(s) : s[i] = item
  PROVE  LET t == Append(s, item)
         IN /\ t \in Seq(Item)
            /\ NoDuplicates(t)
            /\ \A x : (\E i \in 1..Len(t) : t[i] = x) <=>
                      x = item \/ \E i \in 1..Len(s) : s[i] = x
<1> DEFINE t == Append(s, item)
<1>1. /\ t \in Seq(Item)
      /\ Len(t) = Len(s) + 1
      /\ t[Len(s) + 1] = item
      /\ \A i \in 1..Len(s) : t[i] = s[i]
  OBVIOUS
<1>2. Len(s) \in Nat
  OBVIOUS
<1>3. NoDuplicates(t)
  <2> SUFFICES ASSUME NEW i \in 1..Len(t), NEW j \in 1..Len(t), t[i] = t[j]
               PROVE  i = j
    BY DEF NoDuplicates
  <2>1. /\ i \in 1..Len(s) \/ i = Len(s) + 1
        /\ j \in 1..Len(s) \/ j = Len(s) + 1
    BY <1>1, <1>2
  <2> QED
    BY <1>1, <2>1 DEF NoDuplicates
<1>4. ASSUME NEW x
      PROVE  (\E i \in 1..Len(t) : t[i] = x) <=>
             x = item \/ \E i \in 1..Len(s) : s[i] = x
  <2>1. ASSUME NEW i \in 1..Len(t), t[i] = x
        PROVE  x = item \/ \E j \in 1..Len(s) : s[j] = x
    <3>1. i \in 1..Len(s) \/ i = Len(s) + 1
      BY <1>1, <1>2
    <3> QED
      BY <1>1, <2>1, <3>1
  <2>2. 1..Len(s) \subseteq 1..Len(t) /\ Len(s) + 1 \in 1..Len(t)
    BY <1>1, <1>2
  <2> QED
    BY <1>1, <2>1, <2>2
<1> QED
  BY <1>1, <1>3, <1>4

\* The first occurrence is the only one, so that removing it removes the item.
LEMMA RemovedOnce ==
  ASSUME NEW s \in Seq(Item), NoDuplicates(s), NEW item \in Item,
         \E i \in 1..Len(s) : s[i] = item
  PROVE  LET t == RemoveFirst(s, item)
         IN /\ t \in Seq(Item)
            /\ NoDuplicates(t)
            /\ \A x : (\E i \in 1..Len(t) : t[i] = x) <=>
                      x # item /\ \E i \in 1..Len(s) : s[i] = x
<1> DEFINE t == RemoveFirst(s, item)
<1>1. PICK k \in 1..Len(s) : s[k] = item
  OBVIOUS
<1>2. Len(s) \in Nat /\ k \in Nat
  BY <1>1
<1>3. {i \in 1..Len(s) : s[i] = item} = {k}
  BY <1>1 DEF NoDuplicates
<1>4. Min({k}) = k
  BY <1>2 DEF Min
<1>5. SelectInSeq(s, LAMBDA v : v = item) = k
  BY <1>3, <1>4 DEF SelectInSeq
<1>6. t = SubSeq(s, 1, k - 1) \o SubSeq(s, k + 1, Len(s))
  BY <1>5 DEF RemoveFirst, RemoveAt
<1> HIDE DEF t
<1>7. /\ SubSeq(s, 1, k - 1) \in Seq(Item)
      /\ Len(SubSeq(s, 1, k - 1)) = k - 1
      /\ \A i \in 1..(k - 1) : SubSeq(s, 1, k - 1)[i] = s[i]
  BY <1>1, <1>2
<1>8. /\ SubSeq(s, k + 1, Len(s)) \in Seq(Item)
      /\ Len(SubSeq(s, k + 1, Len(s))) = Len(s) - k
      /\ \A i \in 1..(Len(s) - k) : SubSeq(s, k + 1, Len(s))[i] = s[k + i]
  BY <1>1, <1>2
<1>9. /\ t \in Seq(Item)
      /\ Len(t) = Len(s) - 1
      /\ \A i \in 1..Len(t) : t[i] = IF i < k THEN s[i] ELSE s[i + 1]
  <2> DEFINE a == SubSeq(s, 1, k - 1)
             b == SubSeq(s, k + 1, Len(s))
  <2>1. /\ a \in Seq(Item) /\ Len(a) = k - 1
        /\ b \in Seq(Item) /\ Len(b) = Len(s) - k
        /\ t = a \o b
    BY <1>6, <1>7, <1>8
  <2>2. /\ \A i \in 1..(k - 1) : a[i] = s[i]
        /\ \A i \in 1..(Len(s) - k) : b[i] = s[k + i]
    BY <1>7, <1>8
  <2> HIDE DEF a, b
  <2>3. /\ t \in Seq(Item)
        /\ Len(t) = Len(a) + Len(b)
        /\ \A i \in 1..Len(t) : t[i] = IF i <= Len(a) THEN a[i] ELSE b[i - Len(a)]
    <3>1. /\ a \o b \in Seq(Item)
          /\ Len(a \o b) = Len(a) + Len(b)
          /\ \A i \in 1..(Len(a) + Len(b)) :
               (a \o b)[i] = IF i <= Len(a) THEN a[i] ELSE b[i - Len(a)]
      <4>1. a \in Seq(Item) /\ b \in Seq(Item)
        BY <2>1
      <4> QED
        BY <4>1, ConcatProperties
    <3> QED
      BY <2>1, <3>1
  <2>4. Len(t) = Len(s) - 1
    BY <1>1, <1>2, <2>1, <2>3
  <2>5. ASSUME NEW i \in 1..Len(t)
        PROVE  t[i] = IF i < k THEN s[i] ELSE s[i + 1]
    <3>1. CASE i < k
      BY <1>1, <1>2, <2>1, <2>2, <2>3, <2>4, <3>1
    <3>2. CASE ~(i < k)
      <4>1. /\ i - (k - 1) \in 1..(Len(s) - k)
            /\ k + (i - (k - 1)) = i + 1
            /\ ~(i <= Len(a))
        BY <1>1, <1>2, <2>1, <2>4, <3>2
      <4> QED
        BY <2>1, <2>2, <2>3, <3>2, <4>1
    <3> QED
      BY <3>1, <3>2
  <2> QED
    BY <2>3, <2>4, <2>5
<1>10. NoDuplicates(t)
  <2> SUFFICES ASSUME NEW i \in 1..Len(t), NEW j \in 1..Len(t), t[i] = t[j]
               PROVE  i = j
    BY DEF NoDuplicates
  <2>1. /\ i \in 1..Len(s) /\ i + 1 \in 1..Len(s)
        /\ j \in 1..Len(s) /\ j + 1 \in 1..Len(s)
    BY <1>2, <1>9
  <2> QED
    BY <1>2, <1>9, <2>1 DEF NoDuplicates
<1>11. ASSUME NEW x
       PROVE  (\E i \in 1..Len(t) : t[i] = x) <=>
              x # item /\ \E i \in 1..Len(s) : s[i] = x
  <2>1. ASSUME NEW i \in 1..Len(t), t[i] = x
        PROVE  x # item /\ \E j \in 1..Len(s) : s[j] = x
    <3>1. PICK j \in 1..Len(s) : j # k /\ s[j] = x
      <4>1. CASE i < k
        BY <1>2, <1>9, <2>1, <4>1
      <4>2. CASE ~(i < k)
        BY <1>2, <1>9, <2>1, <4>2
      <4> QED
        BY <4>1, <4>2
    <3> QED
      BY <1>1, <3>1 DEF NoDuplicates
  <2>2. ASSUME x # item, NEW j \in 1..Len(s), s[j] = x
        PROVE  \E i \in 1..Len(t) : t[i] = x
    <3>1. j < k \/ j > k
      BY <1>1, <1>2, <2>2
    <3>2. CASE j < k
      BY <1>1, <1>2, <1>9, <2>2, <3>2
    <3>3. CASE j > k
      <4>1. j - 1 \in 1..Len(t) /\ ~(j - 1 < k) /\ (j - 1) + 1 = j
        BY <1>1, <1>2, <1>9, <3>3
      <4> QED
        BY <1>9, <2>2, <4>1
    <3> QED
      BY <3>1, <3>2, <3>3
  <2> QED
    BY <2>1, <2>2
<1> QED
  BY <1>9, <1>10, <1>11 DEF t

-----------------------------------------------------------------------------
(* Steps *)

LEMMA InitSelects == Init => SelectionInv
<1> SUFFICES ASSUME Init PROVE SelectionInv
  OBVIOUS
<1>1. itemsArray \in Seq(Item) /\ Len(itemsArray) = 0
  BY DEF Init
<1>2. selectedArray \in Seq(Item) /\ NoDuplicates(selectedArray)
  <2>1. PICK n \in 0..MaxOld : selectedArray \in [1..n -> Item]
    BY DEF Init
  <2> QED
    BY <2>1, SelectionAssumption DEF Init
<1>3. \A item : ~Contains(itemsArray, item)
  BY <1>1 DEF Contains
<1> QED
  BY <1>1, <1>2, <1>3 DEF Init, SelectionInv, SelectionTypes, MarksTellSelection,
                          NeverTraps, NoDuplicates

\* Which rows can be tapped, and what their flag says.
LEMMA TappedRow ==
  ASSUME SelectionInv, NEW item \in Item, NEW k \in 1..MaxCopies,
         isSelected[item][k] \in BOOLEAN
  PROVE  /\ k = 1
         /\ Contains(itemsArray, item)
         /\ isSelected[item][k] = Selected(item)
BY SelectionAssumption DEF SelectionInv, MarksTellSelection

LEMMA OpenSelects ==
  ASSUME SelectionInv, NEW list \in Seq(Item), NoDuplicates(list), OpenList(list)
  PROVE  SelectionInv'
<1>1. list \in Seq(Item) /\ NoDuplicates(list)
  OBVIOUS
<1>2. /\ itemsArray' = list
      /\ selectedArray' = selectedArray
      /\ trapped' = trapped
  BY DEF OpenList
<1>3. \A item : Selected(item)' = Selected(item) /\ Selected(item) \in BOOLEAN
  BY <1>2 DEF Selected
<1>4. ASSUME NEW item \in Item, NEW k \in 1..MaxCopies
      PROVE  isSelected'[item][k] = IF k = 1 /\ Contains(list, item)
                                      THEN Selected(item) ELSE Absent
  <2>1. isSelected'[item][k] =
          IF k > Copies(list, item) THEN Absent
          ELSE IF isSelected[item][k] = Absent THEN Selected(item)
          ELSE isSelected[item][k]
    BY DEF OpenList
  <2>2. Copies(list, item) = IF Contains(list, item) THEN 1 ELSE 0
    BY <1>1, CopiesOnce
  <2>3. k > Copies(list, item) <=> ~(k = 1 /\ Contains(list, item))
    BY <2>2 DEF MaxCopies
  <2>4. isSelected[item][k] = Absent \/ isSelected[item][k] = Selected(item)
    BY DEF SelectionInv, MarksTellSelection
  <2> QED
    BY <2>1, <2>3, <2>4
<1>5. isSelected' \in [Item -> [1..MaxCopies -> BOOLEAN \cup {Absent}]]
  <2>1. isSelected' = [item \in Item |-> [k \in 1..MaxCopies |-> isSelected'[item][k]]]
    BY DEF OpenList
  <2>2. \A item \in Item, k \in 1..MaxCopies :
          isSelected'[item][k] \in BOOLEAN \cup {Absent}
    BY <1>3, <1>4
  <2> QED
    BY <2>1, <2>2
<1> QED
  BY <1>1, <1>2, <1>3, <1>4, <1>5
     DEF SelectionInv, SelectionTypes, MarksTellSelection, NeverTraps, NoDuplicates

LEMMA SelectSelects ==
  ASSUME SelectionInv, NEW item \in Item, NEW k \in 1..MaxCopies, Select(item, k)
  PROVE  /\ SelectionInv'
         /\ Contains(itemsArray, item)
         /\ ~Selected(item)
         /\ \A x : Selected(x)' <=> x = item \/ Selected(x)
<1>1. k = 1 /\ Contains(itemsArray, item) /\ ~Selected(item)
  BY TappedRow DEF Select
<1>2. selectedArray' = Append(selectedArray, item)
  BY DEF Select
<1>3. /\ selectedArray' \in Seq(Item)
      /\ NoDuplicates(selectedArray')
      /\ \A x : Selected(x)' <=> x = item \/ Selected(x)
  <2>1. selectedArray \in Seq(Item) /\ NoDuplicates(selectedArray)
    BY DEF SelectionInv, SelectionTypes, MarksTellSelection
  <2>2. ~\E i \in 1..Len(selectedArray) : selectedArray[i] = item
    BY <1>1 DEF Selected
  <2> DEFINE t == Append(selectedArray, item)
  <2>3. /\ t \in Seq(Item)
        /\ NoDuplicates(t)
        /\ \A x : (\E i \in 1..Len(t) : t[i] = x) <=>
                  x = item \/ \E i \in 1..Len(selectedArray) : selectedArray[i] = x
    BY <2>1, <2>2, AppendedOnce
  <2> HIDE DEF t
  <2>4. selectedArray' = t
    BY <1>2 DEF t
  <2> QED
    BY <2>3, <2>4 DEF Selected
<1>4. /\ itemsArray' = itemsArray /\ trapped' = trapped
      /\ isSelected' = [isSelected EXCEPT ![item][k] = TRUE]
  BY DEF Select
<1>5. \A x : Selected(x) \in BOOLEAN /\ Selected(x)' \in BOOLEAN
  BY DEF Selected
<1>6. ASSUME NEW x \in Item, NEW j \in 1..MaxCopies
      PROVE  isSelected'[x][j] = IF j = 1 /\ Contains(itemsArray, x)
                                   THEN Selected(x)' ELSE Absent
  <2>1. isSelected'[x][j] = IF x = item /\ j = k THEN TRUE ELSE isSelected[x][j]
    BY <1>4 DEF SelectionInv, SelectionTypes
  <2>2. isSelected[x][j] = IF j = 1 /\ Contains(itemsArray, x)
                             THEN Selected(x) ELSE Absent
    BY DEF SelectionInv, MarksTellSelection
  <2>3. CASE x = item
    BY <1>1, <1>3, <1>5, <2>1, <2>2, <2>3
  <2>4. CASE x # item
    <3>1. Selected(x)' = Selected(x)
      BY <1>3, <1>5, <2>4
    <3> QED
      BY <2>1, <2>2, <2>4, <3>1
  <2> QED
    BY <2>3, <2>4
<1>7. SelectionTypes'
  BY <1>3, <1>4 DEF SelectionInv, SelectionTypes
<1>8. NoDuplicates(itemsArray)' /\ NeverTraps'
  BY <1>2, <1>4 DEF SelectionInv, NeverTraps, NoDuplicates
<1>9. MarksTellSelection'
  <2>1. \A x : Contains(itemsArray, x)' = Contains(itemsArray, x)
    BY <1>4 DEF Contains
  <2>2. NoDuplicates(selectedArray)'
    BY <1>3 DEF NoDuplicates
  <2>3. ASSUME NEW x \in Item, NEW j \in 1..MaxCopies
        PROVE  (isSelected[x][j] = IF j = 1 /\ Contains(itemsArray, x)
                                     THEN Selected(x) ELSE Absent)'
    BY <1>6, <2>1
  <2> QED
    BY <2>2, <2>3 DEF MarksTellSelection
<1> QED
  BY <1>1, <1>3, <1>7, <1>8, <1>9 DEF SelectionInv

LEMMA DeselectSelects ==
  ASSUME SelectionInv, NEW item \in Item, NEW k \in 1..MaxCopies, Deselect(item, k)
  PROVE  /\ SelectionInv'
         /\ Contains(itemsArray, item)
         /\ Selected(item)
         /\ \A x : Selected(x)' <=> x # item /\ Selected(x)
<1>1. k = 1 /\ Contains(itemsArray, item) /\ Selected(item)
  BY TappedRow DEF Deselect
<1>2. selectedArray' = RemoveFirst(selectedArray, item) /\ trapped' = trapped
  BY <1>1 DEF Deselect
<1>3. /\ selectedArray' \in Seq(Item)
      /\ NoDuplicates(selectedArray')
      /\ \A x : Selected(x)' <=> x # item /\ Selected(x)
  <2>1. /\ selectedArray \in Seq(Item) /\ NoDuplicates(selectedArray)
        /\ \E i \in 1..Len(selectedArray) : selectedArray[i] = item
    BY <1>1 DEF SelectionInv, SelectionTypes, MarksTellSelection, Selected
  <2> DEFINE t == RemoveFirst(selectedArray, item)
  <2>2. /\ t \in Seq(Item)
        /\ NoDuplicates(t)
        /\ \A x : (\E i \in 1..Len(t) : t[i] = x) <=>
                  x # item /\ \E i \in 1..Len(selectedArray) : selectedArray[i] = x
    BY <2>1, RemovedOnce
  <2> QED
    BY <1>2, <2>2 DEF Selected, NoDuplicates
<1>4. /\ itemsArray' = itemsArray
      /\ isSelected' = [isSelected EXCEPT ![item][k] = FALSE]
  BY DEF Deselect
<1>5. \A x : Selected(x) \in BOOLEAN /\ Selected(x)' \in BOOLEAN
  BY DEF Selected
<1>6. ASSUME NEW x \in Item, NEW j \in 1..MaxCopies
      PROVE  isSelected'[x][j] = IF j = 1 /\ Contains(itemsArray, x)
                                   THEN Selected(x)' ELSE Absent
  <2>1. isSelected'[x][j] = IF x = item /\ j = k THEN FALSE ELSE isSelected[x][j]
    BY <1>4 DEF SelectionInv, SelectionTypes
  <2>2. isSelected[x][j] = IF j = 1 /\ Contains(itemsArray, x)
                             THEN Selected(x) ELSE Absent
    BY DEF SelectionInv, MarksTellSelection
  <2>3. CASE x = item
    BY <1>1, <1>3, <1>5, <2>1, <2>2, <2>3
  <2>4. CASE x # item
    <3>1. Selected(x)' = Selected(x)
      BY <1>3, <1>5, <2>4
    <3> QED
      BY <2>1, <2>2, <2>4, <3>1
  <2> QED
    BY <2>3, <2>4
<1>7. SelectionTypes'
  BY <1>3, <1>4 DEF SelectionInv, SelectionTypes
<1>8. NoDuplicates(itemsArray)' /\ NeverTraps'
  BY <1>2, <1>4 DEF SelectionInv, NeverTraps, NoDuplicates
<1>9. MarksTellSelection'
  <2>1. \A x : Contains(itemsArray, x)' = Contains(itemsArray, x)
    BY <1>4 DEF Contains
  <2>2. NoDuplicates(selectedArray)'
    BY <1>3 DEF NoDuplicates
  <2>3. ASSUME NEW x \in Item, NEW j \in 1..MaxCopies
        PROVE  (isSelected[x][j] = IF j = 1 /\ Contains(itemsArray, x)
                                     THEN Selected(x) ELSE Absent)'
    BY <1>6, <2>1
  <2> QED
    BY <2>2, <2>3 DEF MarksTellSelection
<1> QED
  BY <1>1, <1>3, <1>7, <1>8, <1>9 DEF SelectionInv

LEMMA StepSelects ==
  ASSUME SelectionInv, [OnceNext]_vars
  PROVE  SelectionInv'
<1>1. CASE OnceNext
  BY <1>1, OpenSelects, SelectSelects, DeselectSelects DEF OnceNext
<1>2. CASE UNCHANGED vars
  BY <1>2, ZenonT(60) DEF vars, SelectionInv, SelectionTypes, MarksTellSelection, NeverTraps,
              NoDuplicates, Selected, Contains
<1> QED
  BY <1>1, <1>2

LEMMA SelectionInvariant == OnceSpec => []SelectionInv
<1>1. SelectionInv /\ [OnceNext]_vars => SelectionInv'
  BY StepSelects
<1> QED
  BY <1>1, InitSelects, PTL DEF OnceSpec

\* The refinement of SelectionSet, step by step.
LEMMA SelectionRefines == OnceSpec => IsASelectionSet
<1>1. Init => Promise!Init
  <2> SUFFICES ASSUME Init PROVE Promise!Init
    OBVIOUS
  <2>1. SelectionInv /\ Len(itemsArray) = 0
    BY InitSelects DEF Init
  <2> QED
    BY <2>1 DEF Promise!Init, Listed, Chosen, SelectionInv, SelectionTypes
<1>2. SelectionInv /\ [OnceNext]_vars => [Promise!Next]_<<Listed, Chosen>>
  <2> SUFFICES ASSUME SelectionInv, [OnceNext]_vars
               PROVE  [Promise!Next]_<<Listed, Chosen>>
    OBVIOUS
  <2>1. /\ \A x : x \in Chosen <=> Selected(x)
        /\ \A x : x \in Chosen' <=> Selected(x)'
        /\ \A x : x \in Listed <=> Contains(itemsArray, x)
    BY DEF Chosen, Selected, Listed, Contains
  <2>2. ASSUME NEW list \in Seq(Item), OpenList(list)
        PROVE  Promise!Next
    <3>1. Chosen' = Chosen
      BY <2>2 DEF OpenList, Chosen
    <3>2. Listed' \in SUBSET Item
      BY <2>2 DEF OpenList, Listed
    <3> QED
      BY <3>1, <3>2 DEF Promise!Next, Promise!Show
  <2>3. ASSUME NEW item \in Item, NEW k \in 1..MaxCopies, Select(item, k)
        PROVE  Promise!Next
    <3>1. Listed' = Listed
      BY <2>3 DEF Select, Listed
    <3>2. item \in Listed \ Chosen
      BY <2>1, <2>3, SelectSelects
    <3>3. \A x : Selected(x)' <=> x = item \/ Selected(x)
      BY <2>3, SelectSelects
    <3>4. Chosen' = Chosen \cup {item}
      BY <2>1, <3>3
    <3> QED
      BY <3>1, <3>2, <3>4 DEF Promise!Next, Promise!Add
  <2>4. ASSUME NEW item \in Item, NEW k \in 1..MaxCopies, Deselect(item, k)
        PROVE  Promise!Next
    <3>1. Listed' = Listed
      BY <2>4 DEF Deselect, Listed
    <3>2. item \in Listed \cap Chosen
      BY <2>1, <2>4, DeselectSelects
    <3>3. \A x : Selected(x)' <=> x # item /\ Selected(x)
      BY <2>4, DeselectSelects
    <3>4. Chosen' = Chosen \ {item}
      BY <2>1, <3>3
    <3> QED
      BY <3>1, <3>2, <3>4 DEF Promise!Next, Promise!Remove
  <2>5. CASE UNCHANGED vars
    BY <2>5 DEF vars, Listed, Chosen
  <2> QED
    BY <2>2, <2>3, <2>4, <2>5 DEF OnceNext
<1> QED
  BY <1>1, <1>2, SelectionInvariant, PTL DEF OnceSpec, IsASelectionSet, Promise!Spec

-----------------------------------------------------------------------------
LEMMA SpecIsOnce ==
  ASSUME ListsNameOnce
  PROVE  Spec => OnceSpec
<1>1. [Next]_vars => [OnceNext]_vars
  BY SelectionAssumption DEF Next, OnceNext, ListsNameOnce
<1> QED
  BY <1>1, PTL DEF Spec, OnceSpec

\* Where no list names an item twice, the marks of SelectionRow tell what the
\* array of the form holds, however many items, lists and taps there are.
THEOREM MarksAgree ==
  ASSUME ListsNameOnce
  PROVE  Spec => []MarksTellSelection
<1>1. SelectionInv => MarksTellSelection
  BY DEF SelectionInv
<1> QED
  BY <1>1, SpecIsOnce, SelectionInvariant, PTL

\* Under the same condition the index that SelectionRow unwraps is never nil;
\* without it the run on project names finds the trap.
THEOREM NoTrap ==
  ASSUME ListsNameOnce
  PROVE  Spec => []NeverTraps
<1>1. SelectionInv => NeverTraps
  BY DEF SelectionInv
<1> QED
  BY <1>1, SpecIsOnce, SelectionInvariant, PTL

\* Rows, flags and array implement the set of chosen items of SelectionSet.
THEOREM RowsImplementSet ==
  ASSUME ListsNameOnce
  PROVE  Spec => IsASelectionSet
BY SpecIsOnce, SelectionRefines

-----------------------------------------------------------------------------
(* The lists of interests, which getInterests folds from all documents       *)

NamedOnce == {list \in Seq(Interest) : NoDuplicates(list)}

LEMMA AddedOnce ==
  ASSUME NEW s \in NamedOnce, NEW x \in Interest
  PROVE  /\ AppendNew(s, x) \in NamedOnce
         /\ \A y : Mentions(AppendNew(s, x), y) <=> Mentions(s, y) \/ y = x
<1>0. s \in Seq(Interest) /\ NoDuplicates(s) /\ Len(s) \in Nat
  BY DEF NamedOnce
<1>1. CASE Mentions(s, x)
  BY <1>1 DEF AppendNew
<1>2. CASE ~Mentions(s, x)
  <2> DEFINE t == Append(s, x)
  <2>1. /\ t \in Seq(Interest) /\ Len(t) = Len(s) + 1 /\ t[Len(s) + 1] = x
        /\ \A i \in 1..Len(s) : t[i] = s[i]
    BY <1>0, AppendProperties
  <2>2. AppendNew(s, x) = t
    BY <1>2 DEF AppendNew
  <2> HIDE DEF t
  <2>3. \A i \in 1..Len(t) : i \in 1..Len(s) \/ i = Len(s) + 1
    BY <1>0, <2>1
  <2>4. ASSUME NEW i \in 1..Len(t), NEW j \in 1..Len(t), t[i] = t[j]
        PROVE  i = j
    <3>1. /\ i \in 1..Len(s) \/ i = Len(s) + 1
          /\ j \in 1..Len(s) \/ j = Len(s) + 1
      BY <2>3
    <3> QED
      BY <1>0, <1>2, <2>1, <2>4, <3>1 DEF NoDuplicates, Mentions
  <2>5. ASSUME NEW y
        PROVE  Mentions(t, y) <=> Mentions(s, y) \/ y = x
    <3>1. ASSUME NEW i \in 1..Len(t), t[i] = y PROVE Mentions(s, y) \/ y = x
      <4>1. i \in 1..Len(s) \/ i = Len(s) + 1
        BY <2>3
      <4> QED
        BY <2>1, <3>1, <4>1 DEF Mentions
    <3>2. 1..Len(s) \subseteq 1..Len(t) /\ Len(s) + 1 \in 1..Len(t)
      BY <1>0, <2>1
    <3> QED
      BY <2>1, <3>1, <3>2 DEF Mentions
  <2> QED
    BY <2>1, <2>2, <2>4, <2>5 DEF NamedOnce, NoDuplicates
<1> QED
  BY <1>1, <1>2

\* The inner loop: the interests of one document.
LEMMA DocumentAdded ==
  ASSUME NEW list \in NamedOnce, NEW q \in Seq(Interest)
  PROVE  LET r == FoldLeft(AppendNew, list, q)
         IN /\ r \in NamedOnce
            /\ \A y : Mentions(r, y) <=> Mentions(list, y) \/ Mentions(q, y)
<1> DEFINE N == Len(q)
           S == NamedOnce
           I == SUBSET (1..N)
           h == [n \in 1..N |-> [s \in S |-> AppendNew(s, q[n])]]
           Folds(it) == it = [s \in I |-> IF s = {} THEN list
                                ELSE AppendNew(it[s \ {Max(s)}], q[Max(s)])]
           f == CHOOSE it : Folds(it)
<1>1. N \in Nat /\ \A n \in 1..N : q[n] \in Interest
  OBVIOUS
<1>2. ASSUME NEW n \in 1..N, NEW s \in S
      PROVE  AppendNew(s, q[n]) \in S
  BY <1>1, AddedOnce
<1>3. h \in [1..N -> [S -> S]]
  <2> HIDE DEF S, N
  <2> QED
    BY <1>2
<1>4. PICK it \in [I -> S] :
        \A s \in I : it[s] = IF s = {} THEN list ELSE h[Max(s)][it[s \ {Max(s)}]]
  <2>0. list \in S
    OBVIOUS
  <2> HIDE DEF h, N, S
  <2>1. \E it : IsFold(it, N, S, list, h)
    BY <1>1, <1>3, <2>0, FoldExists
  <2> QED
    BY <2>1 DEF IsFold
<1>5. Folds(it)
  <2>1. ASSUME NEW s \in I
        PROVE  it[s] = IF s = {} THEN list
                       ELSE AppendNew(it[s \ {Max(s)}], q[Max(s)])
    <3>1. CASE s = {}
      BY <1>4, <3>1
    <3>2. CASE s # {}
      <4>1. Max(s) \in 1..N
        BY <1>1, <3>2, GreatestIndex
      <4>2. s \ {Max(s)} \in I
        OBVIOUS
      <4>3. it[s \ {Max(s)}] \in S
        BY <1>4, <4>2
      <4>4. h[Max(s)][it[s \ {Max(s)}]] = AppendNew(it[s \ {Max(s)}], q[Max(s)])
        <5> HIDE DEF S
        <5> QED
          BY <4>1, <4>3
      <4> QED
        BY <1>4, <3>2, <4>4
    <3> QED
      BY <3>1, <3>2
  <2>2. it = [s \in I |-> it[s]]
    BY <1>4
  <2> HIDE DEF I
  <2> QED
    BY <2>1, <2>2
<1>6. Folds(f)
  <2> HIDE DEF Folds
  <2> QED
    BY <1>5
<1>7. FoldLeft(AppendNew, list, q) = f[1..N]
  <2>1. DOMAIN q = 1..N
    OBVIOUS
  <2> QED
    BY <2>1 DEF FoldLeft, MapThenFoldSet
<1>8. ASSUME NEW s \in I
      PROVE  /\ s = {} => f[s] = list
             /\ s # {} /\ f[s \ {Max(s)}] \in S =>
                  f[s] = h[Max(s)][f[s \ {Max(s)}]]
  <2>1. s # {} => Max(s) \in 1..N
    BY <1>1, GreatestIndex
  <2>2. f[s] = IF s = {} THEN list ELSE AppendNew(f[s \ {Max(s)}], q[Max(s)])
    <3> HIDE DEF f
    <3> QED
      BY <1>6
  <2> HIDE DEF f, S
  <2> QED
    BY <2>1, <2>2
<1>9. PICK w : IsRun(w, N, S, list, h) /\ w[N] = f[1..N]
  <2>0. list \in S
    OBVIOUS
  <2> HIDE DEF f, h, N, S
  <2>1. FoldsBy(f, N, S, list, h)
    BY <1>8 DEF FoldsBy
  <2>2. \E w : IsRun(w, N, S, list, h) /\ w[N] = f[1..N]
    BY <1>1, <1>3, <2>0, <2>1, FoldRuns
  <2> QED
    BY <2>2
<1> HIDE DEF f
<1>10. /\ w \in [0..N -> S] /\ w[0] = list
       /\ \A n \in 1..N : w[n] = h[n][w[n - 1]]
  BY <1>9 DEF IsRun
<1>11. ASSUME NEW n \in 1..N PROVE w[n - 1] \in S /\ w[n] = AppendNew(w[n - 1], q[n])
  <2>1. n - 1 \in 0..N
    BY <1>1
  <2>2. w[n - 1] \in S
    BY <1>10, <2>1
  <2> HIDE DEF S
  <2> QED
    BY <1>10, <2>2
<1> DEFINE Upto(n) == \A y : Mentions(w[n], y) <=>
                         Mentions(list, y) \/ \E i \in 1..n : q[i] = y
           T == {n \in Nat : n <= N => Upto(n)}
<1>12. 0 \in T
  BY <1>10
<1>13. ASSUME NEW n \in Nat, n \in T PROVE n + 1 \in T
  <2> SUFFICES ASSUME n + 1 <= N PROVE Upto(n + 1)
    OBVIOUS
  <2>1. n + 1 \in 1..N /\ (n + 1) - 1 = n /\ n <= N
    BY <1>1
  <2>2. Upto(n)
    <3> HIDE DEF Upto
    <3> QED
      BY <1>13, <2>1
  <2>3. w[n] \in NamedOnce /\ w[n + 1] = AppendNew(w[n], q[n + 1]) /\ q[n + 1] \in Interest
    BY <1>1, <1>11, <2>1
  <2>4. \A y : Mentions(w[n + 1], y) <=> Mentions(w[n], y) \/ y = q[n + 1]
    BY <2>3, AddedOnce
  <2>5. \A i : i \in 1..(n + 1) <=> i \in 1..n \/ i = n + 1
    OBVIOUS
  <2> QED
    BY <2>2, <2>4, <2>5
<1>14. Nat \subseteq T
  <2> HIDE DEF T
  <2> QED
    BY <1>12, <1>13, NatInSet
<1>15. Upto(N) /\ N \in 0..N
  <2>1. N \in T /\ N <= N
    BY <1>1, <1>14
  <2> HIDE DEF Upto, N
  <2> QED
    BY <1>1, <2>1
<1>16. w[N] \in NamedOnce
  BY <1>10, <1>15
<1> QED
  BY <1>7, <1>9, <1>15, <1>16 DEF Mentions

LEMMA DocAdded ==
  ASSUME NEW list \in NamedOnce, NEW doc, doc.interests \in Seq(Interest)
  PROVE  /\ AddAll(list, doc) \in NamedOnce
         /\ \A y : Mentions(AddAll(list, doc), y) <=>
                   Mentions(list, y) \/ Mentions(doc.interests, y)
BY DocumentAdded DEF AddAll

\* The outer loop: the interests of all documents of a collection.
LEMMA CollectionAdded ==
  ASSUME NEW D, \A d \in D : d.interests \in Seq(Interest),
         NEW list \in NamedOnce, NEW q \in Seq(D)
  PROVE  LET r == FoldLeft(AddAll, list, q)
         IN /\ r \in NamedOnce
            /\ \A y : Mentions(r, y) <=> Mentions(list, y)
                                       \/ \E i \in 1..Len(q) : Mentions(q[i].interests, y)
<1> DEFINE N == Len(q)
           S == NamedOnce
           I == SUBSET (1..N)
           h == [n \in 1..N |-> [s \in S |-> AddAll(s, q[n])]]
           Folds(it) == it = [s \in I |-> IF s = {} THEN list
                                ELSE AddAll(it[s \ {Max(s)}], q[Max(s)])]
           f == CHOOSE it : Folds(it)
<1>1. N \in Nat /\ \A n \in 1..N : q[n] \in D
  OBVIOUS
<1>2. ASSUME NEW n \in 1..N, NEW s \in S
      PROVE  AddAll(s, q[n]) \in S
  BY <1>1, DocAdded
<1>3. h \in [1..N -> [S -> S]]
  <2> HIDE DEF S, N
  <2> QED
    BY <1>2
<1>4. PICK it \in [I -> S] :
        \A s \in I : it[s] = IF s = {} THEN list ELSE h[Max(s)][it[s \ {Max(s)}]]
  <2>0. list \in S
    OBVIOUS
  <2> HIDE DEF h, N, S
  <2>1. \E it : IsFold(it, N, S, list, h)
    BY <1>1, <1>3, <2>0, FoldExists
  <2> QED
    BY <2>1 DEF IsFold
<1>5. Folds(it)
  <2>1. ASSUME NEW s \in I
        PROVE  it[s] = IF s = {} THEN list
                       ELSE AddAll(it[s \ {Max(s)}], q[Max(s)])
    <3>1. CASE s = {}
      BY <1>4, <3>1
    <3>2. CASE s # {}
      <4>1. Max(s) \in 1..N
        BY <1>1, <3>2, GreatestIndex
      <4>2. s \ {Max(s)} \in I
        OBVIOUS
      <4>3. it[s \ {Max(s)}] \in S
        BY <1>4, <4>2
      <4>4. h[Max(s)][it[s \ {Max(s)}]] = AddAll(it[s \ {Max(s)}], q[Max(s)])
        <5> HIDE DEF S
        <5> QED
          BY <4>1, <4>3
      <4> QED
        BY <1>4, <3>2, <4>4
    <3> QED
      BY <3>1, <3>2
  <2>2. it = [s \in I |-> it[s]]
    BY <1>4
  <2> HIDE DEF I
  <2> QED
    BY <2>1, <2>2
<1>6. Folds(f)
  <2> HIDE DEF Folds
  <2> QED
    BY <1>5
<1>7. FoldLeft(AddAll, list, q) = f[1..N]
  <2>1. DOMAIN q = 1..N
    OBVIOUS
  <2> QED
    BY <2>1 DEF FoldLeft, MapThenFoldSet
<1>8. ASSUME NEW s \in I
      PROVE  /\ s = {} => f[s] = list
             /\ s # {} /\ f[s \ {Max(s)}] \in S =>
                  f[s] = h[Max(s)][f[s \ {Max(s)}]]
  <2>1. s # {} => Max(s) \in 1..N
    BY <1>1, GreatestIndex
  <2>2. f[s] = IF s = {} THEN list ELSE AddAll(f[s \ {Max(s)}], q[Max(s)])
    <3> HIDE DEF f
    <3> QED
      BY <1>6
  <2> HIDE DEF f, S
  <2> QED
    BY <2>1, <2>2
<1>9. PICK w : IsRun(w, N, S, list, h) /\ w[N] = f[1..N]
  <2>0. list \in S
    OBVIOUS
  <2> HIDE DEF f, h, N, S
  <2>1. FoldsBy(f, N, S, list, h)
    BY <1>8 DEF FoldsBy
  <2>2. \E w : IsRun(w, N, S, list, h) /\ w[N] = f[1..N]
    BY <1>1, <1>3, <2>0, <2>1, FoldRuns
  <2> QED
    BY <2>2
<1> HIDE DEF f
<1>10. /\ w \in [0..N -> S] /\ w[0] = list
       /\ \A n \in 1..N : w[n] = h[n][w[n - 1]]
  BY <1>9 DEF IsRun
<1>11. ASSUME NEW n \in 1..N PROVE w[n - 1] \in S /\ w[n] = AddAll(w[n - 1], q[n])
  <2>1. n - 1 \in 0..N
    BY <1>1
  <2>2. w[n - 1] \in S
    BY <1>10, <2>1
  <2> HIDE DEF S
  <2> QED
    BY <1>10, <2>2
<1> DEFINE Upto(n) == \A y : Mentions(w[n], y) <=>
                         Mentions(list, y) \/ \E i \in 1..n : Mentions(q[i].interests, y)
           T == {n \in Nat : n <= N => Upto(n)}
<1>12. 0 \in T
  BY <1>10
<1>13. ASSUME NEW n \in Nat, n \in T PROVE n + 1 \in T
  <2> SUFFICES ASSUME n + 1 <= N PROVE Upto(n + 1)
    OBVIOUS
  <2>1. n + 1 \in 1..N /\ (n + 1) - 1 = n /\ n <= N
    BY <1>1
  <2>2. Upto(n)
    <3> HIDE DEF Upto
    <3> QED
      BY <1>13, <2>1
  <2>3. w[n] \in NamedOnce /\ w[n + 1] = AddAll(w[n], q[n + 1]) /\ q[n + 1] \in D
    BY <1>1, <1>11, <2>1
  <2>4. \A y : Mentions(w[n + 1], y) <=> Mentions(w[n], y) \/ Mentions(q[n + 1].interests, y)
    BY <2>3, DocAdded
  <2>5. \A i : i \in 1..(n + 1) <=> i \in 1..n \/ i = n + 1
    OBVIOUS
  <2> QED
    BY <2>2, <2>4, <2>5
<1>14. Nat \subseteq T
  <2> HIDE DEF T
  <2> QED
    BY <1>12, <1>13, NatInSet
<1>15. Upto(N) /\ N \in 0..N
  <2>1. N \in T /\ N <= N
    <3> HIDE DEF T, N
    <3> QED
      BY <1>1, <1>14
  <2> HIDE DEF Upto, N
  <2> QED
    BY <1>1, <2>1
<1>16. w[N] \in NamedOnce
  BY <1>10, <1>15
<1> QED
  BY <1>7, <1>9, <1>15, <1>16 DEF Mentions

\* Every interest that some document mentions is in the list, once, and nothing
\* else is.
LEMMA InterestsOnce ==
  ASSUME NEW ps \in Seq(Profile), NEW qs \in Seq(Project)
  PROVE  LET list == getInterests(ps, qs)
         IN /\ list \in Seq(Interest)
            /\ NoDuplicates(list)
            /\ \A y : Mentions(list, y) <=>
                 \/ \E i \in 1..Len(ps) : Mentions(ps[i].interests, y)
                 \/ \E i \in 1..Len(qs) : Mentions(qs[i].interests, y)
<1> DEFINE first == FoldLeft(AddAll, <<>>, ps)
           list == FoldLeft(AddAll, first, qs)
<1>1. /\ \A d \in Profile : d.interests \in Seq(Interest)
      /\ \A d \in Project : d.interests \in Seq(Interest)
  BY DEF Profile, Project
<1>2. <<>> \in NamedOnce /\ \A y : ~Mentions(<<>>, y)
  BY DEF NamedOnce, NoDuplicates, Mentions
<1>3. /\ first \in NamedOnce
      /\ \A y : Mentions(first, y) <=> Mentions(<<>>, y)
              \/ \E i \in 1..Len(ps) : Mentions(ps[i].interests, y)
  BY <1>1, <1>2, CollectionAdded
<1> HIDE DEF first
<1>4. /\ list \in NamedOnce
      /\ \A y : Mentions(list, y) <=> Mentions(first, y)
              \/ \E i \in 1..Len(qs) : Mentions(qs[i].interests, y)
  BY <1>1, <1>3, CollectionAdded
<1>5. getInterests(ps, qs) = list
  BY DEF getInterests, first
<1> HIDE DEF list
<1> QED
  BY <1>2, <1>3, <1>4, <1>5 DEF NamedOnce

\* A step of the pages is one of the rows, if no list names an item twice.
LEMMA InterestsStepIsOnce ==
  ASSUME [InterestsNext]_<<vars, snapshots>>
  PROVE  [OnceNext]_vars
<1>1. ASSUME OpenInterests PROVE OnceNext
  <2>1. PICK ps \in Seq(Profile), qs \in Seq(Project) : OpenList(getInterests(ps, qs))
    BY <1>1, PagesAssumption DEF OpenInterests
  <2> DEFINE list == getInterests(ps, qs)
  <2>2. list \in Seq(Interest) /\ NoDuplicates(list) /\ OpenList(list)
    BY <2>1, InterestsOnce
  <2> HIDE DEF list
  <2>3. list \in Seq(Item)
    BY <2>2, PagesAssumption
  <2> QED
    BY <2>2, <2>3 DEF OnceNext
<1>2. ASSUME Report PROVE UNCHANGED vars
  BY <1>2 DEF Report
<1>3. ASSUME Tap PROVE OnceNext
  BY <1>3 DEF Tap, OnceNext
<1> QED
  BY <1>1, <1>2, <1>3 DEF InterestsNext

\* The lists of interests need no condition: whatever the listeners report and
\* whenever the button is tapped, marks and array agree, no unwrapping fails,
\* and the list is a set of chosen items.
THEOREM InterestListsAgree ==
  InterestsSpec => [](MarksTellSelection /\ NeverTraps) /\ IsASelectionSet
<1>1. PagesInit => Init
  BY DEF PagesInit
<1>2. InterestsSpec => OnceSpec
  BY <1>1, InterestsStepIsOnce, PTL DEF InterestsSpec, OnceSpec
<1>3. SelectionInv => MarksTellSelection /\ NeverTraps
  BY DEF SelectionInv
<1> QED
  BY <1>2, <1>3, SelectionInvariant, SelectionRefines, PTL

\* The same of the lists of projects, as long as no two projects have one name:
\* what the run on repeated names violates.
THEOREM UniqueNamesAgree ==
  ASSUME Name \subseteq Item, \A qs \in ProjectSnapshots : NoDuplicates(getProjects(qs))
  PROVE  ProjectsSpec => [](MarksTellSelection /\ NeverTraps) /\ IsASelectionSet
<1>1. ASSUME [ProjectsNext]_<<vars, snapshots>> PROVE [OnceNext]_vars
  <2>1. ASSUME OpenProjects PROVE OnceNext
    <3>1. PICK qs \in ProjectSnapshots : OpenList(getProjects(qs))
      BY <2>1 DEF OpenProjects
    <3>2. qs \in Seq(Project)
      BY PagesAssumption
    <3>3. getProjects(qs) \in Seq(Item)
      <4>0. \A q \in Project : q.name \in Item
        BY DEF Project
      <4>1. Len(qs) \in Nat /\ \A i \in 1..Len(qs) : qs[i].name \in Item
        BY <3>2, <4>0
      <4> QED
        BY <4>1 DEF getProjects
    <3> QED
      BY <3>1, <3>3 DEF OnceNext
  <2>2. ASSUME Report PROVE UNCHANGED vars
    BY <2>2 DEF Report
  <2>3. ASSUME Tap PROVE OnceNext
    BY <2>3 DEF Tap, OnceNext
  <2> QED
    BY <1>1, <2>1, <2>2, <2>3 DEF ProjectsNext
<1>2. PagesInit => Init
  BY DEF PagesInit
<1>3. ProjectsSpec => OnceSpec
  BY <1>1, <1>2, PTL DEF ProjectsSpec, OnceSpec
<1>4. SelectionInv => MarksTellSelection /\ NeverTraps
  BY DEF SelectionInv
<1> QED
  BY <1>3, <1>4, SelectionInvariant, SelectionRefines, PTL
-----------------------------------------------------------------------------
(* What the loops over a snapshot collect                                    *)

\* One value more, from a place after all others.
LEMMA OneMore ==
  ASSUME NEW D, NEW r \in Seq(D), NEW values, NEW n \in Nat, NEW kept \in SUBSET (1..n),
         NEW x \in D, x = values[n + 1], InOrder(r, values, kept)
  PROVE  InOrder(Append(r, x), values, kept \cup {n + 1})
<1> DEFINE t == Append(r, x)
           L == Len(r)
<1>1. L \in Nat
  OBVIOUS
<1>2. Len(t) = L + 1 /\ t[L + 1] = x /\ \A i \in 1..L : t[i] = r[i]
  OBVIOUS
<1>3. PICK at \in [1..L -> kept] :
           /\ \A k \in kept : \E i \in 1..L : at[i] = k
           /\ \A i, j \in 1..L : i < j => at[i] < at[j]
           /\ \A i \in 1..L : r[i] = values[at[i]]
  BY DEF InOrder
<1> HIDE DEF t, L
<1> DEFINE to == [i \in 1..(L + 1) |-> IF i = L + 1 THEN n + 1 ELSE at[i]]
<1>4. \A i \in 1..(L + 1) : i = L + 1 \/ i \in 1..L
  BY <1>1
<1>5. /\ to[L + 1] = n + 1
      /\ \A i \in 1..L : to[i] = at[i] /\ at[i] \in kept /\ at[i] \in 1..n
      /\ 1..L \subseteq 1..(L + 1) /\ L + 1 \in 1..(L + 1)
  <2>1. 1..L \subseteq 1..(L + 1) /\ L + 1 \in 1..(L + 1) /\ \A i \in 1..L : i # L + 1
    BY <1>1
  <2>2. \A i \in 1..L : at[i] \in kept /\ at[i] \in 1..n
    BY <1>3
  <2> QED
    BY <2>1, <2>2
<1>6. to \in [1..(L + 1) -> kept \cup {n + 1}]
  BY <1>4, <1>5
<1> HIDE DEF to
<1>7. \A k \in kept \cup {n + 1} : \E i \in 1..(L + 1) : to[i] = k
  BY <1>3, <1>5
<1>8. ASSUME NEW i \in 1..(L + 1), NEW j \in 1..(L + 1), i < j PROVE to[i] < to[j]
  <2>1. i \in 1..L
    BY <1>1, <1>8
  <2>2. CASE j = L + 1
    BY <1>5, <2>1, <2>2
  <2>3. CASE j \in 1..L
    BY <1>3, <1>5, <1>8, <2>1, <2>3
  <2> QED
    BY <1>4, <2>2, <2>3
<1>9. \A i \in 1..(L + 1) : t[i] = values[to[i]]
  BY <1>2, <1>3, <1>4, <1>5
<1> QED
  BY <1>2, <1>6, <1>7, <1>8, <1>9 DEF InOrder, t

\* Such a loop finds the values at the matching places, in their order.
LEMMA Collected ==
  ASSUME NEW D, NEW values \in Seq(D), NEW matching \in SUBSET (1..Len(values))
  PROVE  /\ Collect(values, matching) \in Seq(D)
         /\ InOrder(Collect(values, matching), values, matching)
<1> DEFINE N == Len(values)
           S == Seq(D)
           I == SUBSET (1..N)
           q == [i \in DOMAIN values |-> i]
           step(s, i) == IF i \in matching THEN Append(s, values[i]) ELSE s
           h == [n \in 1..N |-> [s \in S |-> step(s, n)]]
           Folds(it) == it = [s \in I |-> IF s = {} THEN <<>>
                                ELSE step(it[s \ {Max(s)}], q[Max(s)])]
           f == CHOOSE it : Folds(it)
<1>1. /\ N \in Nat /\ \A n \in 1..N : values[n] \in D
      /\ DOMAIN q = 1..N /\ \A n \in 1..N : q[n] = n
  OBVIOUS
<1>2. ASSUME NEW n \in 1..N, NEW s \in S
      PROVE  step(s, n) \in S
  BY <1>1
<1>3. h \in [1..N -> [S -> S]] /\ <<>> \in S
  <2>1. <<>> \in S
    OBVIOUS
  <2> HIDE DEF S, N, step
  <2> QED
    BY <1>2, <2>1
<1>4. Collect(values, matching) = f[1..N]
  BY <1>1 DEF Collect, FoldLeftDomain, FoldLeft, MapThenFoldSet
<1>5. PICK it : IsFold(it, N, S, <<>>, h)
  <2> HIDE DEF h, N, S
  <2> QED
    BY <1>1, <1>3, FoldExists
<1>6. ASSUME NEW s \in I, s # {}
      PROVE  Max(s) \in 1..N /\ s \ {Max(s)} \in I
  BY <1>1, <1>6, GreatestIndex
<1>7. Folds(it)
  <2>1. ASSUME NEW s \in I
        PROVE  it[s] = IF s = {} THEN <<>> ELSE step(it[s \ {Max(s)}], q[Max(s)])
    <3>1. CASE s = {}
      BY <1>5, <3>1 DEF IsFold
    <3>2. CASE s # {}
      <4>1. Max(s) \in 1..N /\ s \ {Max(s)} \in I /\ q[Max(s)] = Max(s)
        BY <1>1, <1>6, <3>2
      <4> HIDE DEF S, N, step, q, h
      <4>2. it[s \ {Max(s)}] \in S /\ it[s] = h[Max(s)][it[s \ {Max(s)}]]
        BY <1>5, <3>2, <4>1 DEF IsFold
      <4>3. h[Max(s)][it[s \ {Max(s)}]] = step(it[s \ {Max(s)}], Max(s))
        BY <4>1, <4>2 DEF h
      <4> QED
        BY <3>2, <4>1, <4>2, <4>3
    <3> QED
      BY <3>1, <3>2
  <2>2. it = [s \in I |-> it[s]]
    <3> HIDE DEF h, S
    <3> QED
      BY <1>5 DEF IsFold
  <2> HIDE DEF I, step, q
  <2> QED
    BY <2>1, <2>2
<1>8. Folds(f)
  <2> HIDE DEF Folds
  <2> QED
    BY <1>7
<1>9. FoldsBy(f, N, S, <<>>, h)
  <2>1. ASSUME NEW s \in I
        PROVE  /\ s = {} => f[s] = <<>>
               /\ s # {} /\ f[s \ {Max(s)}] \in S =>
                    f[s] = h[Max(s)][f[s \ {Max(s)}]]
    <3>1. f[s] = IF s = {} THEN <<>> ELSE step(f[s \ {Max(s)}], q[Max(s)])
      <4> HIDE DEF f, step, q
      <4> QED
        BY <1>8
    <3>2. s # {} => Max(s) \in 1..N /\ q[Max(s)] = Max(s)
      BY <1>1, <1>6
    <3> HIDE DEF f, S, N, step, q
    <3> QED
      BY <3>1, <3>2 DEF h
  <2> HIDE DEF f, h, S, N
  <2> QED
    BY <2>1 DEF FoldsBy
<1>10. PICK w : IsRun(w, N, S, <<>>, h) /\ w[N] = f[1..N]
  <2> HIDE DEF f, h, N, S
  <2>1. N \in Nat /\ <<>> \in S
    BY <1>1, <1>3
  <2>2. \E w : IsRun(w, N, S, <<>>, h) /\ w[N] = f[1..N]
    BY <1>3, <1>9, <2>1, FoldRuns
  <2> QED
    BY <2>2
<1> HIDE DEF f, q
<1>11. /\ w \in [0..N -> S] /\ w[0] = <<>>
       /\ \A n \in 1..N : w[n - 1] \in S /\ w[n] = step(w[n - 1], n)
  <2>1. \A n \in 1..N : n - 1 \in 0..N
    BY <1>1
  <2> HIDE DEF S, step, N
  <2> QED
    BY <1>10, <2>1 DEF IsRun, h
<1> DEFINE Upto(n) == InOrder(w[n], values, matching \cap (1..n))
           T == {n \in Nat : n <= N => Upto(n)}
<1>12. 0 \in T
  <2>1. InOrder(<<>>, values, {})
    <3> DEFINE at == [i \in 1..Len(<<>>) |-> i]
    <3>1. 1..Len(<<>>) = {}
      OBVIOUS
    <3>2. at \in [1..Len(<<>>) -> {}]
      BY <3>1
    <3> HIDE DEF at
    <3> QED
      BY <3>1, <3>2 DEF InOrder
  <2>2. matching \cap (1..0) = {} /\ w[0] = <<>>
    BY <1>11
  <2> HIDE DEF N
  <2> QED
    BY <2>1, <2>2
<1>13. ASSUME NEW n \in Nat, n \in T PROVE n + 1 \in T
  <2> SUFFICES ASSUME n + 1 <= N PROVE Upto(n + 1)
    OBVIOUS
  <2>1. n + 1 \in 1..N /\ (n + 1) - 1 = n /\ n <= N
    BY <1>1
  <2>2. Upto(n)
    <3> HIDE DEF Upto
    <3> QED
      BY <1>13, <2>1
  <2>3. w[n] \in Seq(D) /\ w[n + 1] = step(w[n], n + 1) /\ values[n + 1] \in D
    BY <1>1, <1>11, <2>1
  <2>4. CASE n + 1 \in matching
    <3>1. matching \cap (1..(n + 1)) = (matching \cap (1..n)) \cup {n + 1}
      BY <2>4
    <3>2. w[n + 1] = Append(w[n], values[n + 1])
      BY <2>3, <2>4
    <3> HIDE DEF N
    <3>3. InOrder(Append(w[n], values[n + 1]), values, (matching \cap (1..n)) \cup {n + 1})
      <4> DEFINE x == values[n + 1]
                 kept == matching \cap (1..n)
      <4>1. kept \in SUBSET (1..n) /\ x \in D /\ InOrder(w[n], values, kept)
        BY <2>2, <2>3
      <4>2. x = values[n + 1]
        OBVIOUS
      <4> HIDE DEF x, kept
      <4>3. InOrder(Append(w[n], x), values, kept \cup {n + 1})
        BY <2>3, <4>1, <4>2, OneMore
      <4> QED
        BY <4>3 DEF x, kept
    <3> QED
      BY <3>1, <3>2, <3>3
  <2>5. CASE n + 1 \notin matching
    <3>1. matching \cap (1..(n + 1)) = matching \cap (1..n)
      BY <2>5
    <3>2. w[n + 1] = w[n]
      BY <2>3, <2>5
    <3> QED
      BY <2>2, <3>1, <3>2
  <2> QED
    BY <2>4, <2>5
<1>14. Nat \subseteq T
  <2> HIDE DEF T
  <2> QED
    BY <1>12, <1>13, NatInSet
<1>15. Upto(N) /\ N \in 0..N
  <2>1. N \in T /\ N <= N
    <3> HIDE DEF T
    <3> QED
      BY <1>1, <1>14
  <2> HIDE DEF Upto, N
  <2> QED
    BY <1>1, <2>1
<1>16. matching \cap (1..N) = matching
  OBVIOUS
<1> QED
  BY <1>4, <1>10, <1>11, <1>15, <1>16

LEMMA FoundElements ==
  ASSUME NEW found, NEW list, NEW places, InOrder(found, list, places)
  PROVE  Elements(found) = {list[k] : k \in places}
<1>1. PICK at \in [1..Len(found) -> places] :
           /\ \A k \in places : \E i \in 1..Len(found) : at[i] = k
           /\ \A i \in 1..Len(found) : found[i] = list[at[i]]
  BY DEF InOrder
<1>2. ASSUME NEW k \in places PROVE list[k] \in Elements(found)
  BY <1>1 DEF Elements
<1>3. ASSUME NEW i \in 1..Len(found) PROVE found[i] \in {list[k] : k \in places}
  BY <1>1
<1> QED
  BY <1>2, <1>3 DEF Elements

LEMMA ElementsOfBoth ==
  ASSUME NEW D, NEW s \in Seq(D), NEW t \in Seq(D)
  PROVE  Elements(s \o t) = Elements(s) \cup Elements(t)
<1>1. /\ Len(s) \in Nat /\ Len(t) \in Nat /\ Len(s \o t) = Len(s) + Len(t)
      /\ \A i \in 1..Len(s \o t) :
           (s \o t)[i] = IF i <= Len(s) THEN s[i] ELSE t[i - Len(s)]
  OBVIOUS
<1> DEFINE u == s \o t
<1> HIDE DEF u
<1>2. ASSUME NEW i \in 1..Len(u) PROVE u[i] \in Elements(s) \cup Elements(t)
  BY <1>1 DEF u, Elements
<1>3. ASSUME NEW i \in 1..Len(s) PROVE s[i] \in Elements(u)
  BY <1>1 DEF u, Elements
<1>4. ASSUME NEW i \in 1..Len(t) PROVE t[i] \in Elements(u)
  <2>1. Len(s) + i \in 1..Len(u) /\ ~(Len(s) + i <= Len(s)) /\ (Len(s) + i) - Len(s) = i
    BY <1>1 DEF u
  <2>2. u[Len(s) + i] = t[i]
    BY <1>1, <2>1 DEF u
  <2> QED
    BY <2>1, <2>2 DEF Elements
<1> QED
  BY <1>2, <1>3, <1>4 DEF u, Elements

LEMMA FoundOne ==
  ASSUME NEW D, NEW found \in Seq(D), NEW list, NEW k \in Nat, InOrder(found, list, {k})
  PROVE  found = <<list[k]>>
<1>1. PICK at \in [1..Len(found) -> {k}] :
           /\ \E i \in 1..Len(found) : at[i] = k
           /\ \A i, j \in 1..Len(found) : i < j => at[i] < at[j]
           /\ \A i \in 1..Len(found) : found[i] = list[at[i]]
  BY DEF InOrder
<1>2. Len(found) \in Nat /\ Len(found) # 0
  BY <1>1
<1>3. Len(found) = 1
  <2> SUFFICES ASSUME Len(found) # 1 PROVE FALSE
    OBVIOUS
  <2>0. \A n \in Nat : n # 0 /\ n # 1 => 1 \in 1..n /\ 2 \in 1..n
    OBVIOUS
  <2>1. 1 \in 1..Len(found) /\ 2 \in 1..Len(found)
    BY <1>2, <2>0
  <2>2. at[1] = k /\ at[2] = k /\ at[1] < at[2]
    BY <1>1, <2>1
  <2> QED
    BY <2>2
<1>4. at[1] = k /\ found[1] = list[k]
  BY <1>1, <1>3
<1> QED
  BY <1>3, <1>4
\* The loops of AddProjectView: where each chosen user is the email of one
\* profile, they go through the chosen users.
LEMMA ParticipantsJoined ==
  ASSUME NEW ps \in Seq(Profile), NEW s \in Seq(Email),
         \A n \in 1..Len(s) :
           Collect(getUsers(ps), {i \in 1..Len(ps) : Lower[ps[i].email] = Lower[s[n]]})
             = <<s[n]>>
  PROVE  setParticipants(ps, s) = s
<1> DEFINE N == Len(s)
           S == Seq(Email)
           I == SUBSET (1..N)
           join(d, u) ==
             d \o Collect(getUsers(ps), {i \in 1..Len(ps) : Lower[ps[i].email] = Lower[u]})
           h == [n \in 1..N |-> [d \in S |-> join(d, s[n])]]
           Folds(it) == it = [t \in I |-> IF t = {} THEN <<>>
                                ELSE join(it[t \ {Max(t)}], s[Max(t)])]
           f == CHOOSE it : Folds(it)
<1>1. N \in Nat /\ \A n \in 1..N : s[n] \in Email
  OBVIOUS
<1>2. ASSUME NEW n \in 1..N, NEW d
      PROVE  join(d, s[n]) = d \o <<s[n]>>
  OBVIOUS
<1>3. h \in [1..N -> [S -> S]] /\ <<>> \in S
  <2>1. <<>> \in S
    OBVIOUS
  <2>2. ASSUME NEW n \in 1..N, NEW d \in S PROVE join(d, s[n]) \in S
    <3>1. d \o <<s[n]>> \in S
      BY <1>1
    <3> HIDE DEF join, S
    <3> QED
      BY <1>2, <3>1
  <2> HIDE DEF S, N, join
  <2> QED
    BY <2>1, <2>2
<1>4. setParticipants(ps, s) = f[1..N]
  <2>1. DOMAIN s = 1..N
    OBVIOUS
  <2> QED
    BY <2>1 DEF setParticipants, FoldLeft, MapThenFoldSet
<1> HIDE DEF join
<1>5. PICK it : IsFold(it, N, S, <<>>, h)
  <2> HIDE DEF h, N, S
  <2> QED
    BY <1>1, <1>3, FoldExists
<1>6. ASSUME NEW t \in I, t # {}
      PROVE  Max(t) \in 1..N /\ t \ {Max(t)} \in I
  BY <1>1, <1>6, GreatestIndex
<1>7. Folds(it)
  <2>1. ASSUME NEW t \in I
        PROVE  it[t] = IF t = {} THEN <<>> ELSE join(it[t \ {Max(t)}], s[Max(t)])
    <3>1. CASE t = {}
      BY <1>5, <3>1 DEF IsFold
    <3>2. CASE t # {}
      <4>1. Max(t) \in 1..N /\ t \ {Max(t)} \in I
        BY <1>6, <3>2
      <4> HIDE DEF S, N, h
      <4>2. it[t \ {Max(t)}] \in S /\ it[t] = h[Max(t)][it[t \ {Max(t)}]]
        BY <1>5, <3>2, <4>1 DEF IsFold
      <4>3. h[Max(t)][it[t \ {Max(t)}]] = join(it[t \ {Max(t)}], s[Max(t)])
        BY <4>1, <4>2 DEF h
      <4> QED
        BY <3>2, <4>2, <4>3
    <3> QED
      BY <3>1, <3>2
  <2>2. it = [t \in I |-> it[t]]
    <3> HIDE DEF h, S
    <3> QED
      BY <1>5 DEF IsFold
  <2> HIDE DEF I
  <2> QED
    BY <2>1, <2>2
<1>8. Folds(f)
  <2> HIDE DEF Folds
  <2> QED
    BY <1>7
<1>9. FoldsBy(f, N, S, <<>>, h)
  <2>1. ASSUME NEW t \in I
        PROVE  /\ t = {} => f[t] = <<>>
               /\ t # {} /\ f[t \ {Max(t)}] \in S =>
                    f[t] = h[Max(t)][f[t \ {Max(t)}]]
    <3>1. f[t] = IF t = {} THEN <<>> ELSE join(f[t \ {Max(t)}], s[Max(t)])
      <4> HIDE DEF f
      <4> QED
        BY <1>8
    <3>2. t # {} => Max(t) \in 1..N
      BY <1>6
    <3> HIDE DEF f, S, N
    <3> QED
      BY <3>1, <3>2 DEF h
  <2> HIDE DEF f, h, S, N
  <2> QED
    BY <2>1 DEF FoldsBy
<1>10. PICK w : IsRun(w, N, S, <<>>, h) /\ w[N] = f[1..N]
  <2> HIDE DEF f, h, N, S
  <2>1. N \in Nat /\ <<>> \in S
    BY <1>1, <1>3
  <2>2. \E w : IsRun(w, N, S, <<>>, h) /\ w[N] = f[1..N]
    BY <1>3, <1>9, <2>1, FoldRuns
  <2> QED
    BY <2>2
<1> HIDE DEF f
<1>11. /\ w \in [0..N -> S] /\ w[0] = <<>>
       /\ \A n \in 1..N : w[n - 1] \in S /\ w[n] = w[n - 1] \o <<s[n]>>
  <2>1. \A n \in 1..N : n - 1 \in 0..N
    BY <1>1
  <2> HIDE DEF S, N
  <2> QED
    BY <1>2, <1>10, <2>1 DEF IsRun, h
<1> DEFINE Upto(n) == Len(w[n]) = n /\ \A i \in 1..n : w[n][i] = s[i]
           T == {n \in Nat : n <= N => Upto(n)}
<1>12. 0 \in T
  BY <1>11
<1>13. ASSUME NEW n \in Nat, n \in T PROVE n + 1 \in T
  <2> SUFFICES ASSUME n + 1 <= N PROVE Upto(n + 1)
    OBVIOUS
  <2>1. n + 1 \in 1..N /\ (n + 1) - 1 = n /\ n <= N
    BY <1>1
  <2>2. Upto(n)
    <3> HIDE DEF Upto
    <3> QED
      BY <1>13, <2>1
  <2>3. w[n] \in Seq(Email) /\ w[n + 1] = w[n] \o <<s[n + 1]>> /\ s[n + 1] \in Email
    BY <1>1, <1>11, <2>1
  <2> QED
    BY <2>2, <2>3
<1>14. Nat \subseteq T
  <2> HIDE DEF T
  <2> QED
    BY <1>12, <1>13, NatInSet
<1>15. Upto(N) /\ N \in 0..N
  <2>1. N \in T /\ N <= N
    <3> HIDE DEF T
    <3> QED
      BY <1>1, <1>14
  <2> HIDE DEF Upto, N
  <2> QED
    BY <1>1, <2>1
<1>16. w[N] \in Seq(Email)
  BY <1>11, <1>15
<1>17. w[N] = s
  BY <1>15, <1>16
<1> QED
  BY <1>4, <1>10, <1>17
-----------------------------------------------------------------------------
(* The pages, for whatever the listeners report                              *)

SnapshotTypes == profiles \in Seq(Profile) /\ projects \in Seq(Project)

LEMMA SnapshotFields ==
  ASSUME NEW ps \in Seq(Profile)
  PROVE  /\ Len(ps) \in Nat
         /\ getUsers(ps) \in Seq(Email) /\ pictures(ps) \in Seq(Picture)
         /\ Len(getUsers(ps)) = Len(ps) /\ Len(pictures(ps)) = Len(ps)
         /\ \A i \in 1..Len(ps) :
              /\ ps[i].email \in Email /\ ps[i].interests \in Seq(Interest)
              /\ getUsers(ps)[i] = ps[i].email /\ pictures(ps)[i] = ps[i].picture
<1>1. \A p \in Profile : /\ p.email \in Email /\ p.interests \in Seq(Interest)
                         /\ p.picture \in Picture
  BY DEF Profile
<1>2. Len(ps) \in Nat /\ \A i \in 1..Len(ps) : ps[i] \in Profile
  OBVIOUS
<1>3. \A i \in 1..Len(ps) : /\ ps[i].email \in Email /\ ps[i].interests \in Seq(Interest)
                            /\ ps[i].picture \in Picture
  BY <1>1, <1>2
<1> QED
  BY <1>2, <1>3 DEF getUsers, pictures

\* A place that is the only one of its email is found by it, in any spelling.
LEMMA OwnPlace ==
  ASSUME NEW ps \in Seq(Profile),
         NoDuplicates([i \in 1..Len(getUsers(ps)) |-> Lower[getUsers(ps)[i]]]),
         NEW k \in 1..Len(ps)
  PROVE  {i \in 1..Len(ps) : Lower[ps[i].email] = Lower[ps[k].email]} = {k}
<1> DEFINE low == [i \in 1..Len(getUsers(ps)) |-> Lower[getUsers(ps)[i]]]
<1>1. Len(low) = Len(ps) /\ \A i \in 1..Len(ps) : low[i] = Lower[ps[i].email]
  BY SnapshotFields
<1>2. \A i, j \in 1..Len(ps) : low[i] = low[j] => i = j
  BY <1>1 DEF NoDuplicates
<1> HIDE DEF low
<1> QED
  BY <1>1, <1>2

LEMMA SpellingOfSnapshots == SnapshotTypes => SpellingDoesNotMatter
<1>1. ASSUME SnapshotTypes PROVE SpellingDoesNotMatter
  <2> DEFINE users == getUsers(profiles)
             Own(e) == {i \in 1..Len(profiles) : Lower[profiles[i].email] = Lower[e]}
  <2> SUFFICES ASSUME NoDuplicates([i \in 1..Len(users) |-> Lower[users[i]]])
      PROVE  /\ \A p \in Elements(profiles), q \in Elements(profiles) \cup {<<>>} :
                  getUserProfile(profiles, Lower[p.email], q) = p
             /\ \A s \in ShortSeq(Elements(users), MaxChosen) :
                  NoDuplicates(s) => setParticipants(profiles, s) = s
             /\ \A p, q \in Elements(profiles) : imageName(p) = imageName(q) => p = q
    BY DEF SpellingDoesNotMatter
  <2>1. profiles \in Seq(Profile) /\ Len(profiles) \in Nat
    BY <1>1 DEF SnapshotTypes
  <2>2. \A k \in 1..Len(profiles) : Own(profiles[k].email) = {k}
    BY <2>1, OwnPlace
  <2>3. ASSUME NEW p \in Elements(profiles), NEW q \in Elements(profiles) \cup {<<>>}
        PROVE  getUserProfile(profiles, Lower[p.email], q) = p
    <3>1. PICK k \in 1..Len(profiles) : p = profiles[k]
      BY DEF Elements
    <3>2. {i \in 1..Len(profiles) : Lower[profiles[i].email] = Lower[p.email]} = {k}
      BY <2>2, <3>1
    <3>3. (CHOOSE i \in {k} : \A j \in {k} : i <= j) = k
      BY <2>1
    <3> QED
      BY <3>1, <3>2, <3>3 DEF getUserProfile
  <2>4. ASSUME NEW s \in ShortSeq(Elements(users), MaxChosen)
        PROVE  setParticipants(profiles, s) = s
    <3>1. s \in Seq(Elements(users))
      BY DEF ShortSeq
    <3>2. \A n \in 1..Len(s) : \E k \in 1..Len(profiles) : s[n] = users[k]
      BY <2>1, <3>1, SnapshotFields DEF Elements
    <3>3. s \in Seq(Email)
      <4>1. \A k \in 1..Len(profiles) : users[k] \in Email
        BY <2>1, SnapshotFields
      <4> HIDE DEF users
      <4>2. \A n \in 1..Len(s) : s[n] \in Email
        BY <3>2, <4>1
      <4>3. Len(s) \in Nat /\ s = [n \in 1..Len(s) |-> s[n]]
        BY <3>1
      <4> QED
        BY <4>2, <4>3
    <3> HIDE DEF users, Own
    <3>4. ASSUME NEW n \in 1..Len(s) PROVE Collect(users, Own(s[n])) = <<s[n]>>
      <4>1. PICK k \in 1..Len(profiles) : s[n] = users[k]
        BY <3>2
      <4>2. users[k] = profiles[k].email /\ k \in 1..Len(users) /\ users \in Seq(Email)
        BY <2>1, SnapshotFields DEF users
      <4>3. Own(s[n]) = {k}
        BY <2>2, <4>1, <4>2
      <4>4. /\ Collect(users, {k}) \in Seq(Email)
            /\ InOrder(Collect(users, {k}), users, {k})
        BY <4>2, Collected
      <4>5. Collect(users, {k}) = <<users[k]>>
        <5>1. k \in Nat
          BY <2>1
        <5> QED
          BY <4>4, <5>1, FoundOne
      <4> QED
        BY <4>1, <4>3, <4>5
    <3> QED
      BY <2>1, <3>3, <3>4, ParticipantsJoined DEF users, Own
  <2>5. ASSUME NEW p \in Elements(profiles), NEW q \in Elements(profiles),
               imageName(p) = imageName(q)
        PROVE  p = q
    <3>1. PICK i \in 1..Len(profiles), j \in 1..Len(profiles) :
               p = profiles[i] /\ q = profiles[j]
      BY DEF Elements
    <3>2. Own(profiles[i].email) = {i} /\ Own(profiles[j].email) = {j}
      BY <2>2
    <3>3. Own(profiles[i].email) = Own(profiles[j].email)
      BY <2>5, <3>1 DEF imageName
    <3> QED
      BY <3>1, <3>2, <3>3
  <2> QED
    BY <2>3, <2>4, <2>5
<1> QED
  BY <1>1
\* A profile is on the card of the interests that it mentions.
LEMMA OnCards ==
  ASSUME NEW p \in Profile, NEW x
  PROVE  p.picture \in Elements(getProfilesAndProjects(<<p>>, <<>>, x)) <=>
         Mentions(p.interests, x)
<1> DEFINE ps == <<p>>
           qs == <<>>
           Having(docs) == {i \in 1..Len(docs) : Mentions(docs[i].interests, x)}
           first == Collect(pictures(ps), Having(ps))
           second == Collect(pictures(qs), Having(qs))
<1>1. /\ ps \in Seq(Profile) /\ Len(ps) = 1 /\ ps[1] = p
      /\ qs \in Seq(Profile) /\ Len(qs) = 0
  OBVIOUS
<1>2. /\ pictures(ps) \in Seq(Picture) /\ Len(pictures(ps)) = 1
      /\ pictures(ps)[1] = p.picture
      /\ pictures(qs) \in Seq(Picture) /\ Len(pictures(qs)) = 0
  <2>1. 1 \in 1..Len(ps)
    BY <1>1
  <2> HIDE DEF ps, qs
  <2> QED
    BY <1>1, <2>1, SnapshotFields
<1>3. /\ Having(ps) \in SUBSET (1..Len(pictures(ps)))
      /\ 1 \in Having(ps) <=> Mentions(p.interests, x)
      /\ Having(qs) = {}
  BY <1>1, <1>2
<1>4. getProfilesAndProjects(ps, qs, x) = first \o second
  BY DEF getProfilesAndProjects
<1> HIDE DEF Having, ps, qs
<1>5. /\ first \in Seq(Picture) /\ InOrder(first, pictures(ps), Having(ps))
      /\ second \in Seq(Picture) /\ InOrder(second, pictures(qs), Having(qs))
  <2>1. Having(qs) \in SUBSET (1..Len(pictures(qs)))
    BY <1>3
  <2>2. first \in Seq(Picture) /\ InOrder(first, pictures(ps), Having(ps))
    BY <1>2, <1>3, Collected
  <2>3. second \in Seq(Picture) /\ InOrder(second, pictures(qs), Having(qs))
    BY <1>2, <2>1, Collected
  <2> QED
    BY <2>2, <2>3
<1> HIDE DEF first, second
<1>6. /\ Elements(first) = {pictures(ps)[k] : k \in Having(ps)}
      /\ Elements(second) = {}
  <2>1. Elements(second) = {pictures(qs)[k] : k \in Having(qs)}
    BY <1>5, FoundElements
  <2>2. Elements(first) = {pictures(ps)[k] : k \in Having(ps)}
    BY <1>5, FoundElements
  <2> QED
    BY <1>3, <2>1, <2>2
<1>7. Elements(first \o second) = Elements(first) \cup Elements(second)
  BY <1>5, ElementsOfBoth
<1>8. \A k \in Having(ps) : k = 1
  BY <1>2, <1>3
<1>9. Elements(first \o second) =
        IF Mentions(p.interests, x) THEN {p.picture} ELSE {}
  <2>1. Having(ps) = IF Mentions(p.interests, x) THEN {1} ELSE {}
    BY <1>3, <1>8
  <2>2. Elements(first) = IF Mentions(p.interests, x) THEN {p.picture} ELSE {}
    BY <1>2, <1>6, <2>1
  <2> QED
    BY <1>6, <1>7, <2>2
<1> QED
  BY <1>4, <1>9 DEF ps, qs

LEMMA PagesOfSnapshots == SnapshotTypes => PagesAgree
<1> SUFFICES ASSUME SnapshotTypes PROVE PagesAgree
  OBVIOUS
<1> DEFINE all == getInterests(profiles, projects)
           Sharing(is) == {i \in 1..Len(profiles) : SharesAny(profiles[i], is)}
           OnCard(p, x) ==
             p.picture \in Elements(getProfilesAndProjects(<<p>>, <<>>, x))
<1>1. /\ profiles \in Seq(Profile) /\ projects \in Seq(Project) /\ Len(profiles) \in Nat
      /\ \A i \in 1..Len(profiles) : profiles[i] \in Profile
  BY DEF SnapshotTypes
<1>2. ASSUME NEW is
      PROVE  /\ getProfiles(profiles, is) \in Seq(Profile)
             /\ InOrder(getProfiles(profiles, is), profiles, Sharing(is))
  BY <1>1, Collected DEF getProfiles
<1>3. /\ \A y : Mentions(all, y) <=>
              \/ \E i \in 1..Len(profiles) : Mentions(profiles[i].interests, y)
              \/ \E i \in 1..Len(projects) : Mentions(projects[i].interests, y)
  BY <1>1, InterestsOnce
<1> HIDE DEF all, OnCard
<1>4. ASSUME NEW is \in ShortSeq(Elements(all), MaxChosen)
      PROVE  Elements(getProfiles(profiles, is)) =
               {p \in Elements(profiles) : \E x \in Elements(is) : OnCard(p, x)}
  <2>1. Elements(getProfiles(profiles, is)) = {profiles[k] : k \in Sharing(is)}
    <3> HIDE DEF Sharing
    <3> DEFINE found == getProfiles(profiles, is)
               places == Sharing(is)
    <3>1. InOrder(found, profiles, places)
      BY <1>2
    <3> HIDE DEF found, places
    <3>2. Elements(found) = {profiles[k] : k \in places}
      BY <3>1, FoundElements
    <3> QED
      BY <3>2 DEF found, places
  <2>2. ASSUME NEW i \in 1..Len(profiles)
        PROVE  i \in Sharing(is) <=> \E x \in Elements(is) : OnCard(profiles[i], x)
    <3>1. i \in Sharing(is) <=> \E x \in Elements(is) : Mentions(profiles[i].interests, x)
      BY DEF SharesAny, Elements
    <3>2. \A x : OnCard(profiles[i], x) <=> Mentions(profiles[i].interests, x)
      BY <1>1, OnCards DEF OnCard
    <3> QED
      BY <3>1, <3>2
  <2>3. Elements(profiles) = {profiles[i] : i \in 1..Len(profiles)}
    BY DEF Elements
  <2>4. Sharing(is) \subseteq 1..Len(profiles)
    OBVIOUS
  <2> HIDE DEF Sharing
  <2> QED
    BY <2>1, <2>2, <2>3, <2>4
<1>5. Sharing(all) = {i \in 1..Len(profiles) : profiles[i].interests # <<>>}
  <2> SUFFICES ASSUME NEW i \in 1..Len(profiles)
      PROVE  SharesAny(profiles[i], all) <=> profiles[i].interests # <<>>
    OBVIOUS
  <2> DEFINE q == profiles[i].interests
  <2>1. q \in Seq(Interest)
    BY <1>1, SnapshotFields
  <2>2. ASSUME q # <<>> PROVE SharesAny(profiles[i], all)
    <3>1. 1 \in 1..Len(q)
      BY <2>1, <2>2
    <3>2. Mentions(q, q[1])
      BY <3>1 DEF Mentions
    <3>3. Mentions(all, q[1])
      BY <1>3, <3>2
    <3> QED
      BY <3>2, <3>3 DEF SharesAny, Mentions
  <2>3. ASSUME q = <<>> PROVE ~SharesAny(profiles[i], all)
    BY <2>3 DEF SharesAny, Mentions
  <2> QED
    BY <2>2, <2>3
<1>6. InOrder(getProfiles(profiles, all), profiles,
              {i \in 1..Len(profiles) : profiles[i].interests # <<>>})
  BY <1>2, <1>5
<1> QED
  BY <1>4, <1>6 DEF PagesAgree, all, OnCard

\* ProfileCard finds the picture of a project of that name, if there is one.
LEMMA ProjectFound ==
  ASSUME NEW qs \in Seq(Project), NEW n
  PROVE  LET named == {q \in Elements(qs) : q.name = n}
         IN /\ named = {} => getProject(qs, n) = NoPicture
            /\ named # {} => \E q \in named : getProject(qs, n) = q.picture
<1> DEFINE places == {i \in 1..Len(qs) : qs[i].name = n}
           least == CHOOSE i \in places : \A j \in places : i <= j
           named == {q \in Elements(qs) : q.name = n}
<1>1. places \subseteq Nat
  OBVIOUS
<1>2. getProject(qs, n) = IF places = {} THEN NoPicture ELSE qs[least].picture
  BY DEF getProject
<1>3. named = {qs[i] : i \in places}
  BY DEF Elements
<1>4. ASSUME places # {} PROVE least \in places
  <2> HIDE DEF places
  <2> QED
    BY <1>1, <1>4, LeastOfNat
<1> HIDE DEF places, least, named
<1> QED
  BY <1>2, <1>3, <1>4 DEF named

LEMMA CardsOfSnapshots == SnapshotTypes => CardsAgree
<1> SUFFICES ASSUME SnapshotTypes PROVE CardsAgree
  OBVIOUS
<1>1. profiles \in Seq(Profile) /\ projects \in Seq(Project)
  BY DEF SnapshotTypes
<1> SUFFICES ASSUME NEW n \in Name
    PROVE  LET named == {q \in Elements(projects) : q.name = n}
               lookUp == {i \in 1..Len(profiles) : n \in Elements(profiles[i].projects)}
           IN /\ InOrder(getParticipants(profiles, n), pictures(profiles), lookUp)
              /\ named = {} => getProject(projects, n) = NoPicture
              /\ named # {} => \E q \in named : getProject(projects, n) = q.picture
  BY DEF CardsAgree
<1> DEFINE lookUp == {i \in 1..Len(profiles) : n \in Elements(profiles[i].projects)}
           taking == {i \in 1..Len(profiles) : Mentions(profiles[i].projects, n)}
<1>2. lookUp = taking
  BY DEF Elements, Mentions
<1>3. taking \in SUBSET (1..Len(pictures(profiles))) /\ pictures(profiles) \in Seq(Picture)
  BY <1>1, SnapshotFields
<1>4. getParticipants(profiles, n) = Collect(pictures(profiles), taking)
  BY DEF getParticipants
<1> HIDE DEF taking
<1>5. InOrder(Collect(pictures(profiles), taking), pictures(profiles), taking)
  BY <1>3, Collected
<1> QED
  BY <1>1, <1>2, <1>4, <1>5, ProjectFound

\* What the listeners report has these types, whichever lists are opened.
LEMMA SnapshotsTyped == InterestsSpec \/ ProjectsSpec => []SnapshotTypes
<1>1. PagesInit => SnapshotTypes
  BY DEF PagesInit, SnapshotTypes
<1>2. SnapshotTypes /\ [InterestsNext]_<<vars, snapshots>> => SnapshotTypes'
  BY PagesAssumption
     DEF SnapshotTypes, InterestsNext, Report, OpenInterests, Tap, snapshots
<1>3. SnapshotTypes /\ [ProjectsNext]_<<vars, snapshots>> => SnapshotTypes'
  BY PagesAssumption
     DEF SnapshotTypes, ProjectsNext, Report, OpenProjects, Tap, snapshots
<1> QED
  BY <1>1, <1>2, <1>3, PTL DEF InterestsSpec, ProjectsSpec

\* However many profiles, addresses and chosen participants there are, the
\* spelling of the addresses does not matter, as long as no two profiles have
\* the same address in two spellings.
THEOREM SpellingHarmless == InterestsSpec \/ ProjectsSpec => []SpellingDoesNotMatter
BY SnapshotsTyped, SpellingOfSnapshots, PTL

\* The filter, the cards of interests and the list of all interests agree, for
\* any snapshots and any number of chosen interests.
THEOREM PagesAlwaysAgree == InterestsSpec \/ ProjectsSpec => []PagesAgree
BY SnapshotsTyped, PagesOfSnapshots, PTL

\* The cards of projects and those of profiles agree, for any snapshots.
THEOREM CardsAlwaysAgree == InterestsSpec \/ ProjectsSpec => []CardsAgree
BY SnapshotsTyped, CardsOfSnapshots, PTL
=============================================================================
