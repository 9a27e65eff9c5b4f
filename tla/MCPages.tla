------------------------------- MODULE MCPages -------------------------------
(* Every pair of small snapshots, and on the smallest of them the lists.       *)
EXTENDS Pages, FiniteSets

CONSTANTS e1, E1, e2, PictureOf1, PictureOf2

\* E1 is e1 typed with a capital letter.
LowerCase == [e \in {e1, E1, e2} |-> IF e = E1 THEN e1 ELSE e]

\* A collection keyed by email: at most one profile for each.
ProfilesOf(e, p, n) ==
  {[email |-> e, interests |-> is, projects |-> ns, picture |-> p] :
     is \in ShortSeq(Interest, n), ns \in ShortSeq(Name, 1)}

SmallProfileSnapshots ==
  LET one == ProfilesOf(e1, PictureOf1, 2)
      capital == ProfilesOf(E1, PictureOf1, 0)
      two == ProfilesOf(e2, PictureOf2, 1)
  IN {<<>>} \cup {<<p>> : p \in one \cup two}
            \cup {<<p, q>> : p \in one \cup capital, q \in two}

\* A collection keyed by UUID: names may repeat.
OneProject == {[name |-> n, interests |-> is, picture |-> p] :
                    n \in Name, is \in ShortSeq(Interest, 1), p \in Picture}
SmallProjectSnapshots == ShortSeq(OneProject, 2)

\* The snapshots on which lists are opened.
Smallest(ps, qs) ==
  /\ Len(ps) <= 1 /\ \A i \in 1..Len(ps) : ps[i].projects = <<>>
  /\ Len(qs) <= 1 /\ \A i \in 1..Len(qs) : qs[i].picture = NoPicture

\* Nothing is listed twice among interests; project names may be.
InterestLists == {list \in ShortSeq(Item, 3) : NoDuplicates(list)}
ProjectLists == ShortSeq(Name, 2)

\* The first report may be of any snapshots; afterwards only the smallest come,
\* each with the opening of a list.
ReportFirst ==
  /\ snapshots = <<<<>>, <<>>>> /\ itemsArray = <<>> /\ selectedArray = <<>>
  /\ Report

OpenOnSmallest ==
  /\ Smallest(profiles, projects)
  /\ profiles' \in ShortSeq(ProfilesOf(e1, PictureOf1, 2), 1)
  /\ projects' \in ShortSeq(OneProject, 1)
  /\ Smallest(profiles', projects')
  /\ OpenInterests

MCInterestsSpec ==
  PagesInit /\ [][ReportFirst \/ OpenOnSmallest \/ Tap]_<<vars, snapshots>>

\* The lists of projects do not depend on profiles.
MCProjectsSpec == PagesInit /\ [][OpenProjects \/ Tap]_<<vars, snapshots>>
=============================================================================
