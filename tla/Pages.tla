-------------------------------- MODULE Pages --------------------------------
(***************************************************************************)
(* The pages that show the two collections, and the selection lists that   *)
(* the forms fill from them while new snapshots keep arriving.  What the   *)
(* functions of Directory make of the snapshots is compared here with      *)
(* definitions that do not follow the loops of the code.                   *)
(***************************************************************************)
EXTENDS SelectionRows, Directory

CONSTANTS
  ProfileSnapshots,  \* what the listener of "profiles" may report
  ProjectSnapshots,  \* and that of "projects"
  MaxChosen          \* bound on what is chosen in the properties

ASSUME PagesAssumption ==
  /\ ProfileSnapshots \subseteq Seq(Profile)
  /\ ProjectSnapshots \subseteq Seq(Project)
  /\ Interest \subseteq Item
  /\ MaxChosen \in Nat

VARIABLES
  profiles,  \* ProfilesViewModel.profiles
  projects   \* ProjectsViewModel.projects

snapshots == <<profiles, projects>>

PagesInit == Init /\ profiles = <<>> /\ projects = <<>>

\* The listeners report, and the pages show it.
Report ==
  /\ profiles' \in ProfileSnapshots /\ projects' \in ProjectSnapshots
  /\ UNCHANGED vars

\* The button beside "Interests", on the snapshots that are the latest by then.
OpenInterests ==
  /\ profiles' \in ProfileSnapshots /\ projects' \in ProjectSnapshots
  /\ OpenList(getInterests(profiles', projects'))

\* The button beside "Projects" of EditProfileView.
OpenProjects ==
  /\ UNCHANGED profiles /\ projects' \in ProjectSnapshots
  /\ OpenList(getProjects(projects'))

Tap ==
  /\ \E item \in Item, k \in 1..MaxCopies : Select(item, k) \/ Deselect(item, k)
  /\ UNCHANGED snapshots

InterestsNext == Report \/ OpenInterests \/ Tap
InterestsSpec == PagesInit /\ [][InterestsNext]_<<vars, snapshots>>

ProjectsNext == Report \/ OpenProjects \/ Tap
ProjectsSpec == PagesInit /\ [][ProjectsNext]_<<vars, snapshots>>

-----------------------------------------------------------------------------
(* Properties *)

Elements(list) == {list[i] : i \in 1..Len(list)}
ShortSeq(S, n) == UNION {[1..k -> S] : k \in 0..n}

\* found lists what list has at the given places, in its order.
InOrder(found, list, places) ==
  \E at \in [1..Len(found) -> places] :
    /\ \A k \in places : \E i \in 1..Len(found) : at[i] = k
    /\ \A i, j \in 1..Len(found) : i < j => at[i] < at[j]
    /\ \A i \in 1..Len(found) : found[i] = list[at[i]]

\* As long as each address is used in one spelling only, the spelling does not
\* matter, although the functions lower the case on one side, on both or on
\* none: every user finds the own profile and no other, the participants chosen
\* in the list are those whose documents get the project, each once and in their
\* order, and no two profiles have the same image.
SpellingDoesNotMatter ==
  LET users == getUsers(profiles)
      chosen == {s \in ShortSeq(Elements(users), MaxChosen) : NoDuplicates(s)}
  IN NoDuplicates([i \in 1..Len(users) |-> Lower[users[i]]]) =>
       /\ \A p \in Elements(profiles), q \in Elements(profiles) \cup {<<>>} :
            getUserProfile(profiles, Lower[p.email], q) = p
       /\ \A s \in chosen : setParticipants(profiles, s) = s
       /\ \A p, q \in Elements(profiles) : imageName(p) = imageName(q) => p = q

\* The pages agree with each other: whoever the filter finds for some interests
\* is on the card of one of them, and the other way round; the filter with all
\* listed interests finds everybody who has an interest, in the order of the
\* snapshot.
PagesAgree ==
  LET all == getInterests(profiles, projects)
      OnCard(p, x) ==
        p.picture \in Elements(getProfilesAndProjects(<<p>>, <<>>, x))
  IN /\ \A is \in ShortSeq(Elements(all), MaxChosen) :
          Elements(getProfiles(profiles, is)) =
            {p \in Elements(profiles) : \E x \in Elements(is) : OnCard(p, x)}
     /\ InOrder(getProfiles(profiles, all), profiles,
                {i \in 1..Len(profiles) : profiles[i].interests # <<>>})

\* The cards of two collections that nothing ties together agree: a project card
\* shows the pictures of exactly the profiles on whose cards the project is
\* looked up, in their order, and what these cards then show is the picture of
\* that project if its name is the only one of its kind, and of one of its
\* namesakes otherwise.
CardsAgree ==
  \A n \in Name :
    LET named == {q \in Elements(projects) : q.name = n}
        lookUp == {i \in 1..Len(profiles) : n \in Elements(profiles[i].projects)}
    IN /\ InOrder(getParticipants(profiles, n), pictures(profiles), lookUp)
       /\ named = {} => getProject(projects, n) = NoPicture
       /\ named # {} => \E q \in named : getProject(projects, n) = q.picture
=============================================================================
