------------------------------ MODULE Directory ------------------------------
(***************************************************************************)
(* What the pages and the selection lists compute from the latest          *)
(* snapshots of the collections "profiles" and "projects": which interests *)
(* exist, who shares one of them, who takes part in a project.  Snapshots  *)
(* are sequences, in the order in which the listener reports documents.    *)
(***************************************************************************)
EXTENDS Naturals, Sequences, SequencesExt

CONSTANTS
  Interest,   \* interests
  Name,       \* project names
  Email,      \* emails of profiles
  Picture,    \* picture URLs
  NoPicture,  \* the empty URL
  Lower       \* Lower[e]: the email e in lower case, as Auth and Storage use it

Profile == [email : Email, interests : Seq(Interest), projects : Seq(Name),
            picture : Picture]
Project == [name : Name, interests : Seq(Interest), picture : Picture]

Mentions(list, x) == \E i \in 1..Len(list) : list[i] = x

\* Mistake: no test whether the interest is in the list already.
AppendAlways(list, x) == Append(list, x)

AppendNew(list, x) == IF Mentions(list, x) THEN list ELSE Append(list, x)

AddAll(list, doc) == FoldLeft(AppendNew, list, doc.interests)

\* The list of interests behind every "plus" button: first those of the
\* profiles, then those of the projects.
getInterests(profiles, projects) ==
  FoldLeft(AddAll, FoldLeft(AddAll, <<>>, profiles), projects)

\* The list of a profile's possible projects, and of a project's participants.
getProjects(projects) == [i \in 1..Len(projects) |-> projects[i].name]
getUsers(profiles) == [i \in 1..Len(profiles) |-> profiles[i].email]

pictures(docs) == [i \in 1..Len(docs) |-> docs[i].picture]

\* The loops over a snapshot that append what they find: the values at the
\* places that match, one after the other.
Collect(values, matching) ==
  LET Visit(found, i) == IF i \in matching THEN Append(found, values[i]) ELSE found
  IN FoldLeftDomain(Visit, <<>>, values)

\* Mistake: the email is compared as it was typed.
getUserProfileAsTyped(profiles, current, shown) ==
  LET own == {i \in 1..Len(profiles) : profiles[i].email = current}
  IN IF own = {} THEN shown
     ELSE profiles[CHOOSE i \in own : \A j \in own : i <= j]

\* HomeView: the first profile whose email is that of the signed-in user, which
\* Auth has in lower case; while there is none, the profile shown before.
getUserProfile(profiles, current, shown) ==
  LET own == {i \in 1..Len(profiles) : Lower[profiles[i].email] = current}
  IN IF own = {} THEN shown
     ELSE profiles[CHOOSE i \in own : \A j \in own : i <= j]

\* AddProjectView: the documents that get the project, in the order of writing.
setParticipants(profiles, selected) ==
  LET Own(user) == {i \in 1..Len(profiles) : Lower[profiles[i].email] = Lower[user]}
      Join(done, user) == done \o Collect(getUsers(profiles), Own(user))
  IN FoldLeft(Join, <<>>, selected)

\* EditProfileView and ProfilesViewModel: the name of a profile's image.
imageName(profile) == Lower[profile.email]

\* Mistake: only the last of the chosen interests counts.
SharesLast(profile, interests) ==
  interests # <<>> /\ Mentions(profile.interests, Last(interests))

SharesAny(profile, interests) ==
  \E i \in 1..Len(interests) : Mentions(profile.interests, interests[i])

\* FilterView: the profiles with at least one of the chosen interests.
getProfiles(profiles, interests) ==
  Collect(profiles, {i \in 1..Len(profiles) : SharesAny(profiles[i], interests)})

\* ProjectCard: the pictures of the profiles that name the project.
getParticipants(profiles, project) ==
  Collect(pictures(profiles),
          {i \in 1..Len(profiles) : Mentions(profiles[i].projects, project)})

\* Mistake: the search ends at the first project, whatever its name.
getProjectAtOnce(projects, name) ==
  IF projects # <<>> /\ projects[1].name = name THEN projects[1].picture
  ELSE NoPicture

\* ProfileCard: the picture of the first project of that name.
getProject(projects, name) ==
  LET named == {i \in 1..Len(projects) : projects[i].name = name}
  IN IF named = {} THEN NoPicture
     ELSE projects[CHOOSE i \in named : \A j \in named : i <= j].picture

\* InterestCard: the pictures of profiles, then of projects, with an interest.
getProfilesAndProjects(profiles, projects, interest) ==
  LET Having(docs) == {i \in 1..Len(docs) : Mentions(docs[i].interests, interest)}
  IN Collect(pictures(profiles), Having(profiles))
       \o Collect(pictures(projects), Having(projects))
=============================================================================
