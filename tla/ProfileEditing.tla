---------------------------- MODULE ProfileEditing ----------------------------
(***************************************************************************)
(* A user's profile from the "My Profile" button to the server: HomeView   *)
(* picks the profile to edit, EditProfileView edits a copy of it, Done     *)
(* saves the whole copy and starts the upload of a new picture, the        *)
(* upload's callback saves the copy again and asks for the picture's URL,  *)
(* and the URL's callback writes the URL alone.  Meanwhile AddProjectView, *)
(* here or on another device, adds projects to the same documents, users   *)
(* sign out and in, and the app is killed and started again.               *)
(***************************************************************************)
EXTENDS Firestore

CONSTANTS
  Placeholder,      \* email of the profile HomeView holds before any other: "a"
  NoForm,           \* EditProfileView is not on screen
  NoOwner,          \* an image that nobody has picked so far
  NoUrl,            \* a download-URL request that has no answer yet
  MaxParticipants   \* bound on the participants chosen for one project

ASSUME ProfileAssumption ==
  /\ User \subseteq Path
  /\ Placeholder \in Path \ User
  /\ NoForm \notin [email : Path, doc : Doc]
  /\ NoOwner \notin Path
  /\ NoUrl \notin Picture
  /\ MaxParticipants \in Nat

VARIABLES
  listening,  \* listening[d]: HomeView's fetchData has added its listener
  profiles,   \* profiles[d]: ProfilesViewModel.profiles of HomeView, by path
  shown,      \* shown[d]: HomeView.profile
  form,       \* form[d]: EditProfileView.profile, or NoForm
  uploads,    \* uploads[d]: putData calls whose callback has not run
  urlCalls,   \* urlCalls[d]: downloadURL calls whose callback has not run
  object,     \* object[e]: the image stored at profileImages/e.jpg
  owner,      \* history: owner[i], the profile that image i was picked for
  visited     \* history: visited[d], the accounts that signed in on d

appVars == <<listening, profiles, shown, form, uploads, urlCalls>>
storageVars == <<object, owner>>
vars == <<firestoreVars, appVars, storageVars, visited>>

Profile == [email : Path, doc : Doc]
Upload == [profile : Profile, image : Picture, stored : BOOLEAN]
UrlCall == [email : Path, image : Picture, reply : Picture \cup {NoUrl}]

PlaceholderProfile == [email |-> Placeholder, doc |-> BlankDoc]

Init ==
  /\ server \in [Path -> {BlankDoc, NoDoc}]
  /\ server[Placeholder] = NoDoc
  /\ user = [d \in Device |-> NoUser]
  /\ queue = [d \in Device |-> [u \in Credential |-> <<>>]]
  /\ delivered = [d \in Device |-> 0]
  /\ observed = [d \in Device |-> 0]
  /\ cache = [d \in Device |-> [p \in Path |-> NoDoc]]
  /\ listening = [d \in Device |-> FALSE]
  /\ profiles = [d \in Device |-> [p \in Path |-> NoDoc]]
  /\ shown = [d \in Device |-> PlaceholderProfile]
  /\ form = [d \in Device |-> NoForm]
  /\ uploads = [d \in Device |-> {}]
  /\ urlCalls = [d \in Device |-> {}]
  /\ object = [p \in Path |-> NoPicture]
  /\ owner = [i \in Picture |-> NoOwner]
  /\ visited = [d \in Device |-> {}]

-----------------------------------------------------------------------------
(* Session *)

\* The auth listener sets the session: HomeView appears and starts to listen.
SignIn(d, u) ==
  /\ user[d] = NoUser
  /\ ChangeCredential(d, u)
  /\ listening' = [listening EXCEPT ![d] = TRUE]
  /\ visited' = [visited EXCEPT ![d] = @ \cup {u}]
  /\ UNCHANGED <<server, queue, cache, profiles, shown, form, uploads,
                 urlCalls, storageVars>>

\* The menu with the Log Out button lies under the form's sheet.
SignOut(d) ==
  /\ user[d] # NoUser
  /\ form[d] = NoForm
  /\ ChangeCredential(d, NoUser)
  /\ UNCHANGED <<server, queue, cache, appVars, storageVars, visited>>

\* The process dies and is started again: queue, cache and credential are on
\* disk, views and callbacks are not.
Restart(d) ==
  /\ listening' = [listening EXCEPT ![d] = user[d] # NoUser]
  /\ profiles' = [profiles EXCEPT ![d] = [p \in Path |-> NoDoc]]
  /\ shown' = [shown EXCEPT ![d] = PlaceholderProfile]
  /\ form' = [form EXCEPT ![d] = NoForm]
  /\ uploads' = [uploads EXCEPT ![d] = {}]
  /\ urlCalls' = [urlCalls EXCEPT ![d] = {}]
  /\ delivered' = [delivered EXCEPT ![d] = 0]
  /\ observed' = [observed EXCEPT ![d] = 0]
  /\ UNCHANGED <<server, user, queue, cache, storageVars, visited>>

-----------------------------------------------------------------------------
(* Reading *)

\* Mistake: getDocuments instead of addSnapshotListener.
SnapshotOnce(d) ==
  /\ listening[d]
  /\ \A p \in Path : profiles[d][p] = NoDoc
  /\ \E p \in Path : LocalView(d, p) \in Doc
  /\ profiles' = [profiles EXCEPT ![d] = [p \in Path |-> LocalView(d, p)]]
  /\ UNCHANGED <<firestoreVars, listening, shown, form, uploads, urlCalls,
                 storageVars, visited>>

\* ProfilesViewModel.fetchData's listener: documents that decode as a Profile.
Snapshot(d) ==
  LET decoded == [p \in Path |->
                    IF LocalView(d, p) \in Doc THEN LocalView(d, p) ELSE NoDoc]
  IN /\ listening[d]
     /\ profiles[d] # decoded
     /\ profiles' = [profiles EXCEPT ![d] = decoded]
     /\ UNCHANGED <<firestoreVars, listening, shown, form, uploads, urlCalls,
                    storageVars, visited>>

\* Mistake: without a match, any profile of the list is taken.
getAnyProfile(d) ==
  LET found == {p \in Path : profiles[d][p] \in Doc}
      email == IF user[d] \in found THEN user[d] ELSE CHOOSE p \in found : TRUE
  IN IF found = {} THEN shown[d]
     ELSE [email |-> email, doc |-> profiles[d][email]]

\* The profile of the signed-in user, or else the one picked last time.
getUserProfile(d) ==
  IF profiles[d][user[d]] \in Doc
    THEN [email |-> user[d], doc |-> profiles[d][user[d]]]
    ELSE shown[d]

OpenMyProfile(d) ==
  /\ user[d] # NoUser
  /\ form[d] = NoForm
  /\ shown' = [shown EXCEPT ![d] = getUserProfile(d)]
  /\ form' = [form EXCEPT ![d] = getUserProfile(d)]
  /\ UNCHANGED <<firestoreVars, listening, profiles, uploads, urlCalls,
                 storageVars, visited>>

-----------------------------------------------------------------------------
(* Writing *)

\* The draft after the user's typing and selecting: the text fields and the
\* chosen projects are editable, the email and the picture URL are not.
Edited(draft, text, projects) ==
  [draft EXCEPT !.doc.text = text, !.doc.projects = projects]

Cancel(d) ==
  /\ form[d] # NoForm
  /\ form' = [form EXCEPT ![d] = NoForm]
  /\ UNCHANGED <<firestoreVars, listening, profiles, shown, uploads, urlCalls,
                 storageVars, visited>>

updateProfile(d, profile) ==
  WriteLocally(d, <<SetDoc(profile.email, profile.doc)>>)

\* Done without a new picture.
Done(d, text, projects) ==
  /\ form[d] # NoForm
  /\ updateProfile(d, Edited(form[d], text, projects))
  /\ form' = [form EXCEPT ![d] = NoForm]
  /\ UNCHANGED <<server, user, delivered, observed, cache, listening,
                 profiles, shown, uploads, urlCalls, storageVars, visited>>

\* Mistake: the URL is asked for together with the first save.
DoneAskingAtOnce(d, text, projects, image) ==
  /\ form[d] # NoForm
  /\ image # NoPicture
  /\ owner[image] = NoOwner
  /\ owner' = [owner EXCEPT ![image] = form[d].email]
  /\ uploads' = [uploads EXCEPT ![d] = @ \cup
       {[profile |-> Edited(form[d], text, projects), image |-> image,
         stored |-> FALSE]}]
  /\ urlCalls' = [urlCalls EXCEPT ![d] =
       @ \cup {[email |-> form[d].email, image |-> image, reply |-> NoUrl]}]
  /\ updateProfile(d, Edited(form[d], text, projects))
  /\ form' = [form EXCEPT ![d] = NoForm]
  /\ UNCHANGED <<server, user, delivered, observed, cache, listening,
                 profiles, shown, object, visited>>

\* Done with a new picture: isLoadImage is still false, so the save does not
\* ask for the URL.
DoneWithPicture(d, text, projects, image) ==
  /\ form[d] # NoForm
  /\ image # NoPicture
  /\ owner[image] = NoOwner
  /\ owner' = [owner EXCEPT ![image] = form[d].email]
  /\ uploads' = [uploads EXCEPT ![d] = @ \cup
       {[profile |-> Edited(form[d], text, projects), image |-> image,
         stored |-> FALSE]}]
  /\ updateProfile(d, Edited(form[d], text, projects))
  /\ form' = [form EXCEPT ![d] = NoForm]
  /\ UNCHANGED <<server, user, delivered, observed, cache, listening,
                 profiles, shown, urlCalls, object, visited>>

-----------------------------------------------------------------------------
(* Callbacks of Firebase Storage *)

\* The service stores the image under the profile's email.
StoreImage(d, up) ==
  /\ up \in uploads[d]
  /\ ~up.stored
  /\ object' = [object EXCEPT ![up.profile.email] = up.image]
  /\ uploads' = [uploads EXCEPT ![d] =
       (@ \ {up}) \cup {[up EXCEPT !.stored = TRUE]}]
  /\ UNCHANGED <<firestoreVars, listening, profiles, shown, form, urlCalls,
                 owner, visited>>

\* Mistake: isLoadImage is set after the save.
UploadSucceededWithoutUrl(d, up) ==
  /\ up \in uploads[d]
  /\ up.stored
  /\ uploads' = [uploads EXCEPT ![d] = @ \ {up}]
  /\ updateProfile(d, up.profile)
  /\ UNCHANGED <<server, user, delivered, observed, cache, listening,
                 profiles, shown, form, urlCalls, storageVars, visited>>

\* Mistake: the callback goes on after an error.
UploadSucceededOrNot(d, up) ==
  /\ up \in uploads[d]
  /\ uploads' = [uploads EXCEPT ![d] = @ \ {up}]
  /\ updateProfile(d, up.profile)
  /\ urlCalls' = [urlCalls EXCEPT ![d] =
       @ \cup {[email |-> up.profile.email, image |-> up.image,
             reply |-> NoUrl]}]
  /\ UNCHANGED <<server, user, delivered, observed, cache, listening,
                 profiles, shown, form, storageVars, visited>>

\* putData's callback without an error: the draft of that Done is saved once
\* more, under the credential of this moment, and the URL is asked for.
UploadSucceeded(d, up) ==
  /\ up \in uploads[d]
  /\ up.stored
  /\ uploads' = [uploads EXCEPT ![d] = @ \ {up}]
  /\ updateProfile(d, up.profile)
  /\ urlCalls' = [urlCalls EXCEPT ![d] =
       @ \cup {[email |-> up.profile.email, image |-> up.image,
             reply |-> NoUrl]}]
  /\ UNCHANGED <<server, user, delivered, observed, cache, listening,
                 profiles, shown, form, storageVars, visited>>

\* putData's callback with an error, whether or not the image was stored.
UploadFailed(d, up) ==
  /\ up \in uploads[d]
  /\ uploads' = [uploads EXCEPT ![d] = @ \ {up}]
  /\ UNCHANGED <<firestoreVars, listening, profiles, shown, form, urlCalls,
                 storageVars, visited>>

\* The service answers with the URL of the image stored at this moment.  With
\* no image there, the answer is an error, on which the call is repeated: the
\* call just stays open.
AnswerUrl(d, call) ==
  /\ call \in urlCalls[d]
  /\ call.reply = NoUrl
  /\ object[call.email] # NoPicture
  /\ urlCalls' = [urlCalls EXCEPT ![d] =
       (@ \ {call}) \cup {[call EXCEPT !.reply = object[call.email]]}]
  /\ UNCHANGED <<firestoreVars, listening, profiles, shown, form, uploads,
                 storageVars, visited>>

\* Mistake: the URL goes to the profile of whoever is signed in by then.
UrlReceivedForUser(d, call) ==
  /\ call \in urlCalls[d]
  /\ call.reply # NoUrl
  /\ user[d] # NoUser
  /\ WriteLocally(d, <<UpdatePicture(user[d], call.reply)>>)
  /\ urlCalls' = [urlCalls EXCEPT ![d] = @ \ {call}]
  /\ UNCHANGED <<server, user, delivered, observed, cache, listening,
                 profiles, shown, form, uploads, storageVars, visited>>

\* downloadURL's callback: the URL alone is written.
UrlReceived(d, call) ==
  /\ call \in urlCalls[d]
  /\ call.reply # NoUrl
  /\ WriteLocally(d, <<UpdatePicture(call.email, call.reply)>>)
  /\ urlCalls' = [urlCalls EXCEPT ![d] = @ \ {call}]
  /\ UNCHANGED <<server, user, delivered, observed, cache, listening,
                 profiles, shown, form, uploads, storageVars, visited>>

-----------------------------------------------------------------------------
(* AddProjectView.setParticipants, as far as profile documents see it: one   *)
(* arrayUnion for every selected profile that the form's own listener shows. *)
(* ProjectCreation models the rest of that form.                             *)

\* Mistake: the selected emails are not looked up among the profiles.
setAnyParticipants(d, participants, project) ==
  /\ user[d] # NoUser
  /\ form[d] = NoForm
  /\ WriteLocally(d, [i \in 1..Len(participants) |->
                        UnionProject(participants[i], project)])
  /\ UNCHANGED <<server, user, delivered, observed, cache, appVars, storageVars,
                 visited>>

setParticipants(d, participants, project) ==
  /\ user[d] # NoUser
  /\ form[d] = NoForm
  /\ \A i \in 1..Len(participants) : LocalView(d, participants[i]) \in Doc
  /\ WriteLocally(d, [i \in 1..Len(participants) |->
                        UnionProject(participants[i], project)])
  /\ UNCHANGED <<server, user, delivered, observed, cache, appVars, storageVars,
                 visited>>

\* The selection list toggles its entries, so nobody is selected twice.
Selection ==
  UNION {{s \in [1..n -> Path] : \A i, j \in 1..n : s[i] = s[j] => i = j} :
           n \in 1..MaxParticipants}

Network(Step) == Step /\ UNCHANGED <<appVars, storageVars, visited>>

\* What users do.
UserStep(d) ==
  \/ \E u \in User : SignIn(d, u)
  \/ SignOut(d)
  \/ OpenMyProfile(d)
  \/ Cancel(d)
  \/ \E text \in Text, projects \in SUBSET Project :
       \/ Done(d, text, projects)
       \/ \E image \in Picture : DoneWithPicture(d, text, projects, image)
  \/ \E participants \in Selection, project \in Project :
       setParticipants(d, participants, project)

\* What goes wrong around them.
Mishap(d) ==
  \/ Restart(d)
  \/ \E up \in uploads[d] : UploadFailed(d, up)
  \/ Network(BreakStream(d))

\* What the client libraries and the services do by themselves.
SystemStep(d) ==
  \/ Snapshot(d)
  \/ \E up \in uploads[d] : StoreImage(d, up) \/ UploadSucceeded(d, up)
  \/ \E call \in urlCalls[d] : AnswerUrl(d, call) \/ UrlReceived(d, call)
  \/ Network(Deliver(d) \/ Ack(d) \/ Reject(d) \/ (listening[d] /\ Watch(d)))

Next == \E d \in Device : UserStep(d) \/ Mishap(d) \/ SystemStep(d)

Spec == Init /\ [][Next]_vars

-----------------------------------------------------------------------------
(* Properties *)

\* Every variable has its type.
TypeOK ==
  /\ FirestoreTypeOK
  /\ listening \in [Device -> BOOLEAN]
  /\ profiles \in [Device -> [Path -> MaybeDoc]]
  /\ shown \in [Device -> Profile]
  /\ form \in [Device -> Profile \cup {NoForm}]
  /\ uploads \in [Device -> SUBSET Upload]
  /\ urlCalls \in [Device -> SUBSET UrlCall]
  /\ object \in [Path -> Picture]
  /\ owner \in [Picture -> Path \cup {NoOwner}]
  /\ visited \in [Device -> SUBSET User]

Editable(d) == visited[d] \cup {Placeholder}

\* Whatever a device will ever save, in a form, in a callback that is still to
\* run or in any of its queues, belongs to an account that signed in on that
\* device or to the placeholder: the fallback of getUserProfile, callbacks that
\* outlive a sign-out and queues that outlive a restart reach no other profile.
SavesStayOnDevice ==
  \A d \in Device :
    /\ user[d] # NoUser => user[d] \in visited[d]
    /\ shown[d].email \in Editable(d)
    /\ form[d] # NoForm => form[d].email \in Editable(d)
    /\ \A up \in uploads[d] : up.profile.email \in Editable(d)
    /\ \A call \in urlCalls[d] : call.email \in Editable(d)
    /\ \A u \in Credential : \A i \in 1..Len(queue[d][u]) :
         queue[d][u][i].op # "join" => queue[d][u][i].path \in Editable(d)

\* How a step may change the server's profiles.
OwnSaveOrJoin ==
  \A e \in Path :
    \/ server'[e] = server[e]
    \/ \E d \in Device : e \in Editable(d) /\ Deliver(d)
    \/ /\ server[e] # NoDoc
       /\ \E ps \in SUBSET Project :
            server'[e] = [server[e] EXCEPT !.projects = @ \cup ps]

\* What the server holds for an email changes only by a save from a device on
\* which that account has been, except that anybody's new project may extend
\* the projects of a profile that exists.
OthersOnlyJoin == [][OwnSaveOrJoin]_vars

\* No arrayUnion is ever refused: when its turn comes, the participant's profile
\* is on the server or an earlier save in the same queue creates it, whatever
\* was cached, acknowledged, sent again or left behind by a sign-out.  The app
\* prints "updated!" without waiting for the result.
JoinsFindTheirProfile ==
  \A d \in Device, u \in Credential : \A i \in 1..Len(queue[d][u]) :
    LET m == queue[d][u][i]
    IN m.op = "join" =>
         \/ server[m.path] # NoDoc
         \/ \E j \in 1..(i - 1) :
              queue[d][u][j].op = "set" /\ queue[d][u][j].path = m.path

\* The URL of a profile picture is only asked for once its image is stored, so
\* the callback that repeats the call on every error never does so for ever.
UrlCallsCanBeAnswered ==
  \A d \in Device : \A call \in urlCalls[d] : object[call.email] # NoPicture

\* No profile on the server, in a form, shown or captured by a callback has a
\* picture that was picked for another profile, nor is such an image stored or
\* asked for under its name.
PicturesKeepTheirOwner ==
  LET Owned(e, url) == url \in {NoPicture, NoUrl} \/ owner[url] = e
  IN /\ \A e \in Path :
          /\ server[e] # NoDoc => Owned(e, server[e].picture)
          /\ Owned(e, object[e])
     /\ \A d \in Device :
          /\ Owned(shown[d].email, shown[d].doc.picture)
          /\ form[d] # NoForm => Owned(form[d].email, form[d].doc.picture)
          /\ \A up \in uploads[d] :
               Owned(up.profile.email, up.image)
               /\ Owned(up.profile.email, up.profile.doc.picture)
          /\ \A call \in urlCalls[d] : Owned(call.email, call.reply)

\* Every copy of profile e, on the server, in a cache, a snapshot, a draft, an
\* upload's callback or a queue, names project p.
Settled(e, p) ==
  LET Names(profile) == profile.email = e => p \in profile.doc.projects
      Has(doc) == doc # NoDoc => p \in doc.projects
  IN /\ server[e] # NoDoc /\ Has(server[e])
     /\ \A d \in Device :
          /\ Has(cache[d][e]) /\ Has(profiles[d][e])
          /\ Names(shown[d])
          /\ form[d] # NoForm => Names(form[d])
          /\ \A up \in uploads[d] : Names(up.profile)
          /\ \A u \in Credential : \A i \in 1..Len(queue[d][u]) :
               LET m == queue[d][u][i]
               IN m.op = "set" /\ m.path = e => p \in m.value.projects

\* A participant is lost only through a copy of the profile that was made
\* before: once no such copy is left, only the user's own deselection removes
\* the project again.  (Of the placeholder each restart makes a blank copy.)
SettledStaysSettled ==
  [][\A e \in Path \ {Placeholder}, p \in Project : Settled(e, p) =>
       \/ Settled(e, p)'
       \/ \E d \in Device :
            /\ form[d] # NoForm /\ form[d].email = e
            /\ \E text \in Text, projects \in SUBSET (Project \ {p}) :
                 \/ Done(d, text, projects)
                 \/ \E image \in Picture :
                      DoneWithPicture(d, text, projects, image)]_vars

\* The form that the menu entry "My Profile" opens edits the profile of the
\* user who is signed in.
MyProfileIsMine ==
  \A d \in Device : form[d] # NoForm => form[d].email = user[d]
=============================================================================
