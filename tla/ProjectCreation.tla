---------------------------- MODULE ProjectCreation ----------------------------
(***************************************************************************)
(* A new project from the "Add Project" form to the server.  The form      *)
(* checks the name against the projects its own listener has shown so far; *)
(* Done extends the profiles of the participants, starts the upload of the *)
(* picture, saves the project and asks, again and again, for the picture's *)
(* URL, all without waiting for anything.  The writes go through the queue *)
(* of the database client's worker, which is in memory, before they are on *)
(* disk; SwiftUI may rebuild the form's view models under the user's hands; *)
(* users sign out, uploads fail, the app is killed.                        *)
(*                                                                         *)
(* In terms of Firestore's documents, a project's name is its "text".      *)
(***************************************************************************)
EXTENDS Firestore

CONSTANTS
  Id,              \* document ids of projects, each a fresh UUID
  Trimmed,         \* a name without the white space around it
  NoForm,          \* AddProjectView is not on screen
  NotMade,         \* an id that no project has so far
  NoOwner,         \* an image that nobody has picked so far
  NoUrl,           \* a download-URL request that has no answer yet
  UrlError,        \* one that was answered with an error
  MaxParticipants  \* bound on the participants chosen for one project

Email == Path \ Id

\* "names" and "people" are what the form's view models show, "offered" is who
\* has been in the list of participants since the form was opened.
Form == [listening : BOOLEAN, names : SUBSET Project, people : SUBSET Email,
         offered : SUBSET Email]
Made == [name : Project, joined : SUBSET Email]

ASSUME ProjectAssumption ==
  /\ Id \subseteq Path
  /\ User \subseteq Email
  /\ Project \subseteq Text \ {NoText}
  /\ Trimmed \in [Project -> Project]
  /\ NoForm \notin Form /\ NotMade \notin Made
  /\ NoOwner \notin Project
  /\ {NoUrl, UrlError} \cap Picture = {} /\ NoUrl # UrlError
  /\ MaxParticipants \in Nat

VARIABLES
  form,      \* form[d]: the state of AddProjectView, or NoForm
  handed,    \* handed[d]: mutations in the memory of the client's worker queue
  uploads,   \* uploads[d]: putData calls under way
  urlCalls,  \* urlCalls[d]: downloadURL calls whose callback has not run
  object,    \* object[n]: the image stored at projectImages/n.jpg
  owner,     \* history: owner[i], the project name that image i was picked for
  made,      \* history: made[id], the project that Done saved under id
  cut        \* history: ids whose save a kill removed from memory

viewVars == <<form, uploads, urlCalls>>
historyVars == <<owner, made, cut>>
vars == <<firestoreVars, viewVars, handed, object, historyVars>>

Upload == [name : Project, image : Picture]
UrlCall == [id : Id, name : Project, reply : Picture \cup {NoUrl, UrlError}]

NewForm == [listening |-> TRUE, names |-> {}, people |-> {}, offered |-> {}]
ProjectDoc(name) == [BlankDoc EXCEPT !.text = name]

Init ==
  /\ server = [p \in Path |-> IF p \in User THEN BlankDoc ELSE NoDoc]
  /\ user = [d \in Device |-> NoUser]
  /\ queue = [d \in Device |-> [u \in Credential |-> <<>>]]
  /\ delivered = [d \in Device |-> 0]
  /\ observed = [d \in Device |-> 0]
  /\ cache = [d \in Device |-> [p \in Path |-> NoDoc]]
  /\ form = [d \in Device |-> NoForm]
  /\ handed = [d \in Device |-> <<>>]
  /\ uploads = [d \in Device |-> {}]
  /\ urlCalls = [d \in Device |-> {}]
  /\ object = [n \in Project |-> NoPicture]
  /\ owner = [i \in Picture |-> NoOwner]
  /\ made = [id \in Id |-> NotMade]
  /\ cut = {}

-----------------------------------------------------------------------------
(* Session.  The credential changes on the client's worker queue, behind the *)
(* writes that were handed to it before.                                     *)

SignIn(d, u) ==
  /\ user[d] = NoUser
  /\ handed[d] = <<>>
  /\ ChangeCredential(d, u)
  /\ UNCHANGED <<server, queue, cache, viewVars, handed, object, historyVars>>

SignOut(d) ==
  /\ user[d] # NoUser
  /\ form[d] = NoForm
  /\ handed[d] = <<>>
  /\ ChangeCredential(d, NoUser)
  /\ UNCHANGED <<server, queue, cache, viewVars, handed, object, historyVars>>

\* The process dies and is started again: what is in memory is lost, the writes
\* that the worker had not put on disk included.
Restart(d) ==
  /\ form' = [form EXCEPT ![d] = NoForm]
  /\ uploads' = [uploads EXCEPT ![d] = {}]
  /\ urlCalls' = [urlCalls EXCEPT ![d] = {}]
  /\ cut' = cut \cup {handed[d][i].path : i \in {j \in 1..Len(handed[d]) :
                                                  handed[d][j].op = "set"}}
  /\ handed' = [handed EXCEPT ![d] = <<>>]
  /\ delivered' = [delivered EXCEPT ![d] = 0]
  /\ observed' = [observed EXCEPT ![d] = 0]
  /\ UNCHANGED <<server, user, queue, cache, object, owner, made>>

-----------------------------------------------------------------------------
(* The form *)

OpenForm(d) ==
  /\ user[d] # NoUser
  /\ form[d] = NoForm
  /\ form' = [form EXCEPT ![d] = NewForm]
  /\ UNCHANGED <<firestoreVars, uploads, urlCalls, handed, object, historyVars>>

Cancel(d) ==
  /\ form[d] # NoForm
  /\ form' = [form EXCEPT ![d] = NoForm]
  /\ UNCHANGED <<firestoreVars, uploads, urlCalls, handed, object, historyVars>>

\* The listeners of the form's two view models report separately.
ShowProjects(d) ==
  LET existing == {id \in Id : LocalView(d, id) # NoDoc}
      names == {LocalView(d, id).text : id \in existing}
  IN /\ form[d] # NoForm
     /\ form[d].listening
     /\ form[d].names # names
     /\ form' = [form EXCEPT ![d].names = names]
     /\ UNCHANGED <<firestoreVars, uploads, urlCalls, handed, object,
                    historyVars>>

ShowProfiles(d) ==
  LET people == {e \in Email : LocalView(d, e) # NoDoc}
  IN /\ form[d] # NoForm
     /\ form[d].listening
     /\ form[d].people # people
     /\ form' = [form EXCEPT ![d].people = people]
     /\ UNCHANGED <<firestoreVars, uploads, urlCalls, handed, object,
                    historyVars>>

\* The button beside "Participants" fills the selection list.
ListParticipants(d) ==
  /\ form[d] # NoForm
  /\ ~(form[d].people \subseteq form[d].offered)
  /\ form' = [form EXCEPT ![d].offered = @ \cup form[d].people]
  /\ UNCHANGED <<firestoreVars, uploads, urlCalls, handed, object, historyVars>>

\* HomeView is drawn again and makes a new AddProjectView: its @State lives on,
\* its view models are new, and onAppear does not start their listeners.
Rebuild(d) ==
  /\ form[d] # NoForm
  /\ form[d].listening
  /\ form' = [form EXCEPT ![d].listening = FALSE, ![d].names = {},
                          ![d].people = {}]
  /\ UNCHANGED <<firestoreVars, uploads, urlCalls, handed, object, historyVars>>

checkNameToBeIdentical(d, name) == Trimmed[name] \notin form[d].names

\* One arrayUnion for every selected email that the profiles still show.
setParticipants(d, participants, name) ==
  LET addOneProject(writes, e) ==
        IF e \in form[d].people THEN Append(writes, UnionProject(e, name)) ELSE writes
  IN FoldLeft(addOneProject, <<>>, participants)

\* Mistake: the project itself is not saved.
DoneJoiningOnly(d, id, name, participants, image) ==
  /\ form[d] # NoForm
  /\ checkNameToBeIdentical(d, name)
  /\ image # NoPicture /\ owner[image] = NoOwner
  /\ made[id] = NotMade
  /\ handed' = [handed EXCEPT ![d] = @ \o setParticipants(d, participants, name)]
  /\ owner' = [owner EXCEPT ![image] = name]
  /\ form' = [form EXCEPT ![d] = NoForm]
  /\ UNCHANGED <<firestoreVars, uploads, urlCalls, object, made, cut>>

\* Done: the button is enabled when the fields are filled, an interest and an
\* image are chosen and the name is not known to be in use.
Done(d, id, name, participants, image) ==
  /\ form[d] # NoForm
  /\ checkNameToBeIdentical(d, name)
  /\ image # NoPicture /\ owner[image] = NoOwner
  /\ made[id] = NotMade
  /\ handed' = [handed EXCEPT ![d] =
       @ \o setParticipants(d, participants, name)
         \o <<SetDoc(id, ProjectDoc(name))>>]
  /\ uploads' = [uploads EXCEPT ![d] = @ \cup {[name |-> name, image |-> image]}]
  /\ urlCalls' = [urlCalls EXCEPT ![d] =
       @ \cup {[id |-> id, name |-> name, reply |-> NoUrl]}]
  /\ owner' = [owner EXCEPT ![image] = name]
  /\ made' = [made EXCEPT ![id] =
       [name |-> name,
        joined |-> {participants[i] : i \in 1..Len(participants)}
                     \cap form[d].people]]
  /\ form' = [form EXCEPT ![d] = NoForm]
  /\ UNCHANGED <<firestoreVars, object, cut>>

-----------------------------------------------------------------------------
(* Behind the form *)

\* The worker takes the next write from memory and puts it on disk.
Persist(d) ==
  /\ handed[d] # <<>>
  /\ WriteLocally(d, <<Head(handed[d])>>)
  /\ handed' = [handed EXCEPT ![d] = Tail(@)]
  /\ UNCHANGED <<server, user, delivered, observed, cache, viewVars, object,
                 historyVars>>

\* Mistake: the upload uses the trimmed name, the URL call does not.
StoreImageTrimmed(d, up) ==
  /\ up \in uploads[d]
  /\ object' = [object EXCEPT ![Trimmed[up.name]] = up.image]
  /\ uploads' = [uploads EXCEPT ![d] = @ \ {up}]
  /\ UNCHANGED <<firestoreVars, form, urlCalls, handed, historyVars>>

\* The service stores the image under the project's name; the callback prints.
StoreImage(d, up) ==
  /\ up \in uploads[d]
  /\ object' = [object EXCEPT ![up.name] = up.image]
  /\ uploads' = [uploads EXCEPT ![d] = @ \ {up}]
  /\ UNCHANGED <<firestoreVars, form, urlCalls, handed, historyVars>>

\* The callback gets an error and returns.
UploadFailed(d, up) ==
  /\ up \in uploads[d]
  /\ uploads' = [uploads EXCEPT ![d] = @ \ {up}]
  /\ UNCHANGED <<firestoreVars, form, urlCalls, handed, object, historyVars>>

\* The service answers with the URL of what is stored under the name, if
\* anything is.
AnswerUrl(d, call) ==
  /\ call \in urlCalls[d]
  /\ call.reply = NoUrl
  /\ urlCalls' = [urlCalls EXCEPT ![d] = (@ \ {call}) \cup {[call EXCEPT !.reply =
       IF object[call.name] = NoPicture THEN UrlError ELSE object[call.name]]}]
  /\ UNCHANGED <<firestoreVars, form, uploads, handed, object, historyVars>>

\* Mistake: an error ends the search for the URL.
GiveUpUrl(d, call) ==
  /\ call \in urlCalls[d]
  /\ call.reply = UrlError
  /\ urlCalls' = [urlCalls EXCEPT ![d] = @ \ {call}]
  /\ UNCHANGED <<firestoreVars, form, uploads, handed, object, historyVars>>

\* The callback gets an error and makes the call again.
RetryUrl(d, call) ==
  /\ call \in urlCalls[d]
  /\ call.reply = UrlError
  /\ urlCalls' = [urlCalls EXCEPT ![d] =
       (@ \ {call}) \cup {[call EXCEPT !.reply = NoUrl]}]
  /\ UNCHANGED <<firestoreVars, form, uploads, handed, object, historyVars>>

\* The callback gets the URL and writes it alone.
UrlReceived(d, call) ==
  /\ call \in urlCalls[d]
  /\ call.reply \in Picture
  /\ handed' = [handed EXCEPT ![d] = Append(@, UpdatePicture(call.id, call.reply))]
  /\ urlCalls' = [urlCalls EXCEPT ![d] = @ \ {call}]
  /\ UNCHANGED <<firestoreVars, form, uploads, object, historyVars>>

Network(Step) == Step /\ UNCHANGED <<viewVars, handed, object, historyVars>>

\* The selection list toggles its entries, so nobody is selected twice.
Selection(offered) ==
  {<<>>} \cup
  UNION {{s \in [1..n -> offered] : \A i, j \in 1..n : s[i] = s[j] => i = j} :
           n \in 1..MaxParticipants}

\* A UUID is only a fresh id, so which one it is does not matter.
FreshId == CHOOSE id \in Id : made[id] = NotMade

\* What users do.
UserStep(d) ==
  \/ \E u \in User : SignIn(d, u)
  \/ SignOut(d)
  \/ OpenForm(d)
  \/ Cancel(d)
  \/ ListParticipants(d)
  \/ /\ form[d] # NoForm /\ \E id \in Id : made[id] = NotMade
     /\ \E name \in Project, participants \in Selection(form[d].offered),
           image \in Picture : Done(d, FreshId, name, participants, image)

\* What goes wrong around them, and what does so for good.
Setback(d) == Rebuild(d) \/ Network(BreakStream(d))
Loss(d) == Restart(d) \/ \E up \in uploads[d] : UploadFailed(d, up)

\* What the client libraries and the services do by themselves.
SystemStep(d) ==
  \/ ShowProjects(d)
  \/ ShowProfiles(d)
  \/ Persist(d)
  \/ \E up \in uploads[d] : StoreImage(d, up)
  \/ \E call \in urlCalls[d] :
       AnswerUrl(d, call) \/ RetryUrl(d, call) \/ UrlReceived(d, call)
  \/ Network(Deliver(d) \/ Ack(d) \/ Reject(d) \/ Watch(d))

Next == \E d \in Device : UserStep(d) \/ Setback(d) \/ Loss(d) \/ SystemStep(d)

Spec == Init /\ [][Next]_vars

-----------------------------------------------------------------------------
(* Properties *)

\* Every variable has its type.
TypeOK ==
  /\ FirestoreTypeOK
  /\ form \in [Device -> Form \cup {NoForm}]
  /\ handed \in [Device -> Seq(Mutation)]
  /\ uploads \in [Device -> SUBSET Upload]
  /\ urlCalls \in [Device -> SUBSET UrlCall]
  /\ object \in [Project -> Picture]
  /\ owner \in [Picture -> Project \cup {NoOwner}]
  /\ made \in [Id -> Made \cup {NotMade}]
  /\ cut \in SUBSET Id

\* The mutation is in a worker's memory or in some user's queue on some device.
Waiting(m) == \E d \in Device :
  \/ \E i \in 1..Len(handed[d]) : handed[d][i] = m
  \/ \E u \in Credential : \E i \in 1..Len(queue[d][u]) : queue[d][u][i] = m

\* A project on whose Done the app was not killed is never lost, in whole or
\* in part: the project and each of its participants' profiles has what Done
\* wrote on the server or in a queue that will still be sent, across broken
\* streams, acknowledgements, sign-outs and restarts.
DoneIsDurable ==
  \A id \in Id : made[id] # NotMade /\ id \notin cut =>
    LET name == made[id].name IN
    /\ server[id] # NoDoc \/ Waiting(SetDoc(id, ProjectDoc(name)))
    /\ \A e \in made[id].joined :
         \/ server[e] # NoDoc /\ name \in server[e].projects
         \/ Waiting(UnionProject(e, name))

\* A profile on the server names only projects that exist or are on their way,
\* unless the app was killed between the two writes of the project's Done.
ProfilesNameProjects ==
  \A e \in Email : server[e] # NoDoc =>
    \A n \in server[e].projects :
      \E id \in Id :
        /\ made[id] # NotMade /\ made[id].name = n
        /\ \/ server[id] # NoDoc
           \/ id \in cut
           \/ Waiting(SetDoc(id, ProjectDoc(n)))

\* A project shows no picture that was picked for a project of another name.
PicturesMatchNames ==
  \A id \in Id : server[id] # NoDoc /\ server[id].picture # NoPicture =>
    owner[server[id].picture] = server[id].text

\* Done never saves a project under a name that a project in the form's own
\* list has: otherwise the form says "This name is already in use".
SavedNamesAreNew ==
  [][\A d \in Device, id \in Id :
       made[id] = NotMade /\ made'[id] # NotMade /\ form[d] # form'[d] =>
         made'[id].name \notin form[d].names]_vars
=============================================================================
